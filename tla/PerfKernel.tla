----------------------------- MODULE PerfKernel -----------------------------
(***************************************************************************)
(* The kernel's side of the two rings that perf_event_open maps, as        *)
(* src/main.c uses them: trace bytes in the AUX ring, and in the data ring *)
(* records, among them one per stretch of trace bytes.  External code,     *)
(* modelled from what perfing_main reads from the rings and relies on.     *)
(*                                                                         *)
(* A record is a sequence of words: its type, its length, and what the     *)
(* type has: for PERF_RECORD_AUX the offset, size and flags.  Heads and    *)
(* tails only grow; a position is taken modulo the size of its ring.       *)
(***************************************************************************)
EXTENDS Integers, Sequences

CONSTANTS
  DataSize, AuxSize,   \* sizes of the rings, in words and in bytes
  AuxFlags,            \* the flags a PERF_RECORD_AUX may carry
  Stretches,           \* how many bytes may be traced at a time
  MaxBytes,            \* bound: bytes traced
  MaxOthers            \* bound: records of other types

ASSUME KernelAssumption ==
  /\ DataSize \in Nat \ {0} /\ AuxSize \in Nat \ {0}
  /\ AuxFlags \subseteq Nat /\ Stretches \subseteq Nat \ {0}
  /\ MaxBytes \in Nat /\ MaxOthers \in Nat

VARIABLES
  perf_data_buffer, perf_aux_buffer,   \* the rings
  perf_metadata,   \* the page shared with the kernel: heads and tails
  mapped,          \* the rings are mapped
  enabled,         \* the event is enabled
  written,         \* bytes traced
  reported,        \* how many of them records tell of
  gaps,            \* offsets of records that were lost or carry flags
  others           \* records of other types so far

kernelVars == <<perf_data_buffer, perf_aux_buffer, perf_metadata, mapped, enabled,
                written, reported, gaps, others>>

PERF_RECORD_MMAP2 == 10
PERF_RECORD_AUX   == 11

KernelInit ==
  /\ perf_data_buffer = [i \in 0 .. DataSize - 1 |-> 0]
  /\ perf_aux_buffer = [i \in 0 .. AuxSize - 1 |-> 0]
  /\ perf_metadata = [data_head |-> 0, data_tail |-> 0, aux_head |-> 0, aux_tail |-> 0]
  /\ mapped = TRUE /\ enabled = FALSE
  /\ written = 0 /\ reported = 0 /\ gaps = {} /\ others = 0

\* The ring after ws was put at position at.
Put(ring, size, at, ws) ==
  [i \in 0 .. size - 1 |->
     LET k == ((i - at) % size) + 1 IN IF k \in DOMAIN ws THEN ws[k] ELSE ring[i]]

Room(ws) == perf_metadata.data_head + Len(ws) - perf_metadata.data_tail <= DataSize

\* A record is visible whole, when the head moves, or it is lost.
PutRecord(ws) ==
  IF Room(ws)
    THEN /\ perf_data_buffer' = Put(perf_data_buffer, DataSize, perf_metadata.data_head, ws)
         /\ perf_metadata' = [perf_metadata EXCEPT !.data_head = @ + Len(ws)]
    ELSE UNCHANGED <<perf_data_buffer, perf_metadata>>

Active == mapped /\ enabled

\* The processor writes behind what it wrote, and never over bytes that
\* aux_tail does not release.
TraceBytes ==
  /\ Active
  /\ \E n \in Stretches :
       /\ written + n <= MaxBytes /\ written + n - perf_metadata.aux_tail <= AuxSize
       /\ perf_aux_buffer' = Put(perf_aux_buffer, AuxSize, written,
                                 [k \in 1 .. n |-> written + k - 1])
       /\ written' = written + n
  /\ UNCHANGED <<perf_data_buffer, perf_metadata, mapped, enabled, reported, gaps, others>>

\* aux_head has moved past the stretch before the next one is reported.
ReportBytes ==
  /\ Active /\ reported < written /\ perf_metadata.aux_head = reported
  /\ \E flags \in AuxFlags :
       LET ws == <<PERF_RECORD_AUX, 5, reported, written - reported, flags>>
       IN  /\ PutRecord(ws)
           /\ gaps' = IF Room(ws) /\ flags = 0 THEN gaps ELSE gaps \cup {reported}
  /\ reported' = written
  /\ UNCHANGED <<perf_aux_buffer, mapped, enabled, written, others>>

\* aux_head is stored after the record was made visible.
MoveAuxHead ==
  /\ Active /\ perf_metadata.aux_head # reported
  /\ perf_metadata' = [perf_metadata EXCEPT !.aux_head = reported]
  /\ UNCHANGED <<perf_data_buffer, perf_aux_buffer, mapped, enabled, written, reported, gaps, others>>

OtherRecord ==
  /\ Active /\ others < MaxOthers
  /\ PutRecord(<<PERF_RECORD_MMAP2, 3, 0>>)
  /\ others' = others + 1
  /\ UNCHANGED <<perf_aux_buffer, mapped, enabled, written, reported, gaps>>

KernelStep == TraceBytes \/ ReportBytes \/ MoveAuxHead \/ OtherRecord
=============================================================================
