------------------------------ MODULE PerfRing ------------------------------
(***************************************************************************)
(* The collecting thread of src/main.c (perfing_main) and the signal       *)
(* handlers, against the kernel.  The thread takes one record after the    *)
(* other from the data ring, hands the stretch of trace bytes that a       *)
(* PERF_RECORD_AUX tells of to intel_pt_decode, and looks at               *)
(* perfing_is_running after every turn.                                    *)
(*                                                                         *)
(* A step of the thread reads or writes the shared state once: its head,   *)
(* one copy, one store of a tail, one test of perfing_is_running.  The     *)
(* default build appends the bytes to a file that is decoded at the end;   *)
(* out is that file.                                                       *)
(***************************************************************************)
EXTENDS PerfKernel

CONSTANTS
  AUX_ALIGNMENT, AUX_BUFFER_SIZE,
  MaxSignals   \* bound: signals delivered

ASSUME AlignmentAssumption ==
  /\ AUX_ALIGNMENT \in Nat \ {0} /\ AUX_BUFFER_SIZE \in Nat \ {0}
  /\ MaxSignals \in Nat

VARIABLES
  perfing_is_running,    \* 1: run, 0: SIGINT, 2: a new executable mapping or lost bytes
  pc,                    \* what the thread does next
  data_tail, data_head,  \* its own copies
  perf_header,           \* the words of the header last copied
  perf_record,           \* those of the body
  aux_util,              \* how much of the AUX ring was in use, in bytes
  out,                   \* the bytes handed to intel_pt_decode
  fatal,                 \* the message it spins after
  signals                \* signals delivered

threadVars == <<perfing_is_running, pc, data_tail, data_head, perf_header, perf_record,
                aux_util, out, fatal, signals>>
ringVars   == <<kernelVars, threadVars>>
kernelOwn  == <<perf_data_buffer, perf_aux_buffer, written, reported, gaps, others>>
recordVars == <<data_tail, data_head, perf_header, perf_record, aux_util>>

perf_header_sz == 2
perf_record_sz_Whole == perf_header[2]
perf_record_sz == perf_header[2] - perf_header_sz

Ok == fatal = "none"
At(label) == Ok /\ pc = label

\* n words of the data ring from position at on.
DataWords(at, n) == [k \in 1 .. n |-> perf_data_buffer[(at + k - 1) % DataSize]]

rc_aux_offset == perf_record[1]
rc_aux_size   == perf_record[2]
rc_aux_flags  == perf_record[3]

\* What the copy into aux_buffer makes of a stretch that reaches the end of the
\* ring: blocks of AUX_ALIGNMENT bytes, the block at the end byte by byte, and
\* the remainder.
Linear_RemainderFromStart(offset, size) ==
  LET j_a == AUX_ALIGNMENT * (size \div AUX_ALIGNMENT)
  IN  [j \in 0 .. size - 1 |->
         perf_aux_buffer[((IF j < j_a THEN j ELSE j - j_a) + offset) % AuxSize]]

Linear(offset, size) ==
  LET j_a == AUX_ALIGNMENT * (size \div AUX_ALIGNMENT)
      j_c(j) == ((AUX_ALIGNMENT * (j \div AUX_ALIGNMENT)) + offset) % AuxSize
  IN  [j \in 0 .. size - 1 |->
         IF j < j_a /\ j_c(j) + AUX_ALIGNMENT < AuxSize
           THEN perf_aux_buffer[j_c(j) + (j % AUX_ALIGNMENT)]
           ELSE perf_aux_buffer[(j + offset) % AuxSize]]

Straight(offset, size) == [j \in 0 .. size - 1 |-> perf_aux_buffer[(offset % AuxSize) + j]]

Wraps(offset, size) == (offset % AuxSize) + size >= AuxSize

AuxBytes(offset, size) ==
  LET f == IF Wraps(offset, size) THEN Linear(offset, size) ELSE Straight(offset, size)
  IN  [k \in 1 .. size |-> f[k - 1]]

-----------------------------------------------------------------------------
(* perfing_main.                                                           *)

intel_pt_enable == enabled' = TRUE

\* perfing_is_running is set here whatever a signal made of it before.
Start ==
  /\ At("start")
  /\ perfing_is_running' = 1 /\ intel_pt_enable /\ pc' = "poll"
  /\ data_tail' = perf_metadata.data_tail
  /\ UNCHANGED <<kernelOwn, perf_metadata, mapped, data_head, perf_header, perf_record,
                 aux_util, out, fatal, signals>>

Poll ==
  /\ At("poll")
  /\ data_head' = perf_metadata.data_head
  /\ pc' = IF data_tail + perf_header_sz <= data_head' THEN "header" ELSE "test"
  /\ UNCHANGED <<kernelVars, perfing_is_running, data_tail, perf_header, perf_record,
                 aux_util, out, fatal, signals>>

CopyHeader_ReleasesAll ==
  /\ At("header")
  /\ perf_header' = DataWords(data_tail, perf_header_sz)
  /\ data_tail' = data_tail + perf_header_sz
  /\ pc' = IF data_tail' + perf_record_sz' <= data_head THEN "body" ELSE "test"
  /\ perf_metadata' = [perf_metadata EXCEPT !.data_tail = data_tail' + perf_record_sz']
  /\ UNCHANGED <<kernelOwn, mapped, enabled, perfing_is_running, data_head, perf_record,
                 aux_util, out, fatal, signals>>

\* The tail moves past the header before the body is known to be there.
CopyHeader ==
  /\ At("header")
  /\ perf_header' = DataWords(data_tail, perf_header_sz)
  /\ data_tail' = data_tail + perf_header_sz
  /\ pc' = IF data_tail' + perf_record_sz' <= data_head THEN "body" ELSE "test"
  /\ UNCHANGED <<kernelVars, perfing_is_running, data_head, perf_record, aux_util, out,
                 fatal, signals>>

CopyBody ==
  /\ At("body")
  /\ perf_record' = DataWords(data_tail, perf_record_sz)
  /\ data_tail' = data_tail + perf_record_sz
  /\ pc' = "release"
  /\ UNCHANGED <<kernelVars, perfing_is_running, data_head, perf_header, aux_util, out,
                 fatal, signals>>

ReleaseData ==
  /\ At("release")
  /\ perf_metadata' = [perf_metadata EXCEPT !.data_tail = data_tail]
  /\ pc' = IF perf_header[1] = PERF_RECORD_AUX THEN "aux" ELSE "test"
  /\ UNCHANGED <<kernelOwn, mapped, enabled, perfing_is_running, recordVars, out, fatal,
                 signals>>

\* The sanity checks.  The first looks at what the previous record left; a
\* tail beyond the head is a huge number, as the difference is unsigned.
CheckAux ==
  /\ At("aux")
  /\ fatal' = CASE aux_util > AuxSize \/ aux_util < 0       -> "util error"
                [] rc_aux_offset # perf_metadata.aux_tail -> "tail error"
                [] OTHER -> "none"
  /\ aux_util' = perf_metadata.aux_head - perf_metadata.aux_tail
  /\ pc' = IF rc_aux_flags = 0 THEN "decode" ELSE "flags"
  /\ UNCHANGED <<kernelVars, perfing_is_running, data_tail, data_head, perf_header,
                 perf_record, out, signals>>

Decode ==
  /\ At("decode")
  /\ IF Wraps(rc_aux_offset, rc_aux_size) /\ rc_aux_size > AUX_BUFFER_SIZE
       THEN fatal' = "aux_buffer error" /\ UNCHANGED out
       ELSE out' = out \o AuxBytes(rc_aux_offset, rc_aux_size) /\ UNCHANGED fatal
  /\ pc' = "consume"
  /\ UNCHANGED <<kernelVars, perfing_is_running, recordVars, signals>>

Consume_Head ==
  /\ At("consume")
  /\ perf_metadata' = [perf_metadata EXCEPT !.aux_tail = perf_metadata.aux_head]
  /\ pc' = "test"
  /\ UNCHANGED <<kernelOwn, mapped, enabled, perfing_is_running, recordVars, out, fatal,
                 signals>>

Consume ==
  /\ At("consume")
  /\ perf_metadata' = [perf_metadata EXCEPT !.aux_tail = rc_aux_offset + rc_aux_size]
  /\ pc' = "test"
  /\ UNCHANGED <<kernelOwn, mapped, enabled, perfing_is_running, recordVars, out, fatal,
                 signals>>

\* The bytes of a record with flags are left out and aux_tail stays: tracing
\* is to stop.
Flags ==
  /\ At("flags")
  /\ perfing_is_running' = 2 /\ pc' = "test"
  /\ UNCHANGED <<kernelVars, recordVars, out, fatal, signals>>

-----------------------------------------------------------------------------
(* The end of a turn, and the end of the thread.                           *)

Goto(label) == pc' = label /\
  UNCHANGED <<kernelVars, perfing_is_running, recordVars, out, fatal, signals>>

\* perfing_is_running is volatile: the two tests read it twice.
TestKilled   == At("test") /\ Goto(IF perfing_is_running = 0 THEN "unmap" ELSE "test disabled")

TestDisabled == At("test disabled") /\ Goto(IF perfing_is_running = 2 THEN "clear" ELSE "poll")

Clear_GoesOn ==
  /\ At("clear")
  /\ perfing_is_running' = 1 /\ pc' = "poll"
  /\ UNCHANGED <<kernelVars, recordVars, out, fatal, signals>>

Clear ==
  /\ At("clear")
  /\ perfing_is_running' = 1 /\ pc' = "unmap"
  /\ UNCHANGED <<kernelVars, recordVars, out, fatal, signals>>

Unmap ==
  /\ At("unmap")
  /\ mapped' = FALSE /\ pc' = "disable"
  /\ UNCHANGED <<kernelOwn, perf_metadata, enabled, perfing_is_running, recordVars, out,
                 fatal, signals>>

\* intel_pt_disable, which also decodes the file.
intel_pt_disable ==
  /\ At("disable")
  /\ enabled' = FALSE /\ pc' = "done"
  /\ UNCHANGED <<kernelOwn, perf_metadata, mapped, perfing_is_running, recordVars, out,
                 fatal, signals>>

ThreadStep ==
  \/ Start \/ Poll \/ CopyHeader \/ CopyBody \/ ReleaseData \/ CheckAux \/ Decode \/ Consume
  \/ Flags \/ TestKilled \/ TestDisabled \/ Clear \/ Unmap \/ intel_pt_disable

\* The handlers run between any two steps of any thread.
Signal(n) ==
  /\ pc # "done" /\ signals < MaxSignals /\ signals' = signals + 1
  /\ perfing_is_running' = n
  /\ UNCHANGED <<kernelVars, pc, recordVars, out, fatal>>

sig_action_SIGINT == Signal(0)
sig_action_SIGRT  == Signal(2)

RingInit ==
  /\ KernelInit
  /\ perfing_is_running = 0 /\ pc = "start"
  /\ data_tail = 0 /\ data_head = 0
  /\ perf_header = <<0, 0>> /\ perf_record = << >>
  /\ aux_util = 0 /\ out = << >> /\ fatal = "none" /\ signals = 0

RingNext ==
  \/ ThreadStep
  \/ KernelStep /\ UNCHANGED threadVars
  \/ sig_action_SIGINT \/ sig_action_SIGRT

\* Nothing the thread does waits for anybody.
RingSpec == RingInit /\ [][RingNext]_ringVars /\ WF_ringVars(ThreadStep)

-----------------------------------------------------------------------------
(* Properties.                                                             *)

Labels == {"start", "poll", "header", "body", "release", "aux", "decode", "consume", "flags",
           "test", "test disabled", "clear", "unmap", "disable", "done"}

\* Each variable of the thread has a value of its type, and from the time a
\* body was copied it is the body of its header, neither more nor less.
RingTypeOK ==
  /\ perfing_is_running \in 0 .. 2 /\ pc \in Labels
  /\ data_tail \in Nat /\ data_head \in Nat
  /\ perf_header \in Seq(Nat) /\ Len(perf_header) = perf_header_sz
  /\ perf_record \in Seq(Nat) /\ aux_util \in Int /\ out \in Seq(Nat)
  /\ fatal \in {"none", "util error", "tail error", "aux_buffer error"}
  /\ pc = "release" => Len(perf_record) = (IF perf_header[1] = PERF_RECORD_AUX THEN 3 ELSE 1)
  /\ pc \in {"aux", "decode", "consume", "flags"} => rc_aux_flags \in AuxFlags

\* The thread never runs ahead of the kernel, and the kernel never overwrites
\* a record the thread has not copied or bytes it has not handed on: the
\* tails it publishes follow what it has read, not what it is going to read.
TailsFollow ==
  LET m == perf_metadata
  IN  /\ m.data_tail <= data_tail /\ data_tail <= m.data_head
      /\ m.data_head - m.data_tail <= DataSize
      /\ m.aux_tail <= Len(out) /\ Len(out) <= reported
      /\ written - m.aux_tail <= AuxSize

\* A header is at the tail when the thread looks for one: no record is taken
\* for the header of another, and the test of a body that is not there yet
\* never fails.
InStep ==
  /\ pc = "poll" /\ data_tail < perf_metadata.data_head =>
       perf_data_buffer[data_tail % DataSize] \in {PERF_RECORD_AUX, PERF_RECORD_MMAP2}
  /\ pc \in {"body", "release"} => perf_header[1] \in {PERF_RECORD_AUX, PERF_RECORD_MMAP2}
  /\ pc = "header" => data_tail + perf_data_buffer[(data_tail + 1) % DataSize] <= data_head

\* The program spins with an error message only if the kernel lost a record or
\* reported a stretch with flags: by itself the thread keeps aux_tail in step.
SpinsOnlyOnGaps == fatal # "none" => fatal = "tail error" /\ gaps # {}

\* The bytes the decoder gets are those of the trace, in order.
Stream == INSTANCE ByteStream WITH sent <- written, received <- out
DeliversStream == Stream!Spec

\* A signal that asks for the end while the thread runs, or a record with flags,
\* ends the loop, however fast records come in and in whichever order signals
\* follow; they may not alternate for ever between its two tests.
StopsWhenAsked ==
  (pc # "start" /\ perfing_is_running # 1) ~> (pc = "done" \/ fatal # "none")

\* "PERF_RECORD_AUX tail error" is one of the sanity checks of perfing_main:
\* a record starts where the last one ended.
TailInStep == fatal # "tail error"
=============================================================================
