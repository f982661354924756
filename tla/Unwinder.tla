------------------------------ MODULE Unwinder ------------------------------
(***************************************************************************)
(* Stack samples (EN_PTRACE_UNWIND): perfing_main stops the process at a   *)
(* record of trace and unwinds its stack into the slot of unwind_queue at  *)
(* the head (src/x_unwind.c), and the decoder prints the slot at the tail  *)
(* once the time of a packet has reached that of the sample, or drops it   *)
(* at an overflow (src/intel_pt.c).  Both sides search the instructions.   *)
(*                                                                         *)
(* A stack is the sequence of its return addresses, innermost first, as    *)
(* the unwinding rules read them from memory; behind them comes 0.         *)
(***************************************************************************)
EXTENDS FindInst, Sequences, SequencesExt

CONSTANTS
  UNWIND_QUEUE_LEN,
  Stacks,      \* the stacks the process is stopped with
  Lookups,     \* addresses the decoder looks up
  MaxNow       \* bound: time of the last sample

ASSUME UnwinderAssumption ==
  /\ UNWIND_QUEUE_LEN \in Nat \ {0, 1} /\ MaxNow \in Nat
  /\ Stacks \subseteq Seq(Nat) /\ Lookups \subseteq Nat

VARIABLES
  unwind_cache,         \* of x_unwind.c
  unwind_queue,         \* [insts, attach_tsc, stack]; stack is what was unwound (history)
  unwind_queue_head, unwind_queue_tail,
  now,                  \* the time of the last sample
  tsc_approx_ref, last_tsc_pge,   \* the decoder's
  broken                \* history: an unwinding failed half way or ended without a frame,
                        \* or a drop reset the ring

ringVars     == <<unwind_queue, unwind_queue_head, unwind_queue_tail>>
decoderVars  == <<tsc_approx_ref, last_tsc_pge>>
unwinderVars == <<find, unwind_cache, ringVars, now, decoderVars, broken>>

Slots   == 0 .. UNWIND_QUEUE_LEN - 1
Empty   == [insts |-> << >>, attach_tsc |-> 0, stack |-> << >>]
After(k) == (k + 1) % UNWIND_QUEUE_LEN
HeadSlot == unwind_queue[unwind_queue_head]
Occupied(k) == unwind_queue[k].insts # << >>

-----------------------------------------------------------------------------
(* unwind.                                                                 *)

\* One round of the loop, for the address rip.  done: it went as far as the rules
\* go; failed: the address is 0 or in no instruction.
Frame(u, rip) ==
  LET hit  == Holds(u.cache, rip)
      f    == Find(rip, u.find)
      inst == IF hit THEN u.cache[Slot(rip)] ELSE f.inst
      kept == IF hit THEN u ELSE [u EXCEPT !.find = f.find, !.cache[Slot(rip)] = f.inst]
      row  == IF inst = NoInst THEN NoInst ELSE dwarf_unwind(inst)
  IN  IF u.end # "no" THEN u
      ELSE IF rip = NoAddr THEN [u EXCEPT !.end = "failed"]
      ELSE IF inst = NoInst THEN [kept EXCEPT !.end = "failed"]
      ELSE IF row = NoInst THEN [kept EXCEPT !.end = "done"]
      ELSE [kept EXCEPT !.insts = Append(u.insts, inst),
                        !.end = IF Rows[row].undefined THEN "done" ELSE "no"]

\* The rounds for the addresses of a stack and the 0 behind it.
unwind(stack) ==
  LET u[n \in 0 .. Len(stack) + 1] ==
        IF n = 0 THEN [insts |-> HeadSlot.insts, end |-> "no", find |-> find, cache |-> unwind_cache]
        ELSE Frame(u[n - 1], Append(stack, NoAddr)[n])
  IN  u[Len(stack) + 1]

CanSample_NoSlot == tsc_approx_ref >= 0

\* A sample is taken only while the slot at the head is free.
CanSample == ~Occupied(unwind_queue_head)

\* The frames are put into the slot as they are found; a failure leaves them
\* there, without a time, and the head where it is.
Sample ==
  /\ now < MaxNow /\ now' = now + 1
  /\ CanSample
  /\ \E stack \in Stacks : \E u \in {unwind(stack)} :
       /\ find' = u.find /\ unwind_cache' = u.cache
       /\ unwind_queue' = [unwind_queue EXCEPT ![unwind_queue_head] =
            [insts |-> u.insts, attach_tsc |-> IF u.end = "done" THEN now' ELSE HeadSlot.attach_tsc,
             stack |-> IF u.insts = << >> THEN << >> ELSE stack]]
       /\ unwind_queue_head' = IF u.end = "done" THEN After(unwind_queue_head) ELSE unwind_queue_head
       /\ broken' = (broken \/ ((u.end = "failed") # (u.insts = << >>)))
  /\ UNCHANGED <<unwind_queue_tail, decoderVars>>

-----------------------------------------------------------------------------
(* The decoder's side.  r is the ring as the handler of a packet has left  *)
(* it so far.                                                              *)

Ring == [queue |-> unwind_queue, head |-> unwind_queue_head, tail |-> unwind_queue_tail, reset |-> FALSE]

SetRing(r) ==
  /\ unwind_queue' = r.queue /\ unwind_queue_head' = r.head /\ unwind_queue_tail' = r.tail
  /\ broken' = (broken \/ r.reset)

\* record_intel_pt_pkt, at the time t: at most one slot, the one at the tail.
print_unwind(r, t) ==
  IF r.queue[r.tail].insts # << >> /\ t >= r.queue[r.tail].attach_tsc
    THEN [r EXCEPT !.queue[r.tail] = Empty, !.tail = After(r.tail)] ELSE r

\* One round of the loop of drop_unwinds, at the time t.
DropOne_TailStays(r, t) ==
  IF last_tsc_pge <= r.queue[r.tail].attach_tsc /\ r.queue[r.tail].attach_tsc <= t /\ ~r.reset
    THEN [r EXCEPT !.queue[r.tail] = Empty] ELSE r

\* A tail beyond the head is taken for an empty ring: both start again at 0.
DropOne(r, t) ==
  IF last_tsc_pge <= r.queue[r.tail].attach_tsc /\ r.queue[r.tail].attach_tsc <= t /\ ~r.reset
    THEN LET d == [r EXCEPT !.queue[r.tail] = Empty, !.tail = After(r.tail)]
         IN  IF d.tail > d.head THEN [d EXCEPT !.tail = 0, !.head = 0, !.reset = TRUE] ELSE d
    ELSE r

\* A round that does not drop ends the loop: what follows are rounds without effect.
\* After a turn of the ring it meets a slot it has cleared.
drop_unwinds(r, t) ==
  LET d[n \in 0 .. UNWIND_QUEUE_LEN] == IF n = 0 THEN r ELSE DropOne(d[n - 1], t)
  IN  IF last_tsc_pge = 0 \/ t = 0 THEN r ELSE d[UNWIND_QUEUE_LEN]

\* A packet moves the time, and may be the TIP.PGE that keeps it.
Packet ==
  /\ tsc_approx_ref' \in 0 .. now
  /\ last_tsc_pge' \in {last_tsc_pge, tsc_approx_ref'}
  /\ SetRing(print_unwind(Ring, tsc_approx_ref'))
  /\ UNCHANGED <<find, unwind_cache, now>>

Overflow ==
  /\ tsc_approx_ref' \in 0 .. now
  /\ SetRing(drop_unwinds(print_unwind(Ring, tsc_approx_ref'), tsc_approx_ref'))
  /\ UNCHANGED <<find, unwind_cache, now, last_tsc_pge>>

\* While it follows the branches of a packet the decoder looks addresses up.
LookUp ==
  /\ \E addr \in Lookups : find' = Find(addr, find).find
  /\ UNCHANGED <<unwind_cache, ringVars, now, decoderVars, broken>>

UnwinderInit ==
  /\ FindInit /\ unwind_cache = NoCache
  /\ unwind_queue = [k \in Slots |-> Empty] /\ unwind_queue_head = 0 /\ unwind_queue_tail = 0
  /\ now = 0 /\ tsc_approx_ref = 0 /\ last_tsc_pge = 0 /\ broken = FALSE

UnwinderNext == Sample \/ Packet \/ Overflow \/ LookUp

UnwinderSpec == UnwinderInit /\ [][UnwinderNext]_unwinderVars
-----------------------------------------------------------------------------
(* Properties.                                                             *)

\* For every history of searches, of both sides, the search with its memory finds
\* the instruction that covers the address, and none where there is none.
SearchFinds ==
  \A addr \in Lookups \cup UNION {ToSet(stack) : stack \in Stacks} :
    Find(addr, find).inst = xed_unwind_find_inst(addr)

\* The rows that count hold up to the next one.
RowsAt(i) == {k \in 0 .. NoRows - 2 :
                LET end == Insts[i].addr + Insts[i].length - 1
                IN  Rows[k].addr <= end /\ end < Rows[k + 1].addr}

\* The frames of a stack: the instructions returned to, as far as each is in the
\* table, has a row, and the one before it has a rule for its caller.
Frames == [stack \in Stacks \cup {<< >>} |->
  LET inst(k)   == xed_unwind_find_inst(stack[k])
      ruled(k)  == inst(k) # NoInst /\ RowsAt(inst(k)) # {}
      caller(k) == \A r \in RowsAt(inst(k)) : ~Rows[r].undefined
      whole     == {n \in 0 .. Len(stack) :
                      (\A k \in 1 .. n : ruled(k)) /\ (\A k \in 1 .. n - 1 : caller(k))}
  IN  [k \in 1 .. Cardinality(whole) - 1 |-> inst(k)]]

\* A slot holds the frames of one stack, all of them and in order, and never those of
\* two, also when an unwinding failed and left its frames behind.
WholeStacks == \A k \in Slots : unwind_queue[k].insts = Frames[unwind_queue[k].stack]

\* As long as no unwinding went wrong and no drop reset the ring, the samples not
\* yet printed are the slots from the tail up to the head, in the order of
\* their times: none is skipped, printed twice or printed before its time.
FifoUntilBroken ==
  ~broken =>
    \E n \in 0 .. UNWIND_QUEUE_LEN :
      LET at(j) == (unwind_queue_tail + j) % UNWIND_QUEUE_LEN
      IN  /\ unwind_queue_head = at(n)
          /\ {k \in Slots : Occupied(k)} = {at(j) : j \in 0 .. n - 1}
          /\ \A j \in 0 .. n - 1 :
               unwind_queue[at(j)].attach_tsc > IF j = 0 THEN 0 ELSE unwind_queue[at(j - 1)].attach_tsc
=============================================================================
