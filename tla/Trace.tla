------------------------------- MODULE Trace -------------------------------
(***************************************************************************)
(* The decoder (IntelPt, Xed) fed by the processor it reconstructs the     *)
(* execution of: what src/intel_pt.c and src/xed.c make of a trace against *)
(* what really ran.                                                        *)
(***************************************************************************)
EXTENDS IntelPt, Processor

traceVars == <<vars, cpuVars>>

\* The history holds what comes between the FUP and the TIP of an interrupt.
ASSUME FillersAssumption ==
  /\ INTEL_PT_PKT_HISTORY >= 3
  /\ \A filler \in Fillers :
       /\ filler \in Seq({Pkt(type, val, << >>) : type \in AsyncSkip, val \in Pgds \cup {0}})
       /\ \A k \in DOMAIN filler : filler[k].type = "PIP" => filler[k].val \in Pgds
       /\ Len(filler) + 3 <= INTEL_PT_PKT_HISTORY

Decode ==
  \/ WalkStep /\ UNCHANGED cpuVars
  \/ /\ wire # << >>
     /\ intel_pt_decode_online(Head(wire))
     /\ wire' = Tail(wire) /\ UNCHANGED <<cur, thread, bits, traced, lost>>

Run == Idle /\ CpuStep /\ UNCHANGED vars

TraceInit == PtInit /\ CpuInit

TraceNext == Decode \/ Run

\* The decoding thread is never blocked, the processor runs on, and an overflow
\* ends.
TraceSpec ==
  /\ TraceInit /\ [][TraceNext]_traceVars
  /\ WF_traceVars(Decode) /\ WF_traceVars(Run) /\ WF_traceVars(Run /\ Recover)

-----------------------------------------------------------------------------
(* What the decoder should have found.                                     *)

\* Code that the trace has no packet for: what it goes on with is known.
Direct(addr) == Insts[At(addr)].type \in {"NONE", "UNCOND_DIRECT_BRANCH"}
Onward(addr) == IF Insts[At(addr)].type = "NONE" THEN After(addr) ELSE Insts[At(addr)].target
Calls(addr)  == Insts[At(addr)].type # "NONE" /\ Insts[At(addr)].category = "CALL"

\* The first branch from addr on that the trace has a packet for, and the
\* calls made on the way there.
Ahead[addr \in Sites \cup Foreign] ==
  IF addr \notin Foreign /\ Direct(addr) THEN Ahead[Onward(addr)] ELSE addr

CallsAhead[addr \in Sites \cup Foreign] ==
  IF addr \notin Foreign /\ Direct(addr)
    THEN (IF Calls(addr) THEN << After(addr) >> ELSE << >>) \o CallsAhead[Onward(addr)]
    ELSE << >>

\* The calls in progress since the last interrupt: the ones of one context.
CallsIn(fs) ==
  LET calls[n \in 0 .. Len(fs)] ==
        IF n = 0 THEN << >>
        ELSE (IF fs[n].irq THEN << >> ELSE calls[n - 1]) \o fs[n].calls
  IN  calls[Len(fs)]

OpenCalls == CallsIn(frames)

Located == this_ctx(xed).last_inst # NoInst

\* The decoder has all there is to know of where the processor is.
UpToDate == Idle /\ wire = << >> /\ traced /\ ~lost /\ bits = << >>

\* A trace of one process.
OneProcess == DOMAIN InitThread = {PerfedPgd} /\ Foreign = {}

\* What theorems assume of the code that runs: it returns from interrupts by IRET,
\* and by IRET from nothing else, with no call open, and starts the trace again
\* that it stopped in one.
ReturnsInOrder ==
  /\ Known /\ Here.type = "FAR_TRANSFER" /\ Here.category \in {"SYSRET", "RET"}
  /\ Len(frames) > 1
  => (Here.iret <=> Top.irq) /\ (Top.irq => traced) /\ Top.calls = << >>

\* A decoder that claims a position waits at the branch the processor
\* executes next: no sequence of branches, calls, interrupts, overflows and
\* restarts of the trace makes it follow code that did not run, and it
\* claims no position while another process runs its own code.
PositionAgrees ==
  UpToDate /\ Located =>
    Insts[this_ctx(xed).last_inst].addr = Ahead[pc]

\* The calls the decoder believes in progress are the innermost ones that
\* are: it may have forgotten outer ones, it never invents or reorders one.
CallStackTruthful ==
  UpToDate /\ Located =>
    LET stack == this_ctx(xed).call_stack
    IN  IsSuffix([k \in DOMAIN stack |-> RetAddr(stack[k])],
                 OpenCalls \o CallsAhead[pc])

\* No trace of legal code runs into one of the decoder's error messages.
NoError == Ok(xed)

\* With one process in the trace the decoder knows where it is whenever it
\* has decoded everything.
AlwaysLocated == UpToDate => Located

\* A context stands for one interrupt in progress: the decoder never has more
\* of them open than interrupts are being handled, so that MAX_NO_CTXS bounds
\* the nesting it can follow and not the length of the trace.
CtxPerInterrupt == UpToDate => xed.ctx_idx <= Irqs

\* However processes and interrupts interleave, a legal trace stops the decoder
\* in one way only: contexts left open by a switch of processes fill the table.
StopsOnlyWhenFull == xed.fatal \in {"none", "Full ctxs"}


\* "Non-empty stack" is an assertion of xed_process_branches: when an IRET is
\* followed, every call made since the context was entered has returned.
NoOpenCallAtIret == xed.fatal # "Non-empty stack"
=============================================================================
