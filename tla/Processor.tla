----------------------------- MODULE Processor -----------------------------
(***************************************************************************)
(* The environment of the decoder: one processor that runs the traced      *)
(* process, other processes and the kernel, and writes the Intel PT        *)
(* packets a trace of branches consists of.  None of it is code of the     *)
(* repository: it is modelled from what src/intel_pt.c and src/xed.c read  *)
(* a packet to mean.                                                       *)
(*                                                                         *)
(* The program executed is the instruction table itself, and addresses in  *)
(* Foreign are user code of processes other than the traced one, which the *)
(* table does not hold.  A thread is what runs in one address space: its   *)
(* program counter and its frames, the user code first and above it one    *)
(* per system call or interrupt, each with the return addresses of the     *)
(* calls it has not returned from.                                         *)
(***************************************************************************)
EXTENDS InstTable, Sequences, SequencesExt, FiniteSets

CONSTANTS
  InitThread,     \* the threads at the start, by page-table root
  Targets,        \* where an indirect jump or call at an address may go
  Foreign,        \* user addresses of the other processes
  SyscallEntry, IrqEntry,
  SwitchPoints,   \* kernel code that changes the address space
  PtOffPoints,    \* kernel code that stops the trace ...
  PtOnPoints,     \* ... and that starts it again
  Fillers,        \* what can come between the FUP and the TIP of an interrupt
  MaxBits,        \* branches a SHORT_TNT holds
  MaxIrqs,        \* bound: nesting of interrupts
  Losses,         \* whether the processor may overflow its internal buffer
  PsbPluses       \* whether it writes a PSB+ now and then

VARIABLES
  cur,            \* the address space that runs
  thread,         \* the threads, by page-table root
  bits,           \* outcomes of branches not in a packet yet
  traced,         \* tracing is on
  lost,           \* an overflow has begun and not ended: nothing is written
  wire            \* the packets the decoder has not taken

cpuVars == <<cur, thread, bits, traced, lost, wire>>

Pkt(type, val, tnt) == [type |-> type, val |-> val, tnt |-> tnt]
Plain(type)         == Pkt(type, 0, << >>)

Frame(ret, irq) == [ret |-> ret, irq |-> irq, calls |-> << >>]

pc     == thread[cur].pc
frames == thread[cur].frames
Top    == Last(frames)
Irqs   == Cardinality({k \in DOMAIN frames : frames[k].irq})

At(addr)  == CHOOSE i \in 0 .. NoInsts - 1 : Insts[i].addr = addr
Known     == pc \notin Foreign
Here      == Insts[At(pc)]
After(addr) == Insts[At(addr) + 1].addr

Sites     == {Insts[i].addr : i \in 0 .. NoInsts - 1}
Points    == SwitchPoints \cup PtOffPoints \cup PtOnPoints

\* Code that goes on in the table wherever it goes on.
ASSUME CodeAssumption ==
  /\ \A i \in 0 .. NoInsts - 1 :
       /\ Insts[i].type \in {"COND_BRANCH", "UNCOND_DIRECT_BRANCH"} => Insts[i].target \in Sites
       /\ Insts[i].type = "UNCOND_DIRECT_BRANCH" => Insts[i].category \in {"CALL", "UNCOND_BR"}
       /\ \/ Insts[i].type \in {"NONE", "COND_BRANCH"}
          \/ Insts[i].category \in {"CALL", "SYSCALL"}
          => i + 1 < NoInsts
       /\ Insts[i].type = "INDIRECT_BRANCH" /\ Insts[i].category \in {"CALL", "UNCOND_BR"}
          => Targets[Insts[i].addr] \subseteq Sites
       /\ Insts[i].category = "SYSCALL" => SyscallEntry \in Sites /\ ~Insts[i].iret
  /\ IrqEntry \in Sites
  /\ Points \subseteq Sites /\ \A addr \in Points : Insts[At(addr)].type = "NONE"

\* What the table does not hold of the other processes begins nowhere in it.
ASSUME ForeignAssumption ==
  /\ Foreign \subseteq Nat \ {NoAddr}
  /\ \A addr \in Foreign, i \in 0 .. NoInsts - 1 : ~Covers(i, addr)
  /\ Foreign # {} => SyscallEntry \in Sites

\* A thread that does not run was switched out where threads are switched.
ASSUME ThreadsAssumption ==
  /\ PerfedPgd \in DOMAIN InitThread /\ DOMAIN InitThread \subseteq Pgds
  /\ \A t \in DOMAIN InitThread :
       LET fs == InitThread[t].frames
       IN  /\ InitThread[t] = [pc |-> InitThread[t].pc, frames |-> fs]
           /\ InitThread[t].pc \in Sites \cup Foreign
           /\ fs \in Seq([ret: Sites \cup Foreign \cup {NoAddr}, irq: BOOLEAN, calls: Seq(Sites)])
           /\ Len(fs) > 0 /\ \A k \in 2 .. Len(fs) : fs[k].ret # NoAddr
           /\ t # PerfedPgd => \A addr \in SwitchPoints : InitThread[t].pc = After(addr)

\* What is written now, after the branches it comes behind.
Emit(ps) ==
  /\ bits' = << >>
  /\ wire' = IF ~traced \/ lost THEN << >>
             ELSE (IF bits = << >> THEN << >> ELSE << Pkt("SHORT_TNT", 0, bits) >>) \o ps

EmitBit(b) ==
  IF ~traced \/ lost THEN UNCHANGED <<bits, wire>>
  ELSE IF Len(bits) + 1 < MaxBits THEN bits' = Append(bits, b) /\ UNCHANGED wire
  ELSE bits' = << >> /\ wire' = << Pkt("SHORT_TNT", 0, Append(bits, b)) >>

Go(addr, fs) == thread' = [thread EXCEPT ![cur] = [pc |-> addr, frames |-> fs]]
WithCalls(calls) == Front(frames) \o << [Top EXCEPT !.calls = calls] >>

Runs(type, category) == Known /\ Here.type = type /\ Here.category = category

-----------------------------------------------------------------------------
(* Instructions.                                                           *)

Silent == UNCHANGED <<bits, wire>>

Plainly ==
  /\ Known /\ Here.type = "NONE" /\ pc \notin Points
  /\ Go(After(pc), frames) /\ Silent /\ UNCHANGED <<cur, traced, lost>>

Cond ==
  /\ Runs("COND_BRANCH", "COND_BR")
  /\ \E taken \in BOOLEAN :
       Go(IF taken THEN Here.target ELSE After(pc), frames) /\ EmitBit(taken)
  /\ UNCHANGED <<cur, traced, lost>>

DirectJump ==
  /\ Runs("UNCOND_DIRECT_BRANCH", "UNCOND_BR")
  /\ Go(Here.target, frames) /\ Silent /\ UNCHANGED <<cur, traced, lost>>

DirectCall ==
  /\ Runs("UNCOND_DIRECT_BRANCH", "CALL")
  /\ Go(Here.target, WithCalls(Append(Top.calls, After(pc)))) /\ Silent
  /\ UNCHANGED <<cur, traced, lost>>

IndirectJump ==
  /\ Runs("INDIRECT_BRANCH", "UNCOND_BR")
  /\ \E to \in Targets[pc] : Go(to, frames) /\ Emit(<< Pkt("TIP", to, << >>) >>)
  /\ UNCHANGED <<cur, traced, lost>>

IndirectCall ==
  /\ Runs("INDIRECT_BRANCH", "CALL")
  /\ \E to \in Targets[pc] :
       /\ Go(to, WithCalls(Append(Top.calls, After(pc))))
       /\ Emit(<< Pkt("TIP", to, << >>) >>)
  /\ UNCHANGED <<cur, traced, lost>>

Ret ==
  /\ Runs("INDIRECT_BRANCH", "RET") /\ Top.calls # << >>
  /\ Go(Last(Top.calls), WithCalls(Front(Top.calls)))
  /\ Emit(<< Pkt("TIP", Last(Top.calls), << >>) >>)
  /\ UNCHANGED <<cur, traced, lost>>

Syscall ==
  /\ Runs("FAR_TRANSFER", "SYSCALL")
  /\ Go(SyscallEntry, Append(frames, Frame(After(pc), FALSE)))
  /\ Emit(<< Pkt("TIP", SyscallEntry, << >>) >>)
  /\ UNCHANGED <<cur, traced, lost>>

\* SYSRET or IRET, whichever the code that runs ends with.
FarReturn ==
  /\ Runs("FAR_TRANSFER", "SYSRET") \/ Runs("FAR_TRANSFER", "RET")
  /\ Len(frames) > 1
  /\ Go(Top.ret, Front(frames))
  /\ Emit(<< Pkt("TIP", Top.ret, << >>) >>)
  /\ UNCHANGED <<cur, traced, lost>>

\* The user code of another process: a branch, or a system call.
ForeignBranch ==
  /\ ~Known /\ EmitBit(TRUE) /\ UNCHANGED <<cur, thread, traced, lost>>

ForeignSyscall ==
  /\ ~Known
  /\ Go(SyscallEntry, Append(frames, Frame(pc, FALSE)))
  /\ Emit(<< Pkt("TIP", SyscallEntry, << >>) >>)
  /\ UNCHANGED <<cur, traced, lost>>

-----------------------------------------------------------------------------
(* Events.  The trace stops and starts again inside an interrupt that       *)
(* nothing else interrupts.                                                *)

Irq ==
  /\ traced /\ Irqs < MaxIrqs
  /\ Go(IrqEntry, Append(frames, Frame(pc, TRUE)))
  /\ \E filler \in Fillers :
       Emit(<< Pkt("FUP", pc, << >>) >> \o filler \o << Pkt("TIP", IrqEntry, << >>) >>)
  /\ UNCHANGED <<cur, traced, lost>>

Switch ==
  /\ pc \in SwitchPoints
  /\ Go(After(pc), frames)
  /\ \E next \in DOMAIN thread : cur' = next /\ Emit(<< Pkt("PIP", next, << >>) >>)
  /\ UNCHANGED <<traced, lost>>

PtOff ==
  /\ pc \in PtOffPoints
  /\ Go(After(pc), frames) /\ Emit(<< Pkt("TIP_PGD", NoAddr, << >>) >>)
  /\ traced' = FALSE /\ UNCHANGED <<cur, lost>>

PtOn ==
  /\ pc \in PtOnPoints /\ ~lost
  /\ Go(After(pc), frames)
  /\ bits' = (IF traced THEN bits ELSE << >>) /\ traced' = TRUE
  /\ wire' = IF traced THEN wire ELSE << Pkt("TIP_PGE", After(pc), << >>) >>
  /\ UNCHANGED <<cur, lost>>

Status == << Plain("TSC"), Plain("TSC_MTC"), Pkt("PIP", cur, << >>), Plain("CBR"), Plain("MODE_EXEC") >>
PsbPlus ==
  /\ PsbPluses /\ traced /\ ~lost
  /\ Emit([k \in 1 .. 4 |-> Plain("PSB")] \o Status \o << Pkt("FUP", pc, << >>), Plain("PSBEND") >>)
  /\ UNCHANGED <<cur, thread, traced, lost>>

Lose ==
  /\ Losses /\ traced /\ ~lost
  /\ lost' = TRUE /\ bits' = << >> /\ UNCHANGED <<cur, thread, traced, wire>>

Recover ==
  /\ lost /\ lost' = FALSE
  /\ wire' = << Plain("OVF") >> \o (IF traced THEN << Pkt("FUP", pc, << >>) >> ELSE << >>)
  /\ UNCHANGED <<cur, thread, bits, traced>>

CpuInit ==
  /\ cur = PerfedPgd /\ thread = InitThread
  /\ bits = << >> /\ traced = TRUE /\ lost = FALSE
  /\ wire = << Pkt("PIP", PerfedPgd, << >>), Pkt("TIP_PGE", InitThread[PerfedPgd].pc, << >>) >>

\* The processor runs on when the decoder has taken all it wrote.  What the
\* decoder does depends on the order of the packets only, never on how far
\* behind it is, so nothing is lost by keeping the two in step.
CpuStep ==
  /\ wire = << >>
  /\ \/ Plainly \/ Cond \/ DirectJump \/ DirectCall \/ IndirectJump \/ IndirectCall \/ Ret
     \/ Syscall \/ FarReturn \/ ForeignBranch \/ ForeignSyscall
     \/ Irq \/ Switch \/ PtOff \/ PtOn \/ PsbPlus \/ Lose \/ Recover
=============================================================================
