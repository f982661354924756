------------------------------ MODULE MCTrace ------------------------------
(***************************************************************************)
(* Programs and processes for TLC to run under Trace.                      *)
(***************************************************************************)
EXTENDS Trace, TLC

I(addr, type, category, target) ==
  [addr |-> addr, length |-> 1, type |-> type, category |-> category,
   iret |-> FALSE, target |-> target]

Branch(addr, target) == I(addr, "COND_BRANCH", "COND_BR", target)
Call(addr, target)   == I(addr, "UNCOND_DIRECT_BRANCH", "CALL", target)
Jump(addr, target)   == I(addr, "UNCOND_DIRECT_BRANCH", "UNCOND_BR", target)
JumpTo(addr)         == I(addr, "INDIRECT_BRANCH", "UNCOND_BR", 0)
CallTo(addr)         == I(addr, "INDIRECT_BRANCH", "CALL", 0)
Return_(addr)        == I(addr, "INDIRECT_BRANCH", "RET", 0)
Step(addr)           == I(addr, "NONE", "OTHER", 0)
EnterKernel(addr)    == I(addr, "FAR_TRANSFER", "SYSCALL", 0)
Sysret(addr)         == I(addr, "FAR_TRANSFER", "SYSRET", 0)
Iret(addr)           == [I(addr, "FAR_TRANSFER", "RET", 0) EXCEPT !.iret = TRUE]

Table(is) == [k \in 0 .. Len(is) - 1 |-> is[k + 1]]

\* User code that loops over a branch, a call of a function with a branch, an
\* indirect jump and a system call.
UserCode ==
  << Branch(10, 12), Call(11, 15), JumpTo(12), EnterKernel(13), Jump(14, 10),
     Branch(15, 16), Return_(16) >>

\* A system call that branches and returns by SYSRET; an interrupt handler
\* that calls a function that calls through a pointer and returns by IRET.
KernelCode ==
  << Branch(30, 31), Sysret(31), Call(40, 42), Iret(41), CallTo(42), Return_(43),
     Step(44), Return_(45) >>

TaskThreads  == 1 :> [pc |-> 10, frames |-> << Frame(NoAddr, FALSE) >>]
TaskInsts    == Table(UserCode \o KernelCode)
TaskTargets  == (12 :> {10, 13}) @@ (42 :> {44, 45})
TaskFillers  == {<< >>, << Plain("MODE_EXEC") >>}

NoFillers == {<< >>}

UserThread(root, addr) == root :> [pc |-> addr, frames |-> << Frame(NoAddr, FALSE) >>]

\* Interrupts that interrupt each other, as deep as there are contexts.
NestInsts ==
  Table(<< Branch(10, 10), Jump(11, 10),
           Call(40, 42), Iret(41), Branch(42, 43), Return_(43) >>)

\* A handler that stops the trace in a function it calls, and starts it again
\* one call deeper: what perf does in its own interrupt.
PauseInsts ==
  Table(<< Branch(10, 10), Jump(11, 10),
           Call(40, 42), Iret(41), Step(42), Call(43, 45), Return_(44), Step(45), Return_(46) >>)

\* Two processes on the traced processor.  System calls and interrupts may
\* switch, in the one function of the kernel that does; the other process was
\* switched out there, in an interrupt.
WideInsts ==
  Table(<< Call(10, 12), Jump(11, 10), EnterKernel(12), Return_(13),
           Branch(30, 32), Call(31, 50), Sysret(32),
           Call(40, 50), Iret(41), Step(50), Return_(51) >>)
WideThreads ==
  UserThread(1, 10) @@
  (2 :> [pc |-> 51, frames |-> << Frame(NoAddr, FALSE),
                                  [Frame(20, TRUE) EXCEPT !.calls = << 41 >>] >>])

\* A system call that returns by IRET, as it does after a signal.
IretInsts ==
  Table(<< Call(10, 12), Jump(11, 10), EnterKernel(12), Return_(13),
           Branch(30, 32), Sysret(31), Iret(32), Call(40, 42), Iret(41), Return_(42) >>)
=============================================================================
