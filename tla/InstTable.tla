----------------------------- MODULE InstTable -----------------------------
(***************************************************************************)
(* The table of decoded instructions that src/xed.c builds before tracing  *)
(* starts (insts, sorted by address) and the search for the instruction    *)
(* that covers an address.  It does not change while a trace is decoded.   *)
(***************************************************************************)
EXTENDS Integers

CONSTANTS
  NoInsts,          \* no_insts
  Insts,            \* insts[0 .. NoInsts - 1]
  Anon,             \* addresses inside an anonymous mapping (amaps)
  Modules,          \* addresses inside a kernel module (mods)
  Kernel,           \* addresses at or above vm_kernel_ks
  Pgds,             \* page-table roots a PIP packet can carry
  PerfedPgd         \* perfed_pgd: the root of the traced process

NoInst == -1        \* last_inst of a context whose position is unknown
NoAddr == 0         \* "no tip" in a call, async_src of a synchronous context
NoPgd  == 0

CofiTypes  == {"NONE", "COND_BRANCH", "UNCOND_DIRECT_BRANCH",
               "INDIRECT_BRANCH", "FAR_TRANSFER"}
Categories == {"CALL", "UNCOND_BR", "COND_BR", "RET", "SYSCALL", "SYSRET", "OTHER"}

\* An inst_t: type is cofi.type, target the address in cofi.u, and iret
\* whether iclass is one of the three IRETs.
InstType == [addr: Nat \ {0}, length: Nat \ {0}, type: CofiTypes,
             category: Categories, iret: BOOLEAN, target: Nat]

ASSUME InstsAssumption ==
  /\ NoInsts \in Nat \ {0}
  /\ Insts \in [0 .. NoInsts - 1 -> InstType]
  /\ \A i, j \in 0 .. NoInsts - 1 :
       i < j => Insts[i].addr + Insts[i].length <= Insts[j].addr

ASSUME PgdsAssumption == Pgds \subseteq Nat /\ PerfedPgd \in Pgds /\ NoPgd \notin Pgds

Covers(i, addr) == Insts[i].addr <= addr /\ addr <= Insts[i].addr + Insts[i].length - 1

\* xed_unwind_find_inst: the instruction that covers addr, NoInst for none.
xed_unwind_find_inst(addr) ==
  IF \E i \in 0 .. NoInsts - 1 : Covers(i, addr)
    THEN CHOOSE i \in 0 .. NoInsts - 1 : Covers(i, addr)
    ELSE NoInst

\* The address a call returns to: of the next entry of insts.  One past the
\* last instruction is the untouched, zero-filled rest of the table.
RetAddr(i) == IF i < NoInsts THEN Insts[i].addr ELSE NoAddr
=============================================================================
