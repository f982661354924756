------------------------------ MODULE FindInst ------------------------------
(***************************************************************************)
(* The search that InstTable gives by what it finds, as src/xed.c does it: *)
(* xed_unwind_find_inst remembers its midpoint and, in two caches indexed  *)
(* by the low part of the address, what it found before; for the           *)
(* unwinding, xed_unwind_find_dwarf gives the row of the DWARF tables that *)
(* holds at the end of an instruction.                                     *)
(***************************************************************************)
EXTENDS InstTable, StickySearch

CONSTANTS
  CACHE_LENGTH,                         \* 2^20
  vm_us, vm_kernel_ks, vm_kernel_me,    \* ends of user space, start and end of the kernel
  NoRows, Rows                          \* dwarf_unwinds: [addr, undefined], 0 .. NoRows - 1

\* No code lies above user space, below the kernel's or behind its last module:
\* the module sorts the modules it tells of.
ASSUME LayoutAssumption ==
  /\ CACHE_LENGTH \in Nat \ {0}
  /\ vm_us \in Nat /\ vm_kernel_ks \in Nat /\ vm_kernel_me \in Nat
  /\ vm_us <= vm_kernel_ks /\ vm_kernel_ks <= vm_kernel_me
  /\ \A i \in 0 .. NoInsts - 1 :
       \/ Insts[i].addr + Insts[i].length <= vm_us
       \/ vm_kernel_ks <= Insts[i].addr /\ Insts[i].addr + Insts[i].length <= vm_kernel_me

ASSUME RowsAssumption ==
  /\ NoRows \in Nat \ {0} /\ Rows \in [0 .. NoRows - 1 -> [addr : Nat \ {0}, undefined : BOOLEAN]]
  /\ \A i, j \in 0 .. NoRows - 1 : i < j => Rows[i].addr < Rows[j].addr

VARIABLE find   \* the static data of xed_unwind_find_inst: m, and the two caches

Slot(addr) == addr % CACHE_LENGTH
Cache      == [0 .. CACHE_LENGTH - 1 -> 0 .. NoInsts - 1 \cup {NoInst}]
NoCache    == [k \in 0 .. CACHE_LENGTH - 1 |-> NoInst]

Holds_AnyTag(cache, addr) == cache[Slot(addr)] # NoInst

\* A cache entry counts if it is the instruction that starts at the address.
Holds(cache, addr) == cache[Slot(addr)] # NoInst /\ Insts[cache[Slot(addr)]].addr = addr

Outside(addr) == addr = NoAddr \/ (vm_us <= addr /\ addr < vm_kernel_ks) \/ vm_kernel_me <= addr

InstSearch(addr, mid) ==
  Search(NoInsts, NoInsts, mid, {k \in 0 .. NoInsts - 1 : Covers(k, addr)},
         {k \in 0 .. NoInsts - 1 : Insts[k].addr < addr})

\* Where the search for addr ends, given f of what it remembers: the instruction
\* and what it remembers then.  An entry the midpoint finds is not cached.
Find(addr, f) ==
  LET high == addr >= vm_kernel_ks
      s    == InstSearch(addr, f.m)
  IN  IF Outside(addr) THEN [inst |-> NoInst, find |-> f]
      ELSE IF high /\ Holds(f.high, addr) THEN [inst |-> f.high[Slot(addr)], find |-> f]
      ELSE IF Holds(f.low, addr) THEN [inst |-> f.low[Slot(addr)], find |-> f]
      ELSE [inst |-> IF s.hit THEN s.m ELSE NoInst,
            find |-> IF ~s.hit \/ (f.m # 0 /\ Covers(f.m, addr)) THEN [f EXCEPT !.m = s.m]
                     ELSE IF high THEN [f EXCEPT !.m = s.m, !.high[Slot(addr)] = s.m]
                     ELSE [f EXCEPT !.m = s.m, !.low[Slot(addr)] = s.m]]

FindInit == find = [m |-> 0, low |-> NoCache, high |-> NoCache]

\* xed_unwind_link_inst_to_dwarf: the row for instruction i, NoInst for none.
\* Behind the last row is a zero, so that the last row never counts.
RowAfter(k) == IF k + 1 < NoRows THEN Rows[k + 1].addr ELSE 0

dwarf_unwind(i) ==
  LET addr == Insts[i].addr + Insts[i].length - 1
      s    == Search(NoRows, NoRows, 0,
                     {k \in 0 .. NoRows - 1 : Rows[k].addr <= addr /\ addr < RowAfter(k)},
                     {k \in 0 .. NoRows - 1 : Rows[k].addr < addr})
  IN  IF s.hit THEN s.m ELSE NoInst
=============================================================================
