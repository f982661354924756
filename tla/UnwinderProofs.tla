--------------------------- MODULE UnwinderProofs ---------------------------
(***************************************************************************)
(* Theorems about the stack samples: the search for instructions finds     *)
(* what the table holds, slots hold whole stacks, and they are printed in  *)
(* order until something breaks it.                                        *)
(***************************************************************************)
EXTENDS Unwinder, SearchProofs, FiniteSetTheorems

-----------------------------------------------------------------------------
(* The search for instructions.                                            *)

\* What the search remembers is of its types.
FindOK(f) ==
  f \in [m : 0 .. NoInsts - 1, low : Cache, high : Cache]

\* An address is in one instruction at most.
LEMMA CoversOnce ==
  ASSUME NEW i \in 0 .. NoInsts - 1, NEW j \in 0 .. NoInsts - 1, NEW addr \in Nat,
         Covers(i, addr), Covers(j, addr)
  PROVE  i = j
<1>1. /\ i < j => Insts[i].addr + Insts[i].length <= Insts[j].addr
      /\ j < i => Insts[j].addr + Insts[j].length <= Insts[i].addr
  BY InstsAssumption
<1>2. \A k \in {i, j} : Insts[k].addr \in Nat /\ Insts[k].length \in Nat
  BY InstsAssumption DEF InstType
<1>3. ~(i < j) /\ ~(j < i)
  BY <1>1, <1>2 DEF Covers
<1>4. QED
  BY <1>3

\* What the table holds for an address an instruction covers.
LEMMA TableHolds ==
  ASSUME NEW addr \in Nat
  PROVE  /\ \A i \in 0 .. NoInsts - 1 : Covers(i, addr) => xed_unwind_find_inst(addr) = i
         /\ (\A i \in 0 .. NoInsts - 1 : ~Covers(i, addr)) => xed_unwind_find_inst(addr) = NoInst
         /\ xed_unwind_find_inst(addr) \in 0 .. NoInsts - 1 \cup {NoInst}
<1>1. CASE \A i \in 0 .. NoInsts - 1 : ~Covers(i, addr)
  BY <1>1 DEF xed_unwind_find_inst
<1>2. CASE \E i \in 0 .. NoInsts - 1 : Covers(i, addr)
  <2>1. PICK i \in 0 .. NoInsts - 1 : Covers(i, addr)
    BY <1>2
  <2>2. xed_unwind_find_inst(addr) \in {j \in 0 .. NoInsts - 1 : Covers(j, addr)}
    BY <2>1 DEF xed_unwind_find_inst
  <2>3. QED
    BY <2>2, CoversOnce
<1>3. QED
  BY <1>1, <1>2

\* The binary search among the instructions finds the one that covers an address.
LEMMA InstSearchFinds ==
  ASSUME NEW addr \in Nat, NEW mid \in 0 .. NoInsts - 1
  PROVE  LET s == InstSearch(addr, mid)
         IN  /\ s.m \in 0 .. NoInsts - 1 /\ s.hit \in BOOLEAN
             /\ s.hit => xed_unwind_find_inst(addr) = s.m
             /\ ~s.hit => xed_unwind_find_inst(addr) = NoInst
<1> DEFINE hits  == {k \in 0 .. NoInsts - 1 : Covers(k, addr)}
           below == {k \in 0 .. NoInsts - 1 : Insts[k].addr < addr}
<1>1. Guided(hits, below, 0, NoInsts - 1)
  <2> SUFFICES ASSUME NEW k \in 0 .. NoInsts - 1, k \notin hits, NEW h \in 0 .. NoInsts - 1, h \in hits
               PROVE  k \in below <=> k < h
    BY DEF Guided
  <2>1. \A j \in {k, h} : Insts[j].addr \in Nat /\ Insts[j].length \in Nat \ {0}
    BY InstsAssumption DEF InstType
  <2>2. Covers(h, addr) /\ k # h
    OBVIOUS
  <2>3. k < h => Insts[k].addr < addr
    <3>1. k < h => Insts[k].addr + Insts[k].length <= Insts[h].addr
      BY InstsAssumption
    <3>2. QED
      BY <2>1, <2>2, <3>1 DEF Covers
  <2>4. h < k => ~(Insts[k].addr < addr)
    <3>1. h < k => Insts[h].addr + Insts[h].length <= Insts[k].addr
      BY InstsAssumption
    <3>2. QED
      BY <2>1, <2>2, <3>1 DEF Covers
  <2>5. QED
    BY <2>2, <2>3, <2>4
<1>2. InstSearch(addr, mid) = Search(NoInsts, NoInsts, mid, hits, below)
  BY DEF InstSearch
<1>3. NoInsts \in Nat \ {0}
  BY InstsAssumption
<1> HIDE DEF hits, below
<1>4. LET r == InstSearch(addr, mid)
      IN  /\ r.m \in 0 .. NoInsts - 1 /\ r.hit \in BOOLEAN
          /\ r.hit => r.m \in hits
          /\ (0 .. NoInsts - 1) \cap hits # {} => r.hit
  <2>1. NoInsts \in 0 .. NoInsts /\ mid < NoInsts
    BY <1>3
  <2>2. QED
    BY <1>1, <1>2, <1>3, <2>1, SearchFindsHits
<1>5. QED
  BY <1>4, TableHolds DEF hits

\* An instruction of a cache that starts at the address is the one that covers it.
LEMMA CacheHolds ==
  ASSUME NEW addr \in Nat, NEW cache \in Cache, Holds(cache, addr)
  PROVE  xed_unwind_find_inst(addr) = cache[Slot(addr)]
<1>1. Slot(addr) \in 0 .. CACHE_LENGTH - 1
  BY LayoutAssumption DEF Slot
<1>2. cache[Slot(addr)] \in 0 .. NoInsts - 1
  BY <1>1 DEF Holds, Cache
<1>3. Insts[cache[Slot(addr)]] \in InstType
  BY <1>2, InstsAssumption
<1>4. Covers(cache[Slot(addr)], addr)
  BY <1>3 DEF Holds, Covers, InstType
<1>5. QED
  BY <1>2, <1>4, TableHolds

\* Nothing is covered outside the code.
LEMMA OutsideHolds ==
  ASSUME NEW addr \in Nat, Outside(addr)
  PROVE  xed_unwind_find_inst(addr) = NoInst
<1>1. ASSUME NEW i \in 0 .. NoInsts - 1, Covers(i, addr) PROVE FALSE
  <2>1. Insts[i].addr \in Nat /\ Insts[i].length \in Nat /\ Insts[i].addr # 0
    BY InstsAssumption DEF InstType
  <2>2. \/ Insts[i].addr + Insts[i].length <= vm_us
        \/ /\ vm_kernel_ks <= Insts[i].addr
           /\ Insts[i].addr + Insts[i].length <= vm_kernel_me
    BY LayoutAssumption
  <2>3. QED
    BY <1>1, <2>1, <2>2, LayoutAssumption DEF Covers, Outside, NoAddr
<1>2. QED
  BY <1>1, TableHolds

\* Wherever it starts and whatever it remembers, the search finds what the table holds.
LEMMA FindRight ==
  ASSUME NEW addr \in Nat, NEW f, FindOK(f)
  PROVE  Find(addr, f).inst = xed_unwind_find_inst(addr) /\ FindOK(Find(addr, f).find)
<1> DEFINE high == addr >= vm_kernel_ks
           s    == InstSearch(addr, f.m)
<1>1. CASE Outside(addr)
  BY <1>1, OutsideHolds DEF Find
<1>2. CASE ~Outside(addr) /\ high /\ Holds(f.high, addr)
  BY <1>2, CacheHolds DEF Find, FindOK
<1>3. CASE ~Outside(addr) /\ ~(high /\ Holds(f.high, addr)) /\ Holds(f.low, addr)
  BY <1>3, CacheHolds DEF Find, FindOK
<1>4. CASE ~Outside(addr) /\ ~(high /\ Holds(f.high, addr)) /\ ~Holds(f.low, addr)
  <2>1. /\ s.m \in 0 .. NoInsts - 1 /\ s.hit \in BOOLEAN
        /\ s.hit => xed_unwind_find_inst(addr) = s.m
        /\ ~s.hit => xed_unwind_find_inst(addr) = NoInst
    BY InstSearchFinds DEF FindOK
  <2>2. /\ Find(addr, f).inst = IF s.hit THEN s.m ELSE NoInst
        /\ Find(addr, f).find \in {[f EXCEPT !.m = s.m], [f EXCEPT !.m = s.m, !.high[Slot(addr)] = s.m],
                                   [f EXCEPT !.m = s.m, !.low[Slot(addr)] = s.m]}
    BY <1>4 DEF Find
  <2> HIDE DEF s
  <2>3. FindOK([f EXCEPT !.m = s.m])
    BY <2>1 DEF FindOK
  <2>4. FindOK([f EXCEPT !.m = s.m, !.high[Slot(addr)] = s.m])
    BY <2>1 DEF FindOK, Cache
  <2>5. FindOK([f EXCEPT !.m = s.m, !.low[Slot(addr)] = s.m])
    BY <2>1 DEF FindOK, Cache
  <2>6. QED
    BY <2>1, <2>2, <2>3, <2>4, <2>5
<1>5. QED
  BY <1>1, <1>2, <1>3, <1>4

\* The row the search gives for an instruction is the one that holds at its end.
LEMMA RowHolds ==
  ASSUME NEW i \in 0 .. NoInsts - 1
  PROVE  \/ dwarf_unwind(i) = NoInst /\ RowsAt(i) = {}
         \/ dwarf_unwind(i) \in 0 .. NoRows - 2 /\ RowsAt(i) = {dwarf_unwind(i)}
<1> DEFINE end   == Insts[i].addr + Insts[i].length - 1
           hits  == {k \in 0 .. NoRows - 1 : Rows[k].addr <= end /\ end < RowAfter(k)}
           below == {k \in 0 .. NoRows - 1 : Rows[k].addr < end}
           s     == Search(NoRows, NoRows, 0, hits, below)
<1>1. end \in Nat /\ NoRows \in Nat \ {0} /\ \A k \in 0 .. NoRows - 1 : Rows[k].addr \in Nat
  <2>1. Insts[i] \in InstType
    BY InstsAssumption
  <2>2. Insts[i].addr \in Nat \ {0} /\ Insts[i].length \in Nat \ {0}
    BY <2>1 DEF InstType
  <2>3. end \in Nat
    BY <2>2
  <2>4. NoRows \in Nat \ {0} /\ \A k \in 0 .. NoRows - 1 : Rows[k].addr \in Nat
    BY RowsAssumption
  <2>5. QED
    BY <2>3, <2>4
<1>2. \A j, k \in 0 .. NoRows - 1 : j < k => Rows[j].addr < Rows[k].addr
  BY RowsAssumption
<1>3. dwarf_unwind(i) = IF s.hit THEN s.m ELSE NoInst
  BY DEF dwarf_unwind
<1>4. RowsAt(i) = {k \in 0 .. NoRows - 2 : Rows[k].addr <= end /\ end < Rows[k + 1].addr}
  BY DEF RowsAt
<1> HIDE DEF end
<1>5. hits = RowsAt(i)
  BY <1>1, <1>4 DEF RowAfter
<1>6. \A j, k \in hits : j = k
  <2> SUFFICES ASSUME NEW j \in hits, NEW k \in hits, j < k PROVE FALSE
    BY <1>1
  <2>1. j + 1 = k \/ j + 1 < k
    BY <1>1
  <2>2. Rows[j + 1].addr <= Rows[k].addr
    BY <1>1, <1>2, <2>1
  <2>3. QED
    BY <1>1, <1>4, <1>5, <2>2
<1>7. Guided(hits, below, 0, NoRows - 1)
  <2> SUFFICES ASSUME NEW k \in 0 .. NoRows - 1, k \notin hits, NEW h \in hits
               PROVE  k \in below <=> k < h
    BY DEF Guided
  <2>1. h \in 0 .. NoRows - 2 /\ Rows[h].addr <= end /\ end < Rows[h + 1].addr
    BY <1>4, <1>5
  <2>2. k < h => Rows[k].addr < Rows[h].addr
    BY <1>1, <1>2
  <2>3. h < k => Rows[h + 1].addr <= Rows[k].addr
    <3>1. h < k => h + 1 = k \/ h + 1 < k
      BY <1>1
    <3>2. QED
      BY <1>1, <1>2, <2>1, <3>1
  <2>4. QED
    BY <1>1, <2>1, <2>2, <2>3
<1> HIDE DEF hits, below
<1>8. /\ s.m \in 0 .. NoRows - 1 /\ s.hit \in BOOLEAN
      /\ s.hit => s.m \in hits
      /\ (0 .. NoRows - 1) \cap hits # {} => s.hit
  <2>1. NoRows \in 0 .. NoRows /\ 0 \in 0 .. NoRows - 1 /\ 0 < NoRows
    BY <1>1
  <2>2. QED
    BY <1>1, <1>7, <2>1, SearchFindsHits
<1>9. hits \subseteq 0 .. NoRows - 2 /\ (0 .. NoRows - 1) \cap hits = hits
  BY <1>1, <1>5 DEF hits, RowsAt
<1>10. CASE s.hit
  <2>1. s.m \in hits /\ hits = {s.m}
    BY <1>6, <1>8, <1>10
  <2>2. dwarf_unwind(i) = s.m
    BY <1>3, <1>10
  <2>3. QED
    BY <1>5, <1>9, <2>1, <2>2
<1>11. CASE ~s.hit
  BY <1>3, <1>5, <1>8, <1>9, <1>11
<1>12. QED
  BY <1>10, <1>11

-----------------------------------------------------------------------------
(* Unwinding.                                                              *)

\* What the rules say of the instruction an address is in.
Ruled(addr) ==
  xed_unwind_find_inst(addr) # NoInst /\ RowsAt(xed_unwind_find_inst(addr)) # {}

\* No rule of it says that nobody called.
Called(addr) ==
  \A r \in RowsAt(xed_unwind_find_inst(addr)) : ~Rows[r].undefined

\* An unwinding under way.
UnwindOK(u) ==
  /\ u \in [insts : Seq(0 .. NoInsts - 1), end : {"no", "done", "failed"},
            find : [m : 0 .. NoInsts - 1, low : Cache, high : Cache], cache : Cache]

\* What a round does to the frames, whatever the caches hold.
LEMMA FrameRight ==
  ASSUME NEW u, UnwindOK(u), NEW rip \in Nat
  PROVE  LET v    == Frame(u, rip)
             inst == xed_unwind_find_inst(rip)
         IN  /\ UnwindOK(v)
             /\ u.end # "no" => v = u
             /\ u.end = "no" /\ ~Ruled(rip) => v.insts = u.insts /\ v.end # "no"
             /\ u.end = "no" /\ Ruled(rip) =>
                  /\ inst \in 0 .. NoInsts - 1
                  /\ v.insts = Append(u.insts, inst)
                  /\ v.end = IF Called(rip) THEN "no" ELSE "done"
<1> DEFINE hit  == Holds(u.cache, rip)
           f    == Find(rip, u.find)
           i    == IF hit THEN u.cache[Slot(rip)] ELSE f.inst
           kept == IF hit THEN u ELSE [u EXCEPT !.find = f.find, !.cache[Slot(rip)] = f.inst]
           row  == IF i = NoInst THEN NoInst ELSE dwarf_unwind(i)
           v    == Frame(u, rip)
           inst == xed_unwind_find_inst(rip)
<1>1. FindOK(f.find) /\ f.inst = inst
  BY FindRight DEF UnwindOK, FindOK
<1>2. i = inst
  BY <1>1, CacheHolds DEF UnwindOK
<1>3. inst \in 0 .. NoInsts - 1 \cup {NoInst}
  BY TableHolds
<1>4. UnwindOK(kept) /\ kept.insts = u.insts /\ kept.end = u.end
  <2>1. CASE hit
    BY <2>1
  <2>2. CASE ~hit
    BY <1>1, <1>3, <2>2 DEF UnwindOK, FindOK, Cache
  <2>3. QED
    BY <2>1, <2>2
<1>5. v = IF u.end # "no" THEN u
          ELSE IF rip = NoAddr THEN [u EXCEPT !.end = "failed"]
          ELSE IF i = NoInst THEN [kept EXCEPT !.end = "failed"]
          ELSE IF row = NoInst THEN [kept EXCEPT !.end = "done"]
          ELSE [kept EXCEPT !.insts = Append(u.insts, i),
                            !.end = IF Rows[row].undefined THEN "done" ELSE "no"]
  BY DEF Frame
<1>6. row = IF inst = NoInst THEN NoInst ELSE dwarf_unwind(inst)
  BY <1>2
<1> HIDE DEF hit, f, i, kept, row, v
<1>7. inst # NoInst =>
        \/ row = NoInst /\ RowsAt(inst) = {}
        \/ row \in 0 .. NoRows - 2 /\ row # NoInst /\ RowsAt(inst) = {row}
  BY <1>3, <1>6, RowHolds DEF NoInst
<1>8. rip = NoAddr => inst = NoInst
  BY InstsAssumption, TableHolds DEF Covers, NoAddr, InstType
<1> HIDE DEF inst
<1>9. CASE u.end # "no"
  BY <1>5, <1>9 DEF v, inst
<1>10. CASE u.end = "no" /\ inst = NoInst
  <2>1. v \in {[u EXCEPT !.end = "failed"], [kept EXCEPT !.end = "failed"]}
    BY <1>2, <1>5, <1>10
  <2>2. UnwindOK(v) /\ v.insts = u.insts /\ v.end = "failed"
    BY <1>4, <2>1 DEF UnwindOK
  <2>3. ~Ruled(rip)
    BY <1>10 DEF Ruled, inst
  <2>4. QED
    BY <1>10, <2>2, <2>3 DEF v
<1>11. CASE u.end = "no" /\ inst # NoInst /\ row = NoInst
  <2>1. v = [kept EXCEPT !.end = "done"]
    BY <1>2, <1>5, <1>8, <1>11
  <2>2. UnwindOK(v) /\ v.insts = u.insts /\ v.end = "done"
    BY <1>4, <2>1 DEF UnwindOK
  <2>3. ~Ruled(rip)
    BY <1>7, <1>11 DEF Ruled, inst
  <2>4. QED
    BY <1>11, <2>2, <2>3 DEF v
<1>12. CASE u.end = "no" /\ inst # NoInst /\ row # NoInst
  <2>1. v = [kept EXCEPT !.insts = Append(u.insts, inst),
                         !.end = IF Rows[row].undefined THEN "done" ELSE "no"]
    BY <1>2, <1>5, <1>8, <1>12
  <2>2. inst \in 0 .. NoInsts - 1 /\ Append(u.insts, inst) \in Seq(0 .. NoInsts - 1)
    BY <1>3, <1>12 DEF UnwindOK
  <2>3. UnwindOK(v) /\ v.insts = Append(u.insts, inst)
        /\ v.end = IF Rows[row].undefined THEN "done" ELSE "no"
    BY <1>4, <2>1, <2>2 DEF UnwindOK
  <2>4. Ruled(rip) /\ (Called(rip) <=> ~Rows[row].undefined)
    BY <1>7, <1>12 DEF Ruled, Called, inst
  <2>5. QED
    BY <1>12, <2>2, <2>3, <2>4 DEF v, inst
<1>13. QED
  BY <1>9, <1>10, <1>11, <1>12

\* The addresses of a stack and the 0 behind it, each with its round.
Unwinds(f, stack, init, last) ==
  f = [n \in 0 .. last |-> IF n = 0 THEN init ELSE Frame(f[n - 1], Append(stack, NoAddr)[n])]

\* There are such rounds, up to any of them.
LEMMA UnwindExists ==
  ASSUME NEW stack, NEW init, NEW last \in Nat
  PROVE  \E f : Unwinds(f, stack, init, last)
<1> DEFINE Missing == {i \in Nat : ~\E f : Unwinds(f, stack, init, i)}
<1>1. SUFFICES ASSUME Missing # {} PROVE FALSE
  OBVIOUS
<1>2. PICK i \in Missing : \A j \in Missing : i <= j
  BY <1>1, HasLeast
<1>3. i # 0
  <2>1. Unwinds([n \in 0 .. 0 |-> init], stack, init, 0)
    BY DEF Unwinds
  <2>2. QED
    BY <1>2, <2>1
<1>4. PICK f : Unwinds(f, stack, init, i - 1)
  BY <1>2, <1>3
<1> DEFINE x == Frame(f[i - 1], Append(stack, NoAddr)[i])
           g == [n \in 0 .. i |-> IF n = i THEN x ELSE f[n]]
<1>5. f = [n \in 0 .. i - 1 |-> IF n = 0 THEN init ELSE Frame(f[n - 1], Append(stack, NoAddr)[n])]
  BY <1>4 DEF Unwinds
<1>6. \A n \in 0 .. i - 1 : g[n] = f[n]
  BY <1>2
<1>7. \A n \in 0 .. i : g[n] = IF n = 0 THEN init ELSE Frame(g[n - 1], Append(stack, NoAddr)[n])
  <2> SUFFICES ASSUME NEW n \in 0 .. i
               PROVE  g[n] = IF n = 0 THEN init ELSE Frame(g[n - 1], Append(stack, NoAddr)[n])
    OBVIOUS
  <2>1. CASE n = i
    <3>1. g[n] = x /\ g[n - 1] = f[i - 1] /\ n # 0
      BY <1>3, <1>6, <2>1
    <3>2. QED
      BY <2>1, <3>1
  <2>2. CASE n # i
    <3>1. n \in 0 .. i - 1 /\ (n # 0 => n - 1 \in 0 .. i - 1)
      BY <1>2, <2>2
    <3>2. g[n] = f[n] /\ (n # 0 => g[n - 1] = f[n - 1])
      BY <1>6, <3>1
    <3>3. f[n] = IF n = 0 THEN init ELSE Frame(f[n - 1], Append(stack, NoAddr)[n])
      BY <1>5, <3>1
    <3> HIDE DEF g
    <3>4. QED
      BY <3>2, <3>3
  <2>3. QED
    BY <2>1, <2>2
<1>8. Unwinds(g, stack, init, i)
  <2>1. g = [n \in 0 .. i |-> g[n]]
    OBVIOUS
  <2> HIDE DEF g
  <2>2. QED
    BY <1>7, <2>1 DEF Unwinds
<1>9. QED
  BY <1>2, <1>8

\* How far the frames of a stack go: each of the first c has a row, and each of
\* them but the last one has a rule for its caller.
Reaches(stack, c) ==
  /\ \A k \in 1 .. c : Ruled(stack[k])
  /\ \A k \in 1 .. c - 1 : Called(stack[k])

\* The instructions of the innermost c frames.
FramesTo(stack, c) == [k \in 1 .. c |-> xed_unwind_find_inst(stack[k])]

\* A function on 1 .. n is a sequence of length n.
LEMMA ListIsSeq ==
  ASSUME NEW S, NEW n \in Nat, NEW f \in [1 .. n -> S]
  PROVE  f \in Seq(S) /\ Len(f) = n
<1>1. f \in Seq(S)
  OBVIOUS
<1>2. Len(f) \in Nat /\ 1 .. Len(f) = 1 .. n
  BY <1>1
<1>3. Len(f) = n
  <2>1. \A a, b \in Nat : 1 .. a = 1 .. b => a = b
    OBVIOUS
  <2>2. QED
    BY <1>2, <2>1
<1>4. QED
  BY <1>1, <1>3

\* The state of an unwinding after n rounds.
UnwoundTo(u, stack, n) ==
  /\ UnwindOK(u)
  /\ \E c \in 0 .. Len(stack) :
       /\ u.insts = FramesTo(stack, c) /\ Reaches(stack, c)
       /\ u.end = "no" => c = n /\ (c > 0 => Called(stack[c]))
       /\ u.end # "no" => c = Len(stack) \/ ~Reaches(stack, c + 1)

\* A round goes one frame further, or ends the unwinding.
LEMMA RoundUnwinds ==
  ASSUME NEW stack \in Seq(Nat), NEW u, NEW n \in 0 .. Len(stack), UnwoundTo(u, stack, n)
  PROVE  UnwoundTo(Frame(u, Append(stack, NoAddr)[n + 1]), stack, n + 1)
<1> DEFINE rip  == Append(stack, NoAddr)[n + 1]
           v    == Frame(u, rip)
           inst == xed_unwind_find_inst(rip)
<1>0. Len(stack) \in Nat
  OBVIOUS
<1>1. PICK c \in 0 .. Len(stack) :
        /\ u.insts = FramesTo(stack, c) /\ Reaches(stack, c)
        /\ u.end = "no" => c = n /\ (c > 0 => Called(stack[c]))
        /\ u.end # "no" => c = Len(stack) \/ ~Reaches(stack, c + 1)
  BY DEF UnwoundTo
<1>2. rip \in Nat /\ (n < Len(stack) => rip = stack[n + 1]) /\ (n = Len(stack) => rip = NoAddr)
  BY DEF NoAddr
<1>3. UnwindOK(u)
  BY DEF UnwoundTo
<1> HIDE DEF rip
<1>4. /\ UnwindOK(v)
      /\ u.end # "no" => v = u
      /\ u.end = "no" /\ ~Ruled(rip) => v.insts = u.insts /\ v.end # "no"
      /\ u.end = "no" /\ Ruled(rip) =>
           /\ inst \in 0 .. NoInsts - 1
           /\ v.insts = Append(u.insts, inst)
           /\ v.end = IF Called(rip) THEN "no" ELSE "done"
  BY <1>2, <1>3, FrameRight
<1> HIDE DEF v
<1>5. CASE u.end # "no"
  BY <1>1, <1>4, <1>5 DEF UnwoundTo, v, rip
<1>6. CASE u.end = "no" /\ ~Ruled(rip)
  <2>1. c = Len(stack) \/ ~Reaches(stack, c + 1)
    BY <1>1, <1>2, <1>6 DEF Reaches
  <2>2. UnwoundTo(v, stack, n + 1)
    BY <1>1, <1>4, <1>6, <2>1 DEF UnwoundTo
  <2>3. QED
    BY <2>2 DEF v, rip
<1>7. CASE u.end = "no" /\ Ruled(rip)
  <2>1. rip # NoAddr
    BY <1>7, InstsAssumption, TableHolds DEF Ruled, Covers, NoAddr, InstType
  <2>2. c = n /\ n < Len(stack) /\ rip = stack[c + 1]
    BY <1>1, <1>2, <1>7, <2>1
  <2>3. v.insts = FramesTo(stack, c + 1)
    <3>1. v.insts = Append(FramesTo(stack, c), xed_unwind_find_inst(stack[c + 1]))
      BY <1>1, <1>4, <1>7, <2>2
    <3>2. FramesTo(stack, c) \in Seq(0 .. NoInsts - 1) /\ Len(FramesTo(stack, c)) = c
      <4>1. \A k \in 1 .. c : stack[k] \in Nat /\ Ruled(stack[k])
        BY <1>1 DEF Reaches
      <4>2. \A k \in 1 .. c : xed_unwind_find_inst(stack[k]) \in 0 .. NoInsts - 1
        BY <4>1, TableHolds DEF Ruled
      <4>3. FramesTo(stack, c) \in [1 .. c -> 0 .. NoInsts - 1]
        BY <4>2 DEF FramesTo
      <4>4. c \in Nat
        BY <1>0
      <4> HIDE DEF FramesTo
      <4>5. QED
        BY <4>3, <4>4, ListIsSeq
    <3>3. QED
      BY <3>1, <3>2 DEF FramesTo
  <2>4. Reaches(stack, c + 1)
    BY <1>1, <1>7, <2>2 DEF Reaches
  <2>5. v.end # "no" => c + 1 = Len(stack) \/ ~Reaches(stack, c + 2)
    BY <1>4, <1>7, <2>2 DEF Reaches
  <2>6. v.end = "no" => Called(stack[c + 1])
    BY <1>4, <1>7, <2>2
  <2>7. UnwoundTo(v, stack, n + 1)
    <3>1. c + 1 \in 0 .. Len(stack) /\ c + 1 = n + 1 /\ c + 2 = c + 1 + 1
      BY <2>2
    <3>2. QED
      BY <1>4, <2>3, <2>4, <2>5, <2>6, <3>1 DEF UnwoundTo
  <2>8. QED
    BY <2>7 DEF v, rip
<1>8. QED
  BY <1>5, <1>6, <1>7

\* The rounds that reach as far as a stack goes, and no further, give its frames.
LEMMA FramesAre ==
  ASSUME NEW stack \in Stacks \cup {<< >>}, NEW c \in 0 .. Len(stack), Reaches(stack, c),
         c = Len(stack) \/ ~Reaches(stack, c + 1)
  PROVE  Frames[stack] = FramesTo(stack, c)
<1> DEFINE whole == {n \in 0 .. Len(stack) : Reaches(stack, n)}
<1>0. Len(stack) \in Nat
  BY UnwinderAssumption
<1>1. whole = 0 .. c
  <2>1. ASSUME NEW n \in 0 .. c PROVE n \in whole
    BY <1>0 DEF Reaches
  <2>2. ASSUME NEW n \in whole, n > c PROVE FALSE
    <3>1. Reaches(stack, n) /\ n \in 0 .. Len(stack)
      OBVIOUS
    <3>2. Reaches(stack, c + 1)
      BY <1>0, <2>2, <3>1 DEF Reaches
    <3>3. QED
      BY <1>0, <2>2, <3>1, <3>2
  <2>3. QED
    BY <1>0, <2>1, <2>2
<1>2. Cardinality(0 .. c) - 1 = c
  BY FS_Interval
<1>3. Frames[stack] = [k \in 1 .. Cardinality(whole) - 1 |-> xed_unwind_find_inst(stack[k])]
  BY DEF Frames, Reaches, Ruled, Called
<1> HIDE DEF whole
<1>4. QED
  BY <1>1, <1>2, <1>3 DEF FramesTo

\* An unwinding started with an empty slot gives the frames of its stack.
LEMMA UnwindRight ==
  ASSUME NEW stack \in Stacks, HeadSlot.insts = << >>, FindOK(find), unwind_cache \in Cache
  PROVE  LET u == unwind(stack)
         IN  /\ FindOK(u.find) /\ u.cache \in Cache
             /\ u.end \in {"done", "failed"}
             /\ u.insts \in Seq(0 .. NoInsts - 1) /\ u.insts = Frames[stack]
<1> DEFINE init == [insts |-> HeadSlot.insts, end |-> "no", find |-> find, cache |-> unwind_cache]
           last == Len(stack) + 1
<1>1. stack \in Seq(Nat) /\ last \in Nat /\ last > 0
  BY UnwinderAssumption
<1>2. unwind(stack) =
        (CHOOSE f : f = [n \in 0 .. last |-> IF n = 0 THEN init ELSE Frame(f[n - 1], Append(stack, NoAddr)[n])])[last]
  BY DEF unwind
<1> HIDE DEF last
<1>3. PICK f : Unwinds(f, stack, init, last) /\ unwind(stack) = f[last]
  <2>1. \E f : Unwinds(f, stack, init, last)
    BY <1>1, UnwindExists
  <2>2. QED
    BY <1>2, <2>1 DEF Unwinds
<1>4. UnwoundTo(init, stack, 0)
  <2>1. UnwindOK(init)
    BY DEF UnwindOK, FindOK
  <2>2. init.insts = FramesTo(stack, 0) /\ Reaches(stack, 0) /\ init.end = "no"
    BY DEF FramesTo, Reaches
  <2>3. QED
    BY <1>1, <2>1, <2>2 DEF UnwoundTo
<1> HIDE DEF init
<1>5. \A n \in 0 .. last : f[n] = IF n = 0 THEN init ELSE Frame(f[n - 1], Append(stack, NoAddr)[n])
  BY <1>3 DEF Unwinds
<1> DEFINE Bad == {n \in 0 .. last : ~UnwoundTo(f[n], stack, n)}
<1>6. Bad = {}
  <2> SUFFICES ASSUME Bad # {} PROVE FALSE
    OBVIOUS
  <2>1. PICK n \in Bad : \A k \in Bad : n <= k
    <3>1. Bad \in SUBSET Nat
      BY <1>1
    <3> HIDE DEF Bad
    <3>2. QED
      BY <3>1, HasLeast
  <2>2. n # 0
    BY <1>1, <1>4, <1>5, <2>1
  <2>3. n - 1 \in 0 .. Len(stack) /\ UnwoundTo(f[n - 1], stack, n - 1)
    BY <1>1, <2>1, <2>2 DEF last
  <2>4. f[n] = Frame(f[n - 1], Append(stack, NoAddr)[n])
    BY <1>5, <2>1, <2>2
  <2>5. UnwoundTo(Frame(f[n - 1], Append(stack, NoAddr)[n - 1 + 1]), stack, n - 1 + 1)
    BY <1>1, <2>3, RoundUnwinds
  <2>6. n - 1 + 1 = n
    BY <1>1, <2>1
  <2>7. QED
    BY <2>1, <2>4, <2>5, <2>6
<1>7. UnwoundTo(f[last], stack, last)
  BY <1>1, <1>6
<1>8. PICK c \in 0 .. Len(stack) :
        /\ f[last].insts = FramesTo(stack, c) /\ Reaches(stack, c)
        /\ f[last].end = "no" => c = last
        /\ f[last].end # "no" => c = Len(stack) \/ ~Reaches(stack, c + 1)
  BY <1>7 DEF UnwoundTo
<1>9. f[last].end # "no"
  BY <1>1, <1>8 DEF last
<1>10. f[last].insts = Frames[stack]
  BY <1>8, <1>9, FramesAre
<1>11. QED
  BY <1>3, <1>7, <1>9, <1>10 DEF UnwoundTo, UnwindOK, FindOK

-----------------------------------------------------------------------------
(* The ring.                                                               *)

\* The slot j places behind slot t.
At(t, j) == (t + j) % UNWIND_QUEUE_LEN

\* Places in the ring go around once.
LEMMA Around ==
  ASSUME NEW t \in Slots, NEW j \in 0 .. UNWIND_QUEUE_LEN
  PROVE  /\ At(t, j) = IF t + j < UNWIND_QUEUE_LEN THEN t + j ELSE t + j - UNWIND_QUEUE_LEN
         /\ At(t, j) \in Slots
<1> DEFINE N == UNWIND_QUEUE_LEN
           x == t + j
<1>1. N \in Nat \ {0} /\ x \in 0 .. 2 * N - 1
  BY UnwinderAssumption DEF Slots
<1>2. At(t, j) = x % N
  BY DEF At
<1> HIDE DEF N, x
<1>3. x \div N \in Int /\ x % N \in 0 .. N - 1 /\ x = N * (x \div N) + (x % N)
  BY <1>1
<1>4. x \div N = 0 \/ x \div N = 1
  <2>1. CASE x \div N >= 2
    <3>1. N * (x \div N) >= 2 * N
      BY <1>1, <1>3, <2>1
    <3>2. QED
      BY <1>1, <1>3, <3>1
  <2>2. CASE x \div N <= -1
    <3>1. N * (x \div N) <= -N
      BY <1>1, <1>3, <2>2
    <3>2. QED
      BY <1>1, <1>3, <3>1
  <2>3. QED
    BY <1>3, <2>1, <2>2
<1>5. x % N = IF x < N THEN x ELSE x - N
  BY <1>1, <1>3, <1>4
<1>6. QED
  BY <1>1, <1>2, <1>3, <1>5 DEF N, x, Slots

\* One place further, from the slot or from the one behind it.
LEMMA NextPlace ==
  ASSUME NEW t \in Slots, NEW j \in 0 .. UNWIND_QUEUE_LEN - 1
  PROVE  /\ After(t) \in Slots /\ At(t, 0) = t
         /\ At(After(t), j) = At(t, j + 1) /\ After(At(t, j)) = At(t, j + 1)
<1>1. UNWIND_QUEUE_LEN \in Nat \ {0, 1}
  BY UnwinderAssumption
<1>2. After(t) = At(t, 1) /\ After(At(t, j)) = At(At(t, j), 1)
  BY DEF After, At
<1>3. 1 \in 0 .. UNWIND_QUEUE_LEN /\ 0 \in 0 .. UNWIND_QUEUE_LEN /\ j + 1 \in 0 .. UNWIND_QUEUE_LEN
  BY <1>1
<1>4. After(t) \in Slots /\ At(t, j) \in Slots /\ At(t, 0) = t
  BY <1>1, <1>2, <1>3, Around DEF Slots
<1>5. At(t, j + 1) = IF t + (j + 1) < UNWIND_QUEUE_LEN THEN t + (j + 1) ELSE t + (j + 1) - UNWIND_QUEUE_LEN
  BY <1>3, Around
<1>6. After(t) = IF t + 1 < UNWIND_QUEUE_LEN THEN t + 1 ELSE t + 1 - UNWIND_QUEUE_LEN
  BY <1>2, <1>3, Around
<1>7. At(After(t), j) = At(t, j + 1)
  <2>1. At(After(t), j) = IF After(t) + j < UNWIND_QUEUE_LEN THEN After(t) + j
                          ELSE After(t) + j - UNWIND_QUEUE_LEN
    BY <1>1, <1>4, Around
  <2>2. QED
    BY <1>1, <1>5, <1>6, <2>1 DEF Slots
<1>8. At(At(t, j), 1) = At(t, j + 1)
  <2>1. At(t, j) = IF t + j < UNWIND_QUEUE_LEN THEN t + j ELSE t + j - UNWIND_QUEUE_LEN
    BY <1>1, Around
  <2>2. At(At(t, j), 1) = IF At(t, j) + 1 < UNWIND_QUEUE_LEN THEN At(t, j) + 1
                          ELSE At(t, j) + 1 - UNWIND_QUEUE_LEN
    BY <1>3, <1>4, Around
  <2>3. QED
    BY <1>1, <1>5, <2>1, <2>2 DEF Slots
<1>9. QED
  BY <1>2, <1>4, <1>7, <1>8

\* Places less than a turn apart are different slots.
LEMMA PlacesDiffer ==
  ASSUME NEW t \in Slots, NEW i \in 0 .. UNWIND_QUEUE_LEN - 1, NEW j \in 0 .. UNWIND_QUEUE_LEN - 1,
         At(t, i) = At(t, j)
  PROVE  i = j
<1>1. UNWIND_QUEUE_LEN \in Nat \ {0, 1}
  BY UnwinderAssumption
<1>2. \A k \in {i, j} : At(t, k) = IF t + k < UNWIND_QUEUE_LEN THEN t + k ELSE t + k - UNWIND_QUEUE_LEN
  BY <1>1, Around
<1>3. QED
  BY <1>1, <1>2 DEF Slots

\* A slot, the ring as the handlers pass it on, and the slots that hold a sample.
SlotType  == [insts : Seq(0 .. NoInsts - 1), attach_tsc : Nat, stack : Stacks \cup {<< >>}]
RingType  == [queue : [Slots -> SlotType], head : Slots, tail : Slots, reset : BOOLEAN]
Filled(r) == {k \in Slots : r.queue[k].insts # << >>}

\* The n slots from the tail on hold samples, in the order of their times.
InOrder(r, n) ==
  /\ r.head = At(r.tail, n)
  /\ Filled(r) = {At(r.tail, j) : j \in 0 .. n - 1}
  /\ \A j \in 0 .. n - 1 :
       r.queue[At(r.tail, j)].attach_tsc > IF j = 0 THEN 0 ELSE r.queue[At(r.tail, j - 1)].attach_tsc

\* No sample is of a time to come, and an empty slot has no time.
Timed(r) ==
  \A k \in Slots : /\ r.queue[k].attach_tsc <= now
                   /\ r.queue[k].insts = << >> => r.queue[k].attach_tsc = 0

\* A ring in the middle of a handler, if nothing went wrong before it.
RingOK(r) ==
  /\ r \in RingType
  /\ \A k \in Slots : r.queue[k].insts = Frames[r.queue[k].stack]
  /\ ~broken /\ ~r.reset => Timed(r) /\ \E n \in 0 .. UNWIND_QUEUE_LEN : InOrder(r, n)

\* The tail moves past the slot it clears.
Take(r) == [r EXCEPT !.queue[r.tail] = Empty, !.tail = After(r.tail)]

\* An empty slot has the frames of no stack.
LEMMA EmptyFrames == Frames[<< >>] = << >> /\ Empty \in SlotType
<1>1. Reaches(<< >>, 0) /\ 0 \in 0 .. Len(<< >>) /\ 0 = Len(<< >>) /\ << >> \in Stacks \cup {<< >>}
  BY DEF Reaches
<1>2. Frames[<< >>] = FramesTo(<< >>, 0)
  BY <1>1, FramesAre
<1>3. QED
  BY <1>2 DEF FramesTo, Empty, SlotType

\* Taking the sample at the tail leaves the others in order.
LEMMA TakeKeeps ==
  ASSUME NEW r, RingOK(r), now \in Nat,
         ~broken /\ ~r.reset => r.queue[r.tail].insts # << >>
  PROVE  RingOK(Take(r))
<1> DEFINE q == [r.queue EXCEPT ![r.tail] = Empty]
           s == Take(r)
<1>1. r \in RingType /\ r.tail \in Slots /\ r.queue \in [Slots -> SlotType]
  BY DEF RingOK, RingType
<1>2. q \in [Slots -> SlotType] /\ After(r.tail) \in Slots
  <2>1. 0 \in 0 .. UNWIND_QUEUE_LEN - 1
    BY UnwinderAssumption
  <2>2. QED
    BY <1>1, <2>1, EmptyFrames, NextPlace
<1>3. /\ s \in RingType /\ s.queue = q /\ s.tail = After(r.tail) /\ s.head = r.head
      /\ s.reset = r.reset
  BY <1>1, <1>2 DEF Take, RingType
<1>4. \A k \in Slots : q[k] = IF k = r.tail THEN Empty ELSE r.queue[k]
  BY <1>1
<1> HIDE DEF q, s
<1>5. \A k \in Slots : s.queue[k].insts = Frames[s.queue[k].stack]
  BY <1>3, <1>4, EmptyFrames DEF RingOK, Empty
<1>6. ASSUME ~broken, ~s.reset
      PROVE  Timed(s) /\ \E n \in 0 .. UNWIND_QUEUE_LEN : InOrder(s, n)
  <2>1. PICK n \in 0 .. UNWIND_QUEUE_LEN : InOrder(r, n)
    BY <1>3, <1>6 DEF RingOK
  <2>2. Timed(r) /\ r.queue[r.tail].insts # << >>
    BY <1>3, <1>6 DEF RingOK
  <2>3. UNWIND_QUEUE_LEN \in Nat \ {0, 1} /\ n \in Nat
    BY UnwinderAssumption
  <2>4. n > 0
    BY <1>1, <2>1, <2>2, <2>3 DEF InOrder, Filled
  <2>5. Timed(s)
    <3>1. Empty.attach_tsc = 0 /\ Empty.insts = << >>
      BY DEF Empty
    <3>2. QED
      BY <1>3, <1>4, <2>2, <3>1 DEF Timed
  <2>6. \A j \in 0 .. n - 1 : At(s.tail, j) = At(r.tail, j + 1)
    BY <1>1, <1>3, <2>1, <2>3, NextPlace
  <2>7. At(r.tail, 0) = r.tail
    BY <1>1, <2>3, NextPlace
  <2>8. s.head = At(s.tail, n - 1)
    BY <1>3, <2>1, <2>3, <2>4, <2>6 DEF InOrder
  <2>9. \A j \in 0 .. n - 2 : At(s.tail, j) \in Slots /\ At(s.tail, j) # r.tail
    <3> SUFFICES ASSUME NEW j \in 0 .. n - 2 PROVE At(r.tail, j + 1) \in Slots /\ At(r.tail, j + 1) # r.tail
      BY <2>3, <2>6
    <3>1. j + 1 \in 0 .. UNWIND_QUEUE_LEN - 1 /\ 0 \in 0 .. UNWIND_QUEUE_LEN - 1
      BY <2>3
    <3>2. QED
      BY <1>1, <2>3, <2>7, <3>1, Around, PlacesDiffer
  <2>10. Filled(s) = {At(s.tail, j) : j \in 0 .. n - 2}
    <3>1. Filled(s) = Filled(r) \ {r.tail}
      BY <1>1, <1>3, <1>4 DEF Filled, Empty
    <3>2. ASSUME NEW k \in Filled(s) PROVE k \in {At(s.tail, j) : j \in 0 .. n - 2}
      <4>1. PICK j \in 0 .. n - 1 : k = At(r.tail, j)
        BY <2>1, <3>1, <3>2 DEF InOrder
      <4>2. j # 0
        BY <2>7, <3>1, <3>2, <4>1
      <4>3. j - 1 \in 0 .. n - 2 /\ k = At(s.tail, j - 1)
        BY <2>3, <2>6, <4>1, <4>2
      <4>4. QED
        BY <4>3
    <3>3. ASSUME NEW j \in 0 .. n - 2 PROVE At(s.tail, j) \in Filled(s)
      <4>1. j + 1 \in 0 .. n - 1 /\ At(s.tail, j) = At(r.tail, j + 1)
        BY <2>3, <2>6
      <4>2. At(r.tail, j + 1) \in Filled(r)
        BY <2>1, <4>1 DEF InOrder
      <4>3. QED
        BY <2>9, <3>1, <4>1, <4>2
    <3>4. QED
      BY <3>2, <3>3
  <2>11. ASSUME NEW j \in 0 .. n - 2
         PROVE  s.queue[At(s.tail, j)].attach_tsc > IF j = 0 THEN 0 ELSE s.queue[At(s.tail, j - 1)].attach_tsc
    <3>1. s.queue[At(s.tail, j)] = r.queue[At(r.tail, j + 1)]
      BY <1>3, <1>4, <2>3, <2>6, <2>9
    <3>2. r.queue[At(r.tail, j + 1)].attach_tsc > r.queue[At(r.tail, j)].attach_tsc
      <4>1. j + 1 \in 0 .. n - 1 /\ j + 1 # 0 /\ j + 1 - 1 = j
        BY <2>3
      <4>2. QED
        BY <2>1, <4>1 DEF InOrder
    <3>3. CASE j = 0
      <4>1. r.queue[At(r.tail, 0)].attach_tsc > 0
        BY <2>1, <2>3, <2>4 DEF InOrder
      <4>2. At(r.tail, 0) \in Slots /\ At(r.tail, 1) \in Slots
        BY <1>1, <2>3, Around
      <4>3. \A k \in Slots : r.queue[k].attach_tsc \in Nat
        BY <1>1 DEF SlotType
      <4>4. QED
        BY <3>1, <3>2, <3>3, <4>1, <4>2, <4>3
    <3>4. CASE j # 0
      <4>1. j - 1 \in 0 .. n - 2 /\ j - 1 + 1 = j
        BY <2>3, <3>4
      <4>2. s.queue[At(s.tail, j - 1)] = r.queue[At(r.tail, j)]
        BY <1>3, <1>4, <2>3, <2>6, <2>9, <4>1
      <4>3. QED
        BY <3>1, <3>2, <3>4, <4>2
    <3>5. QED
      BY <3>3, <3>4
  <2>12. InOrder(s, n - 1)
    <3>1. n - 1 - 1 = n - 2
      BY <2>3
    <3>2. QED
      BY <2>8, <2>10, <2>11, <3>1 DEF InOrder
  <2>13. QED
    BY <2>3, <2>4, <2>5, <2>12
<1>7. RingOK(s)
  BY <1>3, <1>5, <1>6 DEF RingOK
<1>8. QED
  BY <1>7 DEF s

\* Printing takes the sample at the tail, if its time has come.
LEMMA PrintKeeps ==
  ASSUME NEW r, RingOK(r), now \in Nat, NEW t \in Nat
  PROVE  RingOK(print_unwind(r, t)) /\ print_unwind(r, t).reset = r.reset
<1>1. CASE r.queue[r.tail].insts # << >> /\ t >= r.queue[r.tail].attach_tsc
  <2>1. print_unwind(r, t) = Take(r)
    BY <1>1 DEF print_unwind, Take
  <2>2. Take(r).reset = r.reset
    BY DEF RingOK, RingType, Take
  <2>3. QED
    BY <1>1, <2>1, <2>2, TakeKeeps
<1>2. CASE ~(r.queue[r.tail].insts # << >> /\ t >= r.queue[r.tail].attach_tsc)
  BY <1>2 DEF print_unwind
<1>3. QED
  BY <1>1, <1>2

\* A round of a drop takes the sample at the tail, or resets the ring.
LEMMA DropOneKeeps ==
  ASSUME NEW r, RingOK(r), now \in Nat, NEW t \in Nat, last_tsc_pge \in Nat, last_tsc_pge # 0
  PROVE  RingOK(DropOne(r, t))
<1> DEFINE drops == /\ last_tsc_pge <= r.queue[r.tail].attach_tsc
                    /\ r.queue[r.tail].attach_tsc <= t
                    /\ ~r.reset
           d == Take(r)
<1>1. CASE drops
  <2>1. r \in RingType /\ r.tail \in Slots /\ r.queue[r.tail].attach_tsc \in Nat
    BY DEF RingOK, RingType, SlotType
  <2>2. ~broken /\ ~r.reset => r.queue[r.tail].insts # << >>
    BY <1>1, <2>1 DEF RingOK, Timed
  <2>3. RingOK(d)
    BY <2>2, TakeKeeps
  <2>4. DropOne(r, t) = IF d.tail > d.head THEN [d EXCEPT !.tail = 0, !.head = 0, !.reset = TRUE] ELSE d
    BY <1>1 DEF DropOne, Take
  <2> HIDE DEF d
  <2>5. RingOK([d EXCEPT !.tail = 0, !.head = 0, !.reset = TRUE])
    <3>1. 0 \in Slots
      BY UnwinderAssumption DEF Slots
    <3>2. QED
      BY <2>3, <3>1 DEF RingOK, RingType
  <2>6. QED
    BY <2>3, <2>4, <2>5
<1>2. CASE ~drops
  BY <1>2 DEF DropOne
<1>3. QED
  BY <1>1, <1>2

\* The rounds of a drop, up to one of them.
Drops(f, r, t, last) ==
  f = [n \in 0 .. last |-> IF n = 0 THEN r ELSE DropOne(f[n - 1], t)]

\* There are such rounds, up to any of them.
LEMMA DropsExist ==
  ASSUME NEW r, NEW t, NEW last \in Nat
  PROVE  \E f : Drops(f, r, t, last)
<1> DEFINE Missing == {i \in Nat : ~\E f : Drops(f, r, t, i)}
<1>1. SUFFICES ASSUME Missing # {} PROVE FALSE
  OBVIOUS
<1>2. PICK i \in Missing : \A j \in Missing : i <= j
  BY <1>1, HasLeast
<1>3. i # 0
  <2>1. Drops([n \in 0 .. 0 |-> r], r, t, 0)
    BY DEF Drops
  <2>2. QED
    BY <1>2, <2>1
<1>4. PICK f : Drops(f, r, t, i - 1)
  BY <1>2, <1>3
<1> DEFINE x == DropOne(f[i - 1], t)
           g == [n \in 0 .. i |-> IF n = i THEN x ELSE f[n]]
<1>5. f = [n \in 0 .. i - 1 |-> IF n = 0 THEN r ELSE DropOne(f[n - 1], t)]
  BY <1>4 DEF Drops
<1>6. \A n \in 0 .. i - 1 : g[n] = f[n]
  BY <1>2
<1>7. \A n \in 0 .. i : g[n] = IF n = 0 THEN r ELSE DropOne(g[n - 1], t)
  <2> SUFFICES ASSUME NEW n \in 0 .. i
               PROVE  g[n] = IF n = 0 THEN r ELSE DropOne(g[n - 1], t)
    OBVIOUS
  <2>1. CASE n = i
    <3>1. g[n] = x /\ g[n - 1] = f[i - 1] /\ n # 0
      BY <1>3, <1>6, <2>1
    <3>2. QED
      BY <2>1, <3>1
  <2>2. CASE n # i
    <3>1. n \in 0 .. i - 1 /\ (n # 0 => n - 1 \in 0 .. i - 1)
      BY <1>2, <2>2
    <3>2. g[n] = f[n] /\ (n # 0 => g[n - 1] = f[n - 1])
      BY <1>6, <3>1
    <3>3. f[n] = IF n = 0 THEN r ELSE DropOne(f[n - 1], t)
      BY <1>5, <3>1
    <3> HIDE DEF g
    <3>4. QED
      BY <3>2, <3>3
  <2>3. QED
    BY <2>1, <2>2
<1>8. Drops(g, r, t, i)
  <2>1. g = [n \in 0 .. i |-> g[n]]
    OBVIOUS
  <2> HIDE DEF g
  <2>2. QED
    BY <1>7, <2>1 DEF Drops
<1>9. QED
  BY <1>2, <1>8

\* A drop leaves the samples it does not drop in order, if it does not reset the ring.
LEMMA DropKeeps ==
  ASSUME NEW r, RingOK(r), now \in Nat, NEW t \in Nat, last_tsc_pge \in Nat
  PROVE  RingOK(drop_unwinds(r, t))
<1>1. UNWIND_QUEUE_LEN \in Nat
  BY UnwinderAssumption
<1>2. PICK f : Drops(f, r, t, UNWIND_QUEUE_LEN)
               /\ drop_unwinds(r, t) = IF last_tsc_pge = 0 \/ t = 0 THEN r ELSE f[UNWIND_QUEUE_LEN]
  <2> DEFINE d == CHOOSE d : d = [n \in 0 .. UNWIND_QUEUE_LEN |-> IF n = 0 THEN r ELSE DropOne(d[n - 1], t)]
  <2>1. drop_unwinds(r, t) = IF last_tsc_pge = 0 \/ t = 0 THEN r ELSE d[UNWIND_QUEUE_LEN]
    BY DEF drop_unwinds
  <2>2. \E g : g = [n \in 0 .. UNWIND_QUEUE_LEN |-> IF n = 0 THEN r ELSE DropOne(g[n - 1], t)]
    <3>1. \E g : Drops(g, r, t, UNWIND_QUEUE_LEN)
      BY <1>1, DropsExist
    <3>2. QED
      BY <3>1 DEF Drops
  <2>3. Drops(d, r, t, UNWIND_QUEUE_LEN)
    BY <2>2 DEF Drops
  <2> HIDE DEF d
  <2>4. QED
    BY <2>1, <2>3
<1>3. CASE last_tsc_pge = 0 \/ t = 0
  BY <1>2, <1>3
<1>4. CASE ~(last_tsc_pge = 0 \/ t = 0)
  <2>1. \A n \in 0 .. UNWIND_QUEUE_LEN : f[n] = IF n = 0 THEN r ELSE DropOne(f[n - 1], t)
    BY <1>2 DEF Drops
  <2> DEFINE Bad == {n \in 0 .. UNWIND_QUEUE_LEN : ~RingOK(f[n])}
  <2>2. Bad = {}
    <3> SUFFICES ASSUME Bad # {} PROVE FALSE
      OBVIOUS
    <3>1. PICK n \in Bad : \A k \in Bad : n <= k
      <4>1. Bad \in SUBSET Nat
        BY <1>1
      <4> HIDE DEF Bad
      <4>2. QED
        BY <4>1, HasLeast
    <3>2. n # 0
      BY <1>1, <2>1, <3>1
    <3>3. n - 1 \in 0 .. UNWIND_QUEUE_LEN /\ RingOK(f[n - 1])
      BY <1>1, <3>1, <3>2
    <3>4. RingOK(DropOne(f[n - 1], t))
      BY <1>4, <3>3, DropOneKeeps
    <3>5. QED
      BY <2>1, <3>1, <3>2, <3>4
  <2>3. RingOK(f[UNWIND_QUEUE_LEN])
    BY <1>1, <2>2
  <2>4. QED
    BY <1>2, <1>4, <2>3
<1>5. QED
  BY <1>3, <1>4

-----------------------------------------------------------------------------
(* The inductive invariant, one lemma per action.                          *)

\* The search keeps its types, and the ring is in order until something broke it.
UnwinderIInv ==
  /\ FindOK(find) /\ unwind_cache \in Cache
  /\ now \in Nat /\ tsc_approx_ref \in Nat /\ last_tsc_pge \in Nat /\ broken \in BOOLEAN
  /\ RingOK(Ring)

\* The program starts with an empty ring.
LEMMA InitInv == UnwinderInit => UnwinderIInv
<1> SUFFICES ASSUME UnwinderInit PROVE UnwinderIInv
  OBVIOUS
<1>1. NoInsts \in Nat \ {0} /\ UNWIND_QUEUE_LEN \in Nat \ {0, 1}
  BY InstsAssumption, UnwinderAssumption
<1>2. NoCache \in Cache
  BY DEF NoCache, Cache
<1>3. FindOK(find) /\ unwind_cache \in Cache
  BY <1>1, <1>2 DEF UnwinderInit, FindInit, FindOK
<1>4. RingOK(Ring)
  <2>1. Ring \in RingType /\ Ring.head = 0 /\ Ring.tail = 0 /\ Ring.queue = [k \in Slots |-> Empty]
    <3>1. 0 \in Slots
      BY <1>1 DEF Slots
    <3>2. QED
      BY <3>1, EmptyFrames DEF UnwinderInit, Ring, RingType
  <2>2. \A k \in Slots : Ring.queue[k] = Empty
    BY <2>1
  <2>3. Timed(Ring) /\ Filled(Ring) = {}
    BY <2>2 DEF UnwinderInit, Timed, Filled, Empty
  <2>4. InOrder(Ring, 0)
    <3>1. At(0, 0) = 0
      BY <1>1, NextPlace DEF Slots
    <3>2. QED
      BY <2>1, <2>3, <3>1 DEF InOrder
  <2>5. \A k \in Slots : Ring.queue[k].insts = Frames[Ring.queue[k].stack]
    BY <2>2, EmptyFrames DEF Empty
  <2>6. QED
    BY <1>1, <2>1, <2>3, <2>4, <2>5 DEF RingOK
<1>5. QED
  BY <1>3, <1>4 DEF UnwinderInit, UnwinderIInv

\* A sample goes into the empty slot at the head, behind those that wait.
LEMMA SampleInv == UnwinderIInv /\ Sample => UnwinderIInv'
<1> SUFFICES ASSUME UnwinderIInv, Sample PROVE UnwinderIInv'
  OBVIOUS
<1>0. PICK stack \in Stacks : \E u \in {unwind(stack)} :
        /\ find' = u.find /\ unwind_cache' = u.cache
        /\ unwind_queue' = [unwind_queue EXCEPT ![unwind_queue_head] =
             [insts |-> u.insts, attach_tsc |-> IF u.end = "done" THEN now' ELSE HeadSlot.attach_tsc,
              stack |-> IF u.insts = << >> THEN << >> ELSE stack]]
        /\ unwind_queue_head' = IF u.end = "done" THEN After(unwind_queue_head) ELSE unwind_queue_head
        /\ broken' = (broken \/ ((u.end = "failed") # (u.insts = << >>)))
  BY DEF Sample
<1> DEFINE u == unwind(stack)
<1>1. /\ find' = u.find /\ unwind_cache' = u.cache
      /\ unwind_queue' = [unwind_queue EXCEPT ![unwind_queue_head] =
           [insts |-> u.insts, attach_tsc |-> IF u.end = "done" THEN now' ELSE HeadSlot.attach_tsc,
            stack |-> IF u.insts = << >> THEN << >> ELSE stack]]
      /\ unwind_queue_head' = IF u.end = "done" THEN After(unwind_queue_head) ELSE unwind_queue_head
      /\ broken' = (broken \/ ((u.end = "failed") # (u.insts = << >>)))
  BY <1>0
<1>2. /\ now' = now + 1 /\ now' \in Nat /\ HeadSlot.insts = << >>
      /\ unwind_queue_tail' = unwind_queue_tail
      /\ tsc_approx_ref' = tsc_approx_ref /\ last_tsc_pge' = last_tsc_pge
  BY DEF Sample, CanSample, Occupied, HeadSlot, decoderVars, UnwinderIInv
<1>3. /\ FindOK(u.find) /\ u.cache \in Cache
      /\ u.end \in {"done", "failed"}
      /\ u.insts \in Seq(0 .. NoInsts - 1) /\ u.insts = Frames[stack]
  BY <1>2, UnwindRight DEF UnwinderIInv
<1> HIDE DEF u
<1>4. UNWIND_QUEUE_LEN \in Nat \ {0, 1} /\ now \in Nat
  BY UnwinderAssumption DEF UnwinderIInv
<1> DEFINE h    == unwind_queue_head
           t    == unwind_queue_tail
           slot == [insts |-> u.insts, attach_tsc |-> IF u.end = "done" THEN now' ELSE HeadSlot.attach_tsc,
                    stack |-> IF u.insts = << >> THEN << >> ELSE stack]
<1>5. h \in Slots /\ t \in Slots /\ unwind_queue \in [Slots -> SlotType] /\ broken \in BOOLEAN
  BY DEF UnwinderIInv, RingOK, RingType, Ring
<1>6. slot \in SlotType /\ slot.insts = Frames[slot.stack] /\ slot.insts = u.insts
  BY <1>2, <1>3, <1>5, EmptyFrames DEF SlotType, HeadSlot
<1> DEFINE q == unwind_queue'
<1>7. q \in [Slots -> SlotType] /\ \A k \in Slots : q[k] = IF k = h THEN slot ELSE unwind_queue[k]
  BY <1>1, <1>5, <1>6
<1> HIDE DEF q
<1>8. After(h) \in Slots /\ h' \in Slots
  <2>1. 0 \in 0 .. UNWIND_QUEUE_LEN - 1
    BY <1>4
  <2>2. After(h) \in Slots
    BY <1>5, <2>1, NextPlace
  <2>3. QED
    BY <1>1, <1>5, <2>2
<1>9. Ring' = [queue |-> q, head |-> h', tail |-> t, reset |-> FALSE]
  BY <1>2 DEF Ring, q
<1>10. Ring' \in RingType /\ \A k \in Slots : q[k].insts = Frames[q[k].stack]
  <2>1. \A k \in Slots : unwind_queue[k].insts = Frames[unwind_queue[k].stack]
    BY DEF UnwinderIInv, RingOK, Ring
  <2>2. QED
    BY <1>5, <1>6, <1>7, <1>8, <1>9, <2>1 DEF RingType
<1>11. ASSUME ~broken'
       PROVE  Timed(Ring)' /\ \E n \in 0 .. UNWIND_QUEUE_LEN : InOrder(Ring, n)'
  <2>1. Timed(Ring) /\ ~broken /\ \E n \in 0 .. UNWIND_QUEUE_LEN : InOrder(Ring, n)
    BY <1>1, <1>5, <1>11 DEF UnwinderIInv, RingOK, Ring
  <2>2. PICK n \in 0 .. UNWIND_QUEUE_LEN : InOrder(Ring, n)
    BY <2>1
  <2>3. (u.end = "failed" /\ u.insts = << >>) \/ (u.end = "done" /\ u.insts # << >>)
    BY <1>1, <1>3, <1>11
  <2>4. HeadSlot.attach_tsc = 0
    BY <1>2, <1>5, <2>1 DEF Timed, Ring, HeadSlot
  <2>5. \A k \in Slots : unwind_queue[k].attach_tsc <= now /\ unwind_queue[k].attach_tsc \in Nat
                         /\ (unwind_queue[k].insts = << >> => unwind_queue[k].attach_tsc = 0)
    BY <1>5, <2>1 DEF Timed, Ring, SlotType
  <2>6. Timed(Ring)'
    <3> SUFFICES ASSUME NEW k \in Slots
                 PROVE  q[k].attach_tsc <= now' /\ (q[k].insts = << >> => q[k].attach_tsc = 0)
      BY <1>9 DEF Timed
    <3>1. CASE k = h
      BY <1>2, <1>4, <1>7, <2>3, <2>4, <3>1
    <3>2. CASE k # h
      BY <1>2, <1>4, <1>7, <2>5, <3>2
    <3>3. QED
      BY <3>1, <3>2
  <2>7. /\ h = At(t, n)
        /\ {k \in Slots : unwind_queue[k].insts # << >>} = {At(t, j) : j \in 0 .. n - 1}
        /\ \A j \in 0 .. n - 1 :
             unwind_queue[At(t, j)].attach_tsc > IF j = 0 THEN 0 ELSE unwind_queue[At(t, j - 1)].attach_tsc
    BY <2>2 DEF InOrder, Filled, Ring
  <2>8. \A j \in 0 .. n - 1 : At(t, j) \in Slots /\ At(t, j) # h /\ q[At(t, j)] = unwind_queue[At(t, j)]
    <3> SUFFICES ASSUME NEW j \in 0 .. n - 1 PROVE At(t, j) \in Slots /\ At(t, j) # h
      BY <1>7
    <3>1. At(t, j) \in {k \in Slots : unwind_queue[k].insts # << >>}
      BY <2>7
    <3>2. QED
      BY <1>2, <3>1 DEF HeadSlot
  <2>9. CASE u.end = "failed" /\ u.insts = << >>
    <3>1. h' = h
      BY <1>1, <2>9
    <3>2. {k \in Slots : q[k].insts # << >>} = {k \in Slots : unwind_queue[k].insts # << >>}
      BY <1>2, <1>5, <1>6, <1>7, <2>9 DEF HeadSlot
    <3>3. \A j \in 0 .. n - 1 : q[At(t, j)].attach_tsc > IF j = 0 THEN 0 ELSE q[At(t, j - 1)].attach_tsc
      <4> SUFFICES ASSUME NEW j \in 0 .. n - 1
                   PROVE  q[At(t, j)].attach_tsc > IF j = 0 THEN 0 ELSE q[At(t, j - 1)].attach_tsc
        OBVIOUS
      <4>1. j # 0 => j - 1 \in 0 .. n - 1
        BY <1>4
      <4>2. QED
        BY <2>7, <2>8, <4>1
    <3>4. InOrder(Ring, n)'
      BY <1>9, <2>7, <3>1, <3>2, <3>3 DEF InOrder, Filled
    <3>5. QED
      BY <2>6, <3>4
  <2>10. CASE u.end = "done" /\ u.insts # << >>
    <3>1. n # UNWIND_QUEUE_LEN
      <4>1. SUFFICES ASSUME n = UNWIND_QUEUE_LEN PROVE FALSE
        OBVIOUS
      <4>2. At(t, n) = At(t, 0)
        <5>1. n \in 0 .. UNWIND_QUEUE_LEN /\ 0 \in 0 .. UNWIND_QUEUE_LEN
          BY <1>4
        <5>2. QED
          BY <1>4, <1>5, <4>1, <5>1, Around DEF Slots
      <4>3. 0 \in 0 .. n - 1
        BY <1>4, <4>1
      <4>4. QED
        BY <2>7, <2>8, <4>2, <4>3
    <3>2. n \in 0 .. UNWIND_QUEUE_LEN - 1 /\ n + 1 \in 0 .. UNWIND_QUEUE_LEN
      BY <1>4, <3>1
    <3>3. h' = At(t, n + 1)
      BY <1>1, <1>5, <2>7, <2>10, <3>2, NextPlace
    <3>4. q[h].attach_tsc = now + 1 /\ q[h].insts # << >>
      BY <1>2, <1>5, <1>6, <1>7, <2>10
    <3>5. {k \in Slots : q[k].insts # << >>} = {At(t, j) : j \in 0 .. n}
      <4>1. {k \in Slots : q[k].insts # << >>} = {k \in Slots : unwind_queue[k].insts # << >>} \cup {h}
        BY <1>5, <1>7, <3>4
      <4>2. {At(t, j) : j \in 0 .. n} = {At(t, j) : j \in 0 .. n - 1} \cup {At(t, n)}
        BY <1>4
      <4>3. QED
        BY <2>7, <4>1, <4>2
    <3>6. \A j \in 0 .. n : q[At(t, j)].attach_tsc > IF j = 0 THEN 0 ELSE q[At(t, j - 1)].attach_tsc
      <4> SUFFICES ASSUME NEW j \in 0 .. n
                   PROVE  q[At(t, j)].attach_tsc > IF j = 0 THEN 0 ELSE q[At(t, j - 1)].attach_tsc
        OBVIOUS
      <4>1. j # 0 => j - 1 \in 0 .. n - 1
        BY <1>4
      <4>2. CASE j = n
        <5>1. j # 0 => q[At(t, j - 1)].attach_tsc <= now /\ q[At(t, j - 1)].attach_tsc \in Nat
          BY <2>5, <2>8, <4>1
        <5>2. q[At(t, j)].attach_tsc = now + 1
          BY <2>7, <3>4, <4>2
        <5>3. QED
          BY <1>4, <5>1, <5>2
      <4>3. CASE j # n
        <5>1. j \in 0 .. n - 1
          BY <1>4, <4>3
        <5>2. QED
          BY <2>7, <2>8, <4>1, <5>1
      <4>4. QED
        BY <4>2, <4>3
    <3>7. InOrder(Ring, n + 1)'
      <4>1. n + 1 - 1 = n
        BY <1>4
      <4>2. QED
        BY <1>9, <3>3, <3>5, <3>6, <4>1 DEF InOrder, Filled
    <3>8. QED
      BY <2>6, <3>2, <3>7
  <2>11. QED
    BY <2>3, <2>9, <2>10
<1>12. RingOK(Ring)'
  BY <1>9, <1>10, <1>11 DEF RingOK
<1>13. FindOK(find)' /\ unwind_cache' \in Cache
  BY <1>1, <1>3 DEF FindOK
<1>14. QED
  BY <1>1, <1>2, <1>12, <1>13 DEF UnwinderIInv

\* What a handler of the decoder leaves is the ring of the next state.
LEMMA SetKeeps ==
  ASSUME NEW r, RingOK(r), SetRing(r), broken \in BOOLEAN, now' = now
  PROVE  RingOK(Ring)' /\ broken' \in BOOLEAN
<1>1. Ring' = [queue |-> r.queue, head |-> r.head, tail |-> r.tail, reset |-> FALSE]
  BY DEF Ring, SetRing
<1>2. r \in RingType /\ broken' = (broken \/ r.reset) /\ r.reset \in BOOLEAN
  BY DEF RingOK, SetRing, RingType
<1>3. Ring' \in RingType
  BY <1>1, <1>2 DEF RingType
<1>4. \A k \in Slots : Ring'.queue[k].insts = Frames[Ring'.queue[k].stack]
  BY <1>1 DEF RingOK
<1>5. ASSUME ~broken' PROVE Timed(Ring)' /\ \E n \in 0 .. UNWIND_QUEUE_LEN : InOrder(Ring, n)'
  <2>1. Timed(r) /\ \E n \in 0 .. UNWIND_QUEUE_LEN : InOrder(r, n)
    BY <1>2, <1>5 DEF RingOK
  <2>2. Timed(Ring)'
    BY <1>1, <2>1 DEF Timed
  <2>3. \A n \in 0 .. UNWIND_QUEUE_LEN : InOrder(r, n) => InOrder(Ring, n)'
    BY <1>1 DEF InOrder, Filled
  <2>4. QED
    BY <2>1, <2>2, <2>3
<1>6. QED
  BY <1>2, <1>3, <1>4, <1>5 DEF RingOK

\* A packet with a time prints the samples before it.
LEMMA PacketInv == UnwinderIInv /\ Packet => UnwinderIInv'
<1> SUFFICES ASSUME UnwinderIInv, Packet PROVE UnwinderIInv'
  OBVIOUS
<1>1. /\ tsc_approx_ref' \in Nat /\ last_tsc_pge' \in Nat
      /\ find' = find /\ unwind_cache' = unwind_cache /\ now' = now
  BY DEF Packet, UnwinderIInv
<1>2. RingOK(Ring) /\ now \in Nat /\ broken \in BOOLEAN
  BY DEF UnwinderIInv
<1>3. RingOK(print_unwind(Ring, tsc_approx_ref'))
  BY <1>1, <1>2, PrintKeeps
<1>4. SetRing(print_unwind(Ring, tsc_approx_ref'))
  BY DEF Packet
<1>5. RingOK(Ring)' /\ broken' \in BOOLEAN
  BY <1>1, <1>2, <1>3, <1>4, SetKeeps
<1>6. QED
  BY <1>1, <1>2, <1>5 DEF UnwinderIInv, FindOK

\* An overflow prints the samples before it and drops those it may have
\* overtaken.
LEMMA OverflowInv == UnwinderIInv /\ Overflow => UnwinderIInv'
<1> SUFFICES ASSUME UnwinderIInv, Overflow PROVE UnwinderIInv'
  OBVIOUS
<1> DEFINE t == tsc_approx_ref'
<1>1. /\ t \in Nat /\ last_tsc_pge' = last_tsc_pge /\ last_tsc_pge \in Nat
      /\ find' = find /\ unwind_cache' = unwind_cache /\ now' = now
  BY DEF Overflow, UnwinderIInv
<1>2. RingOK(Ring) /\ now \in Nat /\ broken \in BOOLEAN
  BY DEF UnwinderIInv
<1>3. RingOK(drop_unwinds(print_unwind(Ring, t), t))
  BY <1>1, <1>2, PrintKeeps, DropKeeps
<1>4. SetRing(drop_unwinds(print_unwind(Ring, t), t))
  BY DEF Overflow
<1>5. RingOK(Ring)' /\ broken' \in BOOLEAN
  BY <1>1, <1>2, <1>3, <1>4, SetKeeps
<1>6. QED
  BY <1>1, <1>2, <1>5 DEF UnwinderIInv, FindOK

\* A lookup of any address leaves the search with its types and the ring alone.
LEMMA LookUpInv == UnwinderIInv /\ LookUp => UnwinderIInv'
<1> SUFFICES ASSUME UnwinderIInv, LookUp PROVE UnwinderIInv'
  OBVIOUS
<1>1. /\ UNCHANGED <<unwind_cache, unwind_queue, unwind_queue_head, unwind_queue_tail, now,
                     tsc_approx_ref, last_tsc_pge, broken>>
  BY DEF LookUp, ringVars, decoderVars
<1>2. PICK addr \in Lookups : find' = Find(addr, find).find
  BY DEF LookUp
<1>3. addr \in Nat /\ FindOK(find)
  BY UnwinderAssumption DEF UnwinderIInv
<1>4. FindOK(Find(addr, find).find)
  BY <1>3, FindRight
<1>5. FindOK(find)'
  BY <1>2, <1>4 DEF FindOK
<1>6. RingOK(Ring)'
  BY <1>1 DEF UnwinderIInv, RingOK, Ring, Timed, InOrder, Filled
<1>7. QED
  BY <1>1, <1>5, <1>6 DEF UnwinderIInv

\* Samples, packets, overflows and lookups keep it, in any order.
THEOREM UnwinderIInvHolds == UnwinderSpec => []UnwinderIInv
<1>1. UnwinderIInv /\ UNCHANGED unwinderVars => UnwinderIInv'
  <2> SUFFICES ASSUME UnwinderIInv, UNCHANGED unwinderVars PROVE UnwinderIInv'
    OBVIOUS
  <2>1. UNCHANGED <<find, unwind_cache, unwind_queue, unwind_queue_head, unwind_queue_tail, now,
                    tsc_approx_ref, last_tsc_pge, broken>>
    BY DEF unwinderVars, ringVars, decoderVars
  <2>2. RingOK(Ring)'
    BY <2>1 DEF UnwinderIInv, RingOK, Ring, Timed, InOrder, Filled
  <2>3. QED
    BY <2>1, <2>2 DEF UnwinderIInv, FindOK
<1>2. UnwinderIInv /\ [UnwinderNext]_unwinderVars => UnwinderIInv'
  BY <1>1, SampleInv, PacketInv, OverflowInv, LookUpInv DEF UnwinderNext
<1>3. QED
  BY InitInv, <1>2, PTL DEF UnwinderSpec

\* For every table of instructions and everything asked before, what
\* xed_unwind_find_inst returns from its caches and its midpoint is what the table
\* holds.
THEOREM SearchFindsHolds == UnwinderSpec => []SearchFinds
<1>1. UnwinderIInv => SearchFinds
  <2> SUFFICES ASSUME UnwinderIInv, NEW addr \in Lookups \cup UNION {ToSet(stack) : stack \in Stacks}
               PROVE  Find(addr, find).inst = xed_unwind_find_inst(addr)
    BY DEF SearchFinds
  <2>1. addr \in Nat
    <3>1. \A stack \in Stacks : ToSet(stack) \subseteq Nat
      BY UnwinderAssumption DEF ToSet
    <3>2. QED
      BY <3>1, UnwinderAssumption
  <2>2. QED
    BY <2>1, FindRight DEF UnwinderIInv
<1>2. QED
  BY <1>1, UnwinderIInvHolds, PTL

\* For every stack, a slot of the ring holds all of its frames or none.
THEOREM WholeStacksHolds == UnwinderSpec => []WholeStacks
<1>1. UnwinderIInv => WholeStacks
  BY DEF UnwinderIInv, RingOK, Ring, WholeStacks
<1>2. QED
  BY <1>1, UnwinderIInvHolds, PTL

\* For every length of the ring, the samples in it are in the order of their times
\* from tail to head, until an unwinding goes wrong or a drop resets the ring.
THEOREM FifoUntilBrokenHolds == UnwinderSpec => []FifoUntilBroken
<1>1. UnwinderIInv => FifoUntilBroken
  <2> SUFFICES ASSUME UnwinderIInv, ~broken PROVE FifoUntilBroken
    BY DEF FifoUntilBroken
  <2>1. PICK n \in 0 .. UNWIND_QUEUE_LEN : InOrder(Ring, n)
    BY DEF UnwinderIInv, RingOK, Ring
  <2>2. QED
    BY <2>1 DEF FifoUntilBroken, InOrder, Filled, Ring, At, Occupied
<1>2. QED
  BY <1>1, UnwinderIInvHolds, PTL
=============================================================================
