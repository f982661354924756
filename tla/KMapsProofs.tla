---------------------------- MODULE KMapsProofs ----------------------------
(***************************************************************************)
(* Theorems about KMaps: for every address space, every size of the pages  *)
(* array and every number of calls, no announced mapping is missing from   *)
(* the table while a stack is unwound, the pins are those the pages array  *)
(* tells of and those a full one cost, and with a table of all pages       *)
(* the tracer reads the words the process has.                             *)
(***************************************************************************)
EXTENDS KMaps, SearchProofs, FiniteSetTheorems

-----------------------------------------------------------------------------
(* Requests.                                                               *)

Kinds  == {"SIGRTMIN+1", "SIGRTMAX"}
Halted == {"redo", "write", "clear", "unwind"}

\* What the table lacks, or is about to lack, was asked for.
Asked == unserved \/ call.rw => redo_kmaps + pending["SIGRTMIN+1"] >= 1

Inv ==
  /\ redo_kmaps \in Nat /\ pending \in [Kinds -> Nat]
  /\ unserved \in BOOLEAN
  /\ call.rw \in BOOLEAN
  /\ stopped = "yes" => call = NoVma
  /\ pc \in Halted => stopped = "yes" /\ pending = NoSignals
  /\ pc \in {"clear", "unwind"} => ~unserved
  /\ pc = "unwind" => redo_kmaps = 0
  /\ Asked

\* The program starts with nothing asked for and nobody halted.
LEMMA InvInit == ASSUME KMapsInit PROVE Inv
  BY DEF KMapsInit, Inv, Asked, NoVma, NoSignals, Kinds, Halted

\* The process: a mapping is announced before it is made, and none is made while
\* the process is stopped.
LEMMA InvProcess == ASSUME Inv, Process PROVE Inv'
  <1>1. CASE EnterMmap
    <2> USE DEF Inv, EnterMmap, Runs, Halted, Kinds
    <2>1. PICK s \in 1 .. NoVmPages - 1, len \in 1 .. 2, rw \in BOOLEAN :
            /\ call' = [s |-> s, e |-> s + len, id |-> calls', rw |-> rw]
            /\ Signal(IF rw THEN "SIGRTMIN+1" ELSE "SIGRTMAX")
      BY <1>1
    <2>2. /\ call'.rw = rw /\ pc \notin Halted /\ stopped # "yes"
          /\ UNCHANGED <<pc, stopped, redo_kmaps, unserved>>
      BY <1>1, <2>1 DEF ghosts
    <2>3. /\ pending' \in [Kinds -> Nat]
          /\ pending'["SIGRTMIN+1"] = pending["SIGRTMIN+1"] + (IF rw THEN 1 ELSE 0)
      BY <2>1 DEF Signal
    <2>4. Asked'
      BY <2>2, <2>3 DEF Asked, NoVma
    <2> QED BY <2>2, <2>3, <2>4
  <1>2. CASE LeaveMmap
    BY <1>2 DEF Inv, LeaveMmap, Asked, userVars, NoVma, Halted
  <1>3. CASE Munmap
    BY <1>3 DEF Inv, Munmap, Runs, Asked, userVars, Halted
  <1>4. CASE Mprotect
    <2>1. /\ pending' \in [Kinds -> Nat] /\ pending'["SIGRTMIN+1"] = pending["SIGRTMIN+1"]
          /\ pc \notin Halted /\ UNCHANGED <<pc, call, stopped, redo_kmaps, unserved>>
      BY <1>4 DEF Inv, Mprotect, Runs, Signal, Kinds, Halted
    <2> QED BY <2>1 DEF Inv, Asked, Halted
  <1>5. CASE Stop
    BY <1>5 DEF Inv, Stop, Runs, Asked, userVars, ghosts, Halted
  <1> QED BY <1>1, <1>2, <1>3, <1>4, <1>5 DEF Process

\* sig_action_SIGRT moves requests from pending to redo_kmaps and loses none.
LEMMA Handled ==
  ASSUME Inv, sig_action_SIGRT
  PROVE  /\ redo_kmaps' \in Nat /\ pending' = NoSignals /\ NoSignals \in [Kinds -> Nat]
         /\ redo_kmaps' + pending'["SIGRTMIN+1"] = redo_kmaps + pending["SIGRTMIN+1"]
  BY DEF Inv, sig_action_SIGRT, NoSignals, Kinds

\* The samples, a search and the end of the run keep the invariant.
LEMMA InvTracer == ASSUME Inv, Sampling \/ Find \/ x_exit PROVE Inv'
  <1>1. ASSUME Interrupt \/ Attach \/ WaitInterrupted \/ WaitStopped PROVE Inv'
    <2>1. sig_action_SIGRT /\ UNCHANGED <<call, unserved>>
      BY <1>1 DEF Interrupt, Attach, WaitInterrupted, WaitStopped, procVars, ghosts
    <2>2. Asked'
      BY <2>1, Handled DEF Inv, Asked
    <2>3. /\ stopped' = "yes" => stopped = "yes"
          /\ pc' \in Halted => pc' = "redo" /\ stopped' = "yes"
      BY <1>1 DEF Interrupt, Attach, WaitInterrupted, WaitStopped, Goto, procVars, Halted
    <2> QED BY <2>1, <2>2, <2>3, Handled DEF Inv, Halted
  <1>2. CASE kmod_redo_kmaps
    <2>1. pc' = "unwind" => redo_kmaps = 0 /\ ~unserved
      BY <1>2 DEF kmod_redo_kmaps, Goto, Inv, Asked, NoSignals, Halted
    <2> QED BY <1>2, <2>1 DEF kmod_redo_kmaps, Goto, Inv, Asked, procVars, ghosts, Halted
  <1>3. CASE my_write
    BY <1>3 DEF my_write, Inv, Asked, procVars, Halted, NoVma
  <1>4. CASE ClearRedo
    BY <1>4 DEF ClearRedo, Goto, Inv, Asked, procVars, ghosts, Halted, NoVma
  <1>5. CASE Detach
    BY <1>5 DEF Detach, Goto, Inv, Asked, ghosts, Halted
  <1>6. CASE Find
    BY <1>6 DEF Find, Inv, Asked, procVars, ghosts
  <1>7. CASE x_exit
    BY <1>7 DEF x_exit, Goto, Inv, Asked, procVars, ghosts, Halted
  <1>8. CASE xed_unwind
    BY <1>8 DEF xed_unwind, Inv, Asked, procVars, ghosts, Halted
  <1> QED BY <1>1, <1>2, <1>3, <1>4, <1>5, <1>6, <1>7, <1>8 DEF Sampling

\* No request is lost: while it unwinds, the table is at least as new as every
\* mapping the probe on mmap announced.
THEOREM RequestsAreKept == KMapsSpec => []NoRequestLost
  <1>1. ASSUME Inv, [KMapsNext]_kmapsVars PROVE Inv'
    <2>1. CASE KMapsNext
      BY <1>1, <2>1, InvProcess, InvTracer DEF KMapsNext
    <2>2. CASE UNCHANGED kmapsVars
      BY <1>1, <2>2 DEF kmapsVars, procVars, userVars, ghosts, Inv, Asked
    <2> QED BY <1>1, <2>1, <2>2
  <1>2. Inv => NoRequestLost
    BY DEF Inv, NoRequestLost, Halted
  <1> QED BY <1>1, <1>2, InvInit, PTL DEF KMapsSpec

-----------------------------------------------------------------------------
(* Pins.                                                                   *)

\* A set holds each of its members once.
LEMMA SetsAreBags == ASSUME NEW S PROVE IsABag(SetToBag(S))
  BY DEF IsABag, SetToBag

\* Two bags together are a bag.
LEMMA SumIsABag ==
  ASSUME NEW A, NEW B, IsABag(A), IsABag(B) PROVE IsABag(A (+) B)
  BY DEF IsABag, (+)

\* What was added last is what is taken away.
LEMMA TakeAway ==
  ASSUME NEW A, NEW B, IsABag(A), IsABag(B) PROVE (A (+) B) (-) A = B
  <1> DEFINE S == A (+) B
             D == [e \in DOMAIN S |-> IF e \in DOMAIN A THEN S[e] - A[e] ELSE S[e]]
  <1>1. \A e \in DOMAIN A : A[e] \in Nat /\ A[e] > 0
    BY DEF IsABag
  <1>2. \A e \in DOMAIN B : B[e] \in Nat /\ B[e] > 0
    BY DEF IsABag
  <1>3. DOMAIN S = DOMAIN A \cup DOMAIN B /\ DOMAIN D = DOMAIN S
    BY DEF (+)
  <1>4. \A e \in DOMAIN S : D[e] = IF e \in DOMAIN B THEN B[e] ELSE 0
    BY <1>1, <1>2, <1>3 DEF (+)
  <1>5. S (-) A = [e \in {d \in DOMAIN D : D[d] > 0} |-> D[e]]
    BY DEF (-)
  <1> HIDE DEF S, D
  <1>6. {d \in DOMAIN D : D[d] > 0} = DOMAIN B
    <2>1. \A d \in DOMAIN B : d \in DOMAIN D /\ D[d] > 0
      BY <1>2, <1>3, <1>4
    <2>2. \A d \in DOMAIN D : d \notin DOMAIN B => ~(D[d] > 0)
      BY <1>3, <1>4
    <2> QED BY <2>1, <2>2
  <1>7. S (-) A = [e \in DOMAIN B |-> D[e]]
    BY <1>5, <1>6
  <1>8. B = [e \in DOMAIN B |-> B[e]]
    BY DEF IsABag
  <1>9. \A e \in DOMAIN B : D[e] = B[e]
    BY <1>3, <1>4
  <1> QED BY <1>7, <1>8, <1>9 DEF S

\* The order in which bags are added does not matter.
LEMMA AddInOrder ==
  ASSUME NEW A, NEW B, NEW C, IsABag(A), IsABag(B), IsABag(C)
  PROVE  (B (+) A) (+) C = A (+) (B (+) C)
  <1>1. /\ \A e \in DOMAIN A : A[e] \in Nat
        /\ \A e \in DOMAIN B : B[e] \in Nat
        /\ \A e \in DOMAIN C : C[e] \in Nat
    BY DEF IsABag
  <1> DEFINE N(X, e) == IF e \in DOMAIN X THEN X[e] ELSE 0
             D == DOMAIN A \cup DOMAIN B \cup DOMAIN C
  <1>2. \A e : N(A, e) \in Nat /\ N(B, e) \in Nat /\ N(C, e) \in Nat
    BY <1>1
  <1>3. (B (+) A) (+) C = [e \in D |-> (N(B, e) + N(A, e)) + N(C, e)]
    BY <1>1 DEF (+)
  <1>4. A (+) (B (+) C) = [e \in D |-> N(A, e) + (N(B, e) + N(C, e))]
    BY <1>1 DEF (+)
  <1> HIDE DEF N, D
  <1>5. \A e \in D : (N(B, e) + N(A, e)) + N(C, e) = N(A, e) + (N(B, e) + N(C, e))
    BY <1>2
  <1> QED BY <1>3, <1>4, <1>5

\* leaked is a bag of its own, so that it stays when the rest is taken away.
PinsInv == PinsBalanced /\ IsABag(leaked)

\* undo_kmaps leaves what was lost, and nothing else.
LEMMA Undone == ASSUME PinsInv PROVE undo_kmaps(pins) = leaked
  BY SetsAreBags, TakeAway DEF PinsInv, PinsBalanced, undo_kmaps, BagOfFrames

\* A table built anew pins what its pages array tells of.
LEMMA Rebuilt ==
  ASSUME PinsInv, NEW ps, NEW new, NEW lost, IsABag(lost), Rebuild(ps, new, lost)
  PROVE  PinsInv'
  <1>1. pins' = (leaked (+) BagOfFrames(ps)) (+) lost
    BY Undone DEF Rebuild
  <1>2. IsABag(BagOfFrames(ps)) /\ IsABag(leaked)
    BY SetsAreBags DEF BagOfFrames, PinsInv
  <1>3. pins' = BagOfFrames(ps) (+) (leaked (+) lost)
    BY <1>1, <1>2, AddInOrder
  <1>4. leaked' = leaked (+) lost /\ pages' = ps
    BY DEF Rebuild
  <1>5. BagOfFrames(pages)' = BagOfFrames(ps)
    BY <1>4 DEF BagOfFrames
  <1> QED BY <1>2, <1>3, <1>4, <1>5, SumIsABag DEF PinsInv, PinsBalanced

\* For every order of rebuilds, failures and the end of the run, the pins held are
\* those of the pages array and those a full array cost.
THEOREM PinsAreBalanced == KMapsSpec => []PinsBalanced
  <1>1. ASSUME KMapsInit PROVE PinsInv
    <2>1. leaked = EmptyBag /\ pins = BagOfFrames(pages)
      BY <1>1 DEF KMapsInit
    <2>2. BagOfFrames(pages) (+) EmptyBag = BagOfFrames(pages)
      BY DEF BagOfFrames, SetToBag, EmptyBag, (+)
    <2> QED BY <2>1, <2>2, SetsAreBags DEF PinsInv, PinsBalanced, EmptyBag
  <1>2. ASSUME PinsInv, [KMapsNext]_kmapsVars PROVE PinsInv'
    <2>1. CASE UNCHANGED <<pages, pins, leaked>>
      BY <1>2, <2>1 DEF PinsInv, PinsBalanced, BagOfFrames
    <2>2. CASE my_write
      <3>1. PICK failing : do_kmaps(failing)
        BY <2>2 DEF my_write
      <3>2. PICK ps, new, lost : Rebuild(ps, new, lost) /\ IsABag(lost)
        BY <3>1, SetsAreBags DEF do_kmaps, EmptyBag
      <3> QED BY <1>2, <3>2, Rebuilt
    <2>3. CASE x_exit
      <3>1. pins' = leaked /\ pages' = << >> /\ leaked' = leaked
        BY <1>2, <2>3, Undone DEF x_exit, ghosts
      <3>2. BagOfFrames(pages)' = EmptyBag
        BY <3>1 DEF BagOfFrames, EmptyBag, SetToBag
      <3>3. EmptyBag (+) leaked = leaked
        BY <1>2 DEF PinsInv, IsABag, EmptyBag, SetToBag, (+)
      <3> QED BY <1>2, <3>1, <3>2, <3>3 DEF PinsInv, PinsBalanced
    <2>4. KMapsNext => my_write \/ x_exit \/ UNCHANGED <<pages, pins, leaked>>
      BY DEF KMapsNext, Process, Sampling, EnterMmap, LeaveMmap, Munmap, Mprotect, Stop, Interrupt, Attach,
         WaitStopped, WaitInterrupted, kmod_redo_kmaps, ClearRedo, Detach, xed_unwind, Find, kmodVars,
         ghosts, procVars, userVars
    <2> QED BY <1>2, <2>1, <2>2, <2>3, <2>4 DEF kmapsVars, kmodVars, ghosts
  <1>3. PinsInv => PinsBalanced
    BY DEF PinsInv
  <1> QED BY <1>1, <1>2, <1>3, PTL DEF KMapsSpec

-----------------------------------------------------------------------------
(* Orders.                                                                 *)

\* The place of a member of a set of numbers.
Below(S, x)  == {y \in S : y < x}
RankOf(S, x) == Cardinality(Below(S, x)) + 1

\* It is one of as many places as there are members.
LEMMA RankType ==
  ASSUME NEW S \in SUBSET Nat, IsFiniteSet(S), NEW x \in S
  PROVE  /\ IsFiniteSet(Below(S, x)) /\ Cardinality(Below(S, x)) \in Nat
         /\ Cardinality(S) \in Nat /\ RankOf(S, x) \in 1 .. Cardinality(S)
  <1>1. Below(S, x) \subseteq S \ {x}
    BY DEF Below
  <1>2. IsFiniteSet(S \ {x}) /\ Cardinality(S \ {x}) = Cardinality(S) - 1
    BY FS_RemoveElement
  <1>3. IsFiniteSet(Below(S, x)) /\ Cardinality(Below(S, x)) <= Cardinality(S \ {x})
    BY <1>1, <1>2, FS_Subset
  <1>4. Cardinality(Below(S, x)) \in Nat /\ Cardinality(S) \in Nat
    BY <1>3, FS_CardinalityType
  <1> QED BY <1>2, <1>3, <1>4 DEF RankOf

\* The next member has the next place.
LEMMA RankNext ==
  ASSUME NEW S \in SUBSET Nat, IsFiniteSet(S), NEW x \in S, NEW y \in S, x < y,
         \A z \in S : ~(x < z /\ z < y)
  PROVE  RankOf(S, y) = RankOf(S, x) + 1
  <1>1. Below(S, y) = Below(S, x) \cup {x}
    <2>1. \A z \in S : z < y <=> z < x \/ z = x
      OBVIOUS
    <2> QED BY <2>1 DEF Below
  <1>2. x \notin Below(S, x)
    BY DEF Below
  <1>3. IsFiniteSet(Below(S, x)) /\ Cardinality(Below(S, x)) \in Nat
    BY RankType
  <1>4. Cardinality(Below(S, y)) = Cardinality(Below(S, x)) + 1
    BY <1>1, <1>2, <1>3, FS_AddElement
  <1> QED BY <1>3, <1>4 DEF RankOf

\* A larger member has a larger place.
LEMMA RankGrows ==
  ASSUME NEW S \in SUBSET Nat, IsFiniteSet(S), NEW x \in S, NEW y \in S, x < y
  PROVE  RankOf(S, x) < RankOf(S, y)
  <1>1. Below(S, x) \cup {x} \subseteq Below(S, y)
    <2>1. \A z \in S : z < x \/ z = x => z < y
      BY x \in Nat, y \in Nat
    <2> QED BY <2>1 DEF Below
  <1>2. x \notin Below(S, x)
    BY DEF Below
  <1>3. /\ IsFiniteSet(Below(S, x)) /\ Cardinality(Below(S, x)) \in Nat
        /\ IsFiniteSet(Below(S, y)) /\ Cardinality(Below(S, y)) \in Nat
    BY RankType
  <1>4. Cardinality(Below(S, x) \cup {x}) = Cardinality(Below(S, x)) + 1
    BY <1>2, <1>3, FS_AddElement
  <1>5. Cardinality(Below(S, x) \cup {x}) <= Cardinality(Below(S, y))
    BY <1>1, <1>3, FS_Subset
  <1> QED BY <1>3, <1>4, <1>5 DEF RankOf

\* The sequence o has the members of S in their places.
Ordered(o, S) ==
  /\ Cardinality(S) \in Nat /\ o \in [1 .. Cardinality(S) -> S]
  /\ \A x \in S : RankOf(S, x) \in 1 .. Cardinality(S) /\ o[RankOf(S, x)] = x
  /\ \A k \in 1 .. Cardinality(S) : RankOf(S, o[k]) = k

\* InOrder puts them there: as each has a place of its own, none stays free.
LEMMA InOrderIs ==
  ASSUME NEW S \in SUBSET Nat, IsFiniteSet(S)
  PROVE  Ordered(InOrder(S), S)
  <1> DEFINE n == Cardinality(S)
             r == [x \in S |-> RankOf(S, x)]
  <1>1. n \in Nat
    BY FS_CardinalityType
  <1>2. \A x \in S : RankOf(S, x) \in 1 .. n
    BY RankType
  <1>3. \A x, y \in S : RankOf(S, x) = RankOf(S, y) => x = y
    <2> SUFFICES ASSUME NEW x \in S, NEW y \in S, RankOf(S, x) = RankOf(S, y), x < y PROVE FALSE
      OBVIOUS
    <2>1. RankOf(S, x) < RankOf(S, y)
      BY RankGrows
    <2>2. RankOf(S, x) \in 1 .. n /\ RankOf(S, y) \in 1 .. n
      BY <1>2
    <2> QED BY <1>1, <2>1, <2>2
  <1>4. r \in Injection(S, 1 .. n)
    BY <1>2, <1>3 DEF Injection, IsInjective
  <1>5. IsFiniteSet(1 .. n) /\ Cardinality(1 .. n) = n
    BY <1>1, FS_Interval
  <1>6. r \in Surjection(S, 1 .. n)
    BY <1>4, <1>5, FS_Injection
  <1>7. \A k \in 1 .. n : \E x \in S : RankOf(S, x) = k
    BY <1>6 DEF Surjection
  <1>8. InOrder(S) = [k \in 1 .. n |-> CHOOSE x \in S : RankOf(S, x) = k]
    <2>1. \A k \in 1 .. n, x \in S : RankOf(S, x) = k <=> Cardinality({y \in S : y < x}) = k - 1
      BY <1>1, RankType DEF RankOf, Below
    <2>2. \A k \in 1 .. n : (CHOOSE x \in S : RankOf(S, x) = k) =
                            (CHOOSE x \in S : Cardinality({y \in S : y < x}) = k - 1)
      BY <2>1
    <2> QED BY <2>2 DEF InOrder
  <1> HIDE DEF n
  <1>9. \A k \in 1 .. n : InOrder(S)[k] \in S /\ RankOf(S, InOrder(S)[k]) = k
    BY <1>7, <1>8
  <1>10. InOrder(S) \in [1 .. n -> S]
    BY <1>8, <1>9
  <1>11. \A x \in S : InOrder(S)[RankOf(S, x)] = x
    BY <1>2, <1>3, <1>9
  <1> QED BY <1>1, <1>2, <1>9, <1>10, <1>11 DEF Ordered, n

\* Places grow with the members.
LEMMA OrderGrows ==
  ASSUME NEW S \in SUBSET Nat, IsFiniteSet(S), NEW o, Ordered(o, S),
         NEW j \in 1 .. Cardinality(S), NEW k \in 1 .. Cardinality(S), j < k
  PROVE  o[j] < o[k]
  <1>1. o[j] \in S /\ o[k] \in S /\ RankOf(S, o[j]) = j /\ RankOf(S, o[k]) = k
    BY DEF Ordered
  <1>2. o[k] < o[j] => RankOf(S, o[k]) < RankOf(S, o[j])
    BY <1>1, RankGrows
  <1>3. o[j] \in Nat /\ o[k] \in Nat
    BY <1>1
  <1>4. j \in Int /\ k \in Int
    BY DEF Ordered
  <1> QED BY <1>1, <1>2, <1>3, <1>4

\* Members that follow each other have places that do.
LEMMA RankRun ==
  ASSUME NEW S \in SUBSET Nat, IsFiniteSet(S), NEW x \in Nat, NEW y \in Nat, x <= y,
         x .. y \subseteq S
  PROVE  RankOf(S, y) = RankOf(S, x) + (y - x)
  <1> DEFINE Wrong == {z \in x .. y : RankOf(S, z) # RankOf(S, x) + (z - x)}
  <1>1. SUFFICES ASSUME Wrong # {} PROVE FALSE
    OBVIOUS
  <1>2. PICK z \in Wrong : \A w \in Wrong : z <= w
    BY <1>1, HasLeast
  <1>3. x \in S /\ RankOf(S, x) \in Nat
    <2>1. x \in S
      OBVIOUS
    <2> QED BY <2>1, RankType
  <1>4. z # x
    BY <1>2, <1>3
  <1>5. z - 1 \in S /\ z \in S /\ z - 1 \in x .. y /\ z \in Nat /\ z - 1 \in Nat
    BY <1>2, <1>4
  <1>6. RankOf(S, z - 1) = RankOf(S, x) + ((z - 1) - x)
    <2>1. z - 1 \notin Wrong
      BY <1>2, <1>5
    <2> QED BY <1>5, <2>1
  <1>7. RankOf(S, z) = RankOf(S, z - 1) + 1
    <2>1. z - 1 < z /\ \A w \in S : ~(z - 1 < w /\ w < z)
      BY <1>5
    <2> QED BY <1>5, <2>1, RankNext
  <1>8. RankOf(S, z) = RankOf(S, x) + (z - x)
    BY <1>3, <1>5, <1>6, <1>7
  <1> QED BY <1>2, <1>8

-----------------------------------------------------------------------------
(* The address space and the table.                                        *)

\* Mappings do not overlap, also not with the one that is about to be there, and
\* the stack, which is all of the last page, stays.
SpaceInv ==
  /\ space \subseteq Vmas /\ call \in Vmas \cup {NoVma}
  /\ \A v, w \in space : v # w => PagesOf(v) \cap PagesOf(w) = {}
  /\ call # NoVma => \A v \in space : PagesOf(call) \cap PagesOf(v) = {}
  /\ [s |-> NoVmPages - 1, e |-> NoVmPages, id |-> 0, rw |-> TRUE] \in space

\* What the pages array and the table hold.
PageRecs  == [frame : Nat \X Nat, addr : Nat, s : Nat, e : Nat]
EntryRecs == [perfed_a : Nat, perfed_b : Nat, perfing_a : Nat, live : BOOLEAN]

Wanted(failing) == {p \in Pages : Taken(p) /\ p \notin failing}
Firsts(ps)      == {i \in DOMAIN ps : ps[i].addr = ps[i].s}

\* The mapping of a page is the one it is in.
LEMMA VmaIs ==
  ASSUME SpaceInv, NEW v \in space, NEW p \in PagesOf(v)
  PROVE  VmaAt(p) = v
  BY DEF VmaAt, SpaceInv

\* A taken page is one of a mapping.
LEMMA PageIs ==
  ASSUME SpaceInv, NEW p \in Nat, Taken(p)
  PROVE  /\ PageAt(p) \in PageRecs /\ VmaAt(p) \in space /\ p \in PagesOf(VmaAt(p))
         /\ PageAt(p).addr = p /\ PageAt(p).frame = <<VmaAt(p).id, p>>
         /\ PageAt(p).s = VmaAt(p).s /\ PageAt(p).e = VmaAt(p).e
         /\ VmaAt(p).s \in Nat /\ VmaAt(p).e \in Nat
  <1>1. PICK v \in space : v.rw /\ p \in PagesOf(v)
    BY DEF Taken
  <1>2. VmaAt(p) = v
    BY <1>1, VmaIs
  <1>3. v.s \in Nat /\ v.e \in Nat /\ v.id \in Nat
    BY KMapsAssumption DEF SpaceInv, Vmas
  <1> QED BY <1>1, <1>2, <1>3 DEF PageAt, PageRecs

\* The pages of the space, finitely many.
LEMMA WantedIs ==
  ASSUME NEW failing
  PROVE  Wanted(failing) \in SUBSET Nat /\ IsFiniteSet(Wanted(failing))
  <1>1. NoVmPages \in Nat /\ NoVmPages - 1 \in Int
    BY KMapsAssumption
  <1>2. Wanted(failing) \subseteq Nat /\ Wanted(failing) \subseteq 0 .. NoVmPages - 1
    BY <1>1 DEF Wanted, Pages
  <1>3. IsFiniteSet(0 .. NoVmPages - 1)
    BY <1>1, FS_Interval
  <1>4. IsFiniteSet(Wanted(failing))
    BY <1>2, <1>3, FS_Subset
  <1> QED BY <1>2, <1>4

\* do_kmaps goes through the pages in their order.
LEMMA CandidatesAre ==
  ASSUME SpaceInv, NEW failing
  PROVE  LET W == Wanted(failing)
             o == InOrder(W)
         IN  /\ Ordered(o, W) /\ Len(Candidates(failing)) = Cardinality(W)
             /\ Candidates(failing) \in Seq(PageRecs)
             /\ \A k \in 1 .. Cardinality(W) : Candidates(failing)[k] = PageAt(o[k])
  <1> DEFINE W == Wanted(failing)
             o == InOrder(W)
             n == Cardinality(W)
  <1>1. Ordered(o, W)
    BY WantedIs, InOrderIs
  <1>2. n \in Nat /\ o \in [1 .. n -> W] /\ DOMAIN o = 1 .. n
    BY <1>1 DEF Ordered
  <1>3. Candidates(failing) = [k \in DOMAIN o |-> PageAt(o[k])]
    BY DEF Candidates, Wanted
  <1> HIDE DEF n, o
  <1>4. \A k \in 1 .. n : o[k] \in W /\ PageAt(o[k]) \in PageRecs
    <2>1. \A p \in W : p \in Nat /\ Taken(p)
      BY KMapsAssumption DEF Wanted, Pages
    <2>2. \A p \in W : PageAt(p) \in PageRecs
      BY <2>1, PageIs
    <2> QED BY <1>2, <2>2
  <1>5. Candidates(failing) \in [1 .. n -> PageRecs]
    BY <1>2, <1>3, <1>4
  <1>6. Candidates(failing) \in Seq(PageRecs) /\ Len(Candidates(failing)) = n
    BY <1>2, <1>5
  <1> QED BY <1>1, <1>2, <1>3, <1>6 DEF n, o

\* The entry of the page at i, the first of its mapping.
EntryAt(ps, i) ==
  [perfed_a |-> 2 * ps[i].s, perfed_b |-> 2 * ps[i].e, perfing_a |-> 2 * (i - 1), live |-> TRUE]

\* The table has one for each of them, in their order.
LEMMA EntriesAre ==
  ASSUME NEW ps \in Seq(PageRecs)
  PROVE  LET F == Firsts(ps)
             o == InOrder(F)
         IN  /\ F \in SUBSET Nat /\ IsFiniteSet(F) /\ F \subseteq 1 .. Len(ps)
             /\ Ordered(o, F) /\ Len(Entries(ps)) = Cardinality(F)
             /\ Entries(ps) \in Seq(EntryRecs)
             /\ \A k \in 1 .. Cardinality(F) : Entries(ps)[k] = EntryAt(ps, o[k])
  <1> DEFINE F == Firsts(ps)
             o == InOrder(F)
             n == Cardinality(F)
  <1>1. Len(ps) \in Nat /\ DOMAIN ps = 1 .. Len(ps) /\ \A i \in 1 .. Len(ps) : ps[i] \in PageRecs
    OBVIOUS
  <1>2. F \in SUBSET Nat /\ IsFiniteSet(F) /\ F \subseteq 1 .. Len(ps)
    <2>1. F \subseteq 1 .. Len(ps)
      BY <1>1 DEF Firsts
    <2>2. IsFiniteSet(1 .. Len(ps))
      BY <1>1, FS_Interval
    <2> HIDE DEF F
    <2>3. IsFiniteSet(F)
      BY <2>1, <2>2, FS_Subset
    <2> QED BY <1>1, <2>1, <2>3
  <1>3. Ordered(o, F)
    BY <1>2, InOrderIs
  <1>4. n \in Nat /\ o \in [1 .. n -> F] /\ DOMAIN o = 1 .. n
    BY <1>3 DEF Ordered
  <1>5. Entries(ps) = [k \in DOMAIN o |-> EntryAt(ps, o[k])]
    BY DEF Entries, Firsts, EntryAt
  <1> HIDE DEF F, n, o
  <1>6. \A i \in F : EntryAt(ps, i) \in EntryRecs
    <2> SUFFICES ASSUME NEW i \in F PROVE EntryAt(ps, i) \in EntryRecs
      OBVIOUS
    <2>1. i \in 1 .. Len(ps) /\ ps[i] \in PageRecs
      BY <1>1, <1>2
    <2>2. ps[i].s \in Nat /\ ps[i].e \in Nat
      BY <2>1 DEF PageRecs
    <2>3. 2 * ps[i].s \in Nat /\ 2 * ps[i].e \in Nat /\ 2 * (i - 1) \in Nat
      <3>1. \A x \in Nat : 2 * x \in Nat
        OBVIOUS
      <3>2. i - 1 \in Nat
        BY <1>1, <2>1
      <3> QED BY <2>2, <3>1, <3>2
    <2> QED BY <2>3 DEF EntryAt, EntryRecs
  <1>7. Entries(ps) \in [1 .. n -> EntryRecs]
    BY <1>4, <1>5, <1>6
  <1>8. Entries(ps) \in Seq(EntryRecs) /\ Len(Entries(ps)) = n
    BY <1>4, <1>7
  <1> QED BY <1>2, <1>3, <1>4, <1>5, <1>8 DEF F, n, o

\* A table is written over the last one.
LEMMA OverwriteIs ==
  ASSUME NEW old \in Seq(EntryRecs), NEW new \in Seq(EntryRecs)
  PROVE  /\ Overwrite(old, new) \in Seq(EntryRecs)
         /\ Len(Overwrite(old, new)) = IF Len(new) > Len(old) THEN Len(new) ELSE Len(old)
         /\ \A k \in 1 .. Len(new) : Overwrite(old, new)[k] = new[k]
  <1> DEFINE n == IF Len(new) > Len(old) THEN Len(new) ELSE Len(old)
             at(k) == IF k <= Len(new) THEN new[k] ELSE [old[k] EXCEPT !.live = FALSE]
  <1>1. n \in Nat /\ Len(new) \in Nat /\ Len(old) \in Nat /\ Len(new) <= n
    OBVIOUS
  <1>2. Overwrite(old, new) = [k \in 1 .. n |-> at(k)]
    BY DEF Overwrite
  <1>3. \A k \in 1 .. n : at(k) \in EntryRecs
    <2> SUFFICES ASSUME NEW k \in 1 .. n PROVE at(k) \in EntryRecs
      OBVIOUS
    <2>1. CASE k <= Len(new)
      BY <2>1
    <2>2. CASE ~(k <= Len(new))
      <3>1. old[k] \in EntryRecs
        BY <2>2
      <3>2. [old[k] EXCEPT !.live = FALSE] \in EntryRecs
        BY <3>1 DEF EntryRecs
      <3> QED BY <2>2, <3>2
    <2> QED BY <2>1, <2>2
  <1> HIDE DEF n
  <1>4. Overwrite(old, new) \in [1 .. n -> EntryRecs]
    BY <1>2, <1>3
  <1>5. \A k \in 1 .. Len(new) : Overwrite(old, new)[k] = new[k]
    BY <1>1, <1>2
  <1> HIDE DEF at
  <1>6. Overwrite(old, new) \in Seq(EntryRecs) /\ Len(Overwrite(old, new)) = n
    BY <1>1, <1>4
  <1> QED BY <1>5, <1>6 DEF n

-----------------------------------------------------------------------------
(* The table of a whole address space.                                     *)

\* The entry of a mapping, given the pages recorded.
EntryOf(W, v) ==
  [perfed_a |-> 2 * v.s, perfed_b |-> 2 * v.e, perfing_a |-> 2 * (RankOf(W, v.s) - 1), live |-> TRUE]

\* A mapping that is taken, with its pages.
TakenVma(v) ==
  /\ v \in space /\ v.rw /\ v.s \in Nat /\ v.e \in Nat /\ v.s < v.e
  /\ v.s .. v.e - 1 \subseteq Wanted({})

\* Every page of a taken mapping is recorded.
LEMMA TakenIs ==
  ASSUME SpaceInv, NEW v \in space, v.rw, PagesOf(v) # {}
  PROVE  TakenVma(v) /\ \A p \in v.s .. v.e - 1 : VmaAt(p) = v
  <1>1. v.s \in Nat /\ v.e \in Nat /\ v.s .. v.e - 1 \subseteq Pages /\ NoVmPages \in Nat
    BY KMapsAssumption DEF SpaceInv, Vmas, Pages
  <1>2. v.s < v.e
    BY <1>1 DEF PagesOf
  <1>3. v.s .. v.e - 1 \subseteq Wanted({})
    BY <1>1 DEF Wanted, Taken, PagesOf
  <1>4. \A p \in v.s .. v.e - 1 : VmaAt(p) = v
    BY VmaIs DEF PagesOf
  <1> QED BY <1>1, <1>2, <1>3, <1>4 DEF TakenVma

\* The mapping of a recorded page is a taken one.
LEMMA WantedTaken ==
  ASSUME SpaceInv, NEW p \in Wanted({})
  PROVE  /\ p \in Nat /\ TakenVma(VmaAt(p)) /\ VmaAt(p).s <= p /\ p < VmaAt(p).e
         /\ PageAt(p).addr = p /\ PageAt(p).frame = <<VmaAt(p).id, p>>
         /\ PageAt(p).s = VmaAt(p).s /\ PageAt(p).e = VmaAt(p).e
  <1>1. p \in Nat /\ Taken(p)
    BY KMapsAssumption DEF Wanted, Pages
  <1>2. PICK v \in space : v.rw /\ p \in PagesOf(v)
    BY <1>1 DEF Taken
  <1>3. VmaAt(p) = v
    BY <1>2, VmaIs
  <1>4. TakenVma(v)
    BY <1>2, TakenIs
  <1>5. v.s <= p /\ p < v.e
    <2>1. v.s \in Nat /\ v.e \in Nat /\ p \in v.s .. v.e - 1
      BY <1>2, <1>4 DEF TakenVma, PagesOf
    <2> QED BY <2>1
  <1> QED BY <1>1, <1>3, <1>4, <1>5, PageIs

\* The pages array of the whole space: every page is in its place.
Recorded(ps) ==
  \A p \in Wanted({}) :
    RankOf(Wanted({}), p) \in 1 .. Len(ps) /\ ps[RankOf(Wanted({}), p)] = PageAt(p)

\* Its table: an entry for each taken mapping, in their order.
Listed(es) ==
  /\ \A k \in 1 .. Len(es) : \E v : TakenVma(v) /\ es[k] = EntryOf(Wanted({}), v)
  /\ \A v : TakenVma(v) => \E k \in 1 .. Len(es) : es[k] = EntryOf(Wanted({}), v)
  /\ \A j, k \in 1 .. Len(es) : j < k => es[j].perfed_b <= es[k].perfed_a

\* Mappings that start one after the other end so.
LEMMA VmasInOrder ==
  ASSUME SpaceInv, NEW v, NEW w, TakenVma(v), TakenVma(w), v.s < w.s
  PROVE  v.e <= w.s
  <1>1. v \in space /\ w \in space /\ v # w /\ v.s \in Nat /\ v.e \in Nat /\ w.s \in Nat /\ w.e \in Nat
    BY DEF TakenVma
  <1>2. PagesOf(v) \cap PagesOf(w) = {}
    BY <1>1 DEF SpaceInv
  <1>3. w.s \in PagesOf(w)
    BY <1>1 DEF TakenVma, PagesOf
  <1>4. w.s \notin PagesOf(v)
    BY <1>2, <1>3
  <1> QED BY <1>1, <1>4 DEF PagesOf

\* do_kmaps, when nothing fails and there is room, records every page and lists
\* every mapping.
LEMMA WholeTable ==
  ASSUME SpaceInv
  PROVE  Recorded(Candidates({})) /\ Listed(Entries(Candidates({})))
  <1> DEFINE W  == Wanted({})
             ps == Candidates({})
             oW == InOrder(W)
             F  == Firsts(ps)
             oF == InOrder(F)
             es == Entries(ps)
  <1>1. W \in SUBSET Nat /\ IsFiniteSet(W)
    BY WantedIs
  <1>2. /\ Ordered(oW, W) /\ Len(ps) = Cardinality(W) /\ ps \in Seq(PageRecs)
        /\ \A k \in 1 .. Cardinality(W) : ps[k] = PageAt(oW[k])
    BY CandidatesAre
  <1>3. /\ F \in SUBSET Nat /\ IsFiniteSet(F) /\ F \subseteq 1 .. Len(ps)
        /\ Ordered(oF, F) /\ Len(es) = Cardinality(F)
        /\ \A k \in 1 .. Cardinality(F) : es[k] = EntryAt(ps, oF[k])
    BY <1>2, EntriesAre
  <1>4. F = {i \in 1 .. Len(ps) : ps[i].addr = ps[i].s}
    BY <1>2 DEF Firsts
  <1>5. \A p \in W : /\ p \in Nat /\ TakenVma(VmaAt(p)) /\ VmaAt(p).s <= p /\ p < VmaAt(p).e
                     /\ PageAt(p).addr = p /\ PageAt(p).s = VmaAt(p).s /\ PageAt(p).e = VmaAt(p).e
    BY WantedTaken
  <1> HIDE DEF W, ps, oW, F, oF, es
  <1>6. \A p \in W : RankOf(W, p) \in 1 .. Len(ps) /\ oW[RankOf(W, p)] = p /\ ps[RankOf(W, p)] = PageAt(p)
    <2>1. \A p \in W : RankOf(W, p) \in 1 .. Len(ps) /\ oW[RankOf(W, p)] = p
      BY <1>2 DEF Ordered
    <2> QED BY <1>2, <2>1
  <1>7. Recorded(ps)
    BY <1>6 DEF Recorded, W
  <1>8. \A k \in 1 .. Len(es) :
          /\ oF[k] \in F /\ oW[oF[k]] \in W /\ RankOf(W, oW[oF[k]]) = oF[k]
          /\ TakenVma(VmaAt(oW[oF[k]])) /\ VmaAt(oW[oF[k]]).s = oW[oF[k]]
          /\ es[k] = EntryOf(W, VmaAt(oW[oF[k]]))
    <2> SUFFICES ASSUME NEW k \in 1 .. Len(es)
                 PROVE  /\ oF[k] \in F /\ oW[oF[k]] \in W /\ RankOf(W, oW[oF[k]]) = oF[k]
                        /\ TakenVma(VmaAt(oW[oF[k]])) /\ VmaAt(oW[oF[k]]).s = oW[oF[k]]
                        /\ es[k] = EntryOf(W, VmaAt(oW[oF[k]]))
      OBVIOUS
    <2> DEFINE i == oF[k]
               p == oW[i]
    <2>1. i \in F /\ i \in 1 .. Len(ps) /\ es[k] = EntryAt(ps, i)
      BY <1>3 DEF Ordered
    <2>2. p \in W /\ RankOf(W, p) = i /\ ps[i] = PageAt(p)
      BY <1>2, <2>1 DEF Ordered
    <2>3. PageAt(p).addr = PageAt(p).s
      BY <1>4, <2>1, <2>2
    <2> HIDE DEF i, p
    <2>4. TakenVma(VmaAt(p)) /\ VmaAt(p).s = p /\ PageAt(p).s = VmaAt(p).s /\ PageAt(p).e = VmaAt(p).e
      BY <1>5, <2>2, <2>3
    <2>5. EntryAt(ps, i) = EntryOf(W, VmaAt(p))
      BY <2>2, <2>4 DEF EntryAt, EntryOf
    <2> QED BY <2>1, <2>2, <2>4, <2>5 DEF i, p
  <1>9. \A v : TakenVma(v) => \E k \in 1 .. Len(es) : es[k] = EntryOf(W, v)
    <2> SUFFICES ASSUME NEW v, TakenVma(v) PROVE \E k \in 1 .. Len(es) : es[k] = EntryOf(W, v)
      OBVIOUS
    <2> DEFINE i == RankOf(W, v.s)
    <2>1. v.s \in W /\ v \in space /\ v.rw /\ PagesOf(v) # {} /\ v.s \in v.s .. v.e - 1
      BY DEF TakenVma, W, PagesOf
    <2>2. VmaAt(v.s) = v
      BY <2>1, TakenIs
    <2>3. i \in 1 .. Len(ps) /\ ps[i] = PageAt(v.s) /\ PageAt(v.s).addr = v.s /\ PageAt(v.s).s = v.s
      BY <1>5, <1>6, <2>1, <2>2
    <2>4. i \in F
      BY <1>4, <2>3
    <2> DEFINE k == RankOf(F, i)
    <2>5. k \in 1 .. Len(es) /\ oF[k] = i
      BY <1>3, <2>4 DEF Ordered
    <2>6. oW[i] = v.s
      BY <1>6, <2>1
    <2> HIDE DEF i, k
    <2>7. es[k] = EntryOf(W, v)
      BY <1>8, <2>2, <2>5, <2>6
    <2> QED BY <2>5, <2>7
  <1>10. \A j, k \in 1 .. Len(es) : j < k => es[j].perfed_b <= es[k].perfed_a
    <2> SUFFICES ASSUME NEW j \in 1 .. Len(es), NEW k \in 1 .. Len(es), j < k
                 PROVE  es[j].perfed_b <= es[k].perfed_a
      OBVIOUS
    <2>1. oF[j] < oF[k] /\ oF[j] \in 1 .. Cardinality(W) /\ oF[k] \in 1 .. Cardinality(W)
      <3>1. oF[j] < oF[k]
        BY <1>3, OrderGrows
      <3> QED BY <1>2, <1>3, <1>8, <3>1
    <2>2. oW[oF[j]] < oW[oF[k]]
      BY <1>1, <1>2, <2>1, OrderGrows
    <2> DEFINE v == VmaAt(oW[oF[j]])
               w == VmaAt(oW[oF[k]])
    <2>3. TakenVma(v) /\ TakenVma(w) /\ v.s < w.s /\ es[j] = EntryOf(W, v) /\ es[k] = EntryOf(W, w)
      BY <1>8, <2>2
    <2> HIDE DEF v, w
    <2>4. v.e <= w.s
      BY <2>3, VmasInOrder
    <2>5. es[j].perfed_b = 2 * v.e /\ es[k].perfed_a = 2 * w.s /\ v.e \in Nat /\ w.s \in Nat
      BY <2>3 DEF EntryOf, TakenVma
    <2> QED BY <2>4, <2>5
  <1>11. Listed(es)
    BY <1>8, <1>9, <1>10 DEF Listed, W
  <1> QED BY <1>7, <1>11 DEF ps, es

\* It lists at least the stack.
LEMMA ListedSome == ASSUME SpaceInv, NEW es, Listed(es), Len(es) \in Nat PROVE Len(es) >= 1
  <1> DEFINE v == [s |-> NoVmPages - 1, e |-> NoVmPages, id |-> 0, rw |-> TRUE]
  <1>1. v \in space /\ v.rw /\ PagesOf(v) # {}
    BY KMapsAssumption DEF SpaceInv, PagesOf
  <1>2. TakenVma(v)
    BY <1>1, TakenIs
  <1>3. \E k \in 1 .. Len(es) : TRUE
    BY <1>2 DEF Listed
  <1> QED BY <1>3

-----------------------------------------------------------------------------
(* What the tracer reads.                                                  *)

\* The table has its types; as long as it is exact, it is that of the whole
\* address space.
TableInv ==
  /\ kmaps \in Seq(EntryRecs) /\ no_kmaps \in 1 .. Len(kmaps) /\ m \in 0 .. Len(kmaps) - 1
  /\ exact \in BOOLEAN
  /\ exact /\ pc # "closed" =>
       /\ pages = Candidates({}) /\ no_kmaps = Len(Entries(pages))
       /\ \A k \in 1 .. no_kmaps : kmaps[k] = Entries(pages)[k]

\* The entries an address is in, and those that start below it.
HitsOf(addr)  == {k \in 0 .. Len(kmaps) - 1 : kmaps[k + 1].perfed_a <= addr /\ addr <= kmaps[k + 1].perfed_b}
BelowOf(addr) == {k \in 0 .. Len(kmaps) - 1 : kmaps[k + 1].perfed_a < addr}

\* Twice a number, and half of one.
LEMMA Halves ==
  ASSUME NEW a \in Nat
  PROVE  /\ a \div 2 \in Nat /\ a % 2 \in {0, 1} /\ a = 2 * (a \div 2) + (a % 2)
         /\ \A x \in Nat, b \in {0, 1} : (2 * x + b) \div 2 = x /\ (2 * x + b) % 2 = b
  <1>1. a \div 2 \in Nat /\ a % 2 \in {0, 1} /\ a = 2 * (a \div 2) + (a % 2)
    OBVIOUS
  <1>2. ASSUME NEW x \in Nat, NEW b \in {0, 1}
        PROVE  (2 * x + b) \div 2 = x /\ (2 * x + b) % 2 = b
    <2>1. CASE b = 0
      BY <2>1
    <2>2. CASE b = 1
      BY <2>2
    <2> QED BY <2>1, <2>2
  <1> QED BY <1>1, <1>2

\* What an exact table holds.
LEMMA TableHolds ==
  ASSUME SpaceInv, TableInv, exact, pc # "closed"
  PROVE  /\ Recorded(pages) /\ no_kmaps \in Nat /\ no_kmaps <= Len(kmaps)
         /\ \A k \in 1 .. no_kmaps : \E v : TakenVma(v) /\ kmaps[k] = EntryOf(Wanted({}), v)
         /\ \A v : TakenVma(v) => \E k \in 1 .. no_kmaps : kmaps[k] = EntryOf(Wanted({}), v)
         /\ \A j, k \in 1 .. no_kmaps : j < k => kmaps[j].perfed_b <= kmaps[k].perfed_a
         /\ \A k \in 1 .. no_kmaps : /\ kmaps[k].perfed_a \in Nat /\ kmaps[k].perfed_b \in Nat
                                     /\ kmaps[k].perfed_a < kmaps[k].perfed_b
  <1> DEFINE es == Entries(pages)
  <1>1. /\ pages = Candidates({}) /\ no_kmaps = Len(es) /\ no_kmaps \in Nat /\ no_kmaps <= Len(kmaps)
        /\ \A k \in 1 .. no_kmaps : kmaps[k] = es[k]
    BY DEF TableInv
  <1>2. Recorded(pages) /\ Listed(es)
    BY <1>1, WholeTable
  <1> HIDE DEF es
  <1>3. \A k \in 1 .. no_kmaps : \E v : TakenVma(v) /\ kmaps[k] = EntryOf(Wanted({}), v)
    BY <1>1, <1>2 DEF Listed
  <1>4. \A v : TakenVma(v) => \E k \in 1 .. no_kmaps : kmaps[k] = EntryOf(Wanted({}), v)
    BY <1>1, <1>2 DEF Listed
  <1>5. \A j, k \in 1 .. no_kmaps : j < k => kmaps[j].perfed_b <= kmaps[k].perfed_a
    BY <1>1, <1>2 DEF Listed
  <1>6. ASSUME NEW k \in 1 .. no_kmaps
        PROVE  /\ kmaps[k].perfed_a \in Nat /\ kmaps[k].perfed_b \in Nat
               /\ kmaps[k].perfed_a < kmaps[k].perfed_b
    <2>1. PICK v : TakenVma(v) /\ kmaps[k] = EntryOf(Wanted({}), v)
      BY <1>3
    <2>2. kmaps[k].perfed_a = 2 * v.s /\ kmaps[k].perfed_b = 2 * v.e
          /\ v.s \in Nat /\ v.e \in Nat /\ v.s < v.e
      BY <2>1 DEF EntryOf, TakenVma
    <2> QED BY <2>2
  <1> QED BY <1>1, <1>2, <1>3, <1>4, <1>5, <1>6

\* An exact table guides the search.
LEMMA TableGuides ==
  ASSUME SpaceInv, TableInv, exact, pc # "closed", NEW addr \in Nat
  PROVE  Guided(HitsOf(addr), BelowOf(addr), 0, no_kmaps - 1)
  <1> SUFFICES ASSUME NEW k \in 0 .. no_kmaps - 1, k \notin HitsOf(addr),
                      NEW h \in 0 .. no_kmaps - 1, h \in HitsOf(addr)
               PROVE  k \in BelowOf(addr) <=> k < h
    BY DEF Guided
  <1>1. /\ no_kmaps \in Nat /\ Len(kmaps) \in Nat /\ no_kmaps <= Len(kmaps)
        /\ \A i, j \in 1 .. no_kmaps : i < j => kmaps[i].perfed_b <= kmaps[j].perfed_a
        /\ \A i \in 1 .. no_kmaps : /\ kmaps[i].perfed_a \in Nat /\ kmaps[i].perfed_b \in Nat
                                    /\ kmaps[i].perfed_a < kmaps[i].perfed_b
    BY TableHolds DEF TableInv
  <1>2. k + 1 \in 1 .. no_kmaps /\ h + 1 \in 1 .. no_kmaps /\ k \in 0 .. Len(kmaps) - 1
    BY <1>1
  <1>3. kmaps[h + 1].perfed_a <= addr /\ addr <= kmaps[h + 1].perfed_b
    BY DEF HitsOf
  <1>4. ~(kmaps[k + 1].perfed_a <= addr /\ addr <= kmaps[k + 1].perfed_b)
    BY <1>2 DEF HitsOf
  <1>5. k \in BelowOf(addr) <=> kmaps[k + 1].perfed_a < addr
    BY <1>2 DEF BelowOf
  <1> DEFINE a == kmaps[k + 1].perfed_a
             b == kmaps[k + 1].perfed_b
             c == kmaps[h + 1].perfed_a
             d == kmaps[h + 1].perfed_b
  <1>6. a \in Nat /\ b \in Nat /\ c \in Nat /\ d \in Nat /\ a < b /\ c < d
    BY <1>1, <1>2
  <1>7. (k < h => b <= c) /\ (h < k => d <= a) /\ k # h
    BY <1>1, <1>2, <1>3, <1>4
  <1> HIDE DEF a, b, c, d
  <1>8. c <= addr /\ addr <= d /\ ~(a <= addr /\ addr <= b)
    BY <1>3, <1>4 DEF a, b, c, d
  <1>9. a < addr <=> k < h
    BY <1>6, <1>7, <1>8
  <1> QED BY <1>5, <1>9 DEF a

\* An entry that holds a word leads to it, also the one right before its mapping.
LEMMA EntryReads ==
  ASSUME SpaceInv, Recorded(pages), NEW v, TakenVma(v), NEW k \in Nat,
         kmaps[k + 1] = EntryOf(Wanted({}), v),
         NEW addr \in Nat, addr \div 2 \in Wanted({}),
         kmaps[k + 1].perfed_a <= addr, addr <= kmaps[k + 1].perfed_b
  PROVE  OurWord(k, addr) = TheirWord(addr)
  <1> DEFINE W == Wanted({})
             p == addr \div 2
             b == addr % 2
             s == v.s
             e == v.e
             i == RankOf(W, s)
  <1>1. p \in Nat /\ b \in {0, 1} /\ addr = 2 * p + b
    BY Halves
  <1>2. s \in Nat /\ e \in Nat /\ s < e /\ s .. e - 1 \subseteq W
    BY DEF TakenVma
  <1>3. W \in SUBSET Nat /\ IsFiniteSet(W)
    BY WantedIs
  <1>4. i \in Nat /\ i >= 1
    <2>1. s \in W
      BY <1>2
    <2>2. i \in 1 .. Cardinality(W) /\ Cardinality(W) \in Nat
      BY <1>3, <2>1, RankType
    <2> HIDE DEF i
    <2> QED BY <2>2
  <1>5. kmaps[k + 1].perfed_a = 2 * s /\ kmaps[k + 1].perfed_b = 2 * e
        /\ kmaps[k + 1].perfing_a = 2 * (i - 1)
    BY DEF EntryOf
  <1>6. p \in W
    OBVIOUS
  <1>7. pages[RankOf(W, p)] = PageAt(p) /\ PageAt(p).frame = <<VmaAt(p).id, p>>
    BY <1>6, WantedTaken DEF Recorded
  <1> HIDE DEF W, p, b, s, e, i
  <1>8. s <= p /\ p <= e
    BY <1>1, <1>2, <1>5
  <1>9. RankOf(W, p) = i + (p - s)
    <2>1. \A x \in s .. p : x \in s .. e - 1 \/ x = p
      BY <1>1, <1>2, <1>8
    <2>2. s .. p \subseteq W
      BY <1>2, <1>6, <2>1
    <2> QED BY <1>1, <1>2, <1>3, <1>8, <2>2, RankRun DEF i
  <1> DEFINE off == kmaps[k + 1].perfing_a + addr - kmaps[k + 1].perfed_a
             x   == i - 1 + (p - s)
  <1>10. off = 2 * x + b /\ x \in Nat
    BY <1>1, <1>2, <1>4, <1>5, <1>8
  <1>11. x + 1 = RankOf(W, p)
    BY <1>1, <1>2, <1>4, <1>9
  <1> HIDE DEF x, off
  <1>12. (off \div 2) + 1 = RankOf(W, p) /\ off % 2 = b
    BY <1>1, <1>10, <1>11, Halves
  <1>13. OurWord(k, addr) = <<pages[(off \div 2) + 1].frame, off % 2>>
    BY DEF OurWord, off
  <1>14. TheirWord(addr) = <<<<VmaAt(p).id, p>>, b>>
    BY DEF TheirWord, p, b
  <1> QED BY <1>7, <1>12, <1>13, <1>14

\* The search of the table, with its midpoint within what was written.
LEMMA SearchWithin ==
  ASSUME NEW size \in Nat \ {0}, NEW count \in 0 .. size, NEW mid \in 0 .. size - 1, NEW hits, NEW below,
         mid < count, Guided(hits, below, 0, count - 1),
         NEW f, f = Search(count, size, mid, hits, below)
  PROVE  /\ f.m \in 0 .. size - 1 /\ f.hit \in BOOLEAN /\ (f.hit => f.m \in hits) /\ f.m < count
         /\ (0 .. count - 1) \cap hits # {} => f.hit
  BY SearchFindsHits

\* Every word of a taken mapping is found and read right, and no other is found,
\* but one right behind a mapping.
LEMMA ReadsFrom == ASSUME SpaceInv, TableInv PROVE ReadsRight
  <1> SUFFICES ASSUME pc = "unwind", exact, m < no_kmaps, NEW addr \in Words,
                      NEW f, f = kmod_find_addr(addr, m)
               PROVE  /\ Taken(addr \div 2) =>
                           f.hit /\ kmaps[f.m + 1].live /\ OurWord(f.m, addr) = TheirWord(addr)
                      /\ f.hit => Taken(addr \div 2) \/ Follows(addr)
    BY DEF ReadsRight
  <1> DEFINE hits  == HitsOf(addr)
             below == BelowOf(addr)
             p     == addr \div 2
  <1>1. addr \in Nat /\ addr <= 2 * NoVmPages - 1 /\ NoVmPages \in Nat
    BY KMapsAssumption DEF Words
  <1>2. p \in Nat /\ 2 * p <= addr /\ addr <= 2 * p + 1
    <2>1. p \in Nat /\ addr % 2 \in {0, 1} /\ addr = 2 * p + (addr % 2)
      BY <1>1, Halves
    <2> HIDE DEF p
    <2> QED BY <1>1, <2>1
  <1>3. pc # "closed"
    OBVIOUS
  <1>4. /\ no_kmaps \in Nat /\ no_kmaps <= Len(kmaps) /\ Recorded(pages)
        /\ \A k \in 1 .. no_kmaps : \E v : TakenVma(v) /\ kmaps[k] = EntryOf(Wanted({}), v)
        /\ \A v : TakenVma(v) => \E k \in 1 .. no_kmaps : kmaps[k] = EntryOf(Wanted({}), v)
    BY <1>3, TableHolds
  <1>5. Len(kmaps) \in Nat \ {0} /\ no_kmaps \in 0 .. Len(kmaps) /\ m \in 0 .. Len(kmaps) - 1
    BY <1>4 DEF TableInv
  <1>6. Guided(hits, below, 0, no_kmaps - 1)
    BY <1>1, <1>3, TableGuides
  <1>14. Taken(p) => p \in Pages /\ addr # 0
    <2>1. ASSUME NEW v \in space, p \in PagesOf(v) PROVE p \in Pages
      <3>1. v.s \in Nat /\ v.s >= 1 /\ v.e \in Nat /\ v.e <= NoVmPages
        BY <1>1 DEF SpaceInv, Vmas
      <3> HIDE DEF p
      <3> QED BY <1>1, <1>2, <2>1, <3>1 DEF PagesOf, Pages
    <2>2. Taken(p) => p \in Pages
      BY <2>1 DEF Taken
    <2> HIDE DEF p
    <2>3. p \in Pages => addr # 0
      BY <1>1, <1>2 DEF Pages
    <2> QED BY <2>2, <2>3
  <1>15. CASE addr = 0
    <2>1. ~f.hit
      BY <1>15 DEF kmod_find_addr
    <2> QED BY <1>14, <1>15, <2>1
  <1> SUFFICES ASSUME addr # 0
               PROVE  /\ Taken(p) =>
                           f.hit /\ kmaps[f.m + 1].live /\ OurWord(f.m, addr) = TheirWord(addr)
                      /\ f.hit => Taken(p) \/ Follows(addr)
    BY <1>15
  <1>7. f = Search(no_kmaps, Len(kmaps), m, hits, below)
    BY DEF kmod_find_addr, HitsOf, BelowOf
  <1> HIDE DEF hits, below
  <1>8. /\ f.m \in 0 .. Len(kmaps) - 1 /\ f.hit \in BOOLEAN /\ (f.hit => f.m \in hits) /\ f.m < no_kmaps
        /\ (0 .. no_kmaps - 1) \cap hits # {} => f.hit
    <2>1. m < no_kmaps
      OBVIOUS
    <2> QED BY <1>5, <1>6, <1>7, <2>1, SearchWithin
  <1> DEFINE k == f.m
  <1>9. k \in Nat /\ k + 1 \in 1 .. no_kmaps
    <2>1. k \in 0 .. Len(kmaps) - 1 /\ k < no_kmaps
      BY <1>8
    <2> HIDE DEF k
    <2> QED BY <1>4, <1>5, <2>1
  <1>10. PICK v : TakenVma(v) /\ kmaps[k + 1] = EntryOf(Wanted({}), v)
    BY <1>4, <1>9
  <1>11. f.hit => kmaps[k + 1].perfed_a <= addr /\ addr <= kmaps[k + 1].perfed_b
    BY <1>8 DEF hits, HitsOf
  <1>12. ASSUME Taken(p)
         PROVE  f.hit /\ kmaps[k + 1].live /\ OurWord(k, addr) = TheirWord(addr)
    <2>1. p \in Wanted({})
      BY <1>12, <1>14 DEF Wanted
    <2> DEFINE w == VmaAt(p)
    <2>2. TakenVma(w) /\ w.s <= p /\ p < w.e
      BY <2>1, WantedTaken
    <2> HIDE DEF w, k, p
    <2>3. PICK j \in 1 .. no_kmaps : kmaps[j] = EntryOf(Wanted({}), w)
      BY <1>4, <2>2
    <2>4. kmaps[j].perfed_a <= addr /\ addr <= kmaps[j].perfed_b
      <3>1. w.s \in Nat /\ w.e \in Nat /\ kmaps[j].perfed_a = 2 * w.s /\ kmaps[j].perfed_b = 2 * w.e
        BY <2>2, <2>3 DEF TakenVma, EntryOf
      <3> QED BY <1>1, <1>2, <2>2, <3>1
    <2>5. j - 1 \in (0 .. no_kmaps - 1) \cap hits
      <3>1. j - 1 \in 0 .. no_kmaps - 1 /\ j - 1 \in 0 .. Len(kmaps) - 1 /\ (j - 1) + 1 = j
        BY <1>4, <1>5
      <3> QED BY <2>4, <3>1 DEF hits, HitsOf
    <2>6. f.hit
      BY <1>8, <2>5
    <2>7. OurWord(k, addr) = TheirWord(addr)
      BY <1>1, <1>4, <1>9, <1>10, <1>11, <2>1, <2>6, EntryReads DEF p
    <2>8. kmaps[k + 1].live
      BY <1>10 DEF EntryOf
    <2> QED BY <2>6, <2>7, <2>8
  <1>13. ASSUME f.hit PROVE Taken(p) \/ Follows(addr)
    <2>1. v.s \in Nat /\ v.e \in Nat /\ kmaps[k + 1].perfed_a = 2 * v.s /\ kmaps[k + 1].perfed_b = 2 * v.e
      BY <1>10 DEF TakenVma, EntryOf
    <2>2. 2 * v.s <= addr /\ addr <= 2 * v.e
      BY <1>11, <1>13, <2>1
    <2>3. CASE addr = 2 * v.e
      BY <1>9, <2>1, <2>3 DEF Follows
    <2>4. CASE addr # 2 * v.e
      <3>1. v.s <= p /\ p < v.e
        <4> HIDE DEF p
        <4> QED BY <1>1, <1>2, <2>1, <2>2, <2>4
      <3>2. p \in PagesOf(v)
        <4> HIDE DEF p
        <4> QED BY <1>2, <2>1, <3>1 DEF PagesOf
      <3> QED BY <1>10, <3>2 DEF TakenVma, Taken
    <2> QED BY <2>3, <2>4
  <1> QED BY <1>12, <1>13

-----------------------------------------------------------------------------
(* The steps.                                                              *)

\* A mapping of the process has its type.
LEMMA VmaType ==
  ASSUME NEW s \in 1 .. NoVmPages - 1, NEW len \in 1 .. 2, s + len <= NoVmPages, NEW id \in Nat,
         NEW rw \in BOOLEAN
  PROVE  [s |-> s, e |-> s + len, id |-> id, rw |-> rw] \in Vmas
  BY KMapsAssumption DEF Vmas

\* The process makes mappings where there are none, and never unmaps its stack.
LEMMA SpaceInvStep == ASSUME SpaceInv, calls \in Nat, [KMapsNext]_kmapsVars PROVE SpaceInv'
  <1> DEFINE stack == [s |-> NoVmPages - 1, e |-> NoVmPages, id |-> 0, rw |-> TRUE]
  <1>1. stack \in space /\ stack.id = 0 /\ NoVma \notin Vmas
    BY KMapsAssumption DEF SpaceInv, NoVma, Vmas
  <1>2. CASE EnterMmap
    <2>1. PICK s \in 1 .. NoVmPages - 1, len \in 1 .. 2, rw \in BOOLEAN :
            /\ s + len <= NoVmPages /\ \A p \in s .. s + len - 1 : ~Mapped(p)
            /\ call' = [s |-> s, e |-> s + len, id |-> calls', rw |-> rw]
      BY <1>2 DEF EnterMmap
    <2>2. calls' \in Nat /\ space' = space
      BY <1>2 DEF EnterMmap
    <2>3. call' \in Vmas
      BY <2>1, <2>2, VmaType
    <2>4. \A v \in space : PagesOf(call') \cap PagesOf(v) = {}
      BY <2>1 DEF PagesOf, Mapped
    <2> QED BY <2>2, <2>3, <2>4 DEF SpaceInv
  <1>3. CASE LeaveMmap
    <2>1. call # NoVma /\ call \in Vmas /\ call' = NoVma /\ space' = space \cup {call}
      BY <1>3 DEF LeaveMmap, SpaceInv
    <2>2. \A v \in space : PagesOf(call) \cap PagesOf(v) = {}
      BY <2>1 DEF SpaceInv
    <2> QED BY <2>1, <2>2 DEF SpaceInv
  <1>4. CASE Munmap
    <2>1. PICK v \in space : v.id # 0 /\ space' = space \ {v}
      BY <1>4 DEF Munmap
    <2>2. call' = call /\ stack # v
      BY <1>1, <1>4, <2>1 DEF Munmap
    <2> QED BY <2>1, <2>2 DEF SpaceInv
  <1>5. CASE Mprotect
    <2>1. PICK v \in space : v.id # 0 /\ space' = (space \ {v}) \cup {[v EXCEPT !.rw = ~v.rw]}
      BY <1>5 DEF Mprotect
    <2> DEFINE w == [v EXCEPT !.rw = ~v.rw]
    <2>2. call' = call /\ call = NoVma
      BY <1>5 DEF Mprotect, Runs
    <2>3. v \in Vmas
      BY DEF SpaceInv
    <2>4. w \in Vmas /\ w.s = v.s /\ w.e = v.e
      BY <2>3 DEF Vmas
    <2>5. PagesOf(w) = PagesOf(v) /\ stack # v
      BY <1>1, <2>1, <2>4 DEF PagesOf
    <2> HIDE DEF w, stack
    <2>6. space' = (space \ {v}) \cup {w}
      BY <2>1 DEF w
    <2>7. \A x, y \in space' : x # y => PagesOf(x) \cap PagesOf(y) = {}
      BY <2>5, <2>6 DEF SpaceInv
    <2>8. stack \in space' /\ space' \subseteq Vmas
      BY <1>1, <2>4, <2>5, <2>6 DEF SpaceInv
    <2> QED BY <2>2, <2>7, <2>8 DEF SpaceInv, stack
  <1>6. CASE UNCHANGED <<space, call>>
    BY <1>6 DEF SpaceInv
  <1>7. Sampling \/ Find \/ x_exit \/ Stop \/ UNCHANGED kmapsVars => UNCHANGED <<space, call>>
    BY DEF Sampling, Stop, Interrupt, Attach, WaitStopped, WaitInterrupted, kmod_redo_kmaps, my_write,
       ClearRedo, Detach, xed_unwind, Find, x_exit, procVars, kmapsVars
  <1> QED BY <1>2, <1>3, <1>4, <1>5, <1>6, <1>7 DEF KMapsNext, Process

\* A rebuilt table is that of the whole space if nothing failed and there was room.
LEMMA TableInvWrite == ASSUME SpaceInv, TableInv, my_write, pc # "closed" PROVE TableInv'
  <1>1. PICK failing : do_kmaps(failing)
    BY DEF my_write
  <1> DEFINE cs == Candidates(failing)
             n  == IF Len(cs) <= Room THEN Len(cs) ELSE Room
             ps == SubSeq(cs, 1, n)
             es == Entries(ps)
  <1>2. cs \in Seq(PageRecs) /\ Len(cs) \in Nat /\ Room \in Nat
    BY CandidatesAre, KMapsAssumption DEF Room
  <1>3. n \in Nat /\ n <= Len(cs) /\ ps \in Seq(PageRecs) /\ (n = Len(cs) => ps = cs)
    <2>1. n \in Nat /\ n <= Len(cs)
      BY <1>2
    <2> HIDE DEF cs, n
    <2> QED BY <1>2, <2>1
  <1>4. /\ pages' = ps /\ kmaps' = Overwrite(kmaps, es) /\ m' = m
        /\ no_kmaps' = (IF es = << >> THEN no_kmaps ELSE Len(es))
        /\ exact' = (failing = {} /\ Len(cs) <= Room)
        /\ UNCHANGED <<space, call>>
    BY <1>1 DEF do_kmaps, Rebuild, my_write, procVars
  <1> HIDE DEF cs, n, ps
  <1>5. es \in Seq(EntryRecs) /\ Len(es) \in Nat
    BY <1>3, EntriesAre
  <1> HIDE DEF es
  <1>6. /\ Overwrite(kmaps, es) \in Seq(EntryRecs)
        /\ Len(Overwrite(kmaps, es)) = IF Len(es) > Len(kmaps) THEN Len(es) ELSE Len(kmaps)
        /\ \A k \in 1 .. Len(es) : Overwrite(kmaps, es)[k] = es[k]
    BY <1>5, OverwriteIs DEF TableInv
  <1>7. kmaps' \in Seq(EntryRecs) /\ Len(kmaps') \in Nat /\ Len(kmaps') >= Len(kmaps)
        /\ Len(kmaps') >= Len(es) /\ Len(kmaps) \in Nat
    BY <1>4, <1>5, <1>6 DEF TableInv
  <1>8. no_kmaps' \in 1 .. Len(kmaps') /\ m' \in 0 .. Len(kmaps') - 1
    <2>1. CASE es = << >>
      BY <1>4, <1>7, <2>1 DEF TableInv
    <2>2. CASE es # << >>
      <3>1. Len(es) >= 1
        BY <1>5, <2>2
      <3> QED BY <1>4, <1>5, <1>7, <2>2, <3>1 DEF TableInv
    <2> QED BY <2>1, <2>2
  <1>9. ASSUME exact'
        PROVE  /\ pages' = Candidates({})' /\ no_kmaps' = Len(Entries(pages)')
               /\ \A k \in 1 .. no_kmaps' : kmaps'[k] = Entries(pages)'[k]
    <2>1. failing = {} /\ ps = Candidates({})
      BY <1>2, <1>3, <1>4, <1>9 DEF n, cs
    <2>2. Candidates({})' = Candidates({})
      BY <1>4 DEF Candidates, Taken, PageAt, VmaAt
    <2>3. Listed(es)
      BY <2>1, WholeTable DEF es
    <2>4. Len(es) >= 1
      BY <1>5, <2>3, ListedSome
    <2>5. es # << >>
      BY <2>4
    <2>6. no_kmaps' = Len(es) /\ Entries(pages)' = es
      BY <1>4, <2>5 DEF es
    <2>7. \A k \in 1 .. no_kmaps' : kmaps'[k] = es[k]
      BY <1>4, <1>6, <2>6
    <2> QED BY <1>4, <2>1, <2>2, <2>6, <2>7
  <1>10. exact' \in BOOLEAN
    BY <1>4
  <1> QED BY <1>7, <1>8, <1>9, <1>10 DEF TableInv

\* The midpoint stays within the table.
LEMMA FindWithin ==
  ASSUME TableInv, NEW addr PROVE kmod_find_addr(addr, m).m \in 0 .. Len(kmaps) - 1
  <1>1. Len(kmaps) \in Nat \ {0} /\ no_kmaps \in 0 .. Len(kmaps) /\ m \in 0 .. Len(kmaps) - 1
    <2>1. Len(kmaps) \in Nat /\ no_kmaps \in 1 .. Len(kmaps) /\ m \in 0 .. Len(kmaps) - 1
      BY DEF TableInv
    <2> QED BY <2>1
  <1>2. CASE addr = 0
    BY <1>1, <1>2 DEF kmod_find_addr
  <1>3. CASE addr # 0
    <2>1. kmod_find_addr(addr, m) = Search(no_kmaps, Len(kmaps), m, HitsOf(addr), BelowOf(addr))
      BY <1>3 DEF kmod_find_addr, HitsOf, BelowOf
    <2> QED BY <1>1, <2>1, SearchFindsHits
  <1> QED BY <1>2, <1>3

\* A table is exact as long as nothing that it is made from changes.
LEMMA TableInvKeeps ==
  ASSUME TableInv, UNCHANGED <<kmaps, no_kmaps>>, m' \in 0 .. Len(kmaps) - 1, exact' \in BOOLEAN,
         exact' /\ pc' # "closed" => exact /\ pc # "closed" /\ UNCHANGED <<space, pages>>
  PROVE  TableInv'
  <1>1. ASSUME exact', pc' # "closed"
        PROVE  /\ pages' = Candidates({})' /\ no_kmaps' = Len(Entries(pages)')
               /\ \A k \in 1 .. no_kmaps' : kmaps'[k] = Entries(pages)'[k]
    <2>1. exact /\ pc # "closed" /\ space' = space /\ pages' = pages
      BY <1>1
    <2>2. Candidates({})' = Candidates({})
      BY <2>1 DEF Candidates, Taken, PageAt, VmaAt
    <2>3. Entries(pages)' = Entries(pages)
      BY <2>1
    <2>4. /\ pages = Candidates({}) /\ no_kmaps = Len(Entries(pages))
          /\ \A k \in 1 .. no_kmaps : kmaps[k] = Entries(pages)[k]
      BY <2>1 DEF TableInv
    <2> QED BY <2>1, <2>2, <2>3, <2>4
  <1> QED BY <1>1 DEF TableInv

\* Every step keeps the table what it is, writes it anew, or tells that it is not
\* exact any more.
LEMMA TableInvStep ==
  ASSUME SpaceInv, TableInv, [KMapsNext]_kmapsVars PROVE TableInv'
  <1>1. m \in 0 .. Len(kmaps) - 1 /\ exact \in BOOLEAN
    BY DEF TableInv
  <1>2. CASE my_write
    BY <1>2, TableInvWrite DEF my_write
  <1>3. CASE Find
    <2>1. PICK addr \in Words : m' = kmod_find_addr(addr, m).m
      BY <1>3 DEF Find
    <2>2. m' \in 0 .. Len(kmaps) - 1
      BY <2>1, FindWithin
    <2>3. UNCHANGED <<kmaps, no_kmaps, exact, pc, space, pages>>
      BY <1>3 DEF Find, procVars, kmodVars, ghosts
    <2> QED BY <1>1, <2>2, <2>3, TableInvKeeps
  <1>4. CASE LeaveMmap \/ Munmap \/ Mprotect
    <2>1. UNCHANGED <<kmaps, no_kmaps, m>> /\ exact' = FALSE
      BY <1>4 DEF LeaveMmap, Munmap, Mprotect, userVars
    <2> QED BY <1>1, <2>1, TableInvKeeps
  <1>5. CASE x_exit
    <2>1. UNCHANGED <<kmaps, no_kmaps, m, exact>> /\ pc' = "closed"
      BY <1>5 DEF x_exit, Goto, ghosts
    <2> QED BY <1>1, <2>1, TableInvKeeps
  <1>6. ASSUME \/ Interrupt \/ Attach \/ WaitStopped \/ WaitInterrupted \/ kmod_redo_kmaps
               \/ ClearRedo \/ Detach \/ xed_unwind
        PROVE  TableInv'
    <2>1. UNCHANGED <<kmaps, no_kmaps, m, exact, space, pages>> /\ pc # "closed"
      BY <1>6 DEF Interrupt, Attach, WaitStopped, WaitInterrupted, kmod_redo_kmaps, ClearRedo, Detach,
         xed_unwind, Goto, procVars, kmodVars, ghosts
    <2> QED BY <1>1, <2>1, TableInvKeeps
  <1>7. ASSUME EnterMmap \/ Stop \/ UNCHANGED kmapsVars PROVE TableInv'
    <2>1. UNCHANGED <<kmaps, no_kmaps, m, exact, space, pages, pc>>
      BY <1>7 DEF EnterMmap, Stop, kmapsVars, procVars, kmodVars, userVars, ghosts
    <2> QED BY <1>1, <2>1, TableInvKeeps
  <1> QED BY <1>2, <1>3, <1>4, <1>5, <1>6, <1>7 DEF KMapsNext, Process, Sampling

-----------------------------------------------------------------------------
(* The theorems.                                                           *)

\* All of it, which every step keeps.
KMapsInv ==
  /\ Inv /\ SpaceInv /\ TableInv
  /\ calls \in Nat /\ stopped \in {"no", "asked", "yes"} /\ pc \in Labels
  /\ queue_full \in BOOLEAN

\* The first table is that of the stack and the other mapping.
LEMMA KMapsInvInit == ASSUME KMapsInit PROVE KMapsInv
  <1> DEFINE stack == [s |-> NoVmPages - 1, e |-> NoVmPages, id |-> 0, rw |-> TRUE]
             other == [s |-> 1, e |-> 2, id |-> 1, rw |-> TRUE]
  <1>1. /\ space = {stack, other} /\ call = NoVma /\ calls = 1 /\ stopped = "no"
        /\ pages = Candidates({}) /\ pc = "run" /\ kmaps = Entries(pages) /\ no_kmaps = Len(kmaps)
        /\ m = 0 /\ exact = TRUE /\ queue_full = FALSE
    BY DEF KMapsInit, Initially
  <1>2. stack \in Vmas /\ other \in Vmas /\ NoVmPages \in Nat /\ NoVmPages >= 3
    BY KMapsAssumption DEF Vmas
  <1>3. PagesOf(stack) \cap PagesOf(other) = {}
    BY <1>2 DEF PagesOf
  <1> HIDE DEF other
  <1>4. SpaceInv
    BY <1>1, <1>2, <1>3 DEF SpaceInv
  <1>5. pages \in Seq(PageRecs) /\ Listed(kmaps)
    BY <1>1, <1>4, CandidatesAre, WholeTable
  <1>6. kmaps \in Seq(EntryRecs) /\ Len(kmaps) \in Nat
    BY <1>1, <1>5, EntriesAre
  <1>7. Len(kmaps) >= 1
    BY <1>4, <1>5, <1>6, ListedSome
  <1>8. TableInv
    BY <1>1, <1>6, <1>7 DEF TableInv
  <1> QED BY <1>1, <1>4, <1>8, InvInit DEF KMapsInv, Labels

\* Every step keeps it.
LEMMA KMapsInvStep == ASSUME KMapsInv, [KMapsNext]_kmapsVars PROVE KMapsInv'
  <1>1. Inv'
    <2>1. CASE KMapsNext
      BY <2>1, InvProcess, InvTracer DEF KMapsInv, KMapsNext
    <2>2. CASE UNCHANGED kmapsVars
      BY <2>2 DEF KMapsInv, kmapsVars, procVars, userVars, ghosts, Inv, Asked
    <2> QED BY <2>1, <2>2
  <1>2. SpaceInv' /\ TableInv'
    BY SpaceInvStep, TableInvStep DEF KMapsInv
  <1>3. calls' \in Nat
    <2>1. calls' \in {calls, calls + 1}
      BY DEF KMapsNext, Process, Sampling, EnterMmap, LeaveMmap, Munmap, Mprotect, Stop, Interrupt,
         Attach, WaitStopped, WaitInterrupted, kmod_redo_kmaps, my_write, ClearRedo, Detach,
         xed_unwind, Find, x_exit, procVars, kmapsVars
    <2> QED BY <2>1 DEF KMapsInv
  <1>4. stopped' \in {"no", "asked", "yes"}
    BY DEF KMapsInv, KMapsNext, Process, Sampling, EnterMmap, LeaveMmap, Munmap, Mprotect, Stop,
       Interrupt, Attach, WaitStopped, WaitInterrupted, kmod_redo_kmaps, my_write, ClearRedo, Detach,
       xed_unwind, Find, x_exit, procVars, kmapsVars
  <1>5. pc' \in Labels
    BY DEF KMapsInv, KMapsNext, Process, Sampling, EnterMmap, LeaveMmap, Munmap, Mprotect, Stop,
       Interrupt, Attach, WaitStopped, WaitInterrupted, kmod_redo_kmaps, my_write, ClearRedo, Detach,
       xed_unwind, Find, x_exit, Goto, userVars, kmapsVars, Labels
  <1>6. queue_full' \in BOOLEAN
    BY DEF KMapsInv, KMapsNext, Process, Sampling, EnterMmap, LeaveMmap, Munmap, Mprotect, Stop,
       Interrupt, Attach, WaitStopped, WaitInterrupted, kmod_redo_kmaps, my_write, ClearRedo, Detach,
       xed_unwind, Find, x_exit, userVars, kmapsVars
  <1> QED BY <1>1, <1>2, <1>3, <1>4, <1>5, <1>6 DEF KMapsInv

\* All the runs of the module, the process and the tracer keep it.
THEOREM KMapsInvHolds == KMapsSpec => []KMapsInv
  BY KMapsInvInit, KMapsInvStep, PTL DEF KMapsSpec

\* The types; mappings do not overlap, and the midpoint that one search leaves to
\* the next is that of an entry that was written, also when the table shrank.
THEOREM TypesHold == KMapsSpec => []KMapsTypeOK
  <1>1. KMapsInv => KMapsTypeOK
    BY DEF KMapsInv, KMapsTypeOK, Inv, SpaceInv, TableInv
  <1> QED BY <1>1, KMapsInvHolds, PTL

\* For every address space: with a table of all pages, every word of a taken
\* mapping is found and is the word the process has there, and no other word is
\* found, but the one right behind a mapping.
THEOREM ReadsAreRight == KMapsSpec => []ReadsRight
  <1>1. KMapsInv => ReadsRight
    BY ReadsFrom DEF KMapsInv
  <1> QED BY <1>1, KMapsInvHolds, PTL
=============================================================================
