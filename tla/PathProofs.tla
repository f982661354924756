----------------------------- MODULE PathProofs -----------------------------
(***************************************************************************)
(* What the proofs about Trace rest on.  First the paths through the table *)
(* with the calls made on them, where they end, and what a turn of the     *)
(* walk does to a context that is on its way.  Then the decoder with what  *)
(* it has still to be told: the phases a packet and a run of packets take  *)
(* it through, and that they nest as the interrupts do.                    *)
(***************************************************************************)
EXTENDS Trace, IntelPtProofs, NaturalsInduction, WellFoundedInduction

Idx == 0 .. NoInsts - 1

-----------------------------------------------------------------------------
(* The table.                                                              *)

\* An address is covered by one instruction at most.
LEMMA CoveredOnce ==
  ASSUME NEW i \in Idx, NEW j \in Idx, NEW addr \in Nat, Covers(i, addr), Covers(j, addr)
  PROVE  i = j
  <1>1. \A k \in Idx : Insts[k].addr \in Nat /\ Insts[k].length \in Nat
    BY InstsAssumption DEF Idx, InstType
  <1>2. i < j => Insts[i].addr + Insts[i].length <= Insts[j].addr
    BY InstsAssumption DEF Idx
  <1>3. j < i => Insts[j].addr + Insts[j].length <= Insts[i].addr
    BY InstsAssumption DEF Idx
  <1>4. i \in Int /\ j \in Int
    BY DEF Idx
  <1> QED BY <1>1, <1>2, <1>3, <1>4 DEF Covers

\* An instruction covers its own address.
LEMMA CoversOwn ==
  ASSUME NEW i \in Idx
  PROVE  Covers(i, Insts[i].addr) /\ Insts[i].addr \in Nat \ {0}
  <1>1. Insts[i].addr \in Nat \ {0} /\ Insts[i].length \in Nat \ {0}
    BY InstsAssumption DEF Idx, InstType
  <1> QED BY <1>1 DEF Covers

\* The instruction at an address of the table, and the one the search finds.
LEMMA AtSite ==
  ASSUME NEW i \in Idx
  PROVE  /\ Insts[i].addr \in Sites /\ At(Insts[i].addr) = i
         /\ xed_unwind_find_inst(Insts[i].addr) = i
  <1> DEFINE a == Insts[i].addr
  <1>1. Covers(i, a) /\ a \in Nat
    BY CoversOwn
  <1>2. \A j \in Idx : Covers(j, a) => j = i
    BY <1>1, CoveredOnce
  <1>3. xed_unwind_find_inst(a) = i
    <2>1. (CHOOSE j \in 0 .. NoInsts - 1 : Covers(j, a)) = i
      <3>1. i \in 0 .. NoInsts - 1 /\ \A j \in 0 .. NoInsts - 1 : Covers(j, a) => j = i
        BY <1>2 DEF Idx
      <3> HIDE DEF a
      <3> QED BY <1>1, <3>1
    <2> QED BY <1>1, <2>1 DEF xed_unwind_find_inst, Idx
  <1>4. At(a) = i
    <2>1. \A j \in 0 .. NoInsts - 1 : Insts[j].addr = a => j = i
      <3> SUFFICES ASSUME NEW j \in 0 .. NoInsts - 1, Insts[j].addr = a PROVE j = i
        OBVIOUS
      <3>1. Covers(j, a)
        BY CoversOwn DEF Idx
      <3> QED BY <1>2, <3>1 DEF Idx
    <2>2. i \in 0 .. NoInsts - 1 /\ Insts[i].addr = a
      BY DEF Idx
    <2> HIDE DEF a
    <2> QED BY <2>1, <2>2 DEF At
  <1> QED BY <1>3, <1>4 DEF Sites, Idx

\* The same, from the address.
LEMMA SiteAt ==
  ASSUME NEW addr \in Sites
  PROVE  /\ At(addr) \in Idx /\ Insts[At(addr)].addr = addr /\ addr \in Nat \ {0}
         /\ xed_unwind_find_inst(addr) = At(addr) /\ addr \notin Foreign
  <1>1. PICK i \in Idx : addr = Insts[i].addr
    BY DEF Sites, Idx
  <1>2. addr \notin Foreign
    BY <1>1, CoversOwn, ForeignAssumption DEF Idx
  <1> QED BY <1>1, <1>2, AtSite, CoversOwn

\* The search finds nothing at an address of other processes.
LEMMA ForeignNowhere ==
  ASSUME NEW addr \in Foreign
  PROVE  addr \notin Sites /\ xed_unwind_find_inst(addr) = NoInst /\ addr \in Nat \ {0}
  BY ForeignAssumption, SiteAt DEF xed_unwind_find_inst, NoAddr

-----------------------------------------------------------------------------
(* Paths: what runs from an instruction with some calls in progress, given  *)
(* the outcomes of the conditional branches on the way.  A place is an      *)
(* instruction and the addresses those calls return to.                     *)

Stacks == Seq(Nat)
Places == Idx \X Stacks

DirectAt(i)   == Insts[i].type \in {"NONE", "UNCOND_DIRECT_BRANCH"}
NextAt(i)     == IF Insts[i].type = "NONE" THEN i + 1 ELSE At(Insts[i].target)
ForkAt(i, b)  == IF b THEN At(Insts[i].target) ELSE i + 1
IsCond(i)     == Insts[i].type = "COND_BRANCH"
Stops(i)      == Insts[i].type \in {"COND_BRANCH", "INDIRECT_BRANCH", "FAR_TRANSFER"}

CallAt(i)     == Insts[i].type = "UNCOND_DIRECT_BRANCH" /\ Insts[i].category = "CALL"
CallsAt(i, s) == IF CallAt(i) THEN Append(s, RetAddr(i + 1)) ELSE s

NextPlace(x)    == << NextAt(x[1]), CallsAt(x[1], x[2]) >>
ForkPlace(x, b) == << ForkAt(x[1], b), x[2] >>

\* One step of a path.
Moves(x, bs, y, cs) ==
  \/ DirectAt(x[1]) /\ y = NextPlace(x) /\ cs = bs
  \/ IsCond(x[1]) /\ bs # << >> /\ y = ForkPlace(x, Head(bs)) /\ cs = Tail(bs)

Stuck(x, bs) == \A y, cs : ~Moves(x, bs, y, cs)

Closed(S) ==
  \A x, y \in Places : \A bs, cs \in Seq(BOOLEAN) :
    <<x, bs>> \in S /\ Moves(x, bs, y, cs) => <<y, cs>> \in S

\* From x with the outcomes bs a path comes to y with cs left of them.
Leads(x, bs, y, cs) ==
  \A S \in SUBSET (Places \X Seq(BOOLEAN)) : <<x, bs>> \in S /\ Closed(S) => <<y, cs>> \in S

\* Code goes on in the table.
LEMMA GoesOn ==
  ASSUME NEW i \in Idx
  PROVE  /\ DirectAt(i) => NextAt(i) \in Idx
         /\ IsCond(i) => \A b \in BOOLEAN : ForkAt(i, b) \in Idx
         /\ Insts[i].type \in {"COND_BRANCH", "UNCOND_DIRECT_BRANCH"} =>
              /\ Insts[i].target \in Sites
              /\ xed_unwind_find_inst(Insts[i].target) = At(Insts[i].target)
  <1>1. /\ Insts[i].type \in {"COND_BRANCH", "UNCOND_DIRECT_BRANCH"} => Insts[i].target \in Sites
        /\ Insts[i].type \in {"NONE", "COND_BRANCH"} => i + 1 < NoInsts
    BY CodeAssumption DEF Idx
  <1>2. i + 1 < NoInsts => i + 1 \in Idx
    BY InstsAssumption DEF Idx
  <1> QED BY <1>1, <1>2, SiteAt DEF DirectAt, NextAt, ForkAt, IsCond

\* Where a call returns to is a number.
LEMMA RetAddrNat ==
  ASSUME NEW i \in Idx
  PROVE  RetAddr(i) \in Nat /\ RetAddr(i + 1) \in Nat
  <1>1. NoInsts \in Nat /\ \A k \in Idx : Insts[k].addr \in Nat
    BY InstsAssumption DEF Idx, InstType
  <1>2. i \in Int /\ 0 <= i /\ (i + 1 < NoInsts => i + 1 \in Idx)
    BY <1>1 DEF Idx
  <1>3. NoAddr \in Nat
    BY DEF NoAddr
  <1> QED BY <1>1, <1>2, <1>3 DEF RetAddr

\* So does a place.
LEMMA PlaceGoesOn ==
  ASSUME NEW x \in Places
  PROVE  /\ DirectAt(x[1]) => NextPlace(x) \in Places
         /\ IsCond(x[1]) => \A b \in BOOLEAN : ForkPlace(x, b) \in Places
  <1>1. x[1] \in Idx /\ x[2] \in Stacks
    BY DEF Places
  <1>2. RetAddr(x[1] + 1) \in Nat
    BY <1>1, RetAddrNat
  <1>3. CallsAt(x[1], x[2]) \in Stacks
    BY <1>1, <1>2 DEF CallsAt, Stacks
  <1> QED BY <1>1, <1>3, GoesOn DEF NextPlace, ForkPlace, Places

\* A step stays in the table, and is the only one.
LEMMA MovesOne ==
  ASSUME NEW x \in Places, NEW bs \in Seq(BOOLEAN), NEW y, NEW cs, Moves(x, bs, y, cs)
  PROVE  /\ y \in Places /\ cs \in Seq(BOOLEAN)
         /\ \A z, ds : Moves(x, bs, z, ds) => z = y /\ ds = cs
  <1>1. bs # << >> => Head(bs) \in BOOLEAN /\ Tail(bs) \in Seq(BOOLEAN)
    BY HeadTailProperties
  <1>2. x[1] \in Idx /\ x[2] \in Stacks
    BY DEF Places
  <1>3. ~(DirectAt(x[1]) /\ IsCond(x[1]))
    BY DEF DirectAt, IsCond
  <1> QED BY <1>1, <1>2, <1>3, PlaceGoesOn DEF Moves

\* A path may be empty.
LEMMA LeadsHere == ASSUME NEW x, NEW bs PROVE Leads(x, bs, x, bs)
  BY DEF Leads

\* Paths go on with paths.
LEMMA LeadsTrans ==
  ASSUME NEW x, NEW bs, NEW y, NEW cs, NEW z, NEW ds, Leads(x, bs, y, cs), Leads(y, cs, z, ds)
  PROVE  Leads(x, bs, z, ds)
  BY DEF Leads

\* A step is a path.
LEMMA LeadsStep ==
  ASSUME NEW x \in Places, NEW bs \in Seq(BOOLEAN), NEW y, NEW cs, Moves(x, bs, y, cs)
  PROVE  Leads(x, bs, y, cs)
  <1>1. y \in Places /\ cs \in Seq(BOOLEAN)
    BY MovesOne
  <1> QED BY <1>1 DEF Leads, Closed

\* A path that is not empty begins with the step there is.
LEMMA LeadsOn ==
  ASSUME NEW x \in Places, NEW bs \in Seq(BOOLEAN), NEW y, NEW cs, Moves(x, bs, y, cs),
         NEW z, NEW ds, Leads(x, bs, z, ds), ~(z = x /\ ds = bs)
  PROVE  Leads(y, cs, z, ds)
  <1> SUFFICES ASSUME NEW S \in SUBSET (Places \X Seq(BOOLEAN)), <<y, cs>> \in S, Closed(S)
               PROVE  <<z, ds>> \in S
    BY DEF Leads
  <1> DEFINE T == S \cup {<<x, bs>>}
  <1>1. Closed(T)
    <2> SUFFICES ASSUME NEW v \in Places, NEW w \in Places, NEW b \in Seq(BOOLEAN), NEW c \in Seq(BOOLEAN),
                        <<v, b>> \in T, Moves(v, b, w, c)
                 PROVE  <<w, c>> \in T
      BY DEF Closed
    <2>1. CASE <<v, b>> \in S
      BY <2>1 DEF Closed
    <2>2. CASE <<v, b>> = <<x, bs>>
      <3>1. v = x /\ b = bs
        BY <2>2
      <3>2. w = y /\ c = cs
        BY <3>1, MovesOne
      <3> QED BY <3>2
    <2> QED BY <2>1, <2>2
  <1>2. <<x, bs>> \in T /\ T \in SUBSET (Places \X Seq(BOOLEAN))
    OBVIOUS
  <1>3. <<z, ds>> \in T
    <2> HIDE DEF T
    <2> QED BY <1>1, <1>2 DEF Leads
  <1> QED BY <1>3

\* Where there is no step a path ends.
LEMMA LeadsNowhere ==
  ASSUME NEW x \in Places, NEW bs \in Seq(BOOLEAN), Stuck(x, bs),
         NEW z, NEW ds, Leads(x, bs, z, ds)
  PROVE  z = x /\ ds = bs
  <1> DEFINE T == {<<x, bs>>}
  <1>1. Closed(T)
    <2> SUFFICES ASSUME NEW v \in Places, NEW w \in Places, NEW b \in Seq(BOOLEAN), NEW c \in Seq(BOOLEAN),
                        <<v, b>> = <<x, bs>>, Moves(v, b, w, c)
                 PROVE  FALSE
      BY DEF Closed
    <2>1. v = x /\ b = bs
      OBVIOUS
    <2> QED BY <2>1 DEF Stuck
  <1>2. <<z, ds>> \in T
    <2>1. <<x, bs>> \in T /\ T \in SUBSET (Places \X Seq(BOOLEAN))
      OBVIOUS
    <2> HIDE DEF T
    <2> QED BY <1>1, <2>1 DEF Leads
  <1> QED BY <1>2

\* The same, with no outcomes left.
LEMMA LeadsNone ==
  ASSUME NEW x \in Places, Stuck(x, << >>), NEW z, Leads(x, << >>, z, << >>)
  PROVE  z = x
  <1>1. PICK e \in Seq(BOOLEAN) : e = << >>
    <2>1. << >> \in Seq(BOOLEAN)
      OBVIOUS
    <2> QED BY <2>1
  <1>2. Stuck(x, e) /\ Leads(x, e, z, e)
    BY <1>1
  <1> QED BY <1>2, LeadsNowhere

\* More outcomes behind those a path uses are left when it has come to its end.
LEMMA LeadsShift ==
  ASSUME NEW x \in Places, NEW bs \in Seq(BOOLEAN), NEW z \in Places, NEW ds \in Seq(BOOLEAN),
         Leads(x, bs, z, << >>)
  PROVE  Leads(x, bs \o ds, z, ds)
  <1> SUFFICES ASSUME NEW S \in SUBSET (Places \X Seq(BOOLEAN)), <<x, bs \o ds>> \in S, Closed(S)
               PROVE  <<z, ds>> \in S
    BY DEF Leads
  <1> DEFINE T == {t \in Places \X Seq(BOOLEAN) : <<t[1], t[2] \o ds>> \in S}
  <1>1. \A v \in Places, b \in Seq(BOOLEAN) : <<v, b>> \in T <=> <<v, b \o ds>> \in S
    OBVIOUS
  <1>2. T \in SUBSET (Places \X Seq(BOOLEAN))
    OBVIOUS
  <1> HIDE DEF T
  <1>3. Closed(T)
    <2> SUFFICES ASSUME NEW v \in Places, NEW w \in Places, NEW b \in Seq(BOOLEAN), NEW c \in Seq(BOOLEAN),
                        <<v, b>> \in T, Moves(v, b, w, c)
                 PROVE  <<w, c>> \in T
      BY DEF Closed
    <2>1. <<v, b \o ds>> \in S /\ b \o ds \in Seq(BOOLEAN) /\ c \o ds \in Seq(BOOLEAN)
      BY <1>1, ConcatProperties
    <2>2. b # << >> => /\ b \o ds # << >> /\ Head(b \o ds) = Head(b)
                       /\ Tail(b \o ds) = Tail(b) \o ds
      <3> SUFFICES ASSUME b # << >>
                   PROVE  /\ b \o ds # << >> /\ Head(b \o ds) = Head(b)
                          /\ Tail(b \o ds) = Tail(b) \o ds
        OBVIOUS
      <3> QED OBVIOUS
    <2>3. Moves(v, b \o ds, w, c \o ds)
      BY <2>2 DEF Moves
    <2>4. <<w, c \o ds>> \in S
      BY <2>1, <2>3 DEF Closed
    <2> QED BY <1>1, <2>4
  <1>4. bs \in Seq(BOOLEAN) /\ << >> \in Seq(BOOLEAN) /\ << >> \o ds = ds
    OBVIOUS
  <1>5. <<z, << >>>> \in T
    BY <1>1, <1>2, <1>3, <1>4 DEF Leads
  <1> QED BY <1>1, <1>4, <1>5

-----------------------------------------------------------------------------
(* Stacks of calls.                                                        *)

\* The calls t are the innermost ones of u.
Innermost(t, u) == \E w \in Stacks : u = w \o t

\* A return to tip: the decoder forgets the calls when the last one says otherwise.
Popped(t, tip) == IF t # << >> /\ Last(t) = tip THEN Front(t) ELSE << >>

LEMMA InnermostSelf ==
  ASSUME NEW t \in Stacks
  PROVE  Innermost(t, t) /\ Innermost(<< >>, t)
  <1>1. << >> \in Stacks /\ << >> \o t = t /\ t \o << >> = t
    BY DEF Stacks
  <1> QED BY <1>1 DEF Innermost

LEMMA InnermostConcat ==
  ASSUME NEW t \in Stacks, NEW u \in Stacks, NEW v \in Stacks, Innermost(t, u)
  PROVE  Innermost(t \o v, u \o v)
  <1>1. PICK w \in Stacks : u = w \o t
    BY DEF Innermost
  <1>2. u \o v = w \o (t \o v)
    BY <1>1, ConcatAssociative DEF Stacks
  <1> QED BY <1>2 DEF Innermost

LEMMA InnermostPush ==
  ASSUME NEW t \in Stacks, NEW u \in Stacks, NEW a \in Nat, Innermost(t, u)
  PROVE  Innermost(Append(t, a), Append(u, a))
  <1>1. << a >> \in Stacks
    BY DEF Stacks
  <1>2. t \in Seq(Nat) /\ u \in Seq(Nat)
    BY DEF Stacks
  <1>3. Append(t, a) = t \o << a >>
    BY <1>2, AppendIsConcat
  <1>4. Append(u, a) = u \o << a >>
    BY <1>2, AppendIsConcat
  <1> QED BY <1>1, <1>3, <1>4, InnermostConcat

LEMMA InnermostPop ==
  ASSUME NEW t \in Stacks, NEW v \in Stacks, NEW tip \in Nat, Innermost(t, Append(v, tip))
  PROVE  Popped(t, tip) \in Stacks /\ Innermost(Popped(t, tip), v)
  <1>1. CASE t = << >> \/ Last(t) # tip
    <2>1. Popped(t, tip) = << >> /\ << >> \in Stacks
      BY <1>1 DEF Popped, Stacks
    <2> QED BY <2>1, InnermostSelf
  <1>2. CASE t # << >> /\ Last(t) = tip
    <2>1. PICK w \in Stacks : Append(v, tip) = w \o t
      BY DEF Innermost
    <2>2. /\ Len(t) \in Nat /\ Len(t) >= 1 /\ Front(t) = SubSeq(t, 1, Len(t) - 1)
          /\ Len(w) \in Nat /\ Len(v) \in Nat
      BY <1>2 DEF Stacks, Front
    <2>3. Front(t) \in Stacks /\ Len(Front(t)) = Len(t) - 1 /\ \A k \in 1 .. Len(t) - 1 : Front(t)[k] = t[k]
      <3>1. Len(t) # 0 /\ t \in Seq(Nat)
        BY <2>2 DEF Stacks
      <3>2. SubSeq(t, 1, Len(t) - 1) \in Seq(Nat) /\ Len(SubSeq(t, 1, Len(t) - 1)) = Len(t) - 1
        BY <3>1, WithoutLast
      <3>3. \A k \in 1 .. Len(t) - 1 : SubSeq(t, 1, Len(t) - 1)[k] = t[k]
        BY <2>2, <3>1
      <3> QED BY <2>2, <3>2, <3>3 DEF Stacks
    <2>4. Len(v) + 1 = Len(w) + Len(t) /\ \A k \in 1 .. Len(v) : v[k] = (w \o t)[k]
      <3>1. Len(Append(v, tip)) = Len(v) + 1 /\ \A k \in 1 .. Len(v) : Append(v, tip)[k] = v[k]
        BY <2>2, AppendProperties DEF Stacks
      <3>2. Len(w \o t) = Len(w) + Len(t)
        BY ConcatProperties DEF Stacks
      <3> QED BY <2>1, <3>1, <3>2
    <2>5. \A k \in 1 .. Len(v) : v[k] = IF k <= Len(w) THEN w[k] ELSE t[k - Len(w)]
      <3>1. \A k \in 1 .. Len(w) + Len(t) : (w \o t)[k] = IF k <= Len(w) THEN w[k] ELSE t[k - Len(w)]
        BY ConcatProperties DEF Stacks
      <3> QED BY <2>2, <2>4, <3>1
    <2> DEFINE g == w \o Front(t)
    <2>6. g \in Stacks /\ Len(g) = Len(v)
          /\ \A k \in 1 .. Len(v) : g[k] = IF k <= Len(w) THEN w[k] ELSE Front(t)[k - Len(w)]
      <3>1. Len(w) + Len(Front(t)) = Len(v)
        BY <2>2, <2>3, <2>4
      <3>2. /\ g \in Seq(Nat) /\ Len(g) = Len(w) + Len(Front(t))
            /\ \A k \in 1 .. Len(w) + Len(Front(t)) :
                 g[k] = IF k <= Len(w) THEN w[k] ELSE Front(t)[k - Len(w)]
        <4>1. w \in Seq(Nat) /\ Front(t) \in Seq(Nat)
          BY <2>3 DEF Stacks
        <4> QED BY <4>1, ConcatProperties
      <3> HIDE DEF g
      <3> QED BY <3>1, <3>2 DEF Stacks
    <2> HIDE DEF g
    <2>7. ASSUME NEW k \in 1 .. Len(v) PROVE g[k] = v[k]
      <3>1. CASE k <= Len(w)
        BY <2>5, <2>6, <3>1
      <3>2. CASE ~(k <= Len(w))
        <4>1. k - Len(w) \in 1 .. Len(t) - 1
          BY <2>2, <2>4, <3>2
        <4>2. Front(t)[k - Len(w)] = t[k - Len(w)]
          BY <2>3, <4>1
        <4> QED BY <2>5, <2>6, <3>2, <4>2
      <3> QED BY <3>1, <3>2
    <2>8. v = g
      BY <2>6, <2>7, SeqEqual DEF Stacks
    <2> QED BY <1>2, <2>3, <2>8 DEF g, Popped, Innermost
  <1> QED BY <1>1, <1>2

-----------------------------------------------------------------------------
(* Frames.                                                                 *)

Spots == Sites \cup Foreign

LEMMA SpotNat == ASSUME NEW addr \in Spots PROVE addr \in Nat /\ addr # NoAddr
  BY SiteAt, ForeignNowhere DEF Spots, NoAddr

FrameType == [ret: Spots \cup {NoAddr}, irq: BOOLEAN, calls: Seq(Sites)]

\* Only the outermost frame has nothing to return to.
FramesOK(fs) ==
  fs \in Seq(FrameType) /\ Len(fs) > 0 /\ \A k \in 2 .. Len(fs) : fs[k].ret # NoAddr

\* The parts of a stack of frames.
LEMMA FrameParts ==
  ASSUME NEW fs, FramesOK(fs)
  PROVE  /\ Last(fs) \in FrameType /\ Front(fs) \in Seq(FrameType)
         /\ Len(fs) \in Nat /\ Len(fs) >= 1 /\ Len(Front(fs)) = Len(fs) - 1
         /\ \A k \in 1 .. Len(fs) - 1 : Front(fs)[k] = fs[k]
         /\ Last(fs) = fs[Len(fs)]
         /\ Len(fs) > 1 => Last(fs).ret \in Spots
  <1> DEFINE S == FrameType
  <1>1. fs \in Seq(S) /\ Len(fs) > 0 /\ \A k \in 2 .. Len(fs) : fs[k].ret # NoAddr
    BY DEF FramesOK
  <1>2. Len(fs) \in Nat /\ Len(fs) >= 1
    BY <1>1
  <1>3. Last(fs) = fs[Len(fs)] /\ Front(fs) = SubSeq(fs, 1, Len(fs) - 1)
    BY DEF Last, Front
  <1> HIDE DEF S
  <1>4. \A k \in 1 .. Len(fs) : fs[k] \in S
    BY <1>1, ElementOfSeq
  <1>5. Last(fs) \in S
    BY <1>2, <1>3, <1>4
  <1>6. /\ Front(fs) \in Seq(S) /\ Len(Front(fs)) = Len(fs) - 1
        /\ \A k \in 1 .. Len(fs) - 1 : Front(fs)[k] = fs[k]
    <2>1. Len(fs) # 0
      BY <1>2
    <2>2. SubSeq(fs, 1, Len(fs) - 1) \in Seq(S) /\ Len(SubSeq(fs, 1, Len(fs) - 1)) = Len(fs) - 1
      BY <1>1, <2>1, WithoutLast
    <2>3. \A k \in 1 .. Len(fs) - 1 : SubSeq(fs, 1, Len(fs) - 1)[k] = fs[k]
      BY <1>1, <1>2
    <2> QED BY <1>3, <2>2, <2>3
  <1>7. Len(fs) > 1 => Last(fs).ret \in Spots
    <2>1. Len(fs) > 1 => Last(fs).ret # NoAddr
      BY <1>1, <1>2, <1>3
    <2>2. Last(fs).ret \in Spots \cup {NoAddr}
      BY <1>5 DEF S, FrameType
    <2> QED BY <2>1, <2>2
  <1> QED BY <1>2, <1>3, <1>5, <1>6, <1>7 DEF S

\* Calls of the innermost frame.
LEMMA CallsOK ==
  ASSUME NEW fs, FramesOK(fs), NEW calls \in Seq(Sites)
  PROVE  FramesOK(Front(fs) \o << [Last(fs) EXCEPT !.calls = calls] >>)
  <1> DEFINE f == [Last(fs) EXCEPT !.calls = calls]
             g == Front(fs) \o << f >>
  <1>1. /\ Last(fs) \in FrameType /\ Front(fs) \in Seq(FrameType)
        /\ Len(fs) \in Nat /\ Len(fs) >= 1 /\ Len(Front(fs)) = Len(fs) - 1
        /\ \A k \in 1 .. Len(fs) - 1 : Front(fs)[k] = fs[k]
        /\ Last(fs) = fs[Len(fs)]
    BY FrameParts
  <1>2. f \in FrameType /\ f.ret = Last(fs).ret
    BY <1>1 DEF FrameType
  <1>3. \A k \in 2 .. Len(fs) : fs[k].ret # NoAddr
    BY DEF FramesOK
  <1> HIDE DEF f
  <1>4. << f >> \in Seq(FrameType) /\ Len(<< f >>) = 1 /\ << f >>[1] = f
    <2> HIDE DEF FrameType
    <2> QED BY <1>2
  <1>5. /\ g \in Seq(FrameType) /\ Len(g) = Len(fs)
        /\ \A k \in 1 .. Len(fs) : g[k] = IF k <= Len(fs) - 1 THEN fs[k] ELSE << f >>[k - (Len(fs) - 1)]
    <2> HIDE DEF FrameType
    <2>1. /\ g \in Seq(FrameType) /\ Len(g) = Len(Front(fs)) + Len(<< f >>)
          /\ \A k \in 1 .. Len(Front(fs)) + Len(<< f >>) :
               g[k] = IF k <= Len(Front(fs)) THEN Front(fs)[k] ELSE << f >>[k - Len(Front(fs))]
      BY <1>1, <1>4, ConcatProperties
    <2>2. Len(Front(fs)) + Len(<< f >>) = Len(fs)
      BY <1>1, <1>4
    <2> QED BY <1>1, <2>1, <2>2
  <1> HIDE DEF g
  <1>6. ASSUME NEW k \in 2 .. Len(fs) PROVE g[k].ret # NoAddr
    <2>1. CASE k = Len(fs)
      <3>1. g[k] = f
        BY <1>1, <1>4, <1>5, <2>1
      <3> QED BY <1>1, <1>2, <1>3, <2>1, <3>1
    <2>2. CASE k # Len(fs)
      BY <1>1, <1>3, <1>5, <2>2
    <2> QED BY <2>1, <2>2
  <1>7. Len(g) > 0
    BY <1>1, <1>5
  <1> QED BY <1>5, <1>6, <1>7 DEF FramesOK, f, g

\* A system call or an interrupt.
LEMMA PushOK ==
  ASSUME NEW fs, FramesOK(fs), NEW ret \in Spots, NEW irq \in BOOLEAN
  PROVE  FramesOK(Append(fs, Frame(ret, irq)))
  <1> DEFINE f == Frame(ret, irq)
             g == Append(fs, f)
  <1>1. f \in FrameType /\ f.ret = ret /\ ret # NoAddr
    BY SpotNat DEF Frame, FrameType
  <1> HIDE DEF f
  <1>2. fs \in Seq(FrameType) /\ Len(fs) > 0 /\ \A k \in 2 .. Len(fs) : fs[k].ret # NoAddr
    BY DEF FramesOK
  <1>3. Len(fs) \in Nat
    BY <1>2
  <1>4. /\ g \in Seq(FrameType) /\ Len(g) = Len(fs) + 1
        /\ \A k \in 1 .. Len(fs) : g[k] = fs[k]
        /\ g[Len(fs) + 1] = f
    <2> HIDE DEF FrameType
    <2> QED BY <1>1, <1>2, AppendProperties
  <1> HIDE DEF g
  <1>5. ASSUME NEW k \in 2 .. Len(g) PROVE g[k].ret # NoAddr
    <2>1. CASE k = Len(fs) + 1
      BY <1>1, <1>4, <2>1
    <2>2. CASE k # Len(fs) + 1
      BY <1>2, <1>3, <1>4, <2>2
    <2> QED BY <2>1, <2>2
  <1>6. Len(g) > 0
    BY <1>3, <1>4
  <1> QED BY <1>4, <1>5, <1>6 DEF FramesOK, f, g

\* Its return.
LEMMA PopOK ==
  ASSUME NEW fs, FramesOK(fs), Len(fs) > 1
  PROVE  FramesOK(Front(fs))
  <1>1. /\ Front(fs) \in Seq(FrameType) /\ Len(fs) \in Nat /\ Len(Front(fs)) = Len(fs) - 1
        /\ \A k \in 1 .. Len(fs) - 1 : Front(fs)[k] = fs[k]
    BY FrameParts
  <1>2. \A k \in 2 .. Len(fs) : fs[k].ret # NoAddr
    BY DEF FramesOK
  <1>3. Len(Front(fs)) > 0
    BY <1>1
  <1>4. \A k \in 2 .. Len(Front(fs)) : Front(fs)[k].ret # NoAddr
    BY <1>1, <1>2
  <1> QED BY <1>1, <1>3, <1>4 DEF FramesOK

\* A set of numbers has a least one.
LEMMA LeastOf ==
  ASSUME NEW S \in SUBSET Nat, S # {}
  PROVE  \E n \in S : \A k \in S : n <= k
  <1> DEFINE R == OpToRel(<, Nat)
  <1>1. \A x, y \in Nat : x < y => <<x, y>> \in R
    BY DEF OpToRel
  <1>2. \E n \in S : \A k \in S : <<k, n>> \notin R
    <2> HIDE DEF R
    <2>1. IsWellFoundedOn(R, Nat)
      BY NatLessThanWellFounded DEF R
    <2> QED BY <2>1, WFMin
  <1>3. PICK n \in S : \A k \in S : <<k, n>> \notin R
    BY <1>2
  <1>4. \A k \in S : ~(k < n)
    BY <1>1, <1>3
  <1> QED BY <1>4

\* The calls in progress when n frames are there, from those of n - 1.
Under(f, s)         == (IF f.irq THEN << >> ELSE s) \o f.calls
CallsStep(fs, g, n) == IF n = 0 THEN << >> ELSE Under(fs[n], g[n - 1])

CallsFit(fs, g, n) == g \in [0 .. n -> Stacks] /\ \A k \in 0 .. n : g[k] = CallsStep(fs, g, k)

LEMMA CallsStepIn ==
  ASSUME NEW fs \in Seq(FrameType), NEW n \in 0 .. Len(fs), NEW g, n # 0 => g[n - 1] \in Stacks
  PROVE  CallsStep(fs, g, n) \in Stacks
  <1>1. Sites \subseteq Nat
    BY SiteAt
  <1>2. CASE n = 0
    BY <1>2 DEF CallsStep, Stacks
  <1>3. CASE n # 0
    <2>1. fs[n] \in FrameType
      BY <1>3, ElementOfSeq
    <2>2. fs[n].calls \in Seq(Sites)
      BY <2>1 DEF FrameType
    <2>3. fs[n].calls \in Stacks
      BY <1>1, <2>2, SeqMonotonic DEF Stacks
    <2>4. \A s, t \in Stacks : s \o t \in Stacks
      BY DEF Stacks
    <2>5. << >> \in Stacks
      BY DEF Stacks
    <2> QED BY <1>3, <2>3, <2>4, <2>5 DEF CallsStep, Under
  <1> QED BY <1>2, <1>3

LEMMA CallsExtend ==
  ASSUME NEW fs \in Seq(FrameType), NEW n \in 1 .. Len(fs), NEW g, CallsFit(fs, g, n - 1)
  PROVE  \E h : CallsFit(fs, h, n)
  <1> DEFINE h == [k \in 0 .. n |-> IF k < n THEN g[k] ELSE CallsStep(fs, g, n)]
  <1>1. n \in 0 .. Len(fs) /\ n - 1 \in 0 .. n - 1 /\ n # 0 /\ g \in [0 .. n - 1 -> Stacks]
    BY DEF CallsFit
  <1>2. CallsStep(fs, g, n) \in Stacks
    BY <1>1, CallsStepIn
  <1>3. h \in [0 .. n -> Stacks]
    BY <1>1, <1>2
  <1>4. ASSUME NEW k \in 0 .. n PROVE h[k] = CallsStep(fs, h, k)
    <2>1. k # 0 => h[k - 1] = g[k - 1]
      BY <1>1
    <2>2. CallsStep(fs, h, k) = CallsStep(fs, g, k)
      BY <2>1 DEF CallsStep
    <2>3. CASE k < n
      <3>1. k \in 0 .. n - 1
        BY <2>3
      <3> QED BY <2>2, <2>3, <3>1 DEF CallsFit
    <2>4. CASE k = n
      BY <2>2, <2>4
    <2> QED BY <2>3, <2>4
  <1> QED BY <1>3, <1>4 DEF CallsFit

LEMMA CallsFitExists ==
  ASSUME NEW fs \in Seq(FrameType)
  PROVE  \A n \in 0 .. Len(fs) : \E g : CallsFit(fs, g, n)
  <1> DEFINE S == {n \in 0 .. Len(fs) : ~ \E g : CallsFit(fs, g, n)}
  <1> SUFFICES ASSUME S # {} PROVE FALSE
    OBVIOUS
  <1>1. PICK n \in S : \A k \in S : n <= k
    <2>1. S \in SUBSET Nat
      OBVIOUS
    <2> HIDE DEF S
    <2> QED BY <2>1, LeastOf
  <1>2. CASE n = 0
    <2>1. CallsFit(fs, [k \in 0 .. 0 |-> << >>], 0)
      BY DEF CallsFit, CallsStep, Stacks
    <2> QED BY <1>2, <2>1
  <1>3. CASE n # 0
    <2>1. n \in 1 .. Len(fs) /\ n - 1 \in 0 .. Len(fs) /\ ~(n <= n - 1)
      BY <1>3
    <2>2. n - 1 \notin S
      <3> HIDE DEF S
      <3> QED BY <1>1, <2>1
    <2>3. PICK g : CallsFit(fs, g, n - 1)
      BY <2>1, <2>2
    <2> QED BY <2>1, <2>3, CallsExtend
  <1> QED BY <1>2, <1>3

\* The definition of CallsIn defines a function.
LEMMA CallsInFits ==
  ASSUME NEW fs \in Seq(FrameType)
  PROVE  \E g : CallsFit(fs, g, Len(fs)) /\ CallsIn(fs) = g[Len(fs)]
  <1> DEFINE n == Len(fs)
             step(g, k) == IF k = 0 THEN << >> ELSE (IF fs[k].irq THEN << >> ELSE g[k - 1]) \o fs[k].calls
             f == CHOOSE g : g = [k \in 0 .. n |-> step(g, k)]
  <1>1. n \in Nat /\ n \in 0 .. n
    OBVIOUS
  <1>2. PICK h : CallsFit(fs, h, n)
    BY <1>1, CallsFitExists
  <1>3. h = [k \in 0 .. n |-> step(h, k)]
    BY <1>2 DEF CallsFit, CallsStep, Under
  <1>4. f = [k \in 0 .. n |-> step(f, k)]
    <2> HIDE DEF step
    <2> QED BY <1>3
  <1>5. CallsIn(fs) = f[n]
    BY DEF CallsIn
  <1> HIDE DEF f
  <1> DEFINE S == {k \in 0 .. n : f[k] \notin Stacks}
  <1>6. S = {}
    <2> SUFFICES ASSUME S # {} PROVE FALSE
      OBVIOUS
    <2>1. PICK k \in S : \A m \in S : k <= m
      <3>1. S \in SUBSET Nat
        OBVIOUS
      <3> HIDE DEF S
      <3> QED BY <3>1, LeastOf
    <2>2. k \in 0 .. n /\ f[k] \notin Stacks
      OBVIOUS
    <2>3. k # 0 => k - 1 \notin S
      <3> HIDE DEF S
      <3> QED BY <2>1, <2>2
    <2>4. k # 0 => f[k - 1] \in Stacks
      BY <2>2, <2>3
    <2>5. f[k] = CallsStep(fs, f, k)
      BY <1>4, <2>2 DEF CallsStep, Under
    <2> QED BY <2>2, <2>4, <2>5, CallsStepIn
  <1>7. f \in [0 .. n -> Stacks]
    <2>1. DOMAIN f = 0 .. n /\ f = [k \in 0 .. n |-> f[k]]
      BY <1>4
    <2> QED BY <1>6, <2>1
  <1>8. \A k \in 0 .. n : f[k] = CallsStep(fs, f, k)
    BY <1>4 DEF CallsStep, Under
  <1> QED BY <1>5, <1>7, <1>8 DEF CallsFit

LEMMA CallsFitOne ==
  ASSUME NEW fs, NEW es, NEW n \in Nat, NEW m \in Nat, n <= m, NEW g, NEW h,
         CallsFit(fs, g, n), CallsFit(es, h, m), \A k \in 1 .. n : fs[k] = es[k]
  PROVE  g[n] = h[n]
  <1> DEFINE S == {k \in 0 .. n : g[k] # h[k]}
  <1> SUFFICES ASSUME S # {} PROVE FALSE
    OBVIOUS
  <1>1. PICK k \in S : \A j \in S : k <= j
    <2>1. S \in SUBSET Nat
      OBVIOUS
    <2> HIDE DEF S
    <2> QED BY <2>1, LeastOf
  <1>2. k \in 0 .. n /\ k \in 0 .. m /\ g[k] # h[k]
    OBVIOUS
  <1>3. k # 0 => k - 1 \notin S /\ k - 1 \in 0 .. n
    <2> HIDE DEF S
    <2> QED BY <1>1, <1>2
  <1>4. k # 0 => g[k - 1] = h[k - 1] /\ fs[k] = es[k]
    BY <1>2, <1>3
  <1>5. g[k] = CallsStep(fs, g, k) /\ h[k] = CallsStep(es, h, k)
    BY <1>2 DEF CallsFit
  <1>6. CallsStep(fs, g, k) = CallsStep(es, h, k)
    BY <1>4 DEF CallsStep
  <1> QED BY <1>2, <1>5, <1>6

\* The calls in progress, frame by frame.
LEMMA CallsInPush ==
  ASSUME NEW fs \in Seq(FrameType), NEW f \in FrameType
  PROVE  /\ CallsIn(fs) \in Stacks /\ f.calls \in Stacks
         /\ CallsIn(Append(fs, f)) = Under(f, CallsIn(fs))
  <1> DEFINE gs == Append(fs, f)
  <1>0. PICK n \in Nat : n = Len(fs)
    OBVIOUS
  <1>1. /\ gs \in Seq(FrameType) /\ Len(gs) = n + 1 /\ n \in Nat
        /\ \A k \in 1 .. n : gs[k] = fs[k]
        /\ gs[n + 1] = f
    <2> HIDE DEF FrameType
    <2> QED BY <1>0, AppendProperties
  <1> HIDE DEF gs
  <1>2. PICK g : CallsFit(fs, g, n) /\ CallsIn(fs) = g[n]
    BY <1>0, CallsInFits
  <1>3. PICK h : CallsFit(gs, h, n + 1) /\ CallsIn(gs) = h[n + 1]
    BY <1>1, CallsInFits
  <1>4. g[n] = h[n]
    <2>1. n + 1 \in Nat /\ n <= n + 1 /\ \A k \in 1 .. n : fs[k] = gs[k]
      BY <1>1
    <2>2. n \in Nat /\ CallsFit(fs, g, n) /\ CallsFit(gs, h, n + 1)
      BY <1>1, <1>2, <1>3
    <2>3. \A m \in Nat : n <= m => \A u, v :
            CallsFit(fs, u, n) /\ CallsFit(gs, v, m) /\ (\A k \in 1 .. n : fs[k] = gs[k]) => u[n] = v[n]
      BY CallsFitOne
    <2> QED BY <2>1, <2>2, <2>3
  <1>5. h[n + 1] = CallsStep(gs, h, n + 1)
    <2>1. n + 1 \in 0 .. n + 1
      BY <1>1
    <2>2. \A k \in 0 .. n + 1 : h[k] = CallsStep(gs, h, k)
      BY <1>3 DEF CallsFit
    <2> QED BY <2>1, <2>2
  <1>6. n + 1 # 0 /\ n + 1 - 1 = n /\ n \in 0 .. n
    BY <1>1
  <1>7. CallsIn(gs) = Under(f, CallsIn(fs))
    <2>1. \A k \in Nat : CallsStep(gs, h, k + 1) = Under(gs[k + 1], h[k])
      <3>1. \A k \in Nat : k + 1 # 0 /\ k + 1 - 1 = k
        OBVIOUS
      <3> QED BY <3>1 DEF CallsStep
    <2>2. CallsStep(gs, h, n + 1) = Under(f, h[n])
      <3>1. CallsStep(gs, h, n + 1) = Under(gs[n + 1], h[n])
        BY <2>1
      <3>2. gs[n + 1] = f
        BY <1>1
      <3> QED BY <3>1, <3>2
    <2> QED BY <1>2, <1>3, <1>4, <1>5, <2>2
  <1>8. CallsIn(fs) \in Stacks
    BY <1>2, <1>6 DEF CallsFit
  <1>9. f.calls \in Stacks
    <2>1. Sites \subseteq Nat
      BY SiteAt
    <2>2. f.calls \in Seq(Sites)
      BY DEF FrameType
    <2> QED BY <2>1, <2>2, SeqMonotonic DEF Stacks
  <1> QED BY <1>7, <1>8, <1>9 DEF gs

\* The same, from the innermost frame.
LEMMA CallsInTop ==
  ASSUME NEW fs, FramesOK(fs)
  PROVE  /\ CallsIn(fs) \in Stacks /\ CallsIn(Front(fs)) \in Stacks /\ Last(fs).calls \in Stacks
         /\ CallsIn(fs) = Under(Last(fs), CallsIn(Front(fs)))
  <1>1. /\ Last(fs) \in FrameType /\ Front(fs) \in Seq(FrameType) /\ fs \in Seq(FrameType)
        /\ Len(fs) \in Nat /\ Len(fs) >= 1 /\ Len(Front(fs)) = Len(fs) - 1
        /\ \A k \in 1 .. Len(fs) - 1 : Front(fs)[k] = fs[k]
        /\ Last(fs) = fs[Len(fs)]
    BY FrameParts DEF FramesOK
  <1> DEFINE g == Append(Front(fs), Last(fs))
  <1>2. g = fs
    <2> HIDE DEF FrameType
    <2>1. /\ g \in Seq(FrameType) /\ Len(g) = Len(Front(fs)) + 1
          /\ \A k \in 1 .. Len(Front(fs)) : g[k] = Front(fs)[k]
          /\ g[Len(Front(fs)) + 1] = Last(fs)
      BY <1>1, AppendProperties
    <2>2. Len(g) = Len(fs)
      BY <1>1, <2>1
    <2>3. ASSUME NEW k \in 1 .. Len(fs) PROVE g[k] = fs[k]
      BY <1>1, <2>1
    <2> HIDE DEF g
    <2> QED BY <1>1, <2>1, <2>2, <2>3, SeqEqual
  <1>3. CallsIn(g) = Under(Last(fs), CallsIn(Front(fs)))
    BY <1>1, CallsInPush
  <1>4. CallsIn(fs) \in Stacks /\ CallsIn(Front(fs)) \in Stacks /\ Last(fs).calls \in Stacks
    BY <1>1, CallsInPush
  <1> QED BY <1>2, <1>3, <1>4

\* A call and a return of the innermost frame, and what is left of one that returns.
LEMMA CallsInCall ==
  ASSUME NEW fs, FramesOK(fs), NEW calls \in Seq(Sites), NEW a \in Sites
  PROVE  LET with(cs) == Front(fs) \o << [Last(fs) EXCEPT !.calls = cs] >>
         IN  /\ CallsIn(with(calls)) \in Stacks
             /\ CallsIn(with(Append(calls, a))) = Append(CallsIn(with(calls)), a)
             /\ CallsIn(with(Last(fs).calls)) = CallsIn(fs)
  <1> DEFINE f(cs) == [Last(fs) EXCEPT !.calls = cs]
             rest == CallsIn(Front(fs))
  <1>1. Last(fs) \in FrameType /\ Front(fs) \in Seq(FrameType)
    BY FrameParts
  <1>2. \A cs \in Seq(Sites) : f(cs) \in FrameType /\ f(cs).irq = Last(fs).irq /\ f(cs).calls = cs
    BY <1>1 DEF FrameType
  <1>3. ASSUME NEW cs \in Seq(Sites)
        PROVE  CallsIn(Front(fs) \o << f(cs) >>) = Under(f(cs), rest) /\ cs \in Stacks
    <2>1. f(cs) \in FrameType
      BY <1>2
    <2>2. Front(fs) \o << f(cs) >> = Append(Front(fs), f(cs))
      <3> HIDE DEF f, FrameType
      <3> QED BY <1>1, <2>1, AppendIsConcat
    <2>3. CallsIn(Append(Front(fs), f(cs))) = Under(f(cs), rest) /\ f(cs).calls \in Stacks
      BY <1>1, <2>1, CallsInPush
    <2> QED BY <1>2, <2>2, <2>3
  <1> DEFINE below == IF Last(fs).irq THEN << >> ELSE rest
  <1>4. below \in Stacks
    BY CallsInTop DEF Stacks
  <1>5. \A cs \in Seq(Sites) : Under(f(cs), rest) = below \o cs
    BY <1>2 DEF Under
  <1>6. Append(calls, a) \in Seq(Sites) /\ Append(calls, a) = calls \o << a >> /\ a \in Nat
    BY AppendIsConcat, SiteAt
  <1>7. Last(fs).calls \in Seq(Sites) /\ CallsIn(fs) = below \o Last(fs).calls
    BY <1>1, CallsInTop DEF FrameType, Under
  <1> HIDE DEF f, below, rest
  <1>8. calls \in Stacks /\ Append(calls, a) \in Stacks /\ << a >> \in Stacks
    <2>1. << a >> \in Stacks
      BY <1>6 DEF Stacks
    <2> QED BY <1>3, <1>6, <2>1
  <1>9. below \o (calls \o << a >>) = (below \o calls) \o << a >>
    BY <1>4, <1>8, ConcatAssociative DEF Stacks
  <1>10. below \o calls \in Stacks /\ (below \o calls) \o << a >> = Append(below \o calls, a)
    <2>1. below \o calls \in Seq(Nat)
      BY <1>4, <1>8 DEF Stacks
    <2> QED BY <1>6, <2>1, AppendIsConcat DEF Stacks
  <1>11. CallsIn(Front(fs) \o << f(calls) >>) = below \o calls
    BY <1>3, <1>5
  <1>12. CallsIn(Front(fs) \o << f(Append(calls, a)) >>) = Append(below \o calls, a)
    <2>1. CallsIn(Front(fs) \o << f(Append(calls, a)) >>) = below \o Append(calls, a)
      BY <1>3, <1>5, <1>6
    <2> QED BY <1>6, <1>9, <1>10, <2>1
  <1>13. CallsIn(Front(fs) \o << f(Last(fs).calls) >>) = CallsIn(fs)
    BY <1>3, <1>5, <1>7
  <1> QED BY <1>10, <1>11, <1>12, <1>13 DEF f

\* A system call, an interrupt, and the return from a frame with no call open.
LEMMA CallsInFrames ==
  ASSUME NEW fs, FramesOK(fs), NEW ret \in Spots
  PROVE  /\ CallsIn(Append(fs, Frame(ret, FALSE))) = CallsIn(fs)
         /\ CallsIn(Append(fs, Frame(ret, TRUE))) = << >>
         /\ Last(fs).calls = << >> /\ ~Last(fs).irq => CallsIn(Front(fs)) = CallsIn(fs)
  <1>1. \A irq \in BOOLEAN : Frame(ret, irq) \in FrameType /\ Frame(ret, irq).irq = irq
                           /\ Frame(ret, irq).calls = << >>
    BY DEF Frame, FrameType
  <1>2. fs \in Seq(FrameType)
    BY DEF FramesOK
  <1>3. \A irq \in BOOLEAN : CallsIn(Append(fs, Frame(ret, irq))) = Under(Frame(ret, irq), CallsIn(fs))
    BY <1>1, <1>2, CallsInPush
  <1>4. \A s \in Stacks : s \o << >> = s
    BY DEF Stacks
  <1>5. CallsIn(fs) \in Stacks /\ CallsIn(Front(fs)) \in Stacks /\ CallsIn(fs) = Under(Last(fs), CallsIn(Front(fs)))
    BY CallsInTop
  <1>6. CallsIn(Append(fs, Frame(ret, FALSE))) = CallsIn(fs)
    BY <1>1, <1>3, <1>4, <1>5 DEF Under
  <1>7. CallsIn(Append(fs, Frame(ret, TRUE))) = << >>
    <2>1. Under(Frame(ret, TRUE), CallsIn(fs)) = << >> \o << >>
      BY <1>1 DEF Under
    <2>2. << >> \in Stacks
      BY DEF Stacks
    <2> QED BY <1>3, <1>4, <2>1, <2>2
  <1>8. Last(fs).calls = << >> /\ ~Last(fs).irq => CallsIn(Front(fs)) = CallsIn(fs)
    BY <1>4, <1>5 DEF Under
  <1> QED BY <1>6, <1>7, <1>8

-----------------------------------------------------------------------------
(* On the way to one of a set of places.                                   *)

On(x, bs, G) == \E z \in G : Leads(x, bs, z, << >>)

\* Code that has no packet stays in the set.
Goals(G) == G \subseteq Places /\ \A z \in G : DirectAt(z[1]) => NextPlace(z) \in G

\* A processor as the proofs see it: where it is, its frames, and whether the
\* trace is one of a single process whose interrupts return as they came
\* (one).  Of such a trace, when it never stops, the calls are followed too.
Views    == [pc: Spots, frames: Seq(FrameType), one: BOOLEAN]
Whole    == PtOffPoints = {}
Exact(p) == p.one /\ Whole

\* What is on the way of a processor up to the next branch that has a packet.
Heading(p) ==
  {z \in Places :
     /\ p.pc \in Sites
     /\ \E s, u \in Stacks :
          /\ Leads(<<At(p.pc), s>>, << >>, <<z[1], u>>, << >>)
          /\ Exact(p) => s = CallsIn(p.frames) /\ Innermost(z[2], u)}

\* The branches that take a TIP, the ones that end an interrupt among them, and
\* the calls in progress when one was taken to tip.
Tips      == {i \in Idx : Insts[i].type \in {"INDIRECT_BRANCH", "FAR_TRANSFER"}}
ExitAt(i) == Insts[i].type = "FAR_TRANSFER" /\ Insts[i].iret

Took(x, tip) ==
  IF Insts[x[1]].type # "INDIRECT_BRANCH" THEN x[2]
  ELSE IF Insts[x[1]].category = "CALL" THEN Append(x[2], RetAddr(x[1] + 1))
  ELSE IF Insts[x[1]].category = "RET" THEN Popped(x[2], tip)
  ELSE x[2]

\* Where a decoder can be that takes the TIP of a processor that has come to p.
Turns(p, exit) ==
  {z \in Places :
     /\ z[1] \in Tips
     /\ p.one => (ExitAt(z[1]) <=> exit)
     /\ Exact(p) => IF exit THEN z[2] = << >> ELSE Innermost(Took(z, p.pc), CallsIn(p.frames))}

\* A step of the decoder does not leave the way.
LEMMA OnStep ==
  ASSUME NEW G, Goals(G), NEW x \in Places, NEW bs \in Seq(BOOLEAN), NEW y, NEW cs,
         Moves(x, bs, y, cs), On(x, bs, G)
  PROVE  On(y, cs, G)
  <1>1. PICK z \in G : Leads(x, bs, z, << >>)
    BY DEF On
  <1>2. CASE z = x /\ bs = << >>
    <2>1. DirectAt(x[1]) /\ y = NextPlace(x) /\ cs = << >>
      BY <1>2 DEF Moves
    <2>2. y \in G
      BY <1>2, <2>1 DEF Goals
    <2> QED BY <2>1, <2>2, LeadsHere DEF On
  <1>3. CASE ~(z = x /\ bs = << >>)
    <2>1. Leads(y, cs, z, << >>)
      BY <1>1, <1>3, LeadsOn
    <2> QED BY <2>1 DEF On
  <1> QED BY <1>2, <1>3

\* Where the decoder waits it has come to the end of the way.
LEMMA OnStuck ==
  ASSUME NEW G, NEW x \in Places, NEW bs \in Seq(BOOLEAN), Stuck(x, bs), On(x, bs, G)
  PROVE  bs = << >> /\ x \in G
  <1>1. PICK z \in G : Leads(x, bs, z, << >>)
    BY DEF On
  <1>2. z = x /\ << >> = bs
    BY <1>1, LeadsNowhere
  <1> QED BY <1>2

\* A place is an instruction and a stack.
LEMMA PlaceIs ==
  ASSUME NEW i, NEW s
  PROVE  /\ <<i, s>>[1] = i /\ <<i, s>>[2] = s
         /\ <<i, s>> \in Places <=> i \in Idx /\ s \in Stacks
         /\ \A x \in Places : x[1] \in Idx /\ x[2] \in Stacks /\ x = <<x[1], x[2]>>
  BY DEF Places

\* Calls on the way stay the innermost ones.
LEMMA CallsAtInnermost ==
  ASSUME NEW i \in Idx, NEW t \in Stacks, NEW u \in Stacks
  PROVE  /\ CallsAt(i, u) \in Stacks
         /\ Innermost(t, u) => Innermost(CallsAt(i, t), CallsAt(i, u))
  <1>1. RetAddr(i + 1) \in Nat
    BY RetAddrNat
  <1>2. CallsAt(i, u) \in Stacks
    BY <1>1 DEF CallsAt, Stacks
  <1> QED BY <1>1, <1>2, InnermostPush DEF CallsAt

\* Both kinds of sets are such sets.
LEMMA AreGoals == /\ \A p : Goals(Heading(p))
                  /\ \A p, exit : Goals(Turns(p, exit))
  <1>1. \A p, exit : Goals(Turns(p, exit))
    BY DEF Goals, Turns, Tips, DirectAt
  <1>2. ASSUME NEW p, NEW z \in Heading(p), DirectAt(z[1]) PROVE NextPlace(z) \in Heading(p)
    <2>1. z \in Places /\ p.pc \in Sites /\ << >> \in Seq(BOOLEAN)
      BY DEF Heading
    <2>2. PICK s, u \in Stacks :
            /\ Leads(<<At(p.pc), s>>, << >>, <<z[1], u>>, << >>)
            /\ Exact(p) => s = CallsIn(p.frames) /\ Innermost(z[2], u)
      BY DEF Heading
    <2> DEFINE x == <<z[1], u>>
    <2>3. x \in Places /\ x[1] = z[1] /\ x[2] = u /\ z[1] \in Idx /\ z[2] \in Stacks
      BY <2>1, PlaceIs
    <2> HIDE DEF x
    <2>4. NextPlace(x) \in Places /\ NextPlace(z) \in Places /\ Moves(x, << >>, NextPlace(x), << >>)
      BY <1>2, <2>1, <2>3, PlaceGoesOn DEF Moves
    <2>5. Leads(x, << >>, NextPlace(x), << >>)
      BY <2>1, <2>3, <2>4, LeadsStep
    <2>6. Leads(<<At(p.pc), s>>, << >>, NextPlace(x), << >>)
      BY <2>2, <2>5, LeadsTrans DEF x
    <2>7. NextPlace(x) = <<NextAt(z[1]), CallsAt(z[1], u)>> /\ NextPlace(z) = <<NextAt(z[1]), CallsAt(z[1], z[2])>>
      BY <2>3 DEF NextPlace
    <2>8. CallsAt(z[1], u) \in Stacks /\ (Exact(p) => Innermost(CallsAt(z[1], z[2]), CallsAt(z[1], u)))
      BY <2>2, <2>3, CallsAtInnermost
    <2>9. NextPlace(z)[1] = NextAt(z[1]) /\ NextPlace(z)[2] = CallsAt(z[1], z[2])
      BY <2>7
    <2>10. NextPlace(x) = <<NextPlace(z)[1], CallsAt(z[1], u)>>
      BY <2>7, <2>9
    <2>11. Leads(<<At(p.pc), s>>, << >>, <<NextPlace(z)[1], CallsAt(z[1], u)>>, << >>)
      BY <2>6, <2>10
    <2>12. Exact(p) => s = CallsIn(p.frames) /\ Innermost(NextPlace(z)[2], CallsAt(z[1], u))
      BY <2>2, <2>8, <2>9
    <2>13. CallsAt(z[1], u) \in Stacks
      BY <2>8
    <2> QED BY <2>1, <2>4, <2>11, <2>12, <2>13 DEF Heading
  <1>3. \A p : Heading(p) \subseteq Places
    BY DEF Heading
  <1> QED BY <1>1, <1>2, <1>3 DEF Goals

\* A decoder is on the way of a processor that is where it is.
LEMMA OnHere ==
  ASSUME NEW p, p.pc \in Sites, CallsIn(p.frames) \in Stacks, NEW t \in Stacks,
         Exact(p) => Innermost(t, CallsIn(p.frames))
  PROVE  <<At(p.pc), t>> \in Places /\ On(<<At(p.pc), t>>, << >>, Heading(p))
  <1> DEFINE x == <<At(p.pc), t>>
  <1>1. x \in Places /\ x[1] = At(p.pc) /\ x[2] = t
    BY SiteAt, PlaceIs
  <1>2. Leads(<<At(p.pc), CallsIn(p.frames)>>, << >>, <<x[1], CallsIn(p.frames)>>, << >>)
    BY <1>1, LeadsHere
  <1>3. x \in Heading(p)
    BY <1>1, <1>2 DEF Heading
  <1> QED BY <1>1, <1>3, LeadsHere DEF On

\* Only a processor in the table has a way.
LEMMA OnSite == ASSUME NEW x, NEW bs, NEW p, On(x, bs, Heading(p)) PROVE p.pc \in Sites
  BY DEF On, Heading

\* Where a path with no outcomes ends.
LEMMA NoMoves ==
  ASSUME NEW x, Stops(x[1])
  PROVE  /\ Stuck(x, << >>)
         /\ ~IsCond(x[1]) => \A bs : Stuck(x, bs)
  BY DEF Stuck, Stops, Moves, DirectAt, IsCond

\* A member of a heading, and when it is one.
LEMMA HeadingHas ==
  ASSUME NEW p, NEW z \in Places, NEW s \in Stacks, NEW u \in Stacks, p.pc \in Sites,
         Leads(<<At(p.pc), s>>, << >>, <<z[1], u>>, << >>),
         Exact(p) => s = CallsIn(p.frames) /\ Innermost(z[2], u)
  PROVE  z \in Heading(p)
  BY DEF Heading

\* The processor goes on, the decoder is still on its way.
LEMMA OnDirect ==
  ASSUME NEW p, NEW q, p.pc \in Sites, DirectAt(At(p.pc)), q.pc \in Sites, At(q.pc) = NextAt(At(p.pc)),
         q.one = p.one, Exact(p) => CallsIn(q.frames) = CallsAt(At(p.pc), CallsIn(p.frames)),
         NEW x \in Places, NEW bs \in Seq(BOOLEAN), On(x, bs, Heading(p))
  PROVE  On(x, bs, Heading(q))
  <1>1. PICK z \in Heading(p) : Leads(x, bs, z, << >>)
    BY DEF On
  <1>2. z \in Places /\ At(p.pc) \in Idx /\ At(q.pc) \in Idx /\ << >> \in Seq(BOOLEAN)
    BY SiteAt DEF Heading
  <1>3. PICK s, u \in Stacks :
          /\ Leads(<<At(p.pc), s>>, << >>, <<z[1], u>>, << >>)
          /\ Exact(p) => s = CallsIn(p.frames) /\ Innermost(z[2], u)
    BY DEF Heading
  <1>4. PICK c \in Stacks : c = CallsAt(At(p.pc), s)
    BY <1>2, CallsAtInnermost
  <1>5. Exact(q) <=> Exact(p)
    BY DEF Exact
  <1> DEFINE a == <<At(p.pc), s>>
             b == <<At(q.pc), c>>
  <1>6. a \in Places /\ b \in Places /\ a[1] = At(p.pc) /\ a[2] = s
    BY <1>2, PlaceIs
  <1>7. NextPlace(a) = b
    BY <1>4, <1>6 DEF NextPlace
  <1>8. Moves(a, << >>, b, << >>)
    BY <1>6, <1>7 DEF Moves
  <1>9. CASE <<z[1], u>> = a
    <2> DEFINE w == NextPlace(z)
    <2>1. z[1] = At(p.pc) /\ u = s /\ z[2] \in Stacks
      BY <1>2, <1>9, PlaceIs
    <2>2. w = <<At(q.pc), CallsAt(At(p.pc), z[2])>>
      BY <2>1 DEF NextPlace
    <2>3. w \in Places /\ w[1] = At(q.pc) /\ w[2] = CallsAt(At(p.pc), z[2])
      BY <1>2, <2>1, <2>2, PlaceGoesOn
    <2>4. Moves(z, << >>, w, << >>)
      BY <2>1 DEF Moves
    <2> HIDE DEF w
    <2>5. Leads(x, bs, w, << >>)
      BY <1>1, <1>2, <2>4, LeadsStep, LeadsTrans
    <2>6. Leads(<<At(q.pc), c>>, << >>, <<w[1], c>>, << >>)
      BY <2>3, LeadsHere
    <2>7. Exact(q) => c = CallsIn(q.frames) /\ Innermost(w[2], c)
      BY <1>2, <1>3, <1>4, <1>5, <2>1, <2>3, CallsAtInnermost
    <2>8. w \in Heading(q)
      BY <2>3, <2>6, <2>7, HeadingHas
    <2> QED BY <2>5, <2>8 DEF On
  <1>10. CASE <<z[1], u>> # a
    <2>1. Leads(b, << >>, <<z[1], u>>, << >>)
      <3> HIDE DEF a, b
      <3>1. Leads(a, << >>, <<z[1], u>>, << >>)
        BY <1>3 DEF a
      <3> QED BY <1>2, <1>6, <1>8, <1>10, <3>1, LeadsOn
    <2>2. z \in Heading(q)
      BY <1>2, <1>3, <1>4, <1>5, <2>1, HeadingHas
    <2> QED BY <1>1, <2>2 DEF On
  <1> QED BY <1>9, <1>10

\* A heading of a processor that has come to a branch holds no other place.
LEMMA HeadingStops ==
  ASSUME NEW p, Stops(At(p.pc)), NEW z \in Heading(p)
  PROVE  /\ p.pc \in Sites /\ z \in Places /\ z[1] = At(p.pc) /\ z[2] \in Stacks
         /\ Exact(p) => Innermost(z[2], CallsIn(p.frames))
  <1>1. z \in Places /\ p.pc \in Sites /\ At(p.pc) \in Idx /\ << >> \in Seq(BOOLEAN)
    BY SiteAt DEF Heading
  <1>2. PICK s, u \in Stacks :
          /\ Leads(<<At(p.pc), s>>, << >>, <<z[1], u>>, << >>)
          /\ Exact(p) => s = CallsIn(p.frames) /\ Innermost(z[2], u)
    BY DEF Heading
  <1> DEFINE a == <<At(p.pc), s>>
             b == <<z[1], u>>
  <1>3. a \in Places /\ a[1] = At(p.pc)
    BY <1>1, PlaceIs
  <1>4. Leads(a, << >>, b, << >>)
    BY <1>2
  <1>5. Stuck(a, << >>)
    <2> HIDE DEF a
    <2> QED BY <1>3, NoMoves
  <1>6. b = a
    <2> HIDE DEF a, b
    <2> QED BY <1>1, <1>3, <1>4, <1>5, LeadsNone
  <1>7. z[1] = At(p.pc) /\ u = s /\ z[2] \in Stacks
    BY <1>1, <1>6, PlaceIs
  <1> QED BY <1>1, <1>2, <1>7

\* The processor comes to a conditional branch: the decoder does with its outcome.
LEMMA OnFork ==
  ASSUME NEW p, NEW q, p.pc \in Sites, IsCond(At(p.pc)), q.pc \in Sites, NEW b \in BOOLEAN,
         At(q.pc) = ForkAt(At(p.pc), b), q.one = p.one,
         CallsIn(q.frames) \in Stacks, Exact(p) => CallsIn(q.frames) = CallsIn(p.frames),
         NEW x \in Places, NEW bs \in Seq(BOOLEAN), On(x, bs, Heading(p))
  PROVE  On(x, bs \o << b >>, Heading(q))
  <1>1. PICK z \in Heading(p) : Leads(x, bs, z, << >>)
    BY DEF On
  <1>2. /\ z \in Places /\ z[1] = At(p.pc) /\ z[2] \in Stacks /\ At(q.pc) \in Idx
        /\ Exact(p) => Innermost(z[2], CallsIn(p.frames))
    BY HeadingStops, SiteAt DEF Stops, IsCond
  <1>3. << >> \in Seq(BOOLEAN) /\ << b >> \in Seq(BOOLEAN) /\ << b >> # << >>
        /\ Head(<< b >>) = b /\ Tail(<< b >>) = << >>
    OBVIOUS
  <1>4. PICK y : y = <<At(q.pc), z[2]>>
    OBVIOUS
  <1>5. y \in Places /\ y[1] = At(q.pc) /\ y[2] = z[2] /\ ForkPlace(z, b) = y
    BY <1>2, <1>4, PlaceIs DEF ForkPlace
  <1>6. Moves(z, << b >>, y, << >>)
    BY <1>2, <1>3, <1>5 DEF Moves
  <1>7. Leads(x, bs \o << b >>, z, << b >>)
    BY <1>1, <1>2, <1>3, LeadsShift
  <1>8. Leads(z, << b >>, y, << >>)
    BY <1>2, <1>3, <1>6, LeadsStep
  <1>9. Leads(x, bs \o << b >>, y, << >>)
    BY <1>7, <1>8, LeadsTrans
  <1>10. y \in Heading(q)
    <2>1. Leads(<<At(q.pc), CallsIn(q.frames)>>, << >>, <<y[1], CallsIn(q.frames)>>, << >>)
      BY <1>5, LeadsHere
    <2>2. Exact(q) => Innermost(y[2], CallsIn(q.frames))
      BY <1>2, <1>5 DEF Exact
    <2> QED BY <1>5, <2>1, <2>2, HeadingHas
  <1> QED BY <1>9, <1>10 DEF On

\* The processor comes to a branch that takes a TIP and goes on at q: so does
\* the decoder.
LEMMA OnTurns ==
  ASSUME NEW p, NEW q, At(p.pc) \in Tips, q.one = p.one, NEW exit \in BOOLEAN,
         p.one => (ExitAt(At(p.pc)) <=> exit),
         Exact(p) /\ exit => CallsIn(p.frames) = << >>,
         Exact(p) /\ ~exit => \A t \in Stacks : Innermost(t, CallsIn(p.frames)) =>
                                Innermost(Took(<<At(p.pc), t>>, q.pc), CallsIn(q.frames)),
         NEW x, NEW bs, On(x, bs, Heading(p))
  PROVE  On(x, bs, Turns(q, exit))
  <1>1. PICK z \in Heading(p) : Leads(x, bs, z, << >>)
    BY DEF On
  <1>2. Stops(At(p.pc))
    BY DEF Tips, Stops
  <1>3. /\ z \in Places /\ z[1] = At(p.pc) /\ z[2] \in Stacks /\ z = <<At(p.pc), z[2]>>
        /\ Exact(p) => Innermost(z[2], CallsIn(p.frames))
    BY <1>2, HeadingStops, PlaceIs
  <1>4. Exact(q) <=> Exact(p)
    BY DEF Exact
  <1>5. Exact(q) /\ exit => z[2] = << >>
    <2>1. \A w, t \in Stacks : w \o t = << >> => t = << >>
      BY DEF Stacks
    <2> QED BY <1>3, <1>4, <2>1 DEF Innermost
  <1>6. Exact(q) /\ ~exit => Innermost(Took(z, q.pc), CallsIn(q.frames))
    BY <1>3, <1>4
  <1>7. z \in Turns(q, exit)
    BY <1>3, <1>5, <1>6 DEF Turns
  <1> QED BY <1>1, <1>7 DEF On

-----------------------------------------------------------------------------
(* Calls on the way.  What a path pushes does not depend on the calls that  *)
(* were in progress where it begins.                                       *)

LEMMA AppendOver ==
  ASSUME NEW w \in Stacks, NEW v \in Stacks, NEW a \in Nat
  PROVE  Append(w \o v, a) = w \o Append(v, a)
  <1>1. w \in Seq(Nat) /\ v \in Seq(Nat) /\ w \o v \in Seq(Nat) /\ << a >> \in Seq(Nat)
    BY DEF Stacks
  <1>2. Append(w \o v, a) = (w \o v) \o << a >>
    <2>1. \A t \in Seq(Nat) : Append(t, a) = t \o << a >>
      BY AppendIsConcat
    <2> QED BY <1>1, <2>1
  <1>3. Append(v, a) = v \o << a >>
    BY <1>1, AppendIsConcat
  <1>4. (w \o v) \o << a >> = w \o (v \o << a >>)
    BY <1>1, ConcatAssociative
  <1> QED BY <1>2, <1>3, <1>4

LEMMA LeadsOver ==
  ASSUME NEW i \in Idx, NEW bs \in Seq(BOOLEAN), NEW j \in Idx, NEW v \in Stacks, NEW cs \in Seq(BOOLEAN),
         NEW w \in Stacks, Leads(<<i, << >>>>, bs, <<j, v>>, cs)
  PROVE  Leads(<<i, w>>, bs, <<j, w \o v>>, cs)
  <1> DEFINE T == {t \in Places \X Seq(BOOLEAN) : Leads(<<i, w>>, bs, <<t[1][1], w \o t[1][2]>>, t[2])}
  <1>1. \A x \in Places, b \in Seq(BOOLEAN) :
          <<x, b>> \in T <=> Leads(<<i, w>>, bs, <<x[1], w \o x[2]>>, b)
    OBVIOUS
  <1>2. T \in SUBSET (Places \X Seq(BOOLEAN))
    OBVIOUS
  <1> HIDE DEF T
  <1>3. Closed(T)
    <2> SUFFICES ASSUME NEW x \in Places, NEW y \in Places, NEW b \in Seq(BOOLEAN), NEW c \in Seq(BOOLEAN),
                        <<x, b>> \in T, Moves(x, b, y, c)
                 PROVE  <<y, c>> \in T
      BY DEF Closed
    <2>1. x[1] \in Idx /\ x[2] \in Stacks /\ y[1] \in Idx /\ y[2] \in Stacks
      BY PlaceIs
    <2>2. w \o x[2] \in Stacks /\ w \o y[2] \in Stacks
      BY <2>1 DEF Stacks
    <2> DEFINE u == <<x[1], w \o x[2]>>
               z == <<y[1], w \o y[2]>>
    <2>3. u \in Places /\ u[1] = x[1] /\ u[2] = w \o x[2]
      BY <2>1, <2>2, PlaceIs
    <2>4. CallsAt(x[1], w \o x[2]) = w \o CallsAt(x[1], x[2])
      <3>1. RetAddr(x[1] + 1) \in Nat
        BY <2>1, RetAddrNat
      <3>2. \A a \in Nat : Append(w \o x[2], a) = w \o Append(x[2], a)
        BY <2>1, AppendOver
      <3> QED BY <3>1, <3>2 DEF CallsAt
    <2>5. Moves(u, b, z, c)
      <3>1. CASE DirectAt(x[1]) /\ y = NextPlace(x) /\ c = b
        <4>1. y[1] = NextAt(x[1]) /\ y[2] = CallsAt(x[1], x[2])
          BY <3>1 DEF NextPlace
        <4>2. z = NextPlace(u)
          BY <2>3, <2>4, <4>1 DEF NextPlace
        <4> QED BY <2>3, <3>1, <4>2 DEF Moves
      <3>2. CASE IsCond(x[1]) /\ b # << >> /\ y = ForkPlace(x, Head(b)) /\ c = Tail(b)
        <4>1. y[1] = ForkAt(x[1], Head(b)) /\ y[2] = x[2]
          BY <3>2 DEF ForkPlace
        <4>2. z = ForkPlace(u, Head(b))
          BY <2>3, <4>1 DEF ForkPlace
        <4> QED BY <2>3, <3>2, <4>2 DEF Moves
      <3> QED BY <3>1, <3>2 DEF Moves
    <2>6. Leads(<<i, w>>, bs, u, b)
      BY <1>1
    <2> HIDE DEF u, z
    <2>7. Leads(u, b, z, c)
      BY <2>3, <2>5, LeadsStep
    <2>8. Leads(<<i, w>>, bs, z, c)
      BY <2>6, <2>7, LeadsTrans
    <2> QED BY <1>1, <2>8 DEF z
  <1>4. << >> \in Stacks /\ w \o << >> = w
    BY DEF Stacks
  <1>5. <<i, << >>>> \in Places /\ <<j, v>> \in Places
    BY <1>4, PlaceIs
  <1>6. <<<<i, << >>>>, bs>> \in T
    <2>1. Leads(<<i, w>>, bs, <<i, w \o << >>>>, bs)
      BY <1>4, LeadsHere
    <2> QED BY <1>1, <1>5, <2>1
  <1>7. <<<<j, v>>, cs>> \in T
    BY <1>2, <1>3, <1>6 DEF Leads
  <1> QED BY <1>1, <1>5, <1>7

\* Onto w a path from i to j pushes what makes it u.
Pushed(i, bs, j, u, cs, w) ==
  \E v \in Stacks : u = w \o v /\ Leads(<<i, << >>>>, bs, <<j, v>>, cs)

LEMMA LeadsUnder ==
  ASSUME NEW i \in Idx, NEW bs \in Seq(BOOLEAN), NEW j \in Idx, NEW u \in Stacks, NEW cs \in Seq(BOOLEAN),
         NEW w \in Stacks, Leads(<<i, w>>, bs, <<j, u>>, cs)
  PROVE  Pushed(i, bs, j, u, cs, w)
  <1> DEFINE T == {t \in Places \X Seq(BOOLEAN) :
                     \E v \in Stacks : t[1][2] = w \o v /\ Leads(<<i, << >>>>, bs, <<t[1][1], v>>, t[2])}
  <1>1. \A x \in Places, b \in Seq(BOOLEAN) :
          <<x, b>> \in T <=> \E v \in Stacks : x[2] = w \o v /\ Leads(<<i, << >>>>, bs, <<x[1], v>>, b)
    OBVIOUS
  <1>2. T \in SUBSET (Places \X Seq(BOOLEAN))
    OBVIOUS
  <1> HIDE DEF T
  <1>3. Closed(T)
    <2> SUFFICES ASSUME NEW x \in Places, NEW y \in Places, NEW b \in Seq(BOOLEAN), NEW c \in Seq(BOOLEAN),
                        <<x, b>> \in T, Moves(x, b, y, c)
                 PROVE  <<y, c>> \in T
      BY DEF Closed
    <2>1. x[1] \in Idx /\ x[2] \in Stacks /\ y[1] \in Idx /\ y[2] \in Stacks
      BY PlaceIs
    <2>2. PICK v \in Stacks : x[2] = w \o v /\ Leads(<<i, << >>>>, bs, <<x[1], v>>, b)
      BY <1>1
    <2> DEFINE z == <<x[1], v>>
    <2>3. z \in Places /\ z[1] = x[1] /\ z[2] = v
      BY <2>1, PlaceIs
    <2>4. CallsAt(x[1], v) \in Stacks /\ CallsAt(x[1], w \o v) = w \o CallsAt(x[1], v)
      <3>1. RetAddr(x[1] + 1) \in Nat
        BY <2>1, RetAddrNat
      <3>2. \A a \in Nat : Append(w \o v, a) = w \o Append(v, a)
        BY AppendOver
      <3> QED BY <2>1, <3>1, <3>2, CallsAtInnermost DEF CallsAt
    <2>5. PICK r \in Stacks : y[2] = w \o r /\ Moves(z, b, <<y[1], r>>, c)
      <3>1. CASE DirectAt(x[1]) /\ y = NextPlace(x) /\ c = b
        <4>1. y[1] = NextAt(x[1]) /\ y[2] = CallsAt(x[1], x[2])
          BY <3>1 DEF NextPlace
        <4>2. <<y[1], CallsAt(x[1], v)>> = NextPlace(z)
          BY <2>3, <4>1 DEF NextPlace
        <4>3. Moves(z, b, <<y[1], CallsAt(x[1], v)>>, c)
          BY <2>3, <3>1, <4>2 DEF Moves
        <4> QED BY <2>2, <2>4, <4>1, <4>3
      <3>2. CASE IsCond(x[1]) /\ b # << >> /\ y = ForkPlace(x, Head(b)) /\ c = Tail(b)
        <4>1. y[1] = ForkAt(x[1], Head(b)) /\ y[2] = x[2]
          BY <3>2 DEF ForkPlace
        <4>2. <<y[1], v>> = ForkPlace(z, Head(b))
          BY <2>3, <4>1 DEF ForkPlace
        <4>3. Moves(z, b, <<y[1], v>>, c)
          BY <2>3, <3>2, <4>2 DEF Moves
        <4> QED BY <2>2, <4>1, <4>3
      <3> QED BY <3>1, <3>2 DEF Moves
    <2> HIDE DEF z
    <2>6. Leads(z, b, <<y[1], r>>, c)
      BY <2>3, <2>5, LeadsStep
    <2>7. Leads(<<i, << >>>>, bs, <<y[1], r>>, c)
      <3>1. Leads(<<i, << >>>>, bs, z, b)
        BY <2>2 DEF z
      <3> QED BY <2>6, <3>1, LeadsTrans
    <2> QED BY <1>1, <2>5, <2>7
  <1>4. << >> \in Stacks /\ w \o << >> = w
    BY DEF Stacks
  <1>5. <<i, w>> \in Places /\ <<j, u>> \in Places /\ <<i, w>>[1] = i /\ <<i, w>>[2] = w
    BY PlaceIs
  <1>6. <<<<i, w>>, bs>> \in T
    <2>1. Leads(<<i, << >>>>, bs, <<i, << >>>>, bs)
      BY LeadsHere
    <2> QED BY <1>1, <1>4, <1>5, <2>1
  <1>7. <<<<j, u>>, cs>> \in T
    BY <1>2, <1>3, <1>6 DEF Leads
  <1> QED BY <1>1, <1>5, <1>7 DEF Pushed

-----------------------------------------------------------------------------
(* Ahead.                                                                  *)

\* The two ways to say what follows a direct instruction.
LEMMA OnwardAt ==
  ASSUME NEW addr \in Sites
  PROVE  /\ Direct(addr) <=> DirectAt(At(addr))
         /\ Direct(addr) => Onward(addr) \in Sites /\ At(Onward(addr)) = NextAt(At(addr))
         /\ Direct(addr) => (Calls(addr) <=> CallAt(At(addr)))
         /\ Calls(addr) => After(addr) \in Sites /\ After(addr) = RetAddr(At(addr) + 1)
  <1>1. At(addr) \in Idx
    BY SiteAt
  <1>2. CASE Insts[At(addr)].type = "NONE"
    <2>1. At(addr) + 1 \in Idx
      BY <1>1, <1>2, GoesOn DEF DirectAt, NextAt
    <2>2. Insts[At(addr) + 1].addr \in Sites /\ At(Insts[At(addr) + 1].addr) = At(addr) + 1
      BY <2>1, AtSite
    <2> QED BY <1>2, <2>2 DEF Direct, DirectAt, Onward, NextAt, After, Calls, CallAt
  <1>3. CASE Insts[At(addr)].type # "NONE"
    <2>1. Direct(addr) <=> DirectAt(At(addr))
      BY DEF Direct, DirectAt
    <2>2. Direct(addr) => Onward(addr) \in Sites /\ At(Onward(addr)) = NextAt(At(addr))
      BY <1>1, <1>3, GoesOn DEF Direct, Onward, NextAt
    <2>3. Calls(addr) => At(addr) + 1 < NoInsts
      BY <1>1, CodeAssumption DEF Calls, Idx
    <2>4. Calls(addr) => At(addr) + 1 \in Idx
      BY <1>1, <2>3, InstsAssumption DEF Idx
    <2>5. Calls(addr) => After(addr) \in Sites
      BY <2>4, AtSite DEF After
    <2> QED BY <1>3, <2>1, <2>2, <2>3, <2>5 DEF After, RetAddr, Direct, Calls, CallAt
  <1> QED BY <1>2, <1>3

\* Where the way of addr ends, and the calls made on it.
Finals(addr) == {z \in Places : ~DirectAt(z[1]) /\ Leads(<<At(addr), << >>>>, << >>, z, << >>)}

\* A way has one end.
LEMMA FinalsOne ==
  ASSUME NEW addr \in Sites, NEW y \in Finals(addr), NEW z \in Finals(addr)
  PROVE  y = z
  <1>1. /\ y \in Places /\ ~DirectAt(y[1]) /\ Leads(<<At(addr), << >>>>, << >>, y, << >>)
        /\ z \in Places /\ ~DirectAt(z[1]) /\ Leads(<<At(addr), << >>>>, << >>, z, << >>)
    BY DEF Finals
  <1>2. << >> \in Seq(BOOLEAN) /\ <<At(addr), << >>>> \in Places
    <2>1. << >> \in Stacks
      BY DEF Stacks
    <2> QED BY <2>1, SiteAt, PlaceIs
  <1>3. Stuck(y, << >>) /\ Stuck(z, << >>)
    BY <1>1 DEF Stuck, Moves
  <1> DEFINE T == {t \in Places \X Seq(BOOLEAN) : Leads(t[1], t[2], z, << >>)}
  <1>4. \A x \in Places, b \in Seq(BOOLEAN) : <<x, b>> \in T <=> Leads(x, b, z, << >>)
    OBVIOUS
  <1>5. T \in SUBSET (Places \X Seq(BOOLEAN))
    OBVIOUS
  <1> HIDE DEF T
  <1>6. Closed(T)
    <2> SUFFICES ASSUME NEW v \in Places, NEW w \in Places, NEW b \in Seq(BOOLEAN), NEW c \in Seq(BOOLEAN),
                        <<v, b>> \in T, Moves(v, b, w, c)
                 PROVE  <<w, c>> \in T
      BY DEF Closed
    <2>1. ~(z = v /\ << >> = b)
      BY <1>3 DEF Stuck
    <2>2. Leads(w, c, z, << >>)
      BY <1>4, <2>1, LeadsOn
    <2> QED BY <1>4, <2>2
  <1>7. <<y, << >>>> \in T
    BY <1>1, <1>2, <1>4, <1>5, <1>6 DEF Leads
  <1>8. Leads(y, << >>, z, << >>)
    BY <1>1, <1>2, <1>4, <1>7
  <1> QED BY <1>1, <1>3, <1>8, LeadsNone

\* At a branch it ends at once.
LEMMA FinalsHere ==
  ASSUME NEW addr \in Sites, ~Direct(addr)
  PROVE  Finals(addr) = {<<At(addr), << >>>>}
  <1> DEFINE x == <<At(addr), << >>>>
  <1>1. x \in Places /\ x[1] = At(addr) /\ ~DirectAt(x[1])
    <2>1. << >> \in Stacks
      BY DEF Stacks
    <2> QED BY <2>1, SiteAt, PlaceIs, OnwardAt
  <1>2. x \in Finals(addr)
    BY <1>1, LeadsHere DEF Finals
  <1> HIDE DEF x
  <1>3. \A z \in Finals(addr) : z = x
    BY <1>2, FinalsOne
  <1> QED BY <1>2, <1>3 DEF x

\* Elsewhere it goes on, with a call more when there is one.
LEMMA FinalsOnward ==
  ASSUME NEW addr \in Sites, Direct(addr)
  PROVE  LET c == IF Calls(addr) THEN << After(addr) >> ELSE << >>
         IN  /\ \A z \in Finals(Onward(addr)) : <<z[1], c \o z[2]>> \in Finals(addr)
             /\ Finals(addr) # {} => Finals(Onward(addr)) # {}
  <1> DEFINE to == Onward(addr)
             c  == IF Calls(addr) THEN << After(addr) >> ELSE << >>
             x  == <<At(addr), << >>>>
             y  == <<At(to), c>>
  <1>1. /\ to \in Sites /\ At(to) = NextAt(At(addr)) /\ DirectAt(At(addr))
        /\ At(addr) \in Idx /\ At(to) \in Idx /\ << >> \in Seq(BOOLEAN)
    BY OnwardAt, SiteAt
  <1>2. c \in Stacks /\ c = CallsAt(At(addr), << >>)
    <2>1. Calls(addr) => After(addr) \in Nat /\ After(addr) = RetAddr(At(addr) + 1) /\ CallAt(At(addr))
      BY OnwardAt, SiteAt
    <2>2. ~Calls(addr) => ~CallAt(At(addr))
      BY OnwardAt
    <2>3. \A a : Append(<< >>, a) = << a >>
      OBVIOUS
    <2> QED BY <2>1, <2>2, <2>3 DEF CallsAt, Stacks
  <1> HIDE DEF to, c
  <1>3. x \in Places /\ x[1] = At(addr) /\ x[2] = << >> /\ y \in Places
    <2>1. << >> \in Stacks
      BY DEF Stacks
    <2> QED BY <1>1, <1>2, <2>1, PlaceIs
  <1>4. Moves(x, << >>, y, << >>)
    BY <1>1, <1>2, <1>3 DEF Moves, NextPlace
  <1>5. ASSUME NEW z \in Finals(to) PROVE <<z[1], c \o z[2]>> \in Finals(addr)
    <2>1. z \in Places /\ ~DirectAt(z[1]) /\ Leads(<<At(to), << >>>>, << >>, z, << >>)
      BY DEF Finals
    <2>2. z[1] \in Idx /\ z[2] \in Stacks /\ z = <<z[1], z[2]>> /\ c \o z[2] \in Stacks
      BY <1>2, <2>1, PlaceIs, ConcatProperties DEF Stacks
    <2>3. Leads(y, << >>, <<z[1], c \o z[2]>>, << >>)
      BY <1>1, <1>2, <2>1, <2>2, LeadsOver
    <2>4. Leads(x, << >>, <<z[1], c \o z[2]>>, << >>)
      <3> HIDE DEF x, y
      <3>1. Leads(x, << >>, y, << >>)
        BY <1>1, <1>3, <1>4, LeadsStep
      <3> QED BY <2>3, <3>1, LeadsTrans
    <2> QED BY <2>1, <2>2, <2>4, PlaceIs DEF Finals
  <1>6. ASSUME NEW z \in Finals(addr) PROVE Finals(to) # {}
    <2>1. z \in Places /\ ~DirectAt(z[1]) /\ Leads(x, << >>, z, << >>) /\ z # x
      BY <1>1, <1>3 DEF Finals
    <2>2. z[1] \in Idx /\ z[2] \in Stacks /\ z = <<z[1], z[2]>>
      BY <2>1, PlaceIs
    <2>3. Leads(y, << >>, z, << >>)
      <3> HIDE DEF x, y
      <3> QED BY <1>1, <1>3, <1>4, <2>1, LeadsOn
    <2>4. PICK v \in Stacks : Leads(<<At(to), << >>>>, << >>, <<z[1], v>>, << >>)
      <3>1. PICK e \in Seq(BOOLEAN) : e = << >>
        BY <1>1
      <3>2. Leads(<<At(to), c>>, e, <<z[1], z[2]>>, e)
        BY <2>2, <2>3, <3>1
      <3>3. Pushed(At(to), e, z[1], z[2], e, c)
        BY <1>1, <1>2, <2>2, <3>2, LeadsUnder
      <3> QED BY <3>1, <3>3 DEF Pushed
    <2>5. <<z[1], v>> \in Finals(to)
      BY <2>1, <2>2, <2>4, PlaceIs DEF Finals
    <2> QED BY <2>5
  <1> QED BY <1>5, <1>6 DEF to, c

\* What the way of addr ends with, if it ends: it is what the one behind ends with.
Final(addr) == CHOOSE z \in Finals(addr) : TRUE
Pushes(addr) == IF Calls(addr) THEN << After(addr) >> ELSE << >>

LEMMA FinalGoesOn ==
  ASSUME NEW addr \in Sites, Direct(addr)
  PROVE  /\ Onward(addr) \in Sites /\ (Finals(addr) = {} <=> Finals(Onward(addr)) = {})
         /\ Finals(addr) # {} => /\ Final(addr)[1] = Final(Onward(addr))[1]
                                 /\ Final(addr)[2] = Pushes(addr) \o Final(Onward(addr))[2]
  <1> DEFINE to == Onward(addr)
  <1>1. to \in Sites
    BY OnwardAt
  <1>2. /\ \A z \in Finals(to) : <<z[1], Pushes(addr) \o z[2]>> \in Finals(addr)
        /\ Finals(addr) # {} => Finals(to) # {}
    BY FinalsOnward DEF Pushes
  <1> HIDE DEF to
  <1>3. ASSUME Finals(addr) # {}
        PROVE  /\ Final(addr)[1] = Final(to)[1]
               /\ Final(addr)[2] = Pushes(addr) \o Final(to)[2]
    <2>1. Final(to) \in Finals(to) /\ Final(addr) \in Finals(addr)
      BY <1>2, <1>3 DEF Final
    <2> DEFINE y == <<Final(to)[1], Pushes(addr) \o Final(to)[2]>>
    <2>2. y \in Finals(addr) /\ y[1] = Final(to)[1] /\ y[2] = Pushes(addr) \o Final(to)[2]
      BY <1>2, <2>1
    <2> HIDE DEF y
    <2>3. Final(addr) = y
      BY <2>1, <2>2, FinalsOne
    <2> QED BY <2>2, <2>3
  <1> QED BY <1>1, <1>2, <1>3 DEF to

\* At a branch.
LEMMA FinalHere ==
  ASSUME NEW addr \in Sites, ~Direct(addr)
  PROVE  /\ Finals(addr) # {} /\ Final(addr)[1] = At(addr) /\ Final(addr)[2] = << >>
         /\ Insts[At(addr)].addr = addr
  <1>1. Finals(addr) = {<<At(addr), << >>>>}
    BY FinalsHere
  <1>2. Final(addr) = <<At(addr), << >>>>
    BY <1>1 DEF Final
  <1> QED BY <1>1, <1>2, SiteAt

\* The definition of Ahead defines a function.
LEMMA AheadDefined ==
  Ahead = [addr \in Sites \cup Foreign |->
             IF addr \notin Foreign /\ Direct(addr) THEN Ahead[Onward(addr)] ELSE addr]
  <1> DEFINE first(addr) == IF Finals(addr) = {} THEN 0 ELSE Insts[Final(addr)[1]].addr
             f == [addr \in Sites \cup Foreign |-> IF addr \in Foreign THEN addr ELSE first(addr)]
             step(g, addr) == IF addr \notin Foreign /\ Direct(addr) THEN g[Onward(addr)] ELSE addr
  <1>1. ASSUME NEW addr \in Sites, ~Direct(addr) PROVE first(addr) = addr
    BY <1>1, FinalHere
  <1>2. ASSUME NEW addr \in Sites, Direct(addr) PROVE Onward(addr) \in Sites /\ first(addr) = first(Onward(addr))
    BY <1>2, FinalGoesOn
  <1> HIDE DEF first
  <1>3. \A addr \in Sites \cup Foreign : f[addr] = step(f, addr)
    <2> SUFFICES ASSUME NEW addr \in Sites \cup Foreign PROVE f[addr] = step(f, addr)
      OBVIOUS
    <2>1. CASE addr \in Foreign
      BY <2>1
    <2>2. CASE addr \notin Foreign /\ ~Direct(addr)
      BY <1>1, <2>2
    <2>3. CASE addr \notin Foreign /\ Direct(addr)
      <3>1. Onward(addr) \in Sites /\ first(addr) = first(Onward(addr))
        BY <1>2, <2>3
      <3>2. Onward(addr) \notin Foreign
        BY <3>1, SiteAt
      <3> QED BY <2>3, <3>1, <3>2
    <2> QED BY <2>1, <2>2, <2>3
  <1>4. f = [addr \in Sites \cup Foreign |-> step(f, addr)]
    <2>1. f = [addr \in Sites \cup Foreign |-> f[addr]]
      OBVIOUS
    <2> HIDE DEF f
    <2> QED BY <1>3, <2>1
  <1>5. \E g : g = [addr \in Sites \cup Foreign |-> step(g, addr)]
    <2> HIDE DEF f, step
    <2> QED BY <1>4
  <1>6. Ahead = CHOOSE g : g = [addr \in Sites \cup Foreign |-> step(g, addr)]
    BY DEF Ahead
  <1>7. Ahead = [addr \in Sites \cup Foreign |-> step(Ahead, addr)]
    <2> HIDE DEF step
    <2> QED BY <1>5, <1>6
  <1> QED BY <1>7

\* The way of addr ends where Ahead says.
LEMMA AheadEnds ==
  ASSUME NEW addr \in Sites, NEW z \in Finals(addr)
  PROVE  Ahead[addr] = Insts[z[1]].addr
  <1>1. /\ z \in Places /\ ~DirectAt(z[1]) /\ Leads(<<At(addr), << >>>>, << >>, z, << >>)
        /\ At(addr) \in Idx /\ Insts[At(addr)].addr = addr
    BY SiteAt DEF Finals
  <1>2. z[1] \in Idx
    BY <1>1, PlaceIs
  <1> DEFINE T == {t \in Places \X Seq(BOOLEAN) : t[2] = << >> /\ Ahead[Insts[t[1][1]].addr] = Ahead[addr]}
  <1>3. \A x \in Places, b \in Seq(BOOLEAN) :
          <<x, b>> \in T <=> b = << >> /\ Ahead[Insts[x[1]].addr] = Ahead[addr]
    OBVIOUS
  <1>4. T \in SUBSET (Places \X Seq(BOOLEAN))
    OBVIOUS
  <1> HIDE DEF T
  <1>5. Closed(T)
    <2> SUFFICES ASSUME NEW x \in Places, NEW y \in Places, NEW b \in Seq(BOOLEAN), NEW c \in Seq(BOOLEAN),
                        <<x, b>> \in T, Moves(x, b, y, c)
                 PROVE  <<y, c>> \in T
      BY DEF Closed
    <2> DEFINE a == Insts[x[1]].addr
    <2>1. b = << >> /\ Ahead[a] = Ahead[addr] /\ DirectAt(x[1]) /\ y = NextPlace(x) /\ c = << >>
      BY <1>3 DEF Moves
    <2>2. x[1] \in Idx /\ y[1] = NextAt(x[1])
      BY <2>1, PlaceIs DEF NextPlace
    <2>3. a \in Sites /\ At(a) = x[1] /\ a \notin Foreign
      BY <2>2, AtSite, SiteAt
    <2> HIDE DEF a
    <2>4. Direct(a) /\ Onward(a) \in Sites /\ At(Onward(a)) = y[1]
      BY <2>1, <2>2, <2>3, OnwardAt
    <2>5. Insts[y[1]].addr = Onward(a)
      BY <2>4, SiteAt
    <2>6. Ahead[a] = Ahead[Onward(a)]
      BY <2>3, <2>4, AheadDefined
    <2> QED BY <1>3, <2>1, <2>5, <2>6
  <1>6. <<At(addr), << >>>> \in Places /\ <<At(addr), << >>>>[1] = At(addr)
    <2>1. << >> \in Stacks
      BY DEF Stacks
    <2> QED BY <1>1, <2>1, PlaceIs
  <1>7. <<z, << >>>> \in T
    <2>1. << >> \in Seq(BOOLEAN)
      OBVIOUS
    <2>2. <<<<At(addr), << >>>>, << >>>> \in T
      BY <1>1, <1>3, <1>6, <2>1
    <2> QED BY <1>1, <1>4, <1>5, <2>2 DEF Leads
  <1>8. Ahead[Insts[z[1]].addr] = Ahead[addr]
    <2>1. << >> \in Seq(BOOLEAN)
      OBVIOUS
    <2> QED BY <1>1, <1>3, <1>7, <2>1
  <1>9. Insts[z[1]].addr \in Sites /\ At(Insts[z[1]].addr) = z[1] /\ Insts[z[1]].addr \notin Foreign
    BY <1>2, AtSite, SiteAt
  <1>10. ~Direct(Insts[z[1]].addr)
    BY <1>1, <1>9, OnwardAt
  <1>11. Ahead[Insts[z[1]].addr] = Insts[z[1]].addr
    BY <1>9, <1>10, AheadDefined
  <1> QED BY <1>8, <1>11

\* No code runs on for ever without a conditional, an indirect or a far branch.
BranchesAhead ==
  \E rank \in [Sites -> Nat] :
    \A addr \in Sites : Direct(addr) => rank[Onward(addr)] < rank[addr]

\* Then a fact that holds of an address whenever it holds of the one behind
\* holds of every one.
LEMMA RankInduction ==
  ASSUME BranchesAhead, NEW S \in SUBSET Sites,
         \A addr \in Sites : ~Direct(addr) => addr \in S,
         \A addr \in Sites : Direct(addr) /\ Onward(addr) \in S => addr \in S
  PROVE  S = Sites
  <1>1. PICK rank \in [Sites -> Nat] :
          \A addr \in Sites : Direct(addr) => rank[Onward(addr)] < rank[addr]
    BY DEF BranchesAhead
  <1> DEFINE T == {rank[addr] : addr \in Sites \ S}
  <1> SUFFICES ASSUME T # {} PROVE FALSE
    OBVIOUS
  <1>2. PICK n \in T : \A k \in T : n <= k
    <2>1. T \in SUBSET Nat
      OBVIOUS
    <2> HIDE DEF T
    <2> QED BY <2>1, LeastOf
  <1>3. PICK addr \in Sites \ S : n = rank[addr]
    OBVIOUS
  <1>4. Direct(addr) /\ Onward(addr) \in Sites
    BY <1>3, OnwardAt
  <1>5. Onward(addr) \notin S /\ rank[Onward(addr)] < n
    BY <1>1, <1>3, <1>4
  <1>6. n <= rank[Onward(addr)]
    BY <1>2, <1>4, <1>5
  <1>7. n \in Nat /\ rank[Onward(addr)] \in Nat
    BY <1>3, <1>4
  <1> QED BY <1>5, <1>6, <1>7

\* Every way ends, and the definition of CallsAhead defines a function: the
\* calls made up to there.
LEMMA CallsAheadIs ==
  ASSUME BranchesAhead, NEW addr \in Sites
  PROVE  Finals(addr) # {} /\ CallsAhead[addr] = Final(addr)[2]
  <1>1. {a \in Sites : Finals(a) # {}} = Sites
    <2> DEFINE S == {a \in Sites : Finals(a) # {}}
    <2>1. S \in SUBSET Sites
      OBVIOUS
    <2>2. \A a \in Sites : ~Direct(a) => a \in S
      BY FinalHere
    <2>3. \A a \in Sites : Direct(a) /\ Onward(a) \in S => a \in S
      BY FinalGoesOn
    <2> HIDE DEF S
    <2>4. S = Sites
      BY <2>1, <2>2, <2>3, RankInduction
    <2> QED BY <2>4 DEF S
  <1> DEFINE f == [a \in Sites \cup Foreign |-> IF a \in Foreign THEN << >> ELSE Final(a)[2]]
             step(g, a) == IF a \notin Foreign /\ Direct(a) THEN Pushes(a) \o g[Onward(a)] ELSE << >>
  <1>2. \A a \in Sites \cup Foreign : f[a] = step(f, a)
    <2> SUFFICES ASSUME NEW a \in Sites \cup Foreign PROVE f[a] = step(f, a)
      OBVIOUS
    <2>1. CASE a \in Foreign
      BY <2>1
    <2>2. CASE a \notin Foreign /\ ~Direct(a)
      <3>1. Final(a)[2] = << >>
        BY <2>2, FinalHere
      <3> QED BY <2>2, <3>1
    <2>3. CASE a \notin Foreign /\ Direct(a)
      <3>1. Onward(a) \in Sites /\ Final(a)[2] = Pushes(a) \o Final(Onward(a))[2]
        BY <1>1, <2>3, FinalGoesOn
      <3>2. Onward(a) \notin Foreign
        BY <3>1, SiteAt
      <3>3. f[Onward(a)] = Final(Onward(a))[2] /\ f[a] = Final(a)[2]
        BY <2>3, <3>1, <3>2
      <3> HIDE DEF f
      <3> QED BY <2>3, <3>1, <3>3
    <2> QED BY <2>1, <2>2, <2>3
  <1>3. f = [a \in Sites \cup Foreign |-> step(f, a)]
    <2>1. f = [a \in Sites \cup Foreign |-> f[a]]
      OBVIOUS
    <2> HIDE DEF f, step
    <2> QED BY <1>2, <2>1
  <1>4. \E g : g = [a \in Sites \cup Foreign |-> step(g, a)]
    <2> HIDE DEF f, step
    <2> QED BY <1>3
  <1>5. CallsAhead = CHOOSE g : g = [a \in Sites \cup Foreign |-> step(g, a)]
    BY DEF CallsAhead, Pushes
  <1>6. CallsAhead = [a \in Sites \cup Foreign |-> step(CallsAhead, a)]
    <2> HIDE DEF step
    <2> QED BY <1>4, <1>5
  <1>7. {a \in Sites : CallsAhead[a] = Final(a)[2]} = Sites
    <2> DEFINE S == {a \in Sites : CallsAhead[a] = Final(a)[2]}
    <2>1. S \in SUBSET Sites
      OBVIOUS
    <2>2. ASSUME NEW a \in Sites PROVE CallsAhead[a] = step(CallsAhead, a) /\ a \notin Foreign
      <3> HIDE DEF step
      <3> QED BY <1>6, SiteAt
    <2>3. ASSUME NEW a \in Sites, ~Direct(a) PROVE a \in S
      BY <2>2, <2>3, FinalHere
    <2>4. ASSUME NEW a \in Sites, Direct(a), Onward(a) \in S PROVE a \in S
      <3>1. Final(a)[2] = Pushes(a) \o Final(Onward(a))[2]
        BY <1>1, <2>4, FinalGoesOn
      <3>2. CallsAhead[a] = Pushes(a) \o CallsAhead[Onward(a)]
        BY <2>2, <2>4
      <3> QED BY <2>4, <3>1, <3>2
    <2> HIDE DEF S
    <2>5. S = Sites
      BY <2>1, <2>3, <2>4, RankInduction
    <2> QED BY <2>5 DEF S
  <1> QED BY <1>1, <1>7

\* A decoder that waits on the way of the processor waits where its way ends.
LEMMA WaitsAtEnd ==
  ASSUME NEW x \in Places, Stops(x[1]), NEW p, On(x, << >>, Heading(p))
  PROVE  /\ p.pc \in Sites
         /\ \E s, v \in Stacks :
              /\ <<x[1], v>> \in Finals(p.pc)
              /\ Exact(p) => s = CallsIn(p.frames) /\ Innermost(x[2], s \o v)
  <1>1. x \in Heading(p) /\ p.pc \in Sites
    <2>1. PICK z \in Heading(p) : Leads(x, << >>, z, << >>)
      BY DEF On
    <2>2. Stuck(x, << >>)
      BY NoMoves
    <2>3. z = x
      BY <2>1, <2>2, LeadsNone
    <2> QED BY <2>1, <2>3 DEF Heading
  <1>2. PICK s, u \in Stacks :
          /\ Leads(<<At(p.pc), s>>, << >>, <<x[1], u>>, << >>)
          /\ Exact(p) => s = CallsIn(p.frames) /\ Innermost(x[2], u)
    BY <1>1 DEF Heading
  <1>3. At(p.pc) \in Idx /\ x[1] \in Idx
    BY <1>1, SiteAt, PlaceIs
  <1>4. Pushed(At(p.pc), << >>, x[1], u, << >>, s)
    <2>1. PICK e \in Seq(BOOLEAN) : e = << >>
      <3>1. << >> \in Seq(BOOLEAN)
        OBVIOUS
      <3> QED BY <3>1
    <2>2. Pushed(At(p.pc), e, x[1], u, e, s)
      BY <1>2, <1>3, <2>1, LeadsUnder
    <2> QED BY <2>1, <2>2
  <1>5. PICK v \in Stacks : u = s \o v /\ Leads(<<At(p.pc), << >>>>, << >>, <<x[1], v>>, << >>)
    BY <1>4 DEF Pushed
  <1>6. <<x[1], v>> \in Places /\ <<x[1], v>>[1] = x[1]
    BY <1>3, PlaceIs
  <1>7. <<x[1], v>> \in Finals(p.pc)
    <2>1. ~DirectAt(x[1])
      BY DEF Stops, DirectAt
    <2> QED BY <1>5, <1>6, <2>1 DEF Finals
  <1>8. Exact(p) => s = CallsIn(p.frames) /\ Innermost(x[2], s \o v)
    BY <1>2, <1>5
  <1> QED BY <1>1, <1>7, <1>8

\* That is the branch the processor executes next.
LEMMA WaitsAhead ==
  ASSUME NEW x \in Places, Stops(x[1]), NEW p, On(x, << >>, Heading(p))
  PROVE  p.pc \in Sites /\ Ahead[p.pc] = Insts[x[1]].addr
  <1>1. PICK v \in Stacks : <<x[1], v>> \in Finals(p.pc) /\ p.pc \in Sites
    BY WaitsAtEnd
  <1> QED BY <1>1, AheadEnds

\* And its calls are the innermost ones in progress there.
LEMMA CallsWaitAhead ==
  ASSUME NEW x \in Places, Stops(x[1]), NEW p, On(x, << >>, Heading(p)), Exact(p),
         CallsIn(p.frames) \in Stacks, BranchesAhead
  PROVE  CallsAhead[p.pc] \in Stacks /\ Innermost(x[2], CallsIn(p.frames) \o CallsAhead[p.pc])
  <1>1. PICK s, v \in Stacks : /\ <<x[1], v>> \in Finals(p.pc) /\ p.pc \in Sites
                               /\ s = CallsIn(p.frames) /\ Innermost(x[2], s \o v)
    BY WaitsAtEnd
  <1>2. Finals(p.pc) # {} /\ CallsAhead[p.pc] = Final(p.pc)[2]
    BY <1>1, CallsAheadIs
  <1>3. Final(p.pc) \in Finals(p.pc)
    BY <1>2 DEF Final
  <1>4. Final(p.pc) = <<x[1], v>>
    BY <1>1, <1>3, FinalsOne
  <1>5. CallsAhead[p.pc] = v
    BY <1>2, <1>4
  <1> QED BY <1>1, <1>5

\* A function on the first numbers is a sequence.
LEMMA FunctionIsSeq ==
  ASSUME NEW S, NEW n \in Nat, NEW f \in [1 .. n -> S]
  PROVE  f \in Seq(S) /\ Len(f) = n
  <1>1. f \in Seq(S)
    BY SeqDef
  <1>2. Len(f) \in Nat /\ DOMAIN f = 1 .. Len(f) /\ DOMAIN f = 1 .. n
    BY <1>1, LenProperties
  <1>3. Len(f) = n
    <2>1. Len(f) >= 1 => Len(f) \in 1 .. n
      BY <1>2
    <2>2. n >= 1 => n \in 1 .. Len(f)
      BY <1>2
    <2> QED BY <1>2, <2>1, <2>2
  <1> QED BY <1>1, <1>3

\* The innermost calls are a suffix.
LEMMA InnermostSuffix ==
  ASSUME NEW t \in Stacks, NEW u \in Stacks, Innermost(t, u)
  PROVE  IsSuffix(t, u)
  <1>1. PICK w \in Stacks : u = w \o t
    BY DEF Innermost
  <1>2. PICK m \in Nat, n \in Nat : m = Len(w) /\ n = Len(t)
    BY DEF Stacks
  <1>3. /\ Len(u) = m + n
        /\ \A k \in 1 .. m + n : u[k] = IF k <= m THEN w[k] ELSE t[k - m]
    BY <1>1, <1>2, ConcatProperties DEF Stacks
  <1> DEFINE a == Reverse(t)
             b == Reverse(u)
  <1>4. /\ a \in [1 .. n -> Nat] /\ \A k \in 1 .. n : a[k] = t[n - k + 1]
    <2>1. \A k \in 1 .. n : t[n - k + 1] \in Nat
      BY <1>2 DEF Stacks
    <2> QED BY <1>2, <2>1 DEF Reverse
  <1>5. /\ b \in [1 .. m + n -> Nat] /\ \A k \in 1 .. m + n : b[k] = u[m + n - k + 1]
    <2>1. \A k \in 1 .. m + n : u[m + n - k + 1] \in Nat
      BY <1>2, <1>3 DEF Stacks
    <2> QED BY <1>3, <2>1 DEF Reverse
  <1> HIDE DEF a, b
  <1>6. ASSUME NEW k \in 1 .. n PROVE a[k] = b[k]
    <2>1. k \in 1 .. m + n /\ m + n - k + 1 \in 1 .. m + n /\ ~(m + n - k + 1 <= m)
          /\ m + n - k + 1 - m = n - k + 1
      BY <1>2
    <2>2. b[k] = t[n - k + 1]
      BY <1>3, <1>5, <2>1
    <2> QED BY <1>4, <2>2
  <1>7. a \in Seq(Nat) /\ b \in Seq(Nat) /\ Len(a) = n /\ Len(b) = m + n
    <2>1. a \in Seq(Nat) /\ Len(a) = n
      BY <1>2, <1>4, FunctionIsSeq
    <2>2. m + n \in Nat /\ b \in [1 .. m + n -> Nat]
      BY <1>2, <1>5
    <2>3. b \in Seq(Nat) /\ Len(b) = m + n
      BY <2>2, FunctionIsSeq
    <2> QED BY <2>1, <2>3
  <1>8. SubSeq(a, 1, n) = SubSeq(b, 1, n)
    <2>1. SubSeq(a, 1, n) = [k \in 1 .. n |-> a[k]]
      BY <1>2, <1>7
    <2>2. SubSeq(b, 1, n) = [k \in 1 .. n |-> b[k]]
      BY <1>2, <1>7
    <2> QED BY <1>6, <2>1, <2>2
  <1>9. IsPrefix(a, b)
    BY <1>2, <1>7, <1>8 DEF IsPrefix
  <1> QED BY <1>9 DEF IsSuffix, a, b
-----------------------------------------------------------------------------
(* The invariant: the decoder.                                             *)

\* The return addresses a call stack stands for, and the place of a context.
AddrsOf(s) == [k \in DOMAIN s |-> RetAddr(s[k])]
Addrs(c)   == AddrsOf(c.call_stack)
Place(c)   == << c.last_inst, Addrs(c) >>

\* The bits a context has: at most one packet's, which may be used up.
Holds(c, bs) == (c.tnt_queue = << >> /\ bs = << >>) \/ c.tnt_queue = << bs >>

\* A context that claims a position is on its way to G, given the bits it has and
\* the ones it has not been given yet.
Nears(c, more, G) ==
  c.last_inst # NoInst =>
    \E bs \in Seq(BOOLEAN) : Holds(c, bs) /\ On(Place(c), bs \o more, G)

\* The processor q as it was before the frame m, when it was at src.
Back(q, src, m) == [pc |-> src, frames |-> SubSeq(q.frames, 1, m - 1), one |-> q.one]

\* The frames n of the interrupts in progress when the contexts were opened: all
\* that come above the first of them.
Nested(d, q, n) ==
  /\ \A k \in 1 .. d.ctx_idx :
       /\ n[k] \in 2 .. Len(q.frames) /\ q.frames[n[k]].irq
       /\ q.frames[n[k]].ret = d.ctx[k].async_src
  /\ \A j, k \in 1 .. d.ctx_idx : j < k => n[j] < n[k]
  /\ \A m \in 1 .. Len(q.frames) :
       q.frames[m].irq /\ d.ctx_idx > 0 /\ n[1] < m => \E k \in 1 .. d.ctx_idx : m = n[k]

\* An interrupted context waits on the way from where the processor was
\* interrupted.
Awaits(d, q, n) ==
  \A k \in 1 .. d.ctx_idx :
    /\ d.ctx[k].async_src # NoAddr
    /\ q.one => d.ctx[k - 1].last_inst # NoInst
    /\ d.ctx[k - 1].last_inst # NoInst =>
         On(Place(d.ctx[k - 1]), << >>, Heading(Back(q, d.ctx[k].async_src, n[k])))

\* The outermost context belongs to no interrupt.
Rooted(d) == d.ctx[0].async_src = NoAddr

Chain(d, q) ==
  /\ Rooted(d)
  /\ \E n \in [1 .. d.ctx_idx -> Nat] : Awaits(d, q, n) /\ (q.one => Nested(d, q, n))

\* A decoder that has no target to take, of a processor whose interrupts are
\* those of q.  One that waits has no bits either, and waits at a branch.
Follows(d, more, G, q) ==
  /\ Nears(this_ctx(d), more, G)
  /\ this_ctx(d).tip_queue = << >>
  /\ this_ctx(d).last_inst = NoInst => this_ctx(d).tnt_queue = << >> /\ ~q.one
  /\ IF d.walking THEN more = << >>
     ELSE /\ this_ctx(d).tnt_queue = << >>
          /\ this_ctx(d).last_inst # NoInst => Stops(this_ctx(d).last_inst)
  /\ Chain(d, q)

\* What p was before the end of the interrupt that brought it where it is.
Before(p, exit) ==
  IF exit THEN [pc |-> p.pc, frames |-> Append(p.frames, Frame(p.pc, TRUE)), one |-> p.one] ELSE p

\* A decoder on its way to the branch that takes the target it has.
Takes(d, p, exit) ==
  /\ d.walking /\ this_ctx(d).last_inst # NoInst
  /\ this_ctx(d).tip_queue = << p.pc >> /\ Nears(this_ctx(d), << >>, Turns(p, exit))
  /\ Chain(d, Before(p, exit))

\* A decoder that is to be restarted, and has nothing left.
Waits(d) == ~d.walking /\ Empty(this_ctx(d)) /\ Rooted(d)

-----------------------------------------------------------------------------
(* Call stacks and places.                                                 *)

\* A call stack stands for return addresses, one per call.
LEMMA AddrsOfStack ==
  ASSUME NEW s \in Seq(1 .. NoInsts)
  PROVE  /\ AddrsOf(s) \in Stacks /\ Len(AddrsOf(s)) = Len(s)
         /\ \A k \in 1 .. Len(s) : AddrsOf(s)[k] = RetAddr(s[k])
         /\ AddrsOf(s) = << >> <=> s = << >>
  <1>1. \A i \in 1 .. NoInsts : RetAddr(i) \in Nat
    <2> SUFFICES ASSUME NEW i \in 1 .. NoInsts PROVE RetAddr(i) \in Nat
      OBVIOUS
    <2>1. i - 1 \in Idx /\ i - 1 + 1 = i
      BY InstsAssumption DEF Idx
    <2> QED BY <2>1, RetAddrNat
  <1>2. PICK n \in Nat : n = Len(s) /\ DOMAIN s = 1 .. n
    OBVIOUS
  <1>3. \A k \in 1 .. n : s[k] \in 1 .. NoInsts
    BY <1>2, ElementOfSeq
  <1>4. AddrsOf(s) \in [1 .. n -> Nat] /\ \A k \in 1 .. n : AddrsOf(s)[k] = RetAddr(s[k])
    BY <1>1, <1>2, <1>3 DEF AddrsOf
  <1>5. AddrsOf(s) \in Seq(Nat) /\ Len(AddrsOf(s)) = n
    BY <1>4, FunctionIsSeq
  <1>6. AddrsOf(s) = << >> <=> n = 0
    BY <1>5
  <1>7. s = << >> <=> n = 0
    BY <1>2
  <1> QED BY <1>2, <1>4, <1>5, <1>6, <1>7 DEF Stacks

\* A call is pushed.
LEMMA AddrsPush ==
  ASSUME NEW s \in Seq(1 .. NoInsts), NEW i \in 1 .. NoInsts
  PROVE  AddrsOf(Append(s, i)) = Append(AddrsOf(s), RetAddr(i))
  <1> DEFINE t == Append(s, i)
             a == AddrsOf(t)
             b == Append(AddrsOf(s), RetAddr(i))
  <1>1. PICK n \in Nat : n = Len(s)
    OBVIOUS
  <1>2. t \in Seq(1 .. NoInsts) /\ Len(t) = n + 1 /\ t[n + 1] = i /\ \A k \in 1 .. n : t[k] = s[k]
    BY <1>1, AppendProperties
  <1> HIDE DEF t
  <1>3. /\ AddrsOf(s) \in Stacks /\ Len(AddrsOf(s)) = n /\ \A k \in 1 .. n : AddrsOf(s)[k] = RetAddr(s[k])
        /\ a \in Stacks /\ Len(a) = n + 1 /\ \A k \in 1 .. n + 1 : a[k] = RetAddr(t[k])
    BY <1>1, <1>2, AddrsOfStack
  <1>4. RetAddr(i) \in Nat
    <2>1. a[n + 1] = RetAddr(i) /\ a[n + 1] \in Nat
      BY <1>1, <1>2, <1>3 DEF Stacks
    <2> QED BY <2>1
  <1>5. b \in Stacks /\ Len(b) = n + 1 /\ b[n + 1] = RetAddr(i) /\ \A k \in 1 .. n : b[k] = AddrsOf(s)[k]
    BY <1>1, <1>3, <1>4, AppendProperties DEF Stacks
  <1> HIDE DEF a, b
  <1>6. \A k \in 1 .. n + 1 : a[k] = b[k]
    BY <1>1, <1>2, <1>3, <1>5
  <1>7. a = b
    BY <1>1, <1>3, <1>5, <1>6, SeqEqual DEF Stacks
  <1> QED BY <1>7 DEF a, b, t

\* What xed_process_rets makes of a call stack.
LEMMA AddrsPop ==
  ASSUME NEW s \in Seq(1 .. NoInsts), NEW tip
  PROVE  LET n == Len(s)
             t == IF RetAddr(s[n]) = tip THEN SubSeq(s, 1, n - 1) ELSE << >>
         IN  AddrsOf(IF n = 0 THEN s ELSE t) = Popped(AddrsOf(s), tip)
  <1> DEFINE a == AddrsOf(s)
  <1>1. PICK n \in Nat : n = Len(s)
    OBVIOUS
  <1>2. /\ a \in Stacks /\ Len(a) = n /\ (\A k \in 1 .. n : a[k] = RetAddr(s[k])) /\ (a = << >> <=> n = 0)
    BY <1>1, AddrsOfStack
  <1>3. AddrsOf(<< >>) = << >>
    BY DEF AddrsOf
  <1>4. CASE n = 0
    BY <1>1, <1>2, <1>4 DEF Popped
  <1>5. CASE n # 0
    <2> DEFINE f == SubSeq(s, 1, n - 1)
    <2>1. f \in Seq(1 .. NoInsts) /\ Len(f) = n - 1
      BY <1>1, <1>5, WithoutLast
    <2>2. \A k \in 1 .. n - 1 : f[k] = s[k]
      BY <1>1, <1>5
    <2> HIDE DEF f
    <2>3. AddrsOf(f) \in Stacks /\ Len(AddrsOf(f)) = n - 1 /\ \A k \in 1 .. n - 1 : AddrsOf(f)[k] = RetAddr(f[k])
      BY <2>1, AddrsOfStack
    <2> DEFINE g == SubSeq(a, 1, n - 1)
    <2>4. g \in Seq(Nat) /\ Len(g) = n - 1 /\ \A k \in 1 .. n - 1 : g[k] = a[k]
      <3>1. a \in Seq(Nat) /\ Len(a) # 0
        BY <1>2, <1>5 DEF Stacks
      <3> HIDE DEF a
      <3>2. SubSeq(a, 1, Len(a) - 1) \in Seq(Nat) /\ Len(SubSeq(a, 1, Len(a) - 1)) = Len(a) - 1
        BY <3>1, WithoutLast
      <3>3. \A k \in 1 .. n - 1 : SubSeq(a, 1, n - 1)[k] = a[k]
        BY <1>2, <3>1
      <3> QED BY <1>2, <3>2, <3>3
    <2>5. Last(a) = RetAddr(s[n]) /\ Front(a) = g /\ a # << >>
      BY <1>2, <1>5 DEF Last, Front
    <2> HIDE DEF a, g
    <2>6. AddrsOf(f) = g
      <3>1. \A k \in 1 .. n - 1 : AddrsOf(f)[k] = g[k]
        BY <1>2, <1>5, <2>2, <2>3, <2>4
      <3> QED BY <1>5, <2>3, <2>4, <3>1, SeqEqual DEF Stacks
    <2>7. Popped(a, tip) = IF RetAddr(s[n]) = tip THEN g ELSE << >>
      BY <2>5 DEF Popped
    <2>8. AddrsOf(IF RetAddr(s[n]) = tip THEN f ELSE << >>) = IF RetAddr(s[n]) = tip THEN g ELSE << >>
      BY <1>3, <2>6
    <2> QED BY <1>1, <1>5, <2>7, <2>8 DEF a, f
  <1> QED BY <1>4, <1>5

\* A context has a place of the table, or none.
LEMMA CtxPlace ==
  ASSUME NEW c \in CtxType
  PROVE  /\ Addrs(c) \in Stacks /\ (Addrs(c) = << >> <=> c.call_stack = << >>)
         /\ Place(c)[1] = c.last_inst /\ Place(c)[2] = Addrs(c)
         /\ c.last_inst # NoInst => c.last_inst \in Idx /\ Place(c) \in Places
  <1>1. c.call_stack \in Seq(1 .. NoInsts) /\ c.last_inst \in InstRange
    BY CtxFields
  <1>2. Addrs(c) \in Stacks /\ (Addrs(c) = << >> <=> c.call_stack = << >>)
    BY <1>1, AddrsOfStack DEF Addrs
  <1>3. c.last_inst # NoInst => c.last_inst \in Idx
    BY <1>1 DEF InstRange, Idx
  <1> QED BY <1>2, <1>3, PlaceIs DEF Place

-----------------------------------------------------------------------------
(* The operators of Xed: what they keep.                                   *)

\* From d to e only the current context changes, and not its source.
Like(d, e) ==
  /\ Sound(e) /\ Local(d, e) /\ e.walking = d.walking
  /\ this_ctx(e).async_src = this_ctx(d).async_src

\* Nor its input.
Kept(d, e) ==
  /\ Like(d, e)
  /\ this_ctx(e).tnt_queue = this_ctx(d).tnt_queue
  /\ this_ctx(e).tip_queue = this_ctx(d).tip_queue

\* It comes to the place x.
Moved(d, e, x) == Kept(d, e) /\ Place(this_ctx(e)) = x

\* One such change after another.
LEMMA LikeTrans ==
  ASSUME NEW d, NEW e, NEW f
  PROVE  /\ Like(d, e) /\ Like(e, f) => Like(d, f)
         /\ Kept(d, e) /\ Kept(e, f) => Kept(d, f)
         /\ Sound(d) => Kept(d, d)
  BY LocalTrans, LocalStays, SoundShape DEF Like, Kept

\* A new value of the current context.
LEMMA SetLike ==
  ASSUME NEW d, Sound(d), NEW c, Good(c), c.async_src = this_ctx(d).async_src
  PROVE  /\ Like(d, SetCtx(d, c)) /\ this_ctx(SetCtx(d, c)) = c
         /\ SetCtx(d, c).fatal = d.fatal
  <1>1. Sound(SetCtx(d, c)) /\ this_ctx(SetCtx(d, c)) = c /\ SetCtx(d, c).fatal = d.fatal
    BY SoundSetCtx
  <1>2. Local(d, SetCtx(d, c))
    BY SoundShape, LocalSet
  <1>3. SetCtx(d, c).walking = d.walking
    <2>1. d \in XedType
      BY DEF Sound
    <2> QED BY <2>1 DEF XedType, SetCtx
  <1> QED BY <1>1, <1>2, <1>3 DEF Like

\* A new position of the current context.
LEMMA MoveKeeps ==
  ASSUME NEW d, Sound(d), NEW i \in InstRange
  PROVE  /\ Moved(d, MoveTo(d, i), << i, Addrs(this_ctx(d)) >>)
         /\ MoveTo(d, i).fatal = d.fatal
  <1> DEFINE c == [this_ctx(d) EXCEPT !.last_inst = i]
  <1>1. Good(this_ctx(d)) /\ this_ctx(d) \in CtxType
    BY SoundFields
  <1>2. /\ Good(c) /\ c.async_src = this_ctx(d).async_src /\ c.last_inst = i
        /\ c.tnt_queue = this_ctx(d).tnt_queue /\ c.tip_queue = this_ctx(d).tip_queue
        /\ c.call_stack = this_ctx(d).call_stack
    BY <1>1, GoodMove DEF CtxType
  <1>3. MoveTo(d, i) = SetCtx(d, c)
    BY DEF MoveTo
  <1> HIDE DEF c
  <1>4. Place(c) = << i, Addrs(this_ctx(d)) >>
    BY <1>2 DEF Place, Addrs
  <1> QED BY <1>2, <1>3, <1>4, SetLike DEF Kept, Moved

\* What has failed has failed.
LEMMA FatalFails == ASSUME NEW d, Sound(d), NEW m, m # "none" PROVE ~Ok(Fatal(d, m))
  BY DEF Ok, Fatal, Sound, XedType

\* A target is followed to where the search finds it.
LEMMA UpdateMoves ==
  ASSUME NEW d, Sound(d), NEW addr, Ok(xed_update_last_inst(d, addr))
  PROVE  /\ Moved(d, xed_update_last_inst(d, addr),
                  << xed_unwind_find_inst(addr), Addrs(this_ctx(d)) >>)
         /\ Ok(d)
  <1> DEFINE moved == MoveTo(d, xed_unwind_find_inst(addr))
  <1>1. Ok(d)
    BY DEF xed_update_last_inst
  <1>2. Moved(d, moved, << xed_unwind_find_inst(addr), Addrs(this_ctx(d)) >>) /\ Sound(moved)
    BY FindInRange, MoveKeeps DEF Moved, Kept, Like
  <1>3. xed_update_last_inst(d, addr) \in {moved} \cup {Fatal(moved, m) : m \in Messages \ {"none"}}
    BY <1>1 DEF xed_update_last_inst, Messages
  <1> HIDE DEF moved
  <1>4. xed_update_last_inst(d, addr) = moved
    BY <1>2, <1>3, FatalFails
  <1> QED BY <1>1, <1>2, <1>4

\* The next instruction.
LEMMA AdvanceMoves ==
  ASSUME NEW d, Sound(d), this_ctx(d).last_inst \in Idx, Ok(Advance(d))
  PROVE  /\ Moved(d, Advance(d), << this_ctx(d).last_inst + 1, Addrs(this_ctx(d)) >>)
         /\ Ok(d)
  <1> DEFINE i == this_ctx(d).last_inst
  <1>1. ~(i + 1 >= NoInsts)
    BY FatalFails DEF Advance
  <1>2. Advance(d) = MoveTo(d, i + 1)
    BY <1>1 DEF Advance
  <1> HIDE DEF i
  <1>3. i + 1 \in InstRange
    BY <1>1, InstsAssumption DEF Idx, InstRange, i
  <1> QED BY <1>2, <1>3, MoveKeeps DEF Ok, i

\* Calls change the call stack only.
LEMMA CallsKeep ==
  ASSUME NEW d, Sound(d), NEW s \in Seq(1 .. NoInsts), Len(s) < CALL_STACK_LEN
  PROVE  LET e == SetCtx(d, [this_ctx(d) EXCEPT !.call_stack = s])
         IN  Moved(d, e, << this_ctx(d).last_inst, AddrsOf(s) >>) /\ e.fatal = d.fatal
  <1> DEFINE c == [this_ctx(d) EXCEPT !.call_stack = s]
  <1>1. Good(this_ctx(d)) /\ this_ctx(d) \in CtxType
    BY SoundFields
  <1>2. /\ Good(c) /\ c.async_src = this_ctx(d).async_src /\ c.last_inst = this_ctx(d).last_inst
        /\ c.tnt_queue = this_ctx(d).tnt_queue /\ c.tip_queue = this_ctx(d).tip_queue
        /\ c.call_stack = s
    BY <1>1, GoodCalls DEF CtxType
  <1> HIDE DEF c
  <1>3. Place(c) = << this_ctx(d).last_inst, AddrsOf(s) >>
    BY <1>2 DEF Place, Addrs
  <1> QED BY <1>2, <1>3, SetLike DEF Kept, Moved, c

\* A call is pushed.
LEMMA PushMoves ==
  ASSUME NEW d, Sound(d), this_ctx(d).last_inst \in Idx, Ok(PushCall(d))
  PROVE  LET c == this_ctx(d)
         IN  /\ Moved(d, PushCall(d), << c.last_inst, Append(Addrs(c), RetAddr(c.last_inst + 1)) >>)
             /\ Ok(d)
  <1> DEFINE c == this_ctx(d)
             s == Append(c.call_stack, c.last_inst + 1)
  <1>1. Good(c) /\ c \in CtxType /\ c.call_stack \in Seq(1 .. NoInsts)
    BY SoundFields, CtxFields
  <1>2. c.last_inst + 1 \in 1 .. NoInsts
    BY InstsAssumption DEF Idx
  <1>3. ~(Len(c.call_stack) + 1 >= CALL_STACK_LEN)
    BY FatalFails DEF PushCall
  <1>4. s \in Seq(1 .. NoInsts) /\ Len(s) = Len(c.call_stack) + 1
    BY <1>1, <1>2, AppendProperties
  <1>5. Len(s) < CALL_STACK_LEN
    BY <1>1, <1>3, <1>4, SizesAssumption
  <1>6. PushCall(d) = SetCtx(d, [c EXCEPT !.call_stack = s])
    BY <1>3 DEF PushCall
  <1>7. AddrsOf(s) = Append(Addrs(c), RetAddr(c.last_inst + 1))
    BY <1>1, <1>2, AddrsPush DEF Addrs
  <1> HIDE DEF s
  <1> QED BY <1>4, <1>5, <1>6, <1>7, CallsKeep DEF Ok

\* A return pops one, or all.
LEMMA PopMoves ==
  ASSUME NEW d, Sound(d), NEW tip
  PROVE  LET c == this_ctx(d)
         IN  /\ Moved(d, PopCall(d, tip), << c.last_inst, Popped(Addrs(c), tip) >>)
             /\ PopCall(d, tip).fatal = d.fatal
  <1> DEFINE c == this_ctx(d)
             n == Len(c.call_stack)
             s == IF RetAddr(c.call_stack[n]) = tip THEN SubSeq(c.call_stack, 1, n - 1) ELSE << >>
  <1>1. Good(c) /\ c \in CtxType /\ c.call_stack \in Seq(1 .. NoInsts)
    BY SoundFields, CtxFields
  <1>2. AddrsOf(IF n = 0 THEN c.call_stack ELSE s) = Popped(Addrs(c), tip)
    BY <1>1, AddrsPop DEF Addrs
  <1>3. CASE n = 0
    <2>1. PopCall(d, tip) = d
      BY <1>3 DEF PopCall
    <2>2. Place(c) = << c.last_inst, Popped(Addrs(c), tip) >>
      BY <1>2, <1>3 DEF Place, Addrs
    <2>3. Kept(d, d)
      BY LikeTrans
    <2> QED BY <2>1, <2>2, <2>3 DEF Moved
  <1>4. CASE n # 0
    <2>1. n \in Nat /\ n < CALL_STACK_LEN
      BY <1>1 DEF Good
    <2>2. /\ SubSeq(c.call_stack, 1, n - 1) \in Seq(1 .. NoInsts)
          /\ Len(SubSeq(c.call_stack, 1, n - 1)) = n - 1
      BY <1>1, <1>4, WithoutLast
    <2>3. << >> \in Seq(1 .. NoInsts) /\ Len(<< >>) = 0
      OBVIOUS
    <2>4. n - 1 < CALL_STACK_LEN /\ 0 < CALL_STACK_LEN
      BY <2>1, SizesAssumption
    <2>5. s \in Seq(1 .. NoInsts) /\ Len(s) < CALL_STACK_LEN
      <3>1. CASE RetAddr(c.call_stack[n]) = tip
        BY <2>2, <2>4, <3>1
      <3>2. CASE RetAddr(c.call_stack[n]) # tip
        BY <2>3, <2>4, <3>2
      <3> QED BY <3>1, <3>2
    <2>6. PopCall(d, tip) = SetCtx(d, [c EXCEPT !.call_stack = s])
      BY <1>4 DEF PopCall
    <2>7. AddrsOf(s) = Popped(Addrs(c), tip)
      BY <1>2, <1>4
    <2> HIDE DEF s
    <2> QED BY <2>5, <2>6, <2>7, CallsKeep
  <1> QED BY <1>3, <1>4

-----------------------------------------------------------------------------
(* One turn of the walk.                                                   *)

\* What is left of the bits when an entry that is used up is dropped.
Left(bs) == IF bs = << >> THEN << >> ELSE << bs >>

\* A turn that goes on, one that waits at a branch, and one that takes a target.
Turned(d, e, bs) ==
  /\ Like(d, e) /\ this_ctx(e).tip_queue = this_ctx(d).tip_queue
  /\ \E cs : Moves(Place(this_ctx(d)), bs, Place(this_ctx(e)), cs) /\ Holds(this_ctx(e), cs)

Stopped(d, e, bs) ==
  /\ Local(d, e) /\ ~e.walking
  /\ this_ctx(e).async_src = this_ctx(d).async_src
  /\ Place(this_ctx(e)) = Place(this_ctx(d))
  /\ this_ctx(e).tip_queue = this_ctx(d).tip_queue /\ this_ctx(e).tnt_queue = Left(bs)
  /\ \/ IsCond(this_ctx(d).last_inst) /\ bs = << >>
     \/ this_ctx(d).last_inst \in Tips /\ this_ctx(d).tip_queue = << >>

Arrived(d, e, bs, tip) ==
  /\ Like(d, e)
  /\ Place(this_ctx(e)) = << xed_unwind_find_inst(tip), Took(Place(this_ctx(d)), tip) >>
  /\ this_ctx(e).tip_queue = Tail(this_ctx(d).tip_queue) /\ this_ctx(e).tnt_queue = Left(bs)

Taken(d, e, bs) ==
  /\ this_ctx(d).last_inst \in Tips /\ this_ctx(d).tip_queue # << >>
  /\ LET tip == Head(this_ctx(d).tip_queue)
     IN  \E f : /\ Arrived(d, f, bs, tip)
                /\ e = IF ExitAt(this_ctx(d).last_inst) THEN AsyncExit(f, tip) ELSE f

\* At a branch.
LEMMA AtBranchHas ==
  ASSUME Sound(xed), NEW bs \in Seq(BOOLEAN), Holds(this_ctx(xed), bs)
  PROVE  /\ Like(xed, AtBranch) /\ Sound(AtBranch) /\ AtBranch.fatal = xed.fatal
         /\ this_ctx(AtBranch).last_inst = this_ctx(xed).last_inst
         /\ this_ctx(AtBranch).call_stack = this_ctx(xed).call_stack
         /\ this_ctx(AtBranch).tip_queue = this_ctx(xed).tip_queue
         /\ this_ctx(AtBranch).tnt_queue = Left(bs)
  <1> DEFINE c == this_ctx(xed)
             e == DropExhausted(c)
  <1>1. Good(c) /\ c \in CtxType /\ Good(e)
    BY SoundFields, GoodDrop
  <1>2. /\ e.async_src = c.async_src /\ e.last_inst = c.last_inst /\ e.tip_queue = c.tip_queue
        /\ e.call_stack = c.call_stack
    BY <1>1 DEF DropExhausted, CtxType
  <1>3. e.tnt_queue = Left(bs)
    <2>1. CASE c.tnt_queue = << >> /\ bs = << >>
      BY <2>1 DEF DropExhausted, Left
    <2>2. CASE c.tnt_queue = << bs >>
      <3>1. c.tnt_queue # << >> /\ Head(c.tnt_queue) = bs /\ Tail(c.tnt_queue) = << >>
        BY <2>2
      <3>2. CASE bs = << >>
        <4>1. e = [c EXCEPT !.tnt_queue = Tail(c.tnt_queue)]
          BY <3>1, <3>2 DEF DropExhausted
        <4>2. e.tnt_queue = Tail(c.tnt_queue)
          BY <1>1, <4>1 DEF CtxType
        <4> QED BY <3>1, <3>2, <4>2 DEF Left
      <3>3. CASE bs # << >>
        BY <2>2, <3>1, <3>3 DEF DropExhausted, Left
      <3> QED BY <3>2, <3>3
    <2> QED BY <2>1, <2>2 DEF Holds
  <1>4. AtBranch = SetCtx(xed, e)
    BY DEF AtBranch
  <1> HIDE DEF e, c
  <1>5. this_ctx(xed) = c
    BY DEF c
  <1>6. Like(xed, AtBranch) /\ this_ctx(AtBranch) = e /\ AtBranch.fatal = xed.fatal
    BY <1>1, <1>2, <1>4, <1>5, SetLike
  <1>7. Sound(AtBranch)
    BY <1>6 DEF Like
  <1> QED BY <1>2, <1>3, <1>5, <1>6, <1>7

\* The bits left are those held.
LEMMA LeftHolds == ASSUME NEW c, NEW bs, c.tnt_queue = Left(bs) PROVE Holds(c, bs)
  BY DEF Left, Holds

\* The end of the loop.
LEMMA ReturnStops ==
  ASSUME NEW d, Sound(d)
  PROVE  Local(d, Return(d)) /\ ~Return(d).walking /\ this_ctx(Return(d)) = this_ctx(d)
  <1>1. d \in XedType
    BY DEF Sound
  <1>2. Return(d).ctx = d.ctx /\ Return(d).ctx_idx = d.ctx_idx /\ ~Return(d).walking
    BY <1>1 DEF XedType, Return
  <1>3. Local(d, Return(d))
    BY SoundShape, LocalScalars
  <1> QED BY <1>2, <1>3 DEF this_ctx

\* A walk that has nothing to take waits at the branch.
LEMMA BranchStops ==
  ASSUME Sound(xed), NEW bs \in Seq(BOOLEAN), Holds(this_ctx(xed), bs),
         \/ IsCond(this_ctx(xed).last_inst) /\ bs = << >>
         \/ this_ctx(xed).last_inst \in Tips /\ this_ctx(xed).tip_queue = << >>
  PROVE  Stopped(xed, Return(AtBranch), bs)
  <1> DEFINE d == AtBranch
  <1>1. /\ Like(xed, d) /\ Sound(d)
        /\ this_ctx(d).last_inst = this_ctx(xed).last_inst
        /\ this_ctx(d).call_stack = this_ctx(xed).call_stack
        /\ this_ctx(d).tip_queue = this_ctx(xed).tip_queue
        /\ this_ctx(d).tnt_queue = Left(bs)
    BY AtBranchHas
  <1> HIDE DEF d
  <1>2. Local(d, Return(d)) /\ ~Return(d).walking /\ this_ctx(Return(d)) = this_ctx(d)
    BY <1>1, ReturnStops
  <1>3. Local(xed, Return(d))
    BY <1>1, <1>2, LocalTrans DEF Like
  <1>4. Place(this_ctx(d)) = Place(this_ctx(xed))
    BY <1>1 DEF Place, Addrs
  <1>5. Stopped(xed, Return(d), bs)
    BY <1>1, <1>2, <1>3, <1>4 DEF Stopped, Like
  <1> QED BY <1>5 DEF d

\* A target is consumed when it has been followed.
LEMMA TakeTipArrives ==
  ASSUME NEW d, Sound(d), NEW e, Kept(d, e), this_ctx(e).tip_queue # << >>,
         NEW tip, Ok(TakeTip(e, tip))
  PROVE  LET f == TakeTip(e, tip)
         IN  /\ Like(d, f) /\ Place(this_ctx(f)) = << xed_unwind_find_inst(tip), Addrs(this_ctx(e)) >>
             /\ this_ctx(f).tip_queue = Tail(this_ctx(d).tip_queue)
             /\ this_ctx(f).tnt_queue = this_ctx(d).tnt_queue /\ Ok(e)
  <1> DEFINE moved == xed_update_last_inst(e, tip)
             c == [this_ctx(moved) EXCEPT !.tip_queue = Tail(@)]
             x == << xed_unwind_find_inst(tip), Addrs(this_ctx(e)) >>
  <1>1. Ok(moved)
    BY DEF TakeTip
  <1>2. Sound(e)
    BY DEF Kept, Like
  <1>3. Moved(e, moved, x) /\ Ok(e)
    BY <1>1, <1>2, UpdateMoves
  <1>4. TakeTip(e, tip) = SetCtx(moved, c)
    BY <1>1 DEF TakeTip, PopTip
  <1> HIDE DEF moved, x
  <1>5. Kept(d, moved) /\ Sound(moved)
    BY <1>3, LikeTrans DEF Moved, Kept, Like
  <1>6. Good(this_ctx(moved)) /\ this_ctx(moved) \in CtxType /\ this_ctx(moved).tip_queue # << >>
    BY <1>3, <1>5, SoundFields DEF Moved, Kept
  <1>7. /\ Good(c) /\ c.async_src = this_ctx(moved).async_src
        /\ c.last_inst = this_ctx(moved).last_inst /\ c.tnt_queue = this_ctx(moved).tnt_queue
        /\ c.tip_queue = Tail(this_ctx(moved).tip_queue)
        /\ c.call_stack = this_ctx(moved).call_stack
    BY <1>6, GoodPopTip DEF CtxType
  <1> HIDE DEF c
  <1>8. Like(moved, SetCtx(moved, c)) /\ this_ctx(SetCtx(moved, c)) = c
    BY <1>5, <1>7, SetLike
  <1>9. Like(d, SetCtx(moved, c))
    BY <1>5, <1>8, LikeTrans DEF Kept
  <1>10. Place(c) = x
    BY <1>3, <1>7 DEF Moved, Place, Addrs
  <1> QED BY <1>3, <1>4, <1>5, <1>7, <1>8, <1>9, <1>10 DEF Kept, x

\* An instruction that is no branch: the walk goes on to the next one.
LEMMA PlainTurns ==
  ASSUME Sound(xed), this_ctx(xed).last_inst \in Idx, NEW bs \in Seq(BOOLEAN),
         Holds(this_ctx(xed), bs), WalkPlain, Ok(xed')
  PROVE  Turned(xed, xed', bs)
  <1> DEFINE c == this_ctx(xed)
             i == c.last_inst
             e == Advance(xed)
  <1>1. xed' = e /\ Insts[i].type = "NONE" /\ Ok(e)
    BY DEF WalkPlain, WalkingAt, inst
  <1>2. Moved(xed, e, << i + 1, Addrs(c) >>)
    BY <1>1, AdvanceMoves
  <1>3. Place(c)[1] = i /\ Place(c)[2] = Addrs(c)
    BY SoundFields, CtxPlace
  <1>4. << i + 1, Addrs(c) >> = NextPlace(Place(c)) /\ DirectAt(Place(c)[1])
    BY <1>1, <1>3 DEF NextPlace, NextAt, CallsAt, CallAt, DirectAt
  <1> HIDE DEF e, i, c
  <1>5. Moves(Place(c), bs, Place(this_ctx(e)), bs)
    BY <1>2, <1>4 DEF Moves, Moved
  <1>6. Holds(this_ctx(e), bs) /\ Like(xed, e) /\ this_ctx(e).tip_queue = c.tip_queue
    BY <1>2 DEF Holds, Moved, Kept, c
  <1>7. Turned(xed, e, bs)
    BY <1>5, <1>6 DEF Turned, c
  <1> QED BY <1>1, <1>7

\* A conditional branch: one outcome is used, or the walk waits for one.
LEMMA CondTurns ==
  ASSUME Sound(xed), this_ctx(xed).last_inst \in Idx, NEW bs \in Seq(BOOLEAN),
         Holds(this_ctx(xed), bs), WalkCond, Ok(xed')
  PROVE  Turned(xed, xed', bs) \/ Stopped(xed, xed', bs)
  <1> DEFINE i == this_ctx(xed).last_inst
             s == Addrs(this_ctx(xed))
             d == AtBranch
             c == this_ctx(d)
             q == << Tail(Head(c.tnt_queue)) >> \o Tail(c.tnt_queue)
             r == [c EXCEPT !.tnt_queue = q]
             e == SetCtx(d, r)
  <1>1. IsCond(i)
    BY DEF WalkCond, WalkingAt, inst, IsCond
  <1>2. Like(xed, d) /\ Sound(d) /\ c.last_inst = i /\ c.tip_queue = this_ctx(xed).tip_queue
        /\ c.tnt_queue = Left(bs) /\ c.call_stack = this_ctx(xed).call_stack
    BY AtBranchHas
  <1>3. CASE bs = << >>
    <2>1. xed' = Return(d)
      BY <1>2, <1>3 DEF WalkCond, Left
    <2> QED BY <1>1, <1>3, <2>1, BranchStops
  <1>4. CASE bs # << >>
    <2>1. c.tnt_queue = << bs >> /\ Head(c.tnt_queue) = bs /\ Tail(c.tnt_queue) = << >>
          /\ c.tnt_queue # << >>
      BY <1>2, <1>4 DEF Left
    <2>2. q = << Tail(bs) >>
      BY <2>1
    <2>3. Good(c) /\ c \in CtxType
      BY <1>2, SoundFields
    <2>4. /\ xed' = IF Head(bs) THEN xed_update_last_inst(e, Insts[i].target) ELSE Advance(e)
          /\ Head(bs) \in BOOLEAN /\ Tail(bs) \in Seq(BOOLEAN)
      <3>1. xed' = IF Head(Head(c.tnt_queue)) THEN xed_update_last_inst(e, Insts[i].target)
                   ELSE Advance(e)
        BY <2>1 DEF WalkCond, inst
      <3>2. Head(bs) \in BOOLEAN /\ Tail(bs) \in Seq(BOOLEAN)
        BY <1>4, HeadTailProperties
      <3> QED BY <2>1, <3>1, <3>2
    <2>5. Good(r)
      BY <1>4, <2>1, <2>3, GoodBit
    <2>6. /\ r.async_src = c.async_src /\ r.last_inst = i /\ r.call_stack = this_ctx(xed).call_stack
          /\ r.tip_queue = this_ctx(xed).tip_queue /\ r.tnt_queue = << Tail(bs) >>
      BY <1>2, <2>2, <2>3 DEF CtxType
    <2> HIDE DEF r, q, d
    <2>7. Like(d, e) /\ this_ctx(e) = r
      BY <1>2, <2>5, <2>6, SetLike
    <2>8. Like(xed, e) /\ Sound(e)
      BY <1>2, <2>7, LikeTrans DEF Like
    <2> HIDE DEF e, c
    <2>9. this_ctx(e).last_inst = i /\ this_ctx(e).tnt_queue = << Tail(bs) >>
          /\ this_ctx(e).tip_queue = this_ctx(xed).tip_queue /\ Addrs(this_ctx(e)) = s
      BY <2>6, <2>7 DEF Addrs
    <2>10. Moved(e, xed', << ForkAt(i, Head(bs)), s >>)
      <3>1. CASE Head(bs)
        <4>1. xed' = xed_update_last_inst(e, Insts[i].target)
          BY <2>4, <3>1
        <4>2. Moved(e, xed', << xed_unwind_find_inst(Insts[i].target), Addrs(this_ctx(e)) >>)
          BY <2>8, <4>1, UpdateMoves
        <4>3. xed_unwind_find_inst(Insts[i].target) = At(Insts[i].target)
          BY <1>1, GoesOn DEF IsCond
        <4> QED BY <2>9, <3>1, <4>2, <4>3 DEF ForkAt
      <3>2. CASE ~Head(bs)
        <4>1. xed' = Advance(e)
          BY <2>4, <3>2
        <4>2. Moved(e, xed', << i + 1, Addrs(this_ctx(e)) >>)
          BY <2>8, <2>9, <4>1, AdvanceMoves
        <4> QED BY <2>9, <3>2, <4>2 DEF ForkAt
      <3> QED BY <3>1, <3>2
    <2> DEFINE x == Place(this_ctx(xed))
    <2>11. x[1] = i /\ x[2] = s
      BY SoundFields, CtxPlace
    <2>12. << ForkAt(i, Head(bs)), s >> = ForkPlace(x, Head(bs))
      BY <2>11 DEF ForkPlace
    <2> HIDE DEF x, s, i
    <2>13. Moves(x, bs, Place(this_ctx(xed')), Tail(bs))
      BY <1>1, <1>4, <2>10, <2>11, <2>12 DEF Moves, Moved
    <2>14. Like(xed, xed')
      BY <2>8, <2>10, LikeTrans DEF Moved, Kept
    <2>15. Holds(this_ctx(xed'), Tail(bs)) /\ this_ctx(xed').tip_queue = this_ctx(xed).tip_queue
      BY <2>9, <2>10 DEF Holds, Moved, Kept
    <2>16. Turned(xed, xed', bs)
      BY <2>13, <2>14, <2>15 DEF Turned, x
    <2> QED BY <2>16
  <1> QED BY <1>3, <1>4

\* A direct jump or call goes to its target.
LEMMA DirectTurns ==
  ASSUME Sound(xed), this_ctx(xed).last_inst \in Idx, NEW bs \in Seq(BOOLEAN),
         Holds(this_ctx(xed), bs), WalkDirect, Ok(xed')
  PROVE  Turned(xed, xed', bs)
  <1> DEFINE i == this_ctx(xed).last_inst
             s == Addrs(this_ctx(xed))
             d == AtBranch
             to == Insts[i].target
             y == << xed_unwind_find_inst(to), CallsAt(i, s) >>
  <1>1. Insts[i].type = "UNCOND_DIRECT_BRANCH"
    BY DEF WalkDirect, WalkingAt, inst
  <1>2. /\ Like(xed, d) /\ Sound(d) /\ this_ctx(d).last_inst = i /\ Addrs(this_ctx(d)) = s
        /\ this_ctx(d).tip_queue = this_ctx(xed).tip_queue /\ this_ctx(d).tnt_queue = Left(bs)
    BY AtBranchHas DEF Addrs
  <1>3. \/ Insts[i].category = "CALL" /\ xed' = xed_update_last_inst(PushCall(d), to)
        \/ Insts[i].category = "UNCOND_BR" /\ xed' = xed_update_last_inst(d, to)
    <2>1. Insts[i].category \in {"CALL", "UNCOND_BR"}
      BY <1>1, CodeAssumption DEF Idx
    <2>2. CASE Insts[i].category = "CALL"
      BY <2>2 DEF WalkDirect, inst
    <2>3. CASE Insts[i].category = "UNCOND_BR"
      BY <2>3 DEF WalkDirect, inst
    <2> QED BY <2>1, <2>2, <2>3
  <1> HIDE DEF d, to, s
  <1>4. Moved(d, xed', y)
    <2>1. CASE Insts[i].category = "CALL" /\ xed' = xed_update_last_inst(PushCall(d), to)
      <3>1. Ok(PushCall(d))
        BY <2>1 DEF xed_update_last_inst
      <3>2. Moved(d, PushCall(d), << i, Append(s, RetAddr(i + 1)) >>) /\ Sound(PushCall(d))
        BY <1>2, <3>1, PushMoves DEF Moved, Kept, Like
      <3>3. Moved(PushCall(d), xed', << xed_unwind_find_inst(to), Addrs(this_ctx(PushCall(d))) >>)
        BY <2>1, <3>2, UpdateMoves
      <3>4. Addrs(this_ctx(PushCall(d))) = CallsAt(i, s)
        BY <1>1, <2>1, <3>2 DEF Moved, Place, CallsAt, CallAt
      <3> QED BY <3>2, <3>3, <3>4, LikeTrans DEF Moved
    <2>2. CASE Insts[i].category = "UNCOND_BR" /\ xed' = xed_update_last_inst(d, to)
      <3>1. Moved(d, xed', << xed_unwind_find_inst(to), Addrs(this_ctx(d)) >>)
        BY <1>2, <2>2, UpdateMoves
      <3>2. CallsAt(i, s) = s
        BY <2>2 DEF CallsAt, CallAt
      <3> QED BY <1>2, <3>1, <3>2
    <2> QED BY <1>3, <2>1, <2>2
  <1> DEFINE x == Place(this_ctx(xed))
  <1>5. x[1] = i /\ x[2] = s
    BY SoundFields, CtxPlace DEF s
  <1>6. y = NextPlace(x) /\ DirectAt(x[1])
    BY <1>1, <1>5, GoesOn DEF NextPlace, NextAt, DirectAt, to
  <1> HIDE DEF x, y, i
  <1>7. Moves(x, bs, Place(this_ctx(xed')), bs)
    BY <1>4, <1>6 DEF Moves, Moved
  <1>8. Like(xed, xed')
    BY <1>2, <1>4, LikeTrans DEF Moved, Kept
  <1>9. Holds(this_ctx(xed'), bs) /\ this_ctx(xed').tip_queue = this_ctx(xed).tip_queue
    BY <1>2, <1>4, LeftHolds DEF Moved, Kept
  <1> QED BY <1>7, <1>8, <1>9 DEF Turned, x

\* A branch that takes a target waits for one, or goes there.
LEMMA TipTurns ==
  ASSUME Sound(xed), this_ctx(xed).last_inst \in Idx, NEW bs \in Seq(BOOLEAN),
         Holds(this_ctx(xed), bs), WalkIndirect \/ WalkFar, Ok(xed')
  PROVE  Stopped(xed, xed', bs) \/ Taken(xed, xed', bs)
  <1> DEFINE i == this_ctx(xed).last_inst
             x == Place(this_ctx(xed))
             s == Addrs(this_ctx(xed))
             d == AtBranch
             tip == Head(this_ctx(d).tip_queue)
  <1>1. i \in Tips
    BY DEF WalkIndirect, WalkFar, WalkingAt, inst, Tips
  <1>2. /\ Like(xed, d) /\ Sound(d) /\ this_ctx(d).last_inst = i /\ Addrs(this_ctx(d)) = s
        /\ this_ctx(d).tip_queue = this_ctx(xed).tip_queue /\ this_ctx(d).tnt_queue = Left(bs)
    BY AtBranchHas DEF Addrs
  <1>3. CASE this_ctx(d).tip_queue = << >>
    <2>1. xed' = Return(d)
      BY <1>3 DEF WalkIndirect, WalkFar
    <2> QED BY <1>1, <1>2, <1>3, <2>1, BranchStops
  <1>4. CASE this_ctx(d).tip_queue # << >>
    <2> DEFINE taken == Took(x, tip)
    <2>0. x[1] = i /\ x[2] = s
      BY SoundFields, CtxPlace
    <2>1. PICK e : /\ \/ e = d /\ taken = s
                      \/ e = PushCall(d) /\ taken = Append(s, RetAddr(i + 1))
                      \/ e = PopCall(d, tip) /\ taken = Popped(s, tip)
                   /\ xed' = IF ExitAt(i) THEN AsyncExit(TakeTip(e, tip), tip) ELSE TakeTip(e, tip)
      <3>1. CASE WalkIndirect
        <4>1. Insts[i].type = "INDIRECT_BRANCH" /\ ~ExitAt(i)
          BY <3>1 DEF WalkIndirect, WalkingAt, inst, ExitAt
        <4>2. CASE Insts[i].category = "CALL"
          <5>1. xed' = TakeTip(PushCall(d), tip)
            BY <1>4, <3>1, <4>2 DEF WalkIndirect, inst
          <5>2. taken = Append(s, RetAddr(i + 1))
            BY <2>0, <4>1, <4>2 DEF Took
          <5> QED BY <4>1, <5>1, <5>2
        <4>3. CASE Insts[i].category = "RET"
          <5>1. xed' = TakeTip(PopCall(d, tip), tip)
            BY <1>4, <3>1, <4>3 DEF WalkIndirect, inst
          <5>2. taken = Popped(s, tip)
            BY <2>0, <4>1, <4>3 DEF Took
          <5> QED BY <4>1, <5>1, <5>2
        <4>4. CASE Insts[i].category \notin {"CALL", "RET"}
          <5>1. xed' = TakeTip(d, tip)
            BY <1>4, <3>1, <4>4 DEF WalkIndirect, inst
          <5>2. taken = s
            BY <2>0, <4>1, <4>4 DEF Took
          <5> QED BY <4>1, <5>1, <5>2
        <4> QED BY <4>2, <4>3, <4>4
      <3>2. CASE WalkFar
        <4>1. Insts[i].type = "FAR_TRANSFER" /\ (ExitAt(i) <=> Insts[i].iret)
          BY <3>2 DEF WalkFar, WalkingAt, inst, ExitAt
        <4>2. xed' = IF Insts[i].iret THEN AsyncExit(TakeTip(d, tip), tip) ELSE TakeTip(d, tip)
          BY <1>4, <3>2 DEF WalkFar, inst
        <4>3. taken = s
          BY <2>0, <4>1 DEF Took
        <4> QED BY <4>1, <4>2, <4>3
      <3> QED BY <3>1, <3>2
    <2>2. tip = Head(this_ctx(xed).tip_queue)
      BY <1>2
    <2> HIDE DEF d, tip, s, taken
    <2> DEFINE f == TakeTip(e, tip)
    <2>3. Ok(f)
      <3>1. CASE xed' = f
        BY <3>1
      <3>2. CASE xed' = AsyncExit(f, tip)
        <4> HIDE DEF f
        <4>1. ~Ok(f) => CallsReturned(f) = f /\ NoInput(f, "async exit") = f
          BY DEF CallsReturned, NoInput
        <4>2. ~Ok(f) => AsyncExit(f, tip) = f
          BY <4>1 DEF AsyncExit
        <4> QED BY <3>2, <4>2
      <3> QED BY <2>1, <3>1, <3>2
    <2>4. Ok(e)
      BY <2>3 DEF TakeTip, xed_update_last_inst
    <2>5. Kept(d, e) /\ Addrs(this_ctx(e)) = taken
      <3>1. CASE e = d /\ taken = s
        BY <1>2, <3>1, LikeTrans
      <3>2. CASE e = PushCall(d) /\ taken = Append(s, RetAddr(i + 1))
        <4>1. Moved(d, e, << i, taken >>)
          BY <1>2, <2>4, <3>2, PushMoves
        <4> QED BY <4>1 DEF Moved, Place
      <3>3. CASE e = PopCall(d, tip) /\ taken = Popped(s, tip)
        <4>1. Moved(d, e, << i, taken >>)
          BY <1>2, <3>3, PopMoves
        <4> QED BY <4>1 DEF Moved, Place
      <3> QED BY <2>1, <3>1, <3>2, <3>3
    <2>6. this_ctx(e).tip_queue # << >>
      BY <1>4, <2>5 DEF Kept
    <2>7. /\ Like(d, f) /\ Place(this_ctx(f)) = << xed_unwind_find_inst(tip), taken >>
          /\ this_ctx(f).tip_queue = Tail(this_ctx(d).tip_queue)
          /\ this_ctx(f).tnt_queue = this_ctx(d).tnt_queue
      BY <1>2, <2>3, <2>5, <2>6, TakeTipArrives
    <2> HIDE DEF f
    <2>8. Like(xed, f)
      BY <1>2, <2>7, LikeTrans
    <2>9. Arrived(xed, f, bs, tip)
      BY <1>2, <2>7, <2>8 DEF Arrived, taken
    <2>10. xed' = IF ExitAt(i) THEN AsyncExit(f, tip) ELSE f
      BY <2>1 DEF f
    <2> QED BY <1>1, <1>2, <1>4, <2>2, <2>9, <2>10 DEF Taken
  <1> QED BY <1>3, <1>4

\* A context without a position: the walk returns.
LEMMA LostTurns ==
  ASSUME Sound(xed), Walk, this_ctx(xed).last_inst = NoInst
  PROVE  Local(xed, xed') /\ ~xed'.walking /\ this_ctx(xed') = this_ctx(xed)
  <1>1. xed' = Return(xed)
    BY DEF Walk, WalkLost, WalkPlain, WalkCond, WalkDirect, WalkIndirect, WalkFar, WalkingAt
  <1> QED BY <1>1, ReturnStops

\* Any other: one of the three.
LEMMA WalkTurns ==
  ASSUME Sound(xed), Walk, Ok(xed'), this_ctx(xed).last_inst # NoInst,
         NEW bs \in Seq(BOOLEAN), Holds(this_ctx(xed), bs)
  PROVE  Turned(xed, xed', bs) \/ Stopped(xed, xed', bs) \/ Taken(xed, xed', bs)
  <1>1. this_ctx(xed).last_inst \in Idx
    BY SoundFields, CtxFields DEF InstRange, Idx
  <1> QED BY <1>1, PlainTurns, CondTurns, DirectTurns, TipTurns DEF Walk, WalkLost

-----------------------------------------------------------------------------
(* Interrupted contexts.                                                   *)

\* Nothing but the current context changes, and not its source.
Alike(d, e) == Local(d, e) /\ this_ctx(e).async_src = this_ctx(d).async_src

\* Two stacks of frames with the same interrupts.
IrqAt(fs, m) == m \in 1 .. Len(fs) /\ fs[m].irq

SameIrqs(fs, gs) ==
  \A m \in Nat :
    /\ IrqAt(fs, m) <=> IrqAt(gs, m)
    /\ IrqAt(fs, m) => fs[m].ret = gs[m].ret /\ SubSeq(fs, 1, m - 1) = SubSeq(gs, 1, m - 1)

\* The fields of a processor before an interrupt.
LEMMA BackIs ==
  ASSUME NEW p \in Views, NEW src, NEW m
  PROVE  /\ Back(p, src, m).pc = src /\ Back(p, src, m).one = p.one
         /\ Back(p, src, m).frames = SubSeq(p.frames, 1, m - 1)
  BY DEF Back, Views

\* The way of a processor depends on its frames only if calls are followed.
LEMMA HeadingSame ==
  ASSUME NEW p, NEW q, p.pc = q.pc, p.one = q.one,
         Exact(p) => CallsIn(p.frames) = CallsIn(q.frames)
  PROVE  Heading(p) = Heading(q)
  <1>1. Exact(p) <=> Exact(q)
    BY DEF Exact
  <1>2. CASE Exact(p)
    BY <1>1, <1>2 DEF Heading
  <1>3. CASE ~Exact(p)
    BY <1>1, <1>3 DEF Heading
  <1> QED BY <1>2, <1>3

\* No context but the outermost.
LEMMA ChainNone == ASSUME NEW d, Rooted(d), d.ctx_idx = 0, NEW q PROVE Chain(d, q)
  <1> DEFINE n == [k \in 1 .. d.ctx_idx |-> 0]
  <1>1. n \in [1 .. d.ctx_idx -> Nat]
    OBVIOUS
  <1>2. 1 .. d.ctx_idx = {} /\ ~(d.ctx_idx > 0)
    OBVIOUS
  <1> HIDE DEF n
  <1>3. Awaits(d, q, n) /\ Nested(d, q, n)
    BY <1>2 DEF Awaits, Nested
  <1> QED BY <1>1, <1>3 DEF Chain

\* The contexts below the current one wait where they did.
LEMMA ChainKept ==
  ASSUME NEW d, Sound(d), NEW e, Alike(d, e), NEW q, Chain(d, q)
  PROVE  Chain(e, q)
  <1>1. d.ctx_idx \in Ctxs /\ e.ctx_idx = d.ctx_idx /\ \A i \in Ctxs \ {d.ctx_idx} : e.ctx[i] = d.ctx[i]
    BY SoundFields DEF Alike, Local
  <1>2. e.ctx[d.ctx_idx].async_src = d.ctx[d.ctx_idx].async_src
    BY <1>1 DEF Alike, this_ctx
  <1>3. \A k \in Ctxs : e.ctx[k].async_src = d.ctx[k].async_src
    BY <1>1, <1>2
  <1>4. \A k \in 1 .. d.ctx_idx : k \in Ctxs /\ k - 1 \in Ctxs \ {d.ctx_idx}
    BY <1>1, SizesAssumption DEF Ctxs
  <1>5. 0 \in Ctxs
    BY SizesAssumption DEF Ctxs
  <1>6. PICK n \in [1 .. d.ctx_idx -> Nat] : Awaits(d, q, n) /\ (q.one => Nested(d, q, n))
    BY DEF Chain
  <1>7. Awaits(e, q, n)
    <2> SUFFICES ASSUME NEW k \in 1 .. d.ctx_idx
                 PROVE  /\ e.ctx[k].async_src # NoAddr
                        /\ q.one => e.ctx[k - 1].last_inst # NoInst
                        /\ e.ctx[k - 1].last_inst # NoInst =>
                             On(Place(e.ctx[k - 1]), << >>, Heading(Back(q, e.ctx[k].async_src, n[k])))
      BY <1>1 DEF Awaits
    <2>1. e.ctx[k].async_src = d.ctx[k].async_src /\ e.ctx[k - 1] = d.ctx[k - 1]
      BY <1>1, <1>3, <1>4
    <2> QED BY <1>6, <2>1 DEF Awaits
  <1>8. Nested(d, q, n) => Nested(e, q, n)
    BY <1>1, <1>3, <1>4 DEF Nested
  <1>9. Rooted(e)
    BY <1>3, <1>5 DEF Rooted, Chain
  <1> QED BY <1>1, <1>6, <1>7, <1>8, <1>9 DEF Chain

\* The contexts wait for the same returns while the processor has the same
\* interrupts to return from.
LEMMA ChainMoves ==
  ASSUME NEW d, NEW p \in Views, NEW q \in Views, Chain(d, p), q.one = p.one,
         p.one => SameIrqs(p.frames, q.frames)
  PROVE  Chain(d, q)
  <1>1. PICK n \in [1 .. d.ctx_idx -> Nat] : Awaits(d, p, n) /\ (p.one => Nested(d, p, n))
    BY DEF Chain
  <1>2. \A k \in 1 .. d.ctx_idx : n[k] \in Nat
    OBVIOUS
  <1>3. p.one => \A k \in 1 .. d.ctx_idx : IrqAt(p.frames, n[k])
    <2> SUFFICES ASSUME p.one, NEW k \in 1 .. d.ctx_idx PROVE IrqAt(p.frames, n[k])
      OBVIOUS
    <2>1. n[k] \in 2 .. Len(p.frames) /\ p.frames[n[k]].irq /\ Len(p.frames) \in Nat
      BY <1>1 DEF Nested, Views
    <2> QED BY <2>1 DEF IrqAt
  <1>4. Awaits(d, q, n)
    <2> SUFFICES ASSUME NEW k \in 1 .. d.ctx_idx, d.ctx[k - 1].last_inst # NoInst
                 PROVE  On(Place(d.ctx[k - 1]), << >>, Heading(Back(q, d.ctx[k].async_src, n[k])))
      BY <1>1 DEF Awaits
    <2> DEFINE a == Back(p, d.ctx[k].async_src, n[k])
               b == Back(q, d.ctx[k].async_src, n[k])
    <2>1. /\ a.pc = b.pc /\ a.one = p.one /\ b.one = p.one
          /\ a.frames = SubSeq(p.frames, 1, n[k] - 1) /\ b.frames = SubSeq(q.frames, 1, n[k] - 1)
      BY BackIs
    <2>2. p.one => a.frames = b.frames
      BY <1>2, <1>3, <2>1 DEF SameIrqs
    <2>3. On(Place(d.ctx[k - 1]), << >>, Heading(a))
      BY <1>1 DEF Awaits
    <2> HIDE DEF a, b
    <2>4. Heading(a) = Heading(b)
      BY <2>1, <2>2, HeadingSame DEF Exact
    <2> QED BY <2>3, <2>4 DEF b
  <1>5. p.one => Nested(d, q, n)
    <2> SUFFICES ASSUME p.one PROVE Nested(d, q, n)
      OBVIOUS
    <2>1. Len(q.frames) \in Nat
      BY DEF Views
    <2>2. ASSUME NEW k \in 1 .. d.ctx_idx
          PROVE  n[k] \in 2 .. Len(q.frames) /\ q.frames[n[k]].irq /\ q.frames[n[k]].ret = d.ctx[k].async_src
      <3>1. n[k] \in 2 .. Len(p.frames) /\ p.frames[n[k]].ret = d.ctx[k].async_src
        BY <1>1 DEF Nested
      <3>2. IrqAt(q.frames, n[k]) /\ q.frames[n[k]].ret = p.frames[n[k]].ret
        BY <1>2, <1>3 DEF SameIrqs
      <3> QED BY <2>1, <3>1, <3>2 DEF IrqAt
    <2>3. ASSUME NEW m \in 1 .. Len(q.frames), q.frames[m].irq, d.ctx_idx > 0, n[1] < m
          PROVE  \E k \in 1 .. d.ctx_idx : m = n[k]
      <3>1. m \in Nat /\ IrqAt(q.frames, m)
        BY <2>1, <2>3 DEF IrqAt
      <3>2. IrqAt(p.frames, m)
        BY <3>1 DEF SameIrqs
      <3> QED BY <1>1, <2>3, <3>2 DEF Nested, IrqAt
    <2>4. \A j, k \in 1 .. d.ctx_idx : j < k => n[j] < n[k]
      BY <1>1 DEF Nested
    <2> QED BY <2>2, <2>3, <2>4 DEF Nested
  <1>6. Rooted(d)
    BY DEF Chain
  <1> QED BY <1>1, <1>4, <1>5, <1>6 DEF Chain

\* After a reset.
LEMMA ResetLost ==
  ASSUME NEW d, Sound(d), Rooted(d), NEW q
  PROVE  LET e == xed_async_reset(d)
         IN  /\ Sound(e) /\ e.ctx_idx = 0 /\ e.walking = d.walking /\ Chain(e, q) /\ Rooted(e)
             /\ this_ctx(e).last_inst = NoInst /\ Empty(this_ctx(e))
             /\ this_ctx(e).call_stack = << >>
  <1> DEFINE e == xed_async_reset(d)
  <1>1. d \in XedType /\ d.ctx_idx \in Ctxs /\ Good(d.ctx[0]) /\ 0 \in Ctxs /\ 0 <= d.ctx_idx
    BY SoundFields, SizesAssumption DEF Sound, Ctxs
  <1>2. /\ e.ctx_idx = 0 /\ e.walking = d.walking
        /\ e.ctx = [i \in 0 .. MAX_NO_CTXS - 1 |->
                      IF i <= d.ctx_idx THEN ResetCtx(d.ctx[i]) ELSE d.ctx[i]]
    BY <1>1 DEF XedType, xed_async_reset
  <1>3. e.ctx[0] = ResetCtx(d.ctx[0])
    BY <1>1, <1>2 DEF Ctxs
  <1>4. /\ ResetCtx(d.ctx[0]).last_inst = NoInst /\ Empty(ResetCtx(d.ctx[0]))
        /\ ResetCtx(d.ctx[0]).call_stack = << >>
        /\ ResetCtx(d.ctx[0]).async_src = d.ctx[0].async_src
    <2>1. d.ctx[0] \in CtxType
      BY <1>1 DEF Good
    <2> QED BY <1>1, <2>1, GoodReset DEF ResetCtx, CtxType
  <1>5. Sound(e)
    BY SoundReset
  <1>6. Rooted(e)
    BY <1>3, <1>4 DEF Rooted
  <1>7. Chain(e, q)
    <2> HIDE DEF e
    <2> QED BY <1>2, <1>6, ChainNone
  <1> QED BY <1>2, <1>3, <1>4, <1>5, <1>6, <1>7 DEF this_ctx

\* What a processor was before the end of an interrupt.
LEMMA BeforeIs ==
  ASSUME NEW p \in Views
  PROVE  LET q == Before(p, TRUE)
         IN  /\ q \in Views /\ q.pc = p.pc /\ q.one = p.one /\ Before(p, FALSE) = p
             /\ q.frames = Append(p.frames, Frame(p.pc, TRUE))
             /\ Len(q.frames) = Len(p.frames) + 1 /\ Len(p.frames) \in Nat
             /\ IrqAt(q.frames, Len(p.frames) + 1) /\ q.frames[Len(p.frames) + 1].ret = p.pc
             /\ Back(q, p.pc, Len(p.frames) + 1) = p
             /\ \A m \in 1 .. Len(p.frames) :
                  q.frames[m] = p.frames[m] /\ SubSeq(q.frames, 1, m - 1) = SubSeq(p.frames, 1, m - 1)
  <1> DEFINE f == Frame(p.pc, TRUE)
             q == Before(p, TRUE)
  <1>1. p = [pc |-> p.pc, frames |-> p.frames, one |-> p.one] /\ p.pc \in Spots /\ p.frames \in Seq(FrameType)
        /\ p.one \in BOOLEAN
    BY DEF Views
  <1>2. f \in FrameType /\ f.irq /\ f.ret = p.pc
    <2>1. << >> \in Seq(Sites)
      OBVIOUS
    <2> QED BY <1>1, <2>1 DEF Frame, FrameType
  <1> HIDE DEF f
  <1>3. PICK n \in Nat : n = Len(p.frames)
    BY <1>1
  <1>4. q = [pc |-> p.pc, frames |-> Append(p.frames, f), one |-> p.one]
    BY <1>1 DEF Before, f
  <1> DEFINE g == Append(p.frames, f)
  <1>5. g \in Seq(FrameType) /\ Len(g) = n + 1 /\ g[n + 1] = f /\ \A k \in 1 .. n : g[k] = p.frames[k]
    BY <1>1, <1>2, <1>3, AppendProperties
  <1> HIDE DEF g, q
  <1>6. ASSUME NEW m \in 0 .. n PROVE SubSeq(g, 1, m) = SubSeq(p.frames, 1, m)
    <2>1. SubSeq(g, 1, m) = [k \in 1 .. m |-> g[k]]
      BY <1>5
    <2>2. SubSeq(p.frames, 1, m) = [k \in 1 .. m |-> p.frames[k]]
      BY <1>1, <1>3
    <2> QED BY <1>5, <2>1, <2>2
  <1>7. SubSeq(p.frames, 1, n) = p.frames
    BY <1>1, <1>3
  <1>8. q \in Views /\ q.pc = p.pc /\ q.one = p.one /\ q.frames = g
    BY <1>1, <1>4, <1>5 DEF Views, g
  <1>9. Back(q, p.pc, n + 1) = p
    <2>1. n + 1 \in 1 .. n + 1 /\ n + 1 - 1 = n
      OBVIOUS
    <2>2. SubSeq(q.frames, 1, n + 1 - 1) = p.frames
      <3>1. n \in 0 .. n
        OBVIOUS
      <3>2. SubSeq(g, 1, n) = SubSeq(p.frames, 1, n)
        BY <1>6, <3>1
      <3> QED BY <1>7, <1>8, <2>1, <3>2
    <2>3. Back(q, p.pc, n + 1) = [pc |-> p.pc, frames |-> p.frames, one |-> p.one]
      BY <1>8, <2>2 DEF Back
    <2> QED BY <1>1, <2>3
  <1>10. Before(p, FALSE) = p
    BY DEF Before
  <1>11. /\ Len(q.frames) = n + 1 /\ IrqAt(q.frames, n + 1) /\ q.frames[n + 1].ret = p.pc
         /\ \A m \in 1 .. n : q.frames[m] = p.frames[m]
                             /\ SubSeq(q.frames, 1, m - 1) = SubSeq(p.frames, 1, m - 1)
    <2>1. \A m \in 1 .. n : m - 1 \in 0 .. n
      OBVIOUS
    <2> QED BY <1>2, <1>3, <1>5, <1>6, <1>8, <2>1 DEF IrqAt
  <1>12. q.frames = Append(p.frames, Frame(p.pc, TRUE))
    BY <1>8 DEF g, f
  <1> QED BY <1>3, <1>8, <1>9, <1>10, <1>11, <1>12 DEF q

\* The context below is the one the processor returns to.
LEMMA ChainLeft ==
  ASSUME NEW d, Sound(d), NEW p \in Views, NEW exit \in BOOLEAN, p.one => exit,
         Chain(d, Before(p, exit)), d.ctx_idx # 0, ~p.one => this_ctx(d).async_src = p.pc,
         NEW e, e.ctx = d.ctx, e.ctx_idx = d.ctx_idx - 1
  PROVE  /\ this_ctx(d).async_src = p.pc /\ Chain(e, p)
         /\ p.one => this_ctx(e).last_inst # NoInst
         /\ this_ctx(e).last_inst # NoInst => On(Place(this_ctx(e)), << >>, Heading(p))
  <1> DEFINE q == Before(p, exit)
             l == Len(p.frames) + 1
  <1>0. PICK m \in Ctxs : m = d.ctx_idx
    BY SoundFields
  <1>1. m \in Nat /\ m >= 1 /\ m \in 1 .. m /\ m - 1 \in Nat
    BY <1>0, SizesAssumption DEF Ctxs
  <1>2. PICK n \in [1 .. m -> Nat] : Awaits(d, q, n) /\ (q.one => Nested(d, q, n))
    BY <1>0 DEF Chain
  <1>3. q.one = p.one /\ q \in Views /\ q.pc = p.pc /\ (p.one => q = Before(p, TRUE))
    BY BeforeIs
  <1>4. p.one => /\ Len(q.frames) = l /\ l \in Nat /\ IrqAt(q.frames, l) /\ q.frames[l].ret = p.pc
                 /\ Back(q, p.pc, l) = p
                 /\ \A j \in 1 .. l - 1 : q.frames[j] = p.frames[j]
                                          /\ SubSeq(q.frames, 1, j - 1) = SubSeq(p.frames, 1, j - 1)
    <2> SUFFICES ASSUME p.one PROVE <1>4!2
      OBVIOUS
    <2>1. q = Before(p, TRUE) /\ Len(p.frames) \in Nat
      BY <1>3, BeforeIs
    <2>2. l - 1 = Len(p.frames) /\ l \in Nat
      BY <2>1
    <2> HIDE DEF q
    <2> QED BY <2>1, <2>2, BeforeIs
  <1> HIDE DEF q, l
  <1>5. p.one => n[m] = l /\ \A k \in 1 .. m - 1 : n[k] \in 2 .. l - 1
    <2> SUFFICES ASSUME p.one PROVE n[m] = l /\ \A k \in 1 .. m - 1 : n[k] \in 2 .. l - 1
      OBVIOUS
    <2>1. /\ \A k \in 1 .. m : n[k] \in 2 .. l
          /\ \A j, k \in 1 .. m : j < k => n[j] < n[k]
          /\ n[1] < l => \E k \in 1 .. m : l = n[k]
      <3>1. Nested(d, q, n)
        BY <1>2, <1>3
      <3>2. l \in 1 .. Len(q.frames) /\ q.frames[l].irq /\ d.ctx_idx > 0
        BY <1>0, <1>1, <1>4 DEF IrqAt
      <3> QED BY <1>0, <1>4, <3>1, <3>2 DEF Nested
    <2>2. l \in Nat /\ 1 \in 1 .. m
      BY <1>1, <1>4
    <2>3. PICK k \in 1 .. m : n[k] = l
      BY <2>1, <2>2
    <2>4. k = m
      <3>1. ~(k < m)
        BY <1>1, <2>1, <2>2, <2>3
      <3> QED BY <1>1, <3>1
    <2>5. ASSUME NEW j \in 1 .. m - 1 PROVE n[j] \in 2 .. l - 1
      <3>1. j \in 1 .. m /\ j < m
        BY <1>1
      <3>2. n[j] < n[m] /\ n[j] \in 2 .. l
        BY <1>1, <2>1, <3>1
      <3> QED BY <2>2, <2>3, <2>4, <3>2
    <2> QED BY <2>3, <2>4, <2>5
  <1>6. this_ctx(d).async_src = p.pc /\ this_ctx(d) = d.ctx[m]
    <2>1. this_ctx(d) = d.ctx[m]
      BY <1>0 DEF this_ctx
    <2>2. CASE p.one
      <3>1. q.frames[n[m]].ret = d.ctx[m].async_src
        BY <1>0, <1>1, <1>2, <1>3, <2>2 DEF Nested
      <3> QED BY <1>4, <1>5, <2>1, <2>2, <3>1
    <2> QED BY <2>1, <2>2
  <1>7. this_ctx(e) = d.ctx[m - 1]
    BY <1>0 DEF this_ctx
  <1>8. /\ q.one => d.ctx[m - 1].last_inst # NoInst
        /\ d.ctx[m - 1].last_inst # NoInst => On(Place(d.ctx[m - 1]), << >>, Heading(Back(q, p.pc, n[m])))
    BY <1>0, <1>1, <1>2, <1>6 DEF Awaits
  <1>9. Heading(Back(q, p.pc, n[m])) = Heading(p)
    <2>1. CASE p.one
      BY <1>4, <1>5, <2>1
    <2>2. CASE ~p.one
      <3> DEFINE b == Back(q, p.pc, n[m])
      <3>1. b.pc = p.pc /\ b.one = p.one
        BY <1>3, BackIs
      <3> HIDE DEF b
      <3>2. Heading(b) = Heading(p)
        BY <2>2, <3>1, HeadingSame DEF Exact
      <3> QED BY <3>2 DEF b
    <2> QED BY <2>1, <2>2
  <1> DEFINE h == [k \in 1 .. m - 1 |-> n[k]]
  <1>10. /\ h \in [1 .. m - 1 -> Nat]
         /\ \A k \in 1 .. m - 1 : h[k] = n[k] /\ n[k] \in Nat /\ k \in 1 .. m
    BY <1>1
  <1> HIDE DEF h
  <1>11. Awaits(e, p, h)
    <2> SUFFICES ASSUME NEW k \in 1 .. m - 1
                 PROVE  /\ d.ctx[k].async_src # NoAddr
                        /\ p.one => d.ctx[k - 1].last_inst # NoInst
                        /\ d.ctx[k - 1].last_inst # NoInst =>
                             On(Place(d.ctx[k - 1]), << >>, Heading(Back(p, d.ctx[k].async_src, h[k])))
      BY <1>0 DEF Awaits
    <2>1. k \in 1 .. m /\ h[k] = n[k] /\ n[k] \in Nat
      BY <1>10
    <2>2. /\ d.ctx[k].async_src # NoAddr
          /\ p.one => d.ctx[k - 1].last_inst # NoInst
          /\ d.ctx[k - 1].last_inst # NoInst =>
               On(Place(d.ctx[k - 1]), << >>, Heading(Back(q, d.ctx[k].async_src, n[k])))
      BY <1>0, <1>2, <1>3, <2>1 DEF Awaits
    <2> DEFINE a == Back(q, d.ctx[k].async_src, n[k])
               b == Back(p, d.ctx[k].async_src, n[k])
    <2>3. /\ a.pc = b.pc /\ a.one = p.one /\ b.one = p.one
          /\ a.frames = SubSeq(q.frames, 1, n[k] - 1) /\ b.frames = SubSeq(p.frames, 1, n[k] - 1)
      BY <1>3, BackIs
    <2>4. p.one => a.frames = b.frames
      <3>1. p.one => n[k] \in 1 .. l - 1
        BY <1>4, <1>5
      <3> QED BY <1>4, <2>3, <3>1
    <2> HIDE DEF a, b
    <2>5. Heading(a) = Heading(b)
      BY <2>3, <2>4, HeadingSame DEF Exact
    <2> QED BY <2>1, <2>2, <2>5 DEF a, b
  <1>12. p.one => Nested(e, p, h)
    <2> SUFFICES ASSUME p.one PROVE Nested(e, p, h)
      OBVIOUS
    <2>1. Nested(d, q, n) /\ Len(p.frames) = l - 1 /\ l \in Nat
      <3>1. Len(p.frames) \in Nat
        BY BeforeIs
      <3> QED BY <1>2, <1>3, <1>4, <3>1 DEF l
    <2>2. ASSUME NEW k \in 1 .. m - 1
          PROVE  h[k] \in 2 .. Len(p.frames) /\ p.frames[h[k]].irq /\ p.frames[h[k]].ret = d.ctx[k].async_src
      <3>1. h[k] = n[k] /\ k \in 1 .. m /\ n[k] \in 2 .. l - 1
        BY <1>5, <1>10
      <3>2. q.frames[n[k]].irq /\ q.frames[n[k]].ret = d.ctx[k].async_src
        BY <1>0, <2>1, <3>1 DEF Nested
      <3>3. n[k] \in 1 .. l - 1
        BY <2>1, <3>1
      <3>4. q.frames[n[k]] = p.frames[n[k]]
        BY <1>4, <3>3
      <3> QED BY <2>1, <3>1, <3>2, <3>4
    <2>3. \A j, k \in 1 .. m - 1 : j < k => h[j] < h[k]
      BY <1>0, <1>10, <2>1 DEF Nested
    <2>4. ASSUME NEW j \in 1 .. Len(p.frames), p.frames[j].irq, m - 1 > 0, h[1] < j
          PROVE  \E k \in 1 .. m - 1 : j = h[k]
      <3>1. h[1] = n[1] /\ j \in 1 .. l - 1 /\ j \in 1 .. Len(q.frames)
        <4>1. 1 \in 1 .. m - 1
          BY <1>1, <2>4
        <4> QED BY <1>4, <1>10, <2>1, <4>1
      <3>2. q.frames[j].irq /\ d.ctx_idx > 0
        BY <1>0, <1>1, <1>4, <2>4, <3>1
      <3>3. PICK k \in 1 .. m : j = n[k]
        BY <1>0, <2>1, <2>4, <3>1, <3>2 DEF Nested
      <3>4. k # m
        BY <1>5, <2>1, <3>1, <3>3
      <3>5. k \in 1 .. m - 1
        BY <1>1, <3>4
      <3> QED BY <1>10, <3>3, <3>5
    <2> QED BY <1>0, <2>2, <2>3, <2>4 DEF Nested
  <1>13. Rooted(e)
    BY DEF Rooted, Chain
  <1>14. Chain(e, p)
    BY <1>0, <1>10, <1>11, <1>12, <1>13 DEF Chain
  <1> QED BY <1>3, <1>6, <1>7, <1>8, <1>9, <1>14

-----------------------------------------------------------------------------
(* The walk keeps the decoder on its way.                                  *)

\* A walking decoder with no input is on the way to G if its position is.
LEMMA EmptyFollows ==
  ASSUME NEW d, d.walking, Empty(this_ctx(d)), NEW G, NEW q, Chain(d, q),
         this_ctx(d).last_inst # NoInst => On(Place(this_ctx(d)), << >>, G),
         this_ctx(d).last_inst = NoInst => ~q.one
  PROVE  Follows(d, << >>, G, q)
  <1>1. << >> \in Seq(BOOLEAN) /\ << >> \o << >> = << >>
    OBVIOUS
  <1>2. Nears(this_ctx(d), << >>, G)
    BY <1>1 DEF Nears, Holds, Empty
  <1> QED BY <1>2 DEF Follows, Empty

\* The calls of a processor are a stack.
LEMMA ViewCalls == ASSUME NEW p \in Views PROVE CallsIn(p.frames) \in Stacks
  <1>1. p.frames \in Seq(FrameType)
    BY DEF Views
  <1>2. PICK f \in FrameType : TRUE
    <2>1. << >> \in Seq(Sites)
      OBVIOUS
    <2>2. [ret |-> NoAddr, irq |-> TRUE, calls |-> << >>] \in FrameType
      BY <2>1 DEF FrameType
    <2> QED BY <2>2
  <1> QED BY <1>1, <1>2, CallsInPush

\* A position the search finds for a processor is on its way.
LEMMA FoundOn ==
  ASSUME NEW p \in Views, xed_unwind_find_inst(p.pc) # NoInst, NEW t \in Stacks,
         Exact(p) => Innermost(t, CallsIn(p.frames))
  PROVE  On(<< xed_unwind_find_inst(p.pc), t >>, << >>, Heading(p))
  <1>1. p.pc \in Spots
    BY DEF Views
  <1>2. p.pc \in Sites /\ xed_unwind_find_inst(p.pc) = At(p.pc)
    BY <1>1, ForeignNowhere, SiteAt DEF Spots
  <1> QED BY <1>2, ViewCalls, OnHere

\* The end of an interrupt: the context below goes on from where it was interrupted.
LEMMA ExitFollows ==
  ASSUME NEW d, Sound(d), d.walking, NEW p \in Views, NEW exit \in BOOLEAN, p.one => exit,
         Chain(d, Before(p, exit)), this_ctx(d).last_inst = xed_unwind_find_inst(p.pc),
         p.one => p.pc \in Sites, Ok(AsyncExit(d, p.pc))
  PROVE  Follows(AsyncExit(d, p.pc), << >>, Heading(p), p)
  <1> DEFINE c == this_ctx(d)
             adjust == c.async_src # NoAddr /\ c.async_src # p.pc
             n == NoInput(CallsReturned(d), "async exit")
             e == AsyncExit(d, p.pc)
  <1>0. Rooted(d)
    BY DEF Chain
  <1>1. n = d /\ Empty(c) /\ c.call_stack = << >>
    <2>1. Ok(n)
      BY DEF AsyncExit
    <2>2. Ok(CallsReturned(d)) /\ n = CallsReturned(d) /\ Empty(this_ctx(CallsReturned(d)))
      BY <2>1, SoundNoInput, SoundCallsReturned DEF Messages
    <2> QED BY <2>2, SoundCallsReturned
  <1>2. e = Leave(IF adjust \/ c.last_inst = NoInst THEN xed_async_reset(d) ELSE d)
    BY <1>1 DEF AsyncExit
  <1>3. p.one => c.last_inst # NoInst
    <2>1. p.pc \in Sites => xed_unwind_find_inst(p.pc) \in Idx
      BY SiteAt
    <2> QED BY <2>1 DEF Idx, NoInst
  <1>4. p.one /\ d.ctx_idx # 0 => c.async_src = p.pc
    <2> SUFFICES ASSUME p.one, d.ctx_idx # 0 PROVE c.async_src = p.pc
      OBVIOUS
    <2> DEFINE b == [d EXCEPT !.ctx_idx = d.ctx_idx - 1]
    <2>1. b.ctx = d.ctx /\ b.ctx_idx = d.ctx_idx - 1
      BY DEF Sound, XedType
    <2> HIDE DEF b
    <2> QED BY <2>1, ChainLeft
  <1>5. d.ctx_idx = 0 => ~adjust
    BY <1>0 DEF Rooted, this_ctx
  <1>6. CASE adjust \/ c.last_inst = NoInst
    <2> DEFINE r == xed_async_reset(d)
    <2>1. r.ctx_idx = 0 /\ r.walking /\ Chain(r, p) /\ this_ctx(r).last_inst = NoInst /\ Empty(this_ctx(r))
      BY <1>0, ResetLost
    <2>2. e = Leave(r)
      BY <1>2, <1>6
    <2> HIDE DEF r
    <2>3. e = r
      BY <2>1, <2>2 DEF Leave
    <2>4. ~p.one
      BY <1>3, <1>4, <1>5, <1>6
    <2> QED BY <2>1, <2>3, <2>4, EmptyFollows
  <1>7. CASE ~(adjust \/ c.last_inst = NoInst) /\ d.ctx_idx = 0
    <2>1. e = d
      BY <1>2, <1>7 DEF Leave
    <2>2. Place(c) = << xed_unwind_find_inst(p.pc), << >> >>
      <3>1. Addrs(c) = << >>
        BY <1>1, SoundFields, CtxPlace
      <3> QED BY <3>1 DEF Place
    <2>3. On(Place(c), << >>, Heading(p))
      <3>1. Innermost(<< >>, CallsIn(p.frames)) /\ << >> \in Stacks
        BY ViewCalls, InnermostSelf DEF Stacks
      <3> QED BY <1>7, <2>2, <3>1, FoundOn
    <2>4. Chain(d, p)
      BY <1>0, <1>7, ChainNone
    <2> QED BY <1>1, <1>7, <2>1, <2>3, <2>4, EmptyFollows
  <1>8. CASE ~(adjust \/ c.last_inst = NoInst) /\ d.ctx_idx # 0
    <2> DEFINE m == d.ctx_idx
    <2>1. m \in 1 .. m /\ m \in Ctxs /\ m >= 1 /\ m - 1 \in Ctxs \ {m}
      BY <1>8, SoundFields, SizesAssumption DEF Ctxs
    <2>2. c.async_src # NoAddr
      <3>1. PICK k : Awaits(d, Before(p, exit), k)
        BY DEF Chain
      <3>2. d.ctx[m].async_src # NoAddr
        BY <2>1, <3>1 DEF Awaits
      <3> QED BY <3>2 DEF this_ctx
    <2>3. e = [d EXCEPT !.ctx_idx = m - 1]
      BY <1>2, <1>8, <2>1 DEF Leave
    <2>4. e.ctx = d.ctx /\ e.ctx_idx = m - 1 /\ e.walking
      <3> HIDE DEF e
      <3> QED BY <2>3 DEF Sound, XedType
    <2> HIDE DEF e
    <2>5. this_ctx(e) = d.ctx[m - 1]
      BY <2>4 DEF this_ctx
    <2>6. Empty(d.ctx[m - 1])
      BY <2>1 DEF Sound
    <2>7. /\ Chain(e, p) /\ (p.one => this_ctx(e).last_inst # NoInst)
          /\ this_ctx(e).last_inst # NoInst => On(Place(this_ctx(e)), << >>, Heading(p))
      BY <1>8, <2>2, <2>4, ChainLeft
    <2> QED BY <2>4, <2>5, <2>6, <2>7, EmptyFollows DEF e
  <1> QED BY <1>6, <1>7, <1>8

\* A walk is one of a decoder that walks.
LEMMA WalkWalks == ASSUME Walk PROVE xed.walking
  BY DEF Walk, WalkLost, WalkPlain, WalkCond, WalkDirect, WalkIndirect, WalkFar, WalkingAt, Walking

\* A branch that has a packet and none to take is where a way ends.
LEMMA StopsStuck ==
  ASSUME NEW x \in Places, NEW bs \in Seq(BOOLEAN), (IsCond(x[1]) /\ bs = << >>) \/ x[1] \in Tips
  PROVE  Stops(x[1]) /\ Stuck(x, bs)
  <1>1. Stops(x[1])
    BY DEF Stops, IsCond, Tips
  <1>2. x[1] \in Tips => ~IsCond(x[1])
    BY DEF Tips, IsCond
  <1> QED BY <1>1, <1>2, NoMoves

\* A turn that goes on is a step on the way.
LEMMA TurnedOn ==
  ASSUME NEW d, Sound(d), NEW e, NEW bs \in Seq(BOOLEAN), Turned(d, e, bs), this_ctx(d).last_inst # NoInst,
         NEW G, Goals(G), On(Place(this_ctx(d)), bs, G)
  PROVE  /\ Nears(this_ctx(e), << >>, G) /\ this_ctx(e).last_inst # NoInst
         /\ Alike(d, e) /\ this_ctx(e).tip_queue = this_ctx(d).tip_queue /\ e.walking = d.walking
  <1> DEFINE x == Place(this_ctx(d))
             y == Place(this_ctx(e))
  <1>1. x \in Places
    BY SoundFields, CtxPlace
  <1>2. PICK cs : Moves(x, bs, y, cs) /\ Holds(this_ctx(e), cs)
    BY DEF Turned
  <1>3. Sound(e) /\ Alike(d, e) /\ this_ctx(e).tip_queue = this_ctx(d).tip_queue /\ e.walking = d.walking
    BY DEF Turned, Like, Alike
  <1>4. y[1] = this_ctx(e).last_inst
    BY <1>3, SoundFields, CtxPlace
  <1> HIDE DEF x, y
  <1>5. cs \in Seq(BOOLEAN) /\ y \in Places
    BY <1>1, <1>2, MovesOne
  <1>6. On(y, cs, G)
    BY <1>1, <1>2, OnStep DEF x
  <1>7. y[1] \in Idx /\ NoInst \notin Idx
    <2>1. y[1] \in Idx
      BY <1>5, PlaceIs
    <2>2. NoInst \notin Idx
      BY DEF Idx, NoInst
    <2> QED BY <2>1, <2>2
  <1>8. cs \o << >> = cs
    BY <1>5
  <1> QED BY <1>2, <1>3, <1>4, <1>5, <1>6, <1>7, <1>8 DEF Nears, y

\* A decoder without a target goes on along its way, or waits at a branch.
LEMMA FollowsOn ==
  ASSUME Sound(xed), Walk, Ok(xed'), NEW G, Goals(G), NEW q, Follows(xed, << >>, G, q)
  PROVE  Follows(xed', << >>, G, q)
  <1> DEFINE c == this_ctx(xed)
             i == c.last_inst
             x == Place(c)
  <1>1. xed.walking /\ Chain(xed, q)
    BY WalkWalks DEF Follows
  <1>2. CASE i = NoInst
    <2>1. Local(xed, xed') /\ ~xed'.walking /\ this_ctx(xed') = c
      BY <1>2, LostTurns
    <2>2. Chain(xed', q)
      BY <1>1, <2>1, ChainKept DEF Alike
    <2> QED BY <1>2, <2>1, <2>2 DEF Follows, Nears
  <1>3. CASE i # NoInst
    <2>1. x \in Places /\ x[1] = i
      BY <1>3, SoundFields, CtxPlace
    <2>2. PICK bs \in Seq(BOOLEAN) : Holds(c, bs) /\ On(x, bs, G)
      <3>1. \A s \in Seq(BOOLEAN) : s \o << >> = s
        OBVIOUS
      <3> QED BY <1>3, <3>1 DEF Follows, Nears
    <2>3. c.tip_queue = << >>
      BY DEF Follows
    <2>4. CASE Turned(xed, xed', bs)
      <3>1. /\ Nears(this_ctx(xed'), << >>, G) /\ this_ctx(xed').last_inst # NoInst
            /\ Alike(xed, xed') /\ this_ctx(xed').tip_queue = << >> /\ xed'.walking
        BY <1>1, <1>3, <2>2, <2>3, <2>4, TurnedOn
      <3>2. Chain(xed', q)
        BY <1>1, <3>1, ChainKept
      <3> QED BY <3>1, <3>2 DEF Follows
    <2>5. CASE Stopped(xed, xed', bs)
      <3>1. Stops(i) /\ Stuck(x, bs)
        BY <2>1, <2>5, StopsStuck DEF Stopped
      <3>2. bs = << >>
        BY <2>1, <2>2, <3>1, OnStuck
      <3>3. On(x, << >>, G)
        BY <2>2, <3>2
      <3>4. /\ Empty(this_ctx(xed')) /\ Place(this_ctx(xed')) = x /\ ~xed'.walking
            /\ Alike(xed, xed') /\ this_ctx(xed').last_inst = i
        <4>1. Place(this_ctx(xed')) = x => this_ctx(xed').last_inst = i
          BY DEF Place
        <4> QED BY <2>3, <2>5, <3>2, <4>1 DEF Stopped, Empty, Left, Alike
      <3>5. Nears(this_ctx(xed'), << >>, G)
        <4>1. << >> \in Seq(BOOLEAN) /\ << >> \o << >> = << >>
          OBVIOUS
        <4> QED BY <3>3, <3>4, <4>1 DEF Nears, Holds, Empty
      <3>6. Chain(xed', q)
        BY <1>1, <3>4, ChainKept
      <3> QED BY <1>3, <3>1, <3>4, <3>5, <3>6 DEF Follows, Empty
    <2>6. CASE Taken(xed, xed', bs)
      BY <2>3, <2>6 DEF Taken
    <2> QED BY <1>3, <2>2, <2>4, <2>5, <2>6, WalkTurns
  <1> QED BY <1>2, <1>3

\* A decoder with a target goes on to the branch that takes it, and then is where
\* the target says.
LEMMA TakesOn ==
  ASSUME Sound(xed), Walk, Ok(xed'), NEW p \in Views, NEW exit \in BOOLEAN, Takes(xed, p, exit),
         p.one => p.pc \in Sites
  PROVE  Takes(xed', p, exit) \/ Follows(xed', << >>, Heading(p), p)
  <1> DEFINE c == this_ctx(xed)
             i == c.last_inst
             x == Place(c)
             G == Turns(p, exit)
  <1>1. /\ i # NoInst /\ xed.walking /\ c.tip_queue = << p.pc >> /\ Chain(xed, Before(p, exit))
        /\ Nears(c, << >>, G)
    BY DEF Takes
  <1>2. x \in Places /\ x[1] = i /\ x[2] = Addrs(c)
    BY <1>1, SoundFields, CtxPlace
  <1>3. PICK bs \in Seq(BOOLEAN) : Holds(c, bs) /\ On(x, bs, G)
    <2>1. \A s \in Seq(BOOLEAN) : s \o << >> = s
      OBVIOUS
    <2> QED BY <1>1, <2>1 DEF Nears
  <1>4. Goals(G)
    BY AreGoals
  <1>5. CASE Turned(xed, xed', bs)
    <2>1. /\ Nears(this_ctx(xed'), << >>, G) /\ this_ctx(xed').last_inst # NoInst
          /\ Alike(xed, xed') /\ this_ctx(xed').tip_queue = << p.pc >> /\ xed'.walking
      BY <1>1, <1>3, <1>4, <1>5, TurnedOn
    <2>2. Chain(xed', Before(p, exit))
      BY <1>1, <2>1, ChainKept
    <2> QED BY <2>1, <2>2 DEF Takes
  <1>6. i \in Tips => bs = << >> /\ x \in G
    <2> SUFFICES ASSUME i \in Tips PROVE bs = << >> /\ x \in G
      OBVIOUS
    <2>1. Stuck(x, bs)
      BY <1>2, StopsStuck
    <2> QED BY <1>2, <1>3, <2>1, OnStuck
  <1>7. CASE Stopped(xed, xed', bs)
    <2>1. IsCond(i) /\ bs = << >>
      BY <1>1, <1>7 DEF Stopped
    <2>2. Stuck(x, bs)
      BY <1>2, <2>1, StopsStuck
    <2>3. i \in Tips
      <3>1. x \in G
        BY <1>2, <1>3, <2>2, OnStuck
      <3> QED BY <1>2, <3>1 DEF Turns
    <2> QED BY <2>1, <2>3 DEF Tips, IsCond
  <1>8. CASE Taken(xed, xed', bs)
    <2>1. PICK f : /\ Arrived(xed, f, bs, p.pc) /\ i \in Tips
                   /\ xed' = IF ExitAt(i) THEN AsyncExit(f, p.pc) ELSE f
      <3>1. Head(<< p.pc >>) = p.pc
        OBVIOUS
      <3> QED BY <1>1, <1>8, <3>1 DEF Taken
    <2>2. /\ bs = << >> /\ (p.one => (ExitAt(i) <=> exit))
          /\ Exact(p) /\ ~exit => Innermost(Took(x, p.pc), CallsIn(p.frames))
      BY <1>2, <1>6, <2>1 DEF Turns
    <2>3. /\ Sound(f) /\ f.walking /\ Empty(this_ctx(f)) /\ Alike(xed, f)
          /\ Place(this_ctx(f)) = << xed_unwind_find_inst(p.pc), Took(x, p.pc) >>
      <3>1. Tail(<< p.pc >>) = << >>
        OBVIOUS
      <3> QED BY <1>1, <2>1, <2>2, <3>1 DEF Arrived, Like, Alike, Empty, Left
    <2>4. Chain(f, Before(p, exit))
      BY <1>1, <2>3, ChainKept
    <2>5. this_ctx(f).last_inst = xed_unwind_find_inst(p.pc) /\ Took(x, p.pc) = Addrs(this_ctx(f))
      BY <2>3 DEF Place
    <2>6. Took(x, p.pc) \in Stacks
      BY <2>3, <2>5, SoundFields, CtxPlace
    <2>7. CASE ExitAt(i)
      <3>1. xed' = AsyncExit(f, p.pc)
        BY <2>1, <2>7
      <3> QED BY <2>2, <2>3, <2>4, <2>5, <2>7, <3>1, ExitFollows
    <2>8. CASE ~ExitAt(i)
      <3>1. xed' = f
        BY <2>1, <2>8
      <3>2. Chain(f, p)
        <4>1. CASE exit
          <5>1. ~p.one
            BY <2>2, <2>8, <4>1
          <5>2. Before(p, exit) \in Views /\ Before(p, exit).one = p.one
            BY <4>1, BeforeIs
          <5> QED BY <2>4, <5>1, <5>2, ChainMoves
        <4>2. CASE ~exit
          <5>1. Before(p, exit) = p
            BY <4>2 DEF Before
          <5> QED BY <2>4, <5>1
        <4> QED BY <4>1, <4>2
      <3>3. this_ctx(f).last_inst # NoInst => On(Place(this_ctx(f)), << >>, Heading(p))
        BY <2>2, <2>3, <2>5, <2>6, <2>8, FoundOn DEF Exact
      <3>4. this_ctx(f).last_inst = NoInst => ~p.one
        <4>1. p.pc \in Sites => xed_unwind_find_inst(p.pc) \in Idx
          BY SiteAt
        <4> QED BY <2>5, <4>1 DEF Idx, NoInst
      <3> QED BY <2>3, <3>1, <3>2, <3>3, <3>4, EmptyFollows
    <2> QED BY <2>7, <2>8
  <1> QED BY <1>1, <1>3, <1>5, <1>7, <1>8, WalkTurns

-----------------------------------------------------------------------------
(* What a packet does to the decoder.                                      *)

\* Between packets nothing is left, and the decoder waits at a branch.
LEMMA IdleFollows ==
  ASSUME NEW d, ~d.walking, NEW more \in Seq(BOOLEAN), NEW G, NEW q
  PROVE  Follows(d, more, G, q) <=>
           /\ Empty(this_ctx(d)) /\ Chain(d, q)
           /\ this_ctx(d).last_inst = NoInst => ~q.one
           /\ this_ctx(d).last_inst # NoInst =>
                On(Place(this_ctx(d)), more, G) /\ Stops(this_ctx(d).last_inst)
  <1> DEFINE c == this_ctx(d)
  <1>1. << >> \in Seq(BOOLEAN) /\ << >> \o more = more
    OBVIOUS
  <1>2. ASSUME Empty(c), NEW bs, Holds(c, bs) PROVE bs = << >>
    BY <1>2 DEF Holds, Empty
  <1>3. Empty(c) => Holds(c, << >>)
    BY DEF Holds, Empty
  <1>4. Empty(c) => (Nears(c, more, G) <=> (c.last_inst # NoInst => On(Place(c), more, G)))
    BY <1>1, <1>2, <1>3 DEF Nears
  <1> QED BY <1>4 DEF Follows, Empty

\* Other fields than those of the contexts do not matter.
LEMMA SameCtxs ==
  ASSUME NEW d, NEW e, e.ctx = d.ctx, e.ctx_idx = d.ctx_idx, e.walking = d.walking
  PROVE  /\ this_ctx(e) = this_ctx(d) /\ (Rooted(d) => Rooted(e)) /\ (Waits(d) => Waits(e))
         /\ \A q : Chain(d, q) => Chain(e, q)
         /\ \A more, G, q : Follows(d, more, G, q) => Follows(e, more, G, q)
  <1>1. this_ctx(e) = this_ctx(d)
    BY DEF this_ctx
  <1>2. Rooted(d) => Rooted(e)
    BY DEF Rooted
  <1>3. Waits(d) => Waits(e)
    BY <1>1, <1>2 DEF Waits
  <1>4. ASSUME NEW q, Chain(d, q) PROVE Chain(e, q)
    <2>1. PICK n \in [1 .. d.ctx_idx -> Nat] : Awaits(d, q, n) /\ (q.one => Nested(d, q, n))
      BY <1>4 DEF Chain
    <2>2. Awaits(e, q, n) /\ (q.one => Nested(e, q, n))
      BY <2>1 DEF Awaits, Nested
    <2> QED BY <1>2, <1>4, <2>1, <2>2 DEF Chain
  <1>5. ASSUME NEW more, NEW G, NEW q, Follows(d, more, G, q) PROVE Follows(e, more, G, q)
    BY <1>1, <1>4, <1>5 DEF Follows
  <1> QED BY <1>1, <1>2, <1>3, <1>4, <1>5

\* A walk that begins with no bits and no target.
LEMMA Begins ==
  ASSUME NEW d, Sound(d), Ok(d)
  PROVE  LET e == xed_process_branches(d, << >>, NoAddr)
         IN  /\ Alike(d, e) /\ this_ctx(e) = this_ctx(d)
             /\ this_ctx(d).last_inst = NoInst => e = d
             /\ this_ctx(d).last_inst # NoInst => e.walking
  <1> DEFINE e == [d EXCEPT !.walking = TRUE]
  <1>1. add_tip(add_tnt(d, << >>), NoAddr) = d
    BY DEF add_tip, add_tnt
  <1>2. xed_process_branches(d, << >>, NoAddr) = IF this_ctx(d).last_inst = NoInst THEN d ELSE e
    BY <1>1 DEF xed_process_branches
  <1>3. d \in XedType
    BY DEF Sound
  <1>4. e.ctx = d.ctx /\ e.ctx_idx = d.ctx_idx /\ e.walking
    BY <1>3 DEF XedType
  <1>5. Local(d, e) /\ Local(d, d)
    BY SoundShape, LocalScalars, LocalStays
  <1> HIDE DEF e
  <1>6. this_ctx(e) = this_ctx(d)
    BY <1>4 DEF this_ctx
  <1> QED BY <1>2, <1>4, <1>5, <1>6 DEF Alike

\* A restart: the decoder goes on where the processor is, and knows of no calls
\* that are not in progress.
LEMMA StartFollows ==
  ASSUME NEW d, Sound(d), ~d.walking, Empty(this_ctx(d)), NEW p \in Views, Chain(d, p),
         p.one => p.pc \in Sites, Exact(p) => this_ctx(d).call_stack = << >>, Ok(StartAt(d, p.pc))
  PROVE  Follows(StartAt(d, p.pc), << >>, Heading(p), p) /\ Ok(d)
  <1> DEFINE m == xed_update_last_inst(d, p.pc)
             e == xed_process_branches(m, << >>, NoAddr)
             i == xed_unwind_find_inst(p.pc)
  <1>1. StartAt(d, p.pc) = e
    BY DEF StartAt
  <1>2. Ok(m)
    BY <1>1 DEF xed_process_branches
  <1>3. Moved(d, m, << i, Addrs(this_ctx(d)) >>) /\ Ok(d)
    BY <1>2, UpdateMoves
  <1>4. Sound(m) /\ Alike(d, m) /\ ~m.walking /\ Empty(this_ctx(m))
    BY <1>3 DEF Moved, Kept, Like, Alike, Empty
  <1>5. Place(this_ctx(m)) = << i, Addrs(this_ctx(d)) >> /\ this_ctx(m).last_inst = i
    <2>1. Place(this_ctx(m)) = << i, Addrs(this_ctx(d)) >>
      BY <1>3 DEF Moved
    <2> HIDE DEF m, i
    <2> QED BY <2>1 DEF Place
  <1> HIDE DEF m, i
  <1>6. /\ Alike(m, e) /\ this_ctx(e) = this_ctx(m)
        /\ this_ctx(m).last_inst = NoInst => e = m
        /\ this_ctx(m).last_inst # NoInst => e.walking
    BY <1>2, <1>4, Begins
  <1> HIDE DEF e
  <1>7. Chain(m, p) /\ Chain(e, p)
    <2>1. Chain(m, p)
      BY <1>4, ChainKept
    <2> QED BY <1>4, <1>6, <2>1, ChainKept
  <1>8. p.one => i # NoInst
    <2>1. p.pc \in Sites => xed_unwind_find_inst(p.pc) \in Idx
      BY SiteAt
    <2> QED BY <2>1 DEF Idx, NoInst, i
  <1>9. CASE i = NoInst
    <2>1. << >> \in Seq(BOOLEAN) /\ e = m
      BY <1>5, <1>6, <1>9
    <2> QED BY <1>1, <1>3, <1>4, <1>5, <1>7, <1>8, <1>9, <2>1, IdleFollows
  <1>10. CASE i # NoInst
    <2>1. Addrs(this_ctx(d)) \in Stacks /\ (Exact(p) => Addrs(this_ctx(d)) = << >>)
      BY SoundFields, CtxPlace
    <2>2. Innermost(<< >>, CallsIn(p.frames))
      BY ViewCalls, InnermostSelf
    <2>3. On(Place(this_ctx(e)), << >>, Heading(p))
      BY <1>5, <1>6, <1>10, <2>1, <2>2, FoundOn DEF i
    <2>4. e.walking /\ Empty(this_ctx(e)) /\ this_ctx(e).last_inst # NoInst
      BY <1>4, <1>5, <1>6, <1>10
    <2> QED BY <1>1, <1>3, <1>7, <2>3, <2>4, EmptyFollows
  <1> QED BY <1>9, <1>10

\* The bits of a SHORT_TNT are the ones that were to come.
LEMMA TntFollows ==
  ASSUME NEW d, Sound(d), ~d.walking, NEW t \in Seq(BOOLEAN), t # << >>, NEW G, NEW q,
         Follows(d, t, G, q), Ok(xed_process_branches(d, t, NoAddr))
  PROVE  Follows(xed_process_branches(d, t, NoAddr), << >>, G, q)
  <1> DEFINE c == this_ctx(d)
             m == add_tnt(d, t)
             r == [c EXCEPT !.tnt_queue = Append(@, t)]
             e == xed_process_branches(d, t, NoAddr)
  <1>1. /\ Empty(c) /\ Chain(d, q) /\ (c.last_inst = NoInst => ~q.one)
        /\ c.last_inst # NoInst => On(Place(c), t, G) /\ Stops(c.last_inst)
    BY IdleFollows
  <1>2. CASE c.last_inst = NoInst
    <2>1. e = d
      BY <1>2 DEF xed_process_branches
    <2>2. << >> \in Seq(BOOLEAN)
      OBVIOUS
    <2> HIDE DEF e
    <2> QED BY <1>1, <1>2, <2>1, <2>2, IdleFollows DEF e
  <1>3. CASE c.last_inst # NoInst
    <2>1. Ok(d)
      BY DEF xed_process_branches
    <2>2. add_tip(m, NoAddr) = m
      BY DEF add_tip
    <2>3. e = [m EXCEPT !.walking = TRUE]
      BY <1>3, <2>1, <2>2 DEF xed_process_branches
    <2>4. Sound(m)
      BY SoundAddTnt
    <2>5. Ok(m)
      <3> HIDE DEF m
      <3>1. e.fatal = m.fatal
        BY <2>3, <2>4 DEF Sound, XedType
      <3> QED BY <3>1 DEF Ok
    <2>6. m = SetCtx(d, r) /\ Len(c.tnt_queue) + 1 < TNT_QUEUE_LEN
      <3>1. ~(Len(c.tnt_queue) + 1 >= TNT_QUEUE_LEN)
        BY <2>1, <2>5, FatalFails DEF add_tnt
      <3>2. c.tnt_queue = << >>
        BY <1>1 DEF Empty
      <3> QED BY <2>1, <3>1, <3>2, SizesAssumption DEF add_tnt
    <2>7. Good(c) /\ c \in CtxType
      BY SoundFields
    <2>8. Good(r)
      BY <2>6, <2>7, GoodAddTnt
    <2>9. /\ r.async_src = c.async_src /\ r.last_inst = c.last_inst /\ r.tip_queue = << >>
          /\ r.tnt_queue = << t >> /\ r.call_stack = c.call_stack
      <3>1. c.tnt_queue = << >> /\ c.tip_queue = << >> /\ Append(<< >>, t) = << t >>
        BY <1>1 DEF Empty
      <3>2. r = [c EXCEPT !.tnt_queue = << t >>]
        BY <3>1
      <3> QED BY <2>7, <3>1, <3>2 DEF CtxType
    <2> HIDE DEF r
    <2>10. Like(d, m) /\ this_ctx(m) = r
      BY <2>6, <2>8, <2>9, SetLike
    <2> HIDE DEF m, e
    <2>11. e.ctx = m.ctx /\ e.ctx_idx = m.ctx_idx /\ e.walking
      BY <2>3, <2>4 DEF Sound, XedType
    <2>12. Local(m, e)
      BY <2>3, <2>4, SoundShape, LocalScalars
    <2>13. Local(d, e) /\ this_ctx(e) = r
      BY <2>10, <2>11, <2>12, LocalTrans DEF Like, this_ctx
    <2>14. t \o << >> = t
      OBVIOUS
    <2>15. Nears(r, << >>, G)
      <3>1. Place(r) = Place(c)
        BY <2>9 DEF Place, Addrs
      <3> QED BY <1>1, <1>3, <2>9, <2>14, <3>1 DEF Nears, Holds
    <2>16. Chain(e, q)
      BY <1>1, <2>9, <2>13, ChainKept DEF Alike
    <2> QED BY <1>3, <2>9, <2>11, <2>13, <2>15, <2>16 DEF Follows, e
  <1> QED BY <1>2, <1>3

\* A TIP is the target of the branch the decoder is on its way to.
LEMMA TipTakes ==
  ASSUME NEW d, Sound(d), ~d.walking, NEW p \in Views, NEW exit \in BOOLEAN, p.one \/ ~exit,
         Follows(d, << >>, Turns(p, exit), Before(p, exit)),
         Ok(xed_process_branches(d, << >>, p.pc))
  PROVE  LET e == xed_process_branches(d, << >>, p.pc)
         IN  Takes(e, p, exit) \/ Follows(e, << >>, Heading(p), p)
  <1> DEFINE c == this_ctx(d)
             m == add_tip(d, p.pc)
             r == [c EXCEPT !.tip_queue = Append(@, p.pc)]
             e == xed_process_branches(d, << >>, p.pc)
             q == Before(p, exit)
             G == Turns(p, exit)
  <1>1. << >> \in Seq(BOOLEAN) /\ << >> \o << >> = << >>
    OBVIOUS
  <1>2. /\ Empty(c) /\ Chain(d, q) /\ (c.last_inst = NoInst => ~q.one)
        /\ c.last_inst # NoInst => On(Place(c), << >>, G)
    BY <1>1, IdleFollows
  <1>3. q.one = p.one
    BY BeforeIs
  <1>4. CASE c.last_inst = NoInst
    <2>1. e = d
      BY <1>4 DEF xed_process_branches
    <2>2. ~p.one /\ q = p
      <3>1. ~p.one /\ exit = FALSE
        BY <1>2, <1>3, <1>4
      <3> QED BY <3>1, BeforeIs
    <2> HIDE DEF e, q
    <2> QED BY <1>1, <1>2, <1>4, <2>1, <2>2, IdleFollows DEF e
  <1>5. CASE c.last_inst # NoInst
    <2>1. Ok(d) /\ p.pc # NoAddr /\ p.pc \in Nat
      <3>1. p.pc # NoAddr /\ p.pc \in Nat
        BY SpotNat DEF Views
      <3> QED BY <3>1 DEF xed_process_branches
    <2>2. add_tnt(d, << >>) = d
      BY DEF add_tnt
    <2>3. e = [m EXCEPT !.walking = TRUE]
      BY <1>5, <2>1, <2>2 DEF xed_process_branches
    <2>4. Sound(m)
      BY <2>1, SoundAddTip
    <2>5. Ok(m)
      <3> HIDE DEF m
      <3>1. e.fatal = m.fatal
        BY <2>3, <2>4 DEF Sound, XedType
      <3> QED BY <3>1 DEF Ok
    <2>6. m = SetCtx(d, r) /\ Len(c.tip_queue) + 1 < TIP_QUEUE_LEN
      <3>1. ~(p.pc > Insts[NoInsts - 1].addr)
        BY <2>1, <2>5, FatalFails DEF add_tip
      <3>2. ~(Len(c.tip_queue) + 1 >= TIP_QUEUE_LEN)
        BY <2>1, <2>5, <3>1, FatalFails DEF add_tip
      <3>3. Len(c.tip_queue) = 0
        BY <1>2 DEF Empty
      <3>4. Len(c.tip_queue) + 1 < TIP_QUEUE_LEN
        BY <3>2, <3>3, SizesAssumption
      <3>5. m = SetCtx(d, r)
        BY <2>1, <3>1, <3>2 DEF add_tip
      <3> QED BY <3>4, <3>5
    <2>7. Good(c) /\ c \in CtxType
      BY SoundFields
    <2>8. Good(r)
      BY <2>1, <2>6, <2>7, GoodAddTip
    <2>9. /\ r.async_src = c.async_src /\ r.last_inst = c.last_inst /\ r.tip_queue = << p.pc >>
          /\ r.tnt_queue = << >> /\ r.call_stack = c.call_stack
      <3>1. c.tnt_queue = << >> /\ c.tip_queue = << >> /\ Append(<< >>, p.pc) = << p.pc >>
        BY <1>2 DEF Empty
      <3>2. r = [c EXCEPT !.tip_queue = << p.pc >>]
        BY <3>1
      <3> QED BY <2>7, <3>1, <3>2 DEF CtxType
    <2> HIDE DEF r
    <2>10. Like(d, m) /\ this_ctx(m) = r
      BY <2>6, <2>8, <2>9, SetLike
    <2> HIDE DEF m, e
    <2>11. e.ctx = m.ctx /\ e.ctx_idx = m.ctx_idx /\ e.walking
      BY <2>3, <2>4 DEF Sound, XedType
    <2>12. Local(m, e)
      BY <2>3, <2>4, SoundShape, LocalScalars
    <2>13. Local(d, e) /\ this_ctx(e) = r
      BY <2>10, <2>11, <2>12, LocalTrans DEF Like, this_ctx
    <2> HIDE DEF G
    <2>14. Nears(r, << >>, G)
      <3>1. Place(r) = Place(c)
        BY <2>9 DEF Place, Addrs
      <3> QED BY <1>1, <1>2, <1>5, <2>9, <3>1 DEF Nears, Holds
    <2>15. Chain(e, q)
      BY <1>2, <2>9, <2>13, ChainKept DEF Alike
    <2> QED BY <1>5, <2>9, <2>11, <2>13, <2>14, <2>15 DEF Takes, e, G
  <1> QED BY <1>4, <1>5

\* The checks of ip_decode pass or fail.
LEMMA CheckPasses ==
  ASSUME NEW d, Sound(d), NEW type, NEW ip, Ok(CheckIp(d, type, ip))
  PROVE  CheckIp(d, type, ip) = d /\ (ip = NoAddr => Empty(this_ctx(d)))
  <1>1. CASE ip = NoAddr
    <2> DEFINE n == xed_intel_pt_tip_disable(d)
    <2>1. Sound(n) /\ (Ok(n) => n = d /\ Ok(d) /\ Empty(this_ctx(d)))
      BY SoundNoInput DEF xed_intel_pt_tip_disable, Messages
    <2>2. CheckIp(d, type, ip) = IF Ok(n) /\ type # "TIP_PGD" THEN Fatal(n, "ip_decode error 4") ELSE n
      BY <1>1 DEF CheckIp
    <2> HIDE DEF n
    <2> QED BY <2>1, <2>2, FatalFails
  <1>2. CASE ip # NoAddr
    BY <1>2, FatalFails DEF CheckIp
  <1> QED BY <1>1, <1>2

\* An overflow leaves the decoder with nothing.
LEMMA OvfWaits ==
  ASSUME NEW d, Sound(d), ~d.walking, Rooted(d), NEW q
  PROVE  LET e == xed_intel_pt_ovf(d)
         IN  Waits(e) /\ Chain(e, q) /\ this_ctx(e).call_stack = << >>
  <1> DEFINE m == [d EXCEPT !.this_pgd = NoPgd]
  <1>1. Sound(m)
    BY SoundScalars
  <1>2. ~m.walking /\ m.ctx = d.ctx
    BY DEF Sound, XedType
  <1>3. xed_intel_pt_ovf(d) = xed_async_reset(m)
    BY DEF xed_intel_pt_ovf
  <1> HIDE DEF m
  <1>4. Rooted(m)
    BY <1>2 DEF Rooted
  <1> QED BY <1>1, <1>2, <1>3, <1>4, ResetLost DEF Waits

\* A PIP leaves the contexts.
LEMMA PipKeeps ==
  ASSUME NEW d, Sound(d), NEW pgd
  PROVE  LET e == xed_intel_pt_pip(d, pgd)
         IN  e.ctx = d.ctx /\ e.ctx_idx = d.ctx_idx /\ e.walking = d.walking
  BY DEF Sound, XedType, xed_intel_pt_pip

\* The contexts when one more is opened at the interrupt of q that p is.
LEMMA ChainEntered ==
  ASSUME NEW d, Sound(d), NEW q \in Views, NEW p \in Views, p.one = q.one,
         p.frames = Append(q.frames, Frame(q.pc, TRUE)), Len(q.frames) >= 1, Chain(d, q),
         this_ctx(d).last_inst = NoInst => ~q.one,
         this_ctx(d).last_inst # NoInst => On(Place(this_ctx(d)), << >>, Heading(q)),
         NEW m, m.ctx_idx = d.ctx_idx + 1, m.ctx[d.ctx_idx + 1].async_src = q.pc, m.ctx_idx \in Ctxs,
         \A i \in Ctxs : i # d.ctx_idx + 1 => m.ctx[i] = d.ctx[i]
  PROVE  Chain(m, p)
  <1> DEFINE j == d.ctx_idx + 1
             N == Len(q.frames) + 1
             src(k) == m.ctx[k].async_src
  <1>1. d.ctx_idx \in Nat /\ j \in Ctxs /\ d.ctx_idx \in Ctxs /\ 0 \in Ctxs /\ j # 0 /\ Ctxs = 0 .. MAX_NO_CTXS - 1
    <2>1. d.ctx_idx \in Ctxs
      BY SoundFields
    <2> QED BY <2>1, SizesAssumption DEF Ctxs
  <1>2. PICK n \in [1 .. d.ctx_idx -> Nat] : Awaits(d, q, n) /\ (q.one => Nested(d, q, n))
    BY DEF Chain
  <1>3. /\ Len(q.frames) \in Nat /\ Len(p.frames) = N /\ IrqAt(p.frames, N) /\ p.frames[N].ret = q.pc
        /\ SubSeq(p.frames, 1, N - 1) = q.frames
        /\ \A i \in 1 .. Len(q.frames) :
             p.frames[i] = q.frames[i] /\ SubSeq(p.frames, 1, i - 1) = SubSeq(q.frames, 1, i - 1)
    <2> DEFINE b == Before(q, TRUE)
    <2>1. /\ b.frames = p.frames /\ Len(b.frames) = N /\ Len(q.frames) \in Nat
          /\ IrqAt(b.frames, N) /\ b.frames[N].ret = q.pc
          /\ Back(b, q.pc, N) = q
          /\ \A i \in 1 .. Len(q.frames) :
               b.frames[i] = q.frames[i] /\ SubSeq(b.frames, 1, i - 1) = SubSeq(q.frames, 1, i - 1)
      BY BeforeIs
    <2>2. Back(b, q.pc, N).frames = SubSeq(b.frames, 1, N - 1)
      BY DEF Back
    <2> HIDE DEF b, N
    <2> QED BY <2>1, <2>2
  <1> DEFINE l == [k \in 1 .. j |-> IF k = j THEN N ELSE n[k]]
  <1>20. N \in Nat /\ \A k \in 1 .. d.ctx_idx : n[k] \in Nat
    BY <1>2, <1>3
  <1>4. /\ l \in [1 .. j -> Nat] /\ l[j] = N
        /\ \A k \in 1 .. d.ctx_idx : l[k] = n[k] /\ k \in 1 .. j /\ k # j /\ k \in Ctxs /\ k - 1 \in Ctxs /\ k - 1 # j
        /\ \A k \in 1 .. j : k = j \/ k \in 1 .. d.ctx_idx
    <2> DEFINE i0 == d.ctx_idx
    <2>1. i0 \in Nat /\ j = i0 + 1 /\ j \in 0 .. MAX_NO_CTXS - 1 /\ MAX_NO_CTXS \in Nat
      BY <1>1, SizesAssumption
    <2> HIDE DEF N, i0
    <2>2. \A k \in 1 .. i0 : k \in 1 .. j /\ k # j /\ k \in Ctxs /\ k - 1 \in Ctxs /\ k - 1 # j
      BY <1>1, <2>1
    <2>3. (\A k \in 1 .. j : k = j \/ k \in 1 .. i0) /\ j \in 1 .. j
      BY <2>1
    <2>4. \A k \in 1 .. j : l[k] = IF k = j THEN N ELSE n[k]
      OBVIOUS
    <2>5. l \in [1 .. j -> Nat]
      BY <1>20, <2>3 DEF i0
    <2> HIDE DEF l
    <2> QED BY <2>2, <2>3, <2>4, <2>5 DEF i0
  <1> HIDE DEF l
  <1>5. src(j) = q.pc /\ q.pc # NoAddr
    BY SpotNat DEF Views
  <1>6. \A k \in 1 .. d.ctx_idx : src(k) = d.ctx[k].async_src /\ m.ctx[k - 1] = d.ctx[k - 1]
    BY <1>4
  <1>7. m.ctx[j - 1] = this_ctx(d)
    BY <1>1 DEF this_ctx
  <1>8. Rooted(m)
    BY <1>1 DEF Chain, Rooted
  <1> HIDE DEF src, N
  <1>9. Awaits(m, p, l)
    <2> SUFFICES ASSUME NEW k \in 1 .. j
                 PROVE  /\ src(k) # NoAddr /\ (p.one => m.ctx[k - 1].last_inst # NoInst)
                        /\ m.ctx[k - 1].last_inst # NoInst =>
                             On(Place(m.ctx[k - 1]), << >>, Heading(Back(p, src(k), l[k])))
      BY DEF Awaits, src
    <2>1. CASE k = j
      <3>1. Heading(Back(p, src(k), N)) = Heading(q)
        <4>1. /\ Back(p, q.pc, N).pc = q.pc /\ Back(p, q.pc, N).one = q.one
              /\ Back(p, q.pc, N).frames = q.frames
          <5>1. /\ Back(p, q.pc, N).pc = q.pc /\ Back(p, q.pc, N).one = p.one
                /\ Back(p, q.pc, N).frames = SubSeq(p.frames, 1, N - 1)
            BY DEF Back
          <5> QED BY <1>3, <5>1
        <4> QED BY <1>5, <2>1, <4>1, HeadingSame
      <3> QED BY <1>4, <1>5, <1>7, <2>1, <3>1
    <2>2. CASE k \in 1 .. d.ctx_idx
      <3> DEFINE s == d.ctx[k].async_src
      <3>1. /\ s # NoAddr /\ (q.one => d.ctx[k - 1].last_inst # NoInst)
            /\ d.ctx[k - 1].last_inst # NoInst =>
                 On(Place(d.ctx[k - 1]), << >>, Heading(Back(q, s, n[k])))
        BY <1>2, <2>2 DEF Awaits
      <3>2. Heading(Back(p, s, n[k])) = Heading(Back(q, s, n[k]))
        <4>1. /\ Back(p, s, n[k]).pc = s /\ Back(q, s, n[k]).pc = s
              /\ Back(p, s, n[k]).one = p.one /\ Back(q, s, n[k]).one = q.one
              /\ Back(p, s, n[k]).frames = SubSeq(p.frames, 1, n[k] - 1)
              /\ Back(q, s, n[k]).frames = SubSeq(q.frames, 1, n[k] - 1)
          BY DEF Back
        <4>2. q.one => n[k] \in 1 .. Len(q.frames)
          BY <1>2, <1>3, <2>2 DEF Nested
        <4>3. q.one => Back(p, s, n[k]).frames = Back(q, s, n[k]).frames
          BY <1>3, <4>1, <4>2
        <4> QED BY <4>1, <4>3, HeadingSame DEF Exact
      <3>3. l[k] = n[k] /\ src(k) = s /\ m.ctx[k - 1] = d.ctx[k - 1]
        BY <1>4, <1>6, <2>2
      <3> HIDE DEF s
      <3> QED BY <3>1, <3>2, <3>3
    <2> QED BY <1>4, <2>1, <2>2
  <1>10. ASSUME p.one PROVE Nested(m, p, l)
    <2>1. /\ \A k \in 1 .. d.ctx_idx :
               n[k] \in 2 .. Len(q.frames) /\ q.frames[n[k]].irq /\ q.frames[n[k]].ret = d.ctx[k].async_src
          /\ \A i, k \in 1 .. d.ctx_idx : i < k => n[i] < n[k]
          /\ \A i \in 1 .. Len(q.frames) :
               q.frames[i].irq /\ d.ctx_idx > 0 /\ n[1] < i => \E k \in 1 .. d.ctx_idx : i = n[k]
      BY <1>2, <1>10 DEF Nested
    <2>2. ASSUME NEW k \in 1 .. j
          PROVE  l[k] \in 2 .. Len(p.frames) /\ p.frames[l[k]].irq /\ p.frames[l[k]].ret = src(k)
      <3>1. CASE k = j
        <4>1. p.frames[N].irq /\ N \in 1 .. Len(p.frames)
          BY <1>3 DEF IrqAt
        <4>2. N \in 2 .. Len(p.frames)
          BY <1>3, <1>20, <4>1 DEF N
        <4> QED BY <1>3, <1>4, <1>5, <3>1, <4>1, <4>2
      <3>2. CASE k \in 1 .. d.ctx_idx
        <4>1. n[k] \in 1 .. Len(q.frames) /\ n[k] \in 2 .. N
          BY <1>3, <2>1, <3>2 DEF N
        <4>2. p.frames[n[k]] = q.frames[n[k]]
          BY <1>3, <4>1
        <4>3. n[k] \in 2 .. Len(p.frames)
          BY <1>3, <1>20, <3>2, <4>1
        <4>4. q.frames[n[k]].irq /\ q.frames[n[k]].ret = d.ctx[k].async_src
          BY <2>1, <3>2
        <4>5. l[k] = n[k] /\ src(k) = d.ctx[k].async_src
          BY <1>4, <1>6, <3>2
        <4> QED BY <4>2, <4>3, <4>4, <4>5
      <3> QED BY <1>4, <3>1, <3>2
    <2>3. ASSUME NEW i \in 1 .. j, NEW k \in 1 .. j, i < k PROVE l[i] < l[k]
      <3>1. i \in 1 .. d.ctx_idx
        BY <1>1, <2>3
      <3>2. CASE k = j
        <4>1. n[i] \in 2 .. Len(q.frames)
          BY <2>1, <3>1
        <4> QED BY <1>3, <1>4, <3>1, <3>2, <4>1 DEF N
      <3>3. CASE k \in 1 .. d.ctx_idx
        BY <1>4, <2>1, <2>3, <3>1, <3>3
      <3> QED BY <1>4, <3>2, <3>3
    <2>4. ASSUME NEW i \in 1 .. Len(p.frames), p.frames[i].irq, l[1] < i PROVE \E k \in 1 .. j : i = l[k]
      <3>1. CASE i = N
        <4>1. j \in 1 .. j
          BY <1>1
        <4> QED BY <1>4, <3>1, <4>1
      <3>2. CASE i # N
        <4>1. i \in 1 .. Len(q.frames)
          BY <1>3, <3>2 DEF N
        <4>2. d.ctx_idx > 0
          <5>1. d.ctx_idx = 0 => l[1] = N
            BY <1>4
          <5> QED BY <1>1, <1>3, <2>4, <4>1, <5>1 DEF N
        <4>3. l[1] = n[1]
          <5>1. 1 \in 1 .. d.ctx_idx
            BY <1>1, <4>2
          <5> QED BY <1>4, <5>1
        <4>4. q.frames[i].irq
          BY <1>3, <2>4, <4>1
        <4>5. PICK k \in 1 .. d.ctx_idx : i = n[k]
          BY <2>1, <2>4, <4>1, <4>2, <4>3, <4>4
        <4> QED BY <1>4, <4>5
      <3> QED BY <3>1, <3>2
    <2> QED BY <2>2, <2>3, <2>4 DEF Nested, src
  <1> QED BY <1>4, <1>8, <1>9, <1>10 DEF Chain

\* The TIP of an interrupt: the decoder goes on in a context of its own, and where
\* it waited is on the way from the source of the interrupt.
LEMMA EnterFollows ==
  ASSUME NEW d, Sound(d), ~d.walking, NEW q \in Views, NEW p \in Views, p.one = q.one,
         p.frames = Append(q.frames, Frame(q.pc, TRUE)), Len(q.frames) >= 1,
         p.one => p.pc \in Sites, Follows(d, << >>, Heading(q), q),
         Ok(StartAt(xed_async_enter(d, q.pc), p.pc))
  PROVE  Follows(StartAt(xed_async_enter(d, q.pc), p.pc), << >>, Heading(p), p)
  <1> DEFINE src == q.pc
             j == d.ctx_idx + 1
             inner == [d EXCEPT !.ctx_idx = @ + 1]
             r == [this_ctx(inner) EXCEPT !.async_src = src]
             m == xed_async_enter(d, src)
  <1>1. src # NoAddr /\ src \in Nat
    BY SpotNat DEF Views
  <1>2. Ok(m)
    BY DEF StartAt, xed_process_branches, xed_update_last_inst
  <1>3. NoInput(d, "async enter") = d /\ Ok(d)
    <2>1. Ok(NoInput(d, "async enter"))
      BY <1>2 DEF xed_async_enter
    <2> QED BY <2>1, SoundNoInput DEF Messages
  <1>4. ~(j >= MAX_NO_CTXS)
    BY <1>2, <1>3, FatalFails DEF xed_async_enter
  <1>5. m = SetCtx(inner, r)
    BY <1>3, <1>4 DEF xed_async_enter
  <1>6. d \in XedType /\ d.ctx_idx \in Ctxs /\ j \in Ctxs /\ j # d.ctx_idx /\ j > d.ctx_idx
    <2>1. d.ctx_idx \in Ctxs
      BY SoundFields
    <2>2. j \in Ctxs
      BY <1>4, <2>1, NextIdx
    <2> QED BY <2>1, <2>2 DEF Sound, Ctxs
  <1>7. inner.ctx = d.ctx /\ inner.ctx_idx = j /\ inner.walking = d.walking /\ Shape(inner)
    BY <1>6 DEF XedType, Shape, Fields, Ctxs
  <1>8. Good(d.ctx[j]) /\ Empty(d.ctx[j]) /\ this_ctx(inner) = d.ctx[j] /\ d.ctx[j].call_stack = << >>
    <2>1. Good(d.ctx[j]) /\ Empty(d.ctx[j]) /\ d.ctx[j].call_stack = << >>
      BY <1>6 DEF Sound
    <2> HIDE DEF inner, j
    <2> QED BY <1>7, <2>1 DEF this_ctx
  <1>9. r.async_src = src /\ Empty(r) /\ r.call_stack = << >>
    <2>1. d.ctx[j] \in CtxType
      BY <1>8 DEF Good
    <2>2. r = [d.ctx[j] EXCEPT !.async_src = src]
      BY <1>8
    <2> HIDE DEF r
    <2> QED BY <1>8, <2>1, <2>2 DEF CtxType, Empty
  <1> HIDE DEF r, inner
  <1>10. m.ctx = [d.ctx EXCEPT ![j] = r] /\ m.ctx_idx = j /\ ~m.walking
    <2>1. SetCtx(inner, r) = [inner EXCEPT !.ctx = [d.ctx EXCEPT ![j] = r]]
      BY <1>7 DEF SetCtx
    <2> QED BY <1>5, <1>7, <2>1 DEF Shape, Fields
  <1>11. d.ctx \in [Ctxs -> CtxType]
    BY SoundFields
  <1>12. m.ctx[j] = r /\ \A i \in Ctxs : i # j => m.ctx[i] = d.ctx[i]
    BY <1>6, <1>10, <1>11
  <1>13. Sound(m)
    BY <1>1, SoundEnter
  <1> HIDE DEF m
  <1>14. this_ctx(m) = r
    BY <1>10, <1>12 DEF this_ctx
  <1>15. /\ Chain(d, q) /\ (this_ctx(d).last_inst = NoInst => ~q.one)
         /\ this_ctx(d).last_inst # NoInst => On(Place(this_ctx(d)), << >>, Heading(q))
    <2>1. << >> \in Seq(BOOLEAN)
      OBVIOUS
    <2> QED BY <2>1, IdleFollows
  <1>16. Chain(m, p)
    BY <1>6, <1>9, <1>10, <1>12, <1>15, ChainEntered
  <1>17. Follows(StartAt(m, p.pc), << >>, Heading(p), p)
    BY <1>9, <1>10, <1>13, <1>14, <1>16, StartFollows DEF m
  <1> QED BY <1>17 DEF m

-----------------------------------------------------------------------------
(* The interrupts a processor is to return from, step by step.             *)

LEMMA SameIrqsSelf == ASSUME NEW fs, NEW gs, SameIrqs(fs, gs) PROVE SameIrqs(gs, fs) /\ SameIrqs(fs, fs)
  BY DEF SameIrqs

\* Two stacks that agree but for one frame on top, which is of no other interrupt.
LEMMA SameBelow ==
  ASSUME NEW fs \in Seq(FrameType), NEW gs \in Seq(FrameType), NEW n \in Nat,
         n <= Len(fs), Len(fs) <= n + 1, n <= Len(gs), Len(gs) <= n + 1,
         \A k \in 1 .. n : fs[k] = gs[k], IrqAt(fs, n + 1) <=> IrqAt(gs, n + 1),
         IrqAt(fs, n + 1) => fs[n + 1].ret = gs[n + 1].ret
  PROVE  SameIrqs(fs, gs)
  <1>1. PICK a \in Nat : a = Len(fs)
    OBVIOUS
  <1>2. PICK b \in Nat : b = Len(gs)
    OBVIOUS
  <1>3. ASSUME NEW m \in Nat
        PROVE  /\ IrqAt(fs, m) <=> IrqAt(gs, m)
               /\ IrqAt(fs, m) => fs[m].ret = gs[m].ret /\ SubSeq(fs, 1, m - 1) = SubSeq(gs, 1, m - 1)
    <2>1. CASE m \in 1 .. n + 1
      <3>1. PICK i \in 0 .. n : i = m - 1
        BY <2>1
      <3>2. i \in 0 .. a /\ i \in 0 .. b /\ \A k \in 1 .. i : k \in 1 .. n
        BY <1>1, <1>2
      <3>3. SubSeq(fs, 1, i) = [k \in 1 .. i |-> fs[k]]
        BY <1>1, <3>2
      <3>4. SubSeq(gs, 1, i) = [k \in 1 .. i |-> gs[k]]
        BY <1>2, <3>2
      <3>5. SubSeq(fs, 1, i) = SubSeq(gs, 1, i)
        BY <3>2, <3>3, <3>4
      <3>6. m # n + 1 => m \in 1 .. n /\ m \in 1 .. a /\ m \in 1 .. b
        BY <1>1, <1>2, <2>1
      <3>7. m # n + 1 => fs[m] = gs[m]
        BY <3>6
      <3> QED BY <1>1, <1>2, <3>1, <3>5, <3>6, <3>7 DEF IrqAt
    <2>2. CASE m \notin 1 .. n + 1
      <3>1. m \notin 1 .. a /\ m \notin 1 .. b
        BY <1>1, <1>2, <2>2
      <3> QED BY <1>1, <1>2, <3>1 DEF IrqAt
    <2> QED BY <2>1, <2>2
  <1> QED BY <1>3 DEF SameIrqs

\* A call and a return, a system call, and the return from one.
LEMMA SameIrqsCall ==
  ASSUME NEW fs, FramesOK(fs), NEW calls \in Seq(Sites)
  PROVE  SameIrqs(fs, Front(fs) \o << [Last(fs) EXCEPT !.calls = calls] >>)
  <1> DEFINE f == [Last(fs) EXCEPT !.calls = calls]
             g == Front(fs) \o << f >>
  <1>1. /\ Last(fs) \in FrameType /\ Front(fs) \in Seq(FrameType)
        /\ Len(fs) \in Nat /\ Len(fs) >= 1 /\ Len(Front(fs)) = Len(fs) - 1
        /\ \A k \in 1 .. Len(fs) - 1 : Front(fs)[k] = fs[k]
        /\ Last(fs) = fs[Len(fs)] /\ fs \in Seq(FrameType)
    BY FrameParts DEF FramesOK
  <1>2. f \in FrameType /\ f.ret = Last(fs).ret /\ f.irq = Last(fs).irq
    BY <1>1 DEF FrameType
  <1> HIDE DEF f
  <1>3. PICK n \in Nat : Len(fs) = n + 1
    <2>1. Len(fs) - 1 \in Nat /\ Len(fs) = (Len(fs) - 1) + 1
      BY <1>1
    <2> QED BY <2>1
  <1>4. << f >> \in Seq(FrameType) /\ Len(<< f >>) = 1 /\ << f >>[1] = f
    <2> HIDE DEF FrameType
    <2> QED BY <1>2
  <1>5. /\ g \in Seq(FrameType) /\ Len(g) = n + 1
        /\ \A k \in 1 .. n + 1 : g[k] = IF k <= n THEN Front(fs)[k] ELSE << f >>[k - n]
    <2> HIDE DEF FrameType
    <2>1. /\ g \in Seq(FrameType) /\ Len(g) = Len(Front(fs)) + Len(<< f >>)
          /\ \A k \in 1 .. Len(Front(fs)) + Len(<< f >>) :
               g[k] = IF k <= Len(Front(fs)) THEN Front(fs)[k] ELSE << f >>[k - Len(Front(fs))]
      BY <1>1, <1>4, ConcatProperties
    <2>2. Len(Front(fs)) = n /\ Len(<< f >>) = 1
      BY <1>1, <1>3, <1>4
    <2> QED BY <2>1, <2>2
  <1> HIDE DEF g
  <1>6. \A k \in 1 .. n : fs[k] = g[k]
    BY <1>1, <1>3, <1>5
  <1>7. g[n + 1] = f /\ fs[n + 1] = Last(fs)
    <2>1. n + 1 \in 1 .. n + 1 /\ ~(n + 1 <= n) /\ n + 1 - n = 1
      OBVIOUS
    <2>2. g[n + 1] = << f >>[1]
      BY <1>5, <2>1
    <2> QED BY <1>1, <1>3, <1>4, <2>2
  <1>8. IrqAt(fs, n + 1) <=> IrqAt(g, n + 1)
    <2>1. n + 1 \in 1 .. Len(fs) /\ n + 1 \in 1 .. Len(g)
      BY <1>3, <1>5
    <2>2. fs[n + 1].irq <=> g[n + 1].irq
      <3>1. Last(fs).irq \in BOOLEAN /\ f.irq = Last(fs).irq
        BY <1>1, <1>2 DEF FrameType
      <3> QED BY <1>7, <3>1
    <2> QED BY <2>1, <2>2 DEF IrqAt
  <1>9. SameIrqs(fs, g)
    <2>1. n <= Len(fs) /\ Len(fs) <= n + 1 /\ n <= Len(g) /\ Len(g) <= n + 1
      BY <1>3, <1>5
    <2>2. fs[n + 1].ret = g[n + 1].ret /\ fs \in Seq(FrameType) /\ g \in Seq(FrameType)
      BY <1>1, <1>2, <1>5, <1>7
    <2> QED BY <1>6, <1>8, <2>1, <2>2, SameBelow
  <1> QED BY <1>9 DEF g, f

LEMMA SameIrqsFrames ==
  ASSUME NEW fs, FramesOK(fs), NEW ret \in Spots
  PROVE  /\ SameIrqs(fs, Append(fs, Frame(ret, FALSE)))
         /\ ~Last(fs).irq => SameIrqs(fs, Front(fs))
  <1> DEFINE f == Frame(ret, FALSE)
             g == Append(fs, f)
  <1>1. /\ Last(fs) \in FrameType /\ Front(fs) \in Seq(FrameType)
        /\ Len(fs) \in Nat /\ Len(fs) >= 1 /\ Len(Front(fs)) = Len(fs) - 1
        /\ \A k \in 1 .. Len(fs) - 1 : Front(fs)[k] = fs[k]
        /\ Last(fs) = fs[Len(fs)] /\ fs \in Seq(FrameType)
    BY FrameParts DEF FramesOK
  <1>2. f \in FrameType /\ ~f.irq
    <2>1. << >> \in Seq(Sites)
      OBVIOUS
    <2> QED BY <2>1 DEF Frame, FrameType
  <1> HIDE DEF f
  <1>3. PICK n \in Nat : Len(fs) = n + 1
    <2>1. Len(fs) - 1 \in Nat /\ Len(fs) = (Len(fs) - 1) + 1
      BY <1>1
    <2> QED BY <2>1
  <1>4. /\ g \in Seq(FrameType) /\ Len(g) = Len(fs) + 1
        /\ \A k \in 1 .. Len(fs) : g[k] = fs[k]
        /\ g[Len(fs) + 1] = f
    <2> HIDE DEF FrameType
    <2> QED BY <1>1, <1>2, AppendProperties
  <1> HIDE DEF g
  <1>5. SameIrqs(fs, g)
    <2> DEFINE m == Len(fs)
    <2>1. m \in Nat
      BY <1>1
    <2>2. ~IrqAt(fs, m + 1) /\ ~IrqAt(g, m + 1)
      BY <1>2, <1>4, <2>1 DEF IrqAt
    <2>3. m <= Len(fs) /\ Len(fs) <= m + 1 /\ m <= Len(g) /\ Len(g) <= m + 1
      BY <1>4, <2>1
    <2>4. \A k \in 1 .. m : fs[k] = g[k]
      BY <1>4
    <2> HIDE DEF m
    <2> QED BY <1>1, <1>4, <2>1, <2>2, <2>3, <2>4, SameBelow
  <1>6. ASSUME ~Last(fs).irq PROVE SameIrqs(fs, Front(fs))
    <2> DEFINE e == Front(fs)
    <2>1. e \in Seq(FrameType) /\ Len(e) = n /\ \A k \in 1 .. n : fs[k] = e[k]
      BY <1>1, <1>3
    <2> HIDE DEF e
    <2>2. ~IrqAt(fs, n + 1) /\ ~IrqAt(e, n + 1)
      BY <1>1, <1>3, <1>6, <2>1 DEF IrqAt
    <2>3. SameIrqs(fs, e)
      BY <1>1, <1>3, <2>1, <2>2, SameBelow
    <2> QED BY <2>3 DEF e
  <1> QED BY <1>5, <1>6 DEF g, f
=============================================================================
