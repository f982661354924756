---------------------------- MODULE SearchProofs ----------------------------
(***************************************************************************)
(* What the binary search finds, for every array, midpoint and range.      *)
(***************************************************************************)
EXTENDS StickySearch, WellFoundedInduction, TLAPS

\* A set of natural numbers has a least one.
LEMMA HasLeast ==
  ASSUME NEW S \in SUBSET Nat, S # {}
  PROVE  \E n \in S : \A k \in S : n <= k
<1> DEFINE R == OpToRel(<, Nat)
<1>1. \A x, y \in Nat : x < y => <<x, y>> \in R
  BY DEF OpToRel
<1>2. \E n \in S : \A k \in S : <<k, n>> \notin R
  <2> HIDE DEF R
  <2>1. IsWellFoundedOn(R, Nat)
    BY NatLessThanWellFounded DEF R
  <2>2. QED
    BY <2>1, WFMin
<1>3. PICK n \in S : \A k \in S : <<k, n>> \notin R
  BY <1>2
<1>4. \A k \in S : ~(k < n)
  BY <1>1, <1>3
<1>5. QED
  BY <1>4

\* A round of the loop, given what the rounds after it end with.
Round(loop, hits, below, t) ==
  LET k == (t[1] + t[2]) \div 2
  IN  IF t[1] > t[2] THEN [m |-> t[3], hit |-> FALSE]
      ELSE IF k \in hits THEN [m |-> k, hit |-> TRUE]
      ELSE loop[IF k \in below THEN <<k + 1, t[2], k>> ELSE <<t[1], k - 1, k>>]

\* The rounds with at most n entries left.
Short(size, n) == {t \in Rounds(size) : t[2] - t[1] < n}

\* The rounds after a round are ones with less entries left.
LEMMA RoundsGetShort ==
  ASSUME NEW size \in Nat, NEW t \in Rounds(size), t[1] <= t[2]
  PROVE  LET k == (t[1] + t[2]) \div 2
         IN  /\ k \in t[1] .. t[2] /\ k \in 0 .. size - 1
             /\ <<k + 1, t[2], k>> \in Short(size, t[2] - t[1])
             /\ <<t[1], k - 1, k>> \in Short(size, t[2] - t[1])
<1>1. PICK a \in 0 .. size, b \in -1 .. size - 1, last \in 0 .. size : t = <<a, b, last>>
  BY DEF Rounds
<1> DEFINE k == (a + b) \div 2
<1>2. a <= k /\ k <= b /\ k \in Int
  BY <1>1
<1> HIDE DEF k
<1>3. <<k + 1, b, k>> \in Rounds(size) /\ <<a, k - 1, k>> \in Rounds(size)
  BY <1>1, <1>2 DEF Rounds
<1>4. /\ <<k + 1, b, k>> \in Short(size, b - a) /\ <<a, k - 1, k>> \in Short(size, b - a)
  BY <1>1, <1>2, <1>3 DEF Short
<1>5. k \in a .. b /\ k \in 0 .. size - 1
  BY <1>1, <1>2
<1>6. QED
  BY <1>1, <1>4, <1>5 DEF k

\* A round looks at no others than those after it.
LEMMA RoundLooksAhead ==
  ASSUME NEW size \in Nat, NEW hits, NEW below, NEW t \in Rounds(size), NEW f, NEW g,
         t[1] <= t[2] => \A u \in Short(size, t[2] - t[1]) : f[u] = g[u]
  PROVE  Round(f, hits, below, t) = Round(g, hits, below, t)
<1>1. CASE t[1] <= t[2]
  BY <1>1, RoundsGetShort DEF Round
<1>2. CASE ~(t[1] <= t[2])
  <2>1. t[1] > t[2]
    BY <1>2 DEF Rounds
  <2>2. QED
    BY <1>2, <2>1 DEF Round
<1>3. QED
  BY <1>1, <1>2

\* The function f does what the loop does, from rounds with n entries left.
Loops(f, size, hits, below, n) == f = [t \in Short(size, n) |-> Round(f, hits, below, t)]

\* There is such a function for any number of entries.
LEMMA LoopExists ==
  ASSUME NEW size \in Nat, NEW hits, NEW below, NEW n \in Nat
  PROVE  \E f : Loops(f, size, hits, below, n)
<1> USE DEF Loops
<1> DEFINE Fits(f, i) == Loops(f, size, hits, below, i)
           Missing == {i \in Nat : ~\E f : Fits(f, i)}
<1>1. SUFFICES ASSUME Missing # {} PROVE FALSE
  OBVIOUS
<1>2. PICK i \in Missing : \A j \in Missing : i <= j
  BY <1>1, HasLeast
<1>3. i # 0
  <2>1. \A f, g : \A t \in Short(size, 0) : Round(f, hits, below, t) = Round(g, hits, below, t)
    <3>1. \A t \in Short(size, 0) : t \in Rounds(size) /\ ~(t[1] <= t[2])
      BY DEF Short, Rounds
    <3>2. QED
      BY <3>1, RoundLooksAhead
  <2>2. Fits([t \in Short(size, 0) |-> Round(0, hits, below, t)], 0)
    BY <2>1
  <2>3. QED
    BY <1>2, <2>2
<1>4. PICK f : Fits(f, i - 1)
  BY <1>2, <1>3
<1> DEFINE g == [t \in Short(size, i) |-> Round(f, hits, below, t)]
<1>5. \A t \in Short(size, i - 1) : t \in Short(size, i) /\ f[t] = g[t]
  <2>1. \A t \in Short(size, i - 1) : t \in Short(size, i)
    BY <1>2 DEF Short, Rounds
  <2>2. QED
    BY <1>4, <2>1
<1>6. \A t \in Short(size, i) : Round(f, hits, below, t) = Round(g, hits, below, t)
  <2> HIDE DEF g
  <2> SUFFICES ASSUME NEW t \in Short(size, i)
               PROVE  Round(f, hits, below, t) = Round(g, hits, below, t)
    OBVIOUS
  <2>1. \A u \in Short(size, t[2] - t[1]) : u \in Short(size, i - 1)
    BY <1>2 DEF Short, Rounds
  <2>2. t \in Rounds(size)
    BY DEF Short
  <2>3. QED
    BY <1>5, <2>1, <2>2, RoundLooksAhead
<1>7. Fits(g, i)
  BY <1>6
<1>8. QED
  BY <1>2, <1>7

\* The loop does what its rounds say.
LEMMA LoopDefined ==
  ASSUME NEW size \in Nat, NEW hits, NEW below
  PROVE  LET loop == Loop(size, hits, below)
         IN  loop = [t \in Rounds(size) |-> Round(loop, hits, below, t)]
<1>1. Short(size, size) = Rounds(size)
  BY DEF Short, Rounds
<1>2. \E f : f = [t \in Rounds(size) |-> Round(f, hits, below, t)]
  <2>1. \E f : Loops(f, size, hits, below, size)
    BY LoopExists
  <2>2. QED
    BY <1>1, <2>1 DEF Loops
<1>3. Loop(size, hits, below) = CHOOSE f : f = [t \in Rounds(size) |-> Round(f, hits, below, t)]
  BY DEF Loop, Round
<1>4. QED
  BY <1>2, <1>3

\* Hits, and the entries that are not, tell the search where to go on.
Guided(hits, below, lo, hi) ==
  \A k \in lo .. hi \ hits : \A h \in (lo .. hi) \cap hits : k \in below <=> k < h

\* What the loop ends with from a round is an entry it looked at, or the one it
\* came from; it is a hit where there is one.
Right(r, hits, below, t) ==
  /\ r.hit \in BOOLEAN /\ r = [m |-> r.m, hit |-> r.hit]
  /\ (r.m = t[3] /\ ~r.hit) \/ r.m \in t[1] .. t[2]
  /\ r.hit => r.m \in hits
  /\ Guided(hits, below, t[1], t[2]) /\ (t[1] .. t[2]) \cap hits # {} => r.hit

\* The loop ends right from every round: else there is a shortest one from which it
\* does not.
LEMMA LoopFinds ==
  ASSUME NEW size \in Nat, NEW hits, NEW below, NEW t \in Rounds(size)
  PROVE  Right(Loop(size, hits, below)[t], hits, below, t)
<1> DEFINE loop == Loop(size, hits, below)
           Wrong == {n \in Nat : \E u \in Short(size, n) : ~Right(loop[u], hits, below, u)}
<1>1. loop = [u \in Rounds(size) |-> Round(loop, hits, below, u)]
  BY LoopDefined
<1>2. SUFFICES ASSUME Wrong # {} PROVE FALSE
  <2>1. t \in Short(size, size)
    BY DEF Short, Rounds
  <2>2. size \in Wrong \/ Right(loop[t], hits, below, t)
    BY <2>1
  <2>3. QED
    BY <2>2
<1>3. PICK n \in Wrong : \A k \in Wrong : n <= k
  BY <1>2, HasLeast
<1>4. PICK u \in Short(size, n) : ~Right(loop[u], hits, below, u)
  BY <1>3
<1>5. \A v \in Rounds(size) : v[2] - v[1] < u[2] - u[1] /\ u[1] <= u[2] => Right(loop[v], hits, below, v)
  <2> SUFFICES ASSUME NEW v \in Rounds(size), v[2] - v[1] < u[2] - u[1], u[1] <= u[2],
                      ~Right(loop[v], hits, below, v)
               PROVE  FALSE
    OBVIOUS
  <2>1. u[2] - u[1] \in Nat /\ u[2] - u[1] < n
    BY DEF Short, Rounds
  <2>2. v \in Short(size, u[2] - u[1])
    BY DEF Short
  <2>3. u[2] - u[1] \in Wrong
    BY <2>1, <2>2
  <2>4. QED
    BY <1>3, <2>1, <2>3
<1> HIDE DEF Wrong, loop
<1>6. PICK a \in 0 .. size, b \in -1 .. size - 1, last \in 0 .. size : u = <<a, b, last>>
  BY DEF Rounds, Short
<1> DEFINE k == (a + b) \div 2
<1>7. a <= b => k \in a .. b /\ k \in 0 .. size - 1
  BY <1>6
<1> HIDE DEF k
<1>8. loop[u] = IF a > b THEN [m |-> last, hit |-> FALSE]
                ELSE IF k \in hits THEN [m |-> k, hit |-> TRUE]
                ELSE loop[IF k \in below THEN <<k + 1, b, k>> ELSE <<a, k - 1, k>>]
  BY <1>1, <1>6 DEF Short, Round, k
<1>9. CASE a > b
  BY <1>4, <1>6, <1>8, <1>9 DEF Right
<1>10. CASE a <= b /\ k \in hits
  <2>1. loop[u] = [m |-> k, hit |-> TRUE]
    BY <1>6, <1>8, <1>10
  <2>2. Right([m |-> k, hit |-> TRUE], hits, below, <<a, b, last>>)
    BY <1>7, <1>10 DEF Right
  <2>3. QED
    BY <1>4, <1>6, <2>1, <2>2
<1>11. ASSUME a <= b, k \notin hits, NEW c, NEW d,
              c = IF k \in below THEN k + 1 ELSE a, d = IF k \in below THEN b ELSE k - 1
       PROVE  FALSE
  <2>1. c \in 0 .. size /\ d \in -1 .. size - 1 /\ d - c < b - a /\ a <= c /\ d <= b
    BY <1>6, <1>7, <1>11
  <2>2. Guided(hits, below, a, b) => \A h \in a .. b : h \in hits => h \in c .. d
    BY <1>6, <1>7, <1>11 DEF Guided
  <2>3. Guided(hits, below, a, b) => Guided(hits, below, c, d)
    BY <1>6, <2>1 DEF Guided
  <2>4. <<c, d, k>> \in Rounds(size)
    BY <1>7, <1>11, <2>1 DEF Rounds
  <2>5. Right(loop[<<c, d, k>>], hits, below, <<c, d, k>>)
    BY <1>5, <1>6, <1>11, <2>1, <2>4
  <2>6. loop[u] = loop[<<c, d, k>>]
    BY <1>8, <1>11
  <2>7. Right(loop[u], hits, below, <<a, b, last>>)
    <3>1. loop[u].m \in a .. b
      BY <1>6, <1>7, <1>11, <2>1, <2>5, <2>6 DEF Right
    <3>2. Guided(hits, below, a, b) /\ (a .. b) \cap hits # {} => loop[u].hit
      BY <2>2, <2>3, <2>5, <2>6 DEF Right
    <3>3. QED
      BY <2>5, <2>6, <3>1, <3>2 DEF Right
  <2>8. QED
    BY <1>4, <1>6, <2>7
<1>12. QED
  BY <1>6, <1>9, <1>10, <1>11

\* A search gives an entry of the array, says a hit only of one, and finds one
\* wherever it starts, if it starts among the entries it searches.
LEMMA SearchFindsHits ==
  ASSUME NEW size \in Nat \ {0}, NEW count \in 0 .. size, NEW mid \in 0 .. size - 1,
         NEW hits, NEW below
  PROVE  LET r == Search(count, size, mid, hits, below)
         IN  /\ r.m \in 0 .. size - 1 /\ r.hit \in BOOLEAN
             /\ r = [m |-> r.m, hit |-> r.hit]
             /\ r.hit => r.m \in hits
             /\ mid < count => r.m < count
             /\ mid < count /\ Guided(hits, below, 0, count - 1) /\ (0 .. count - 1) \cap hits # {}
                  => r.hit
<1>1. \A t \in Rounds(size) : Right(Loop(size, hits, below)[t], hits, below, t)
  BY LoopFinds
<1>2. <<0, count - 1, 0>> \in Rounds(size) /\ <<mid + 1, count - 1, mid>> \in Rounds(size)
      /\ <<0, mid - 1, mid>> \in Rounds(size)
  BY DEF Rounds
<1>3. CASE mid = 0
  BY <1>1, <1>2, <1>3 DEF Search, Right
<1>4. CASE mid # 0 /\ mid \in hits
  BY <1>4 DEF Search
<1>5. CASE mid # 0 /\ mid \notin hits /\ mid \in below
  <2>1. Search(count, size, mid, hits, below) = Loop(size, hits, below)[<<mid + 1, count - 1, mid>>]
    BY <1>5 DEF Search
  <2>2. Guided(hits, below, 0, count - 1) /\ mid < count =>
          /\ Guided(hits, below, mid + 1, count - 1)
          /\ (0 .. count - 1) \cap hits = (mid + 1 .. count - 1) \cap hits
    BY <1>5 DEF Guided
  <2>3. QED
    BY <1>1, <1>2, <2>1, <2>2 DEF Right
<1>6. CASE mid # 0 /\ mid \notin hits /\ mid \notin below
  <2>1. Search(count, size, mid, hits, below) = Loop(size, hits, below)[<<0, mid - 1, mid>>]
    BY <1>6 DEF Search
  <2>2. Guided(hits, below, 0, count - 1) /\ mid < count =>
          /\ Guided(hits, below, 0, mid - 1)
          /\ (0 .. count - 1) \cap hits = (0 .. mid - 1) \cap hits
    BY <1>6 DEF Guided
  <2>3. QED
    BY <1>1, <1>2, <2>1, <2>2 DEF Right
<1>7. QED
  BY <1>3, <1>4, <1>5, <1>6
=============================================================================
