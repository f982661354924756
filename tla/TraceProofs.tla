---------------------------- MODULE TraceProofs ----------------------------
(***************************************************************************)
(* The decoder against the processor.  PositionAgrees holds of every       *)
(* program, any processes and interrupts, overflows and restarts of the    *)
(* trace.  AlwaysLocated, CtxPerInterrupt and CallStackTruthful hold of a  *)
(* trace of one process whose interrupts return as they came; its decoder  *)
(* stops with no error but a full stack of calls.                          *)
(***************************************************************************)
EXTENDS PathProofs

-----------------------------------------------------------------------------
(* The invariant: the history.                                             *)

\* What the scan for an OVF skips.
OvfSkip == TimingTypes \cup {"PSB", "PSBEND"}

\* No scan that skips what is in skip comes to an entry of this type.
Hides(h, type, skip) ==
  \A k \in DOMAIN h : h[k].type = type => \E j \in DOMAIN h : k < j /\ h[j].type \notin skip

\* No FUP and no OVF waits for what belongs to it.
Quiet(h) == Hides(h, "FUP", AsyncSkip) /\ Hides(h, "OVF", OvfSkip)

\* The FUP of an interrupt, when n packets are to come before its TIP.
HasFup(h, src, n) ==
  \E k \in DOMAIN h :
    /\ h[k] = [type |-> "FUP", ip |-> src]
    /\ \A j \in k + 1 .. Len(h) : h[j].type \in AsyncSkip
    /\ (Len(h) - k) + n + 3 <= INTEL_PT_PKT_HISTORY

\* record_intel_pt_pkt, of any history.
Recorded(h, type, ip) ==
  LET g == Append(h, [type |-> type, ip |-> ip])
  IN  IF type = "TIP_PGD" THEN << >>
      ELSE IF Len(g) >= INTEL_PT_PKT_HISTORY THEN Tail(g) ELSE g

\* It is what the code does to hist.
LEMMA RecordedHist == \A type, ip : record_intel_pt_pkt(type, ip) = Recorded(hist, type, ip)
  BY DEF record_intel_pt_pkt, Recorded

\* A new entry, and the oldest one may be lost.
LEMMA RecordShifts ==
  ASSUME NEW h \in HistType, NEW type \in HistTypes, type # "TIP_PGD", NEW ip \in Nat
  PROVE  LET g == Recorded(h, type, ip)
         IN  /\ g \in HistType /\ Len(g) \in Nat /\ Len(g) >= 1 /\ Len(h) \in Nat
             /\ g[Len(g)] = [type |-> type, ip |-> ip]
             /\ \E s \in {0, 1} : /\ Len(g) = Len(h) + 1 - s
                                  /\ \A m \in 1 .. Len(h) - s : g[m] = h[m + s]
                                  /\ s = 1 => Len(h) + 1 >= INTEL_PT_PKT_HISTORY
  <1> DEFINE E == [type: HistTypes, ip: Nat]
             x == [type |-> type, ip |-> ip]
             a == Append(h, x)
             g == Recorded(h, type, ip)
  <1>1. h \in Seq(E) /\ x \in E /\ Len(h) \in Nat
    BY DEF HistType
  <1> HIDE DEF E, x
  <1>2. /\ a \in Seq(E) /\ Len(a) = Len(h) + 1 /\ a[Len(h) + 1] = x
        /\ \A m \in 1 .. Len(h) : a[m] = h[m]
    BY <1>1, AppendProperties
  <1> HIDE DEF a
  <1>3. g = IF Len(a) >= INTEL_PT_PKT_HISTORY THEN Tail(a) ELSE a
    BY DEF Recorded, a, x
  <1> HIDE DEF g
  <1>4. CASE Len(a) >= INTEL_PT_PKT_HISTORY
    <2>1. INTEL_PT_PKT_HISTORY \in Nat /\ INTEL_PT_PKT_HISTORY >= 2
      BY PacketsAssumption
    <2>2. a # << >> /\ Len(a) \in Nat /\ Len(h) >= 1
      BY <1>1, <1>2, <1>4, <2>1
    <2>3. /\ g \in Seq(E) /\ Len(g) = Len(h) /\ \A m \in 1 .. Len(h) : g[m] = a[m + 1]
      BY <1>1, <1>2, <1>3, <1>4, <2>2, HeadTailProperties
    <2>4. \A m \in 1 .. Len(h) - 1 : g[m] = h[m + 1]
      BY <1>1, <1>2, <2>3
    <2>5. g[Len(g)] = x
      BY <1>1, <1>2, <2>2, <2>3
    <2>6. Len(g) = Len(h) + 1 - 1 /\ Len(h) + 1 >= INTEL_PT_PKT_HISTORY
      BY <1>1, <1>2, <1>4, <2>3
    <2> QED BY <1>1, <2>2, <2>3, <2>4, <2>5, <2>6 DEF HistType, E, x, g
  <1>5. CASE ~(Len(a) >= INTEL_PT_PKT_HISTORY)
    <2>1. g = a
      BY <1>3, <1>5
    <2>2. Len(g) = Len(h) + 1 - 0 /\ Len(g) \in Nat /\ Len(g) >= 1 /\ g[Len(g)] = x
      BY <1>1, <1>2, <2>1
    <2>3. \A m \in 1 .. Len(h) - 0 : g[m] = h[m + 0]
      BY <1>1, <1>2, <2>1
    <2> QED BY <1>1, <1>2, <2>1, <2>2, <2>3 DEF HistType, E, x, g
  <1> QED BY <1>4, <1>5

\* What hides an entry goes on hiding it.
LEMMA HidesOn ==
  ASSUME NEW h \in HistType, NEW type \in HistTypes, NEW ip \in Nat,
         NEW what, what # type, NEW skip, Hides(h, what, skip)
  PROVE  Hides(Recorded(h, type, ip), what, skip)
  <1> DEFINE g == Recorded(h, type, ip)
  <1>1. CASE type = "TIP_PGD"
    BY <1>1 DEF Recorded, Hides
  <1>2. CASE type # "TIP_PGD"
    <2>1. g \in HistType /\ Len(g) \in Nat /\ Len(h) \in Nat /\ g[Len(g)] = [type |-> type, ip |-> ip]
      BY <1>2, RecordShifts
    <2>2. PICK s \in {0, 1} : Len(g) = Len(h) + 1 - s /\ \A m \in 1 .. Len(h) - s : g[m] = h[m + s]
      BY <1>2, RecordShifts
    <2> HIDE DEF g
    <2>3. DOMAIN g = 1 .. Len(g) /\ DOMAIN h = 1 .. Len(h)
      BY <2>1 DEF HistType
    <2> SUFFICES ASSUME NEW k \in 1 .. Len(g), g[k].type = what
                 PROVE  \E j \in 1 .. Len(g) : k < j /\ g[j].type \notin skip
      BY <2>3 DEF Hides, g
    <2>4. k # Len(g)
      BY <2>1
    <2>5. k + s \in 1 .. Len(h) /\ g[k] = h[k + s]
      BY <2>1, <2>2, <2>4
    <2>6. PICK i \in 1 .. Len(h) : k + s < i /\ h[i].type \notin skip
      BY <2>3, <2>5 DEF Hides
    <2>7. i - s \in 1 .. Len(g) /\ k < i - s /\ i - s \in 1 .. Len(h) - s /\ i = (i - s) + s
      BY <2>1, <2>2, <2>6
    <2>8. g[i - s] = h[i]
      BY <2>2, <2>7
    <2> QED BY <2>6, <2>7, <2>8
  <1> QED BY <1>1, <1>2

\* The last entry hides every other one, unless it is skipped.
LEMMA LastHides ==
  ASSUME NEW h \in HistType, Len(h) >= 1, NEW what, NEW skip,
         h[Len(h)].type \notin skip, h[Len(h)].type # what
  PROVE  Hides(h, what, skip)
  <1>1. DOMAIN h = 1 .. Len(h) /\ Len(h) \in Nat
    BY DEF HistType
  <1> QED BY <1>1 DEF Hides

\* So a history that ends so is quiet, and one that is stays so.
LEMMA QuietLast ==
  ASSUME NEW h \in HistType, Len(h) >= 1,
         h[Len(h)].type \notin AsyncSkip \cup OvfSkip \cup {"FUP", "OVF"}
  PROVE  Quiet(h)
  BY LastHides DEF Quiet

\* A quiet history stays so when what is recorded needs nothing else.
LEMMA QuietOn ==
  ASSUME NEW h \in HistType, NEW type \in HistTypes \ {"FUP", "OVF"}, NEW ip \in Nat, Quiet(h)
  PROVE  Quiet(Recorded(h, type, ip))
  BY HidesOn DEF Quiet

\* A scan does not find what is hidden.
LEMMA ScanMisses ==
  ASSUME NEW h \in HistType, NEW type \in HistTypes, type # "TIP_PGD", NEW ip \in Nat,
         NEW what, NEW skip, Hides(h, what, skip)
  PROVE  LET g == Recorded(h, type, ip)
             k == LastOutside(g, skip)
         IN  k # 0 => g[k].type # what
  <1> DEFINE g == Recorded(h, type, ip)
             k == LastOutside(g, skip)
  <1>1. g \in HistType /\ Len(g) \in Nat /\ Len(h) \in Nat
    BY RecordShifts
  <1>2. PICK s \in {0, 1} : Len(g) = Len(h) + 1 - s /\ \A m \in 1 .. Len(h) - s : g[m] = h[m + s]
    BY RecordShifts
  <1> SUFFICES ASSUME k # 0, g[k].type = what PROVE FALSE
    OBVIOUS
  <1>3. k \in 1 .. Len(g) - 1 /\ \A m \in k + 1 .. Len(g) - 1 : g[m].type \in skip
    <2> HIDE DEF g
    <2> QED BY <1>1, ScanFinds
  <1> HIDE DEF g, k
  <1>4. DOMAIN h = 1 .. Len(h)
    BY DEF HistType
  <1>5. k + s \in 1 .. Len(h) /\ g[k] = h[k + s]
    BY <1>1, <1>2, <1>3
  <1>6. PICK i \in 1 .. Len(h) : k + s < i /\ h[i].type \notin skip
    BY <1>4, <1>5 DEF Hides
  <1>7. i - s \in k + 1 .. Len(g) - 1 /\ i - s \in 1 .. Len(h) - s /\ i = (i - s) + s
    BY <1>1, <1>2, <1>3, <1>6
  <1>8. g[i - s] = h[i]
    BY <1>2, <1>7
  <1> QED BY <1>3, <1>6, <1>7, <1>8

\* What a scan finds is what it finds.
LEMMA ScanIs ==
  ASSUME NEW h \in HistType, NEW skip, NEW k \in 1 .. Len(h) - 1, h[k].type \notin skip,
         \A m \in k + 1 .. Len(h) - 1 : h[m].type \in skip
  PROVE  LastOutside(h, skip) = k
  <1> DEFINE S == {m \in 1 .. Len(h) - 1 : h[m].type \notin skip}
  <1>1. Len(h) \in Nat
    BY DEF HistType
  <1>2. k \in S /\ \A m \in S : m <= k
    BY <1>1
  <1>3. \A m \in S : (\A j \in S : j <= m) => m = k
    BY <1>1, <1>2
  <1>4. LastOutside(h, skip) = CHOOSE m \in S : \A j \in S : j <= m
    BY <1>2 DEF LastOutside
  <1> HIDE DEF S
  <1>5. (CHOOSE m \in S : \A j \in S : j <= m) = k
    BY <1>2, <1>3
  <1> QED BY <1>4, <1>5

\* The entry before the last one is the first a scan sees.
LEMMA ScanFirst ==
  ASSUME NEW h \in HistType, Len(h) >= 1, NEW type \in HistTypes, type # "TIP_PGD", NEW ip \in Nat,
         NEW skip, h[Len(h)].type \notin skip
  PROVE  LET g == Recorded(h, type, ip)
             k == LastOutside(g, skip)
         IN  k # 0 /\ k \in 1 .. Len(g) - 1 /\ g[k] = h[Len(h)]
  <1> DEFINE g == Recorded(h, type, ip)
             k == LastOutside(g, skip)
  <1>1. g \in HistType /\ Len(g) \in Nat /\ Len(h) \in Nat
    BY RecordShifts
  <1>2. PICK s \in {0, 1} : /\ Len(g) = Len(h) + 1 - s
                            /\ \A m \in 1 .. Len(h) - s : g[m] = h[m + s]
                            /\ s = 1 => Len(h) + 1 >= INTEL_PT_PKT_HISTORY
    BY RecordShifts
  <1> HIDE DEF g
  <1>3. INTEL_PT_PKT_HISTORY \in Nat /\ INTEL_PT_PKT_HISTORY >= 3
    BY PacketsAssumption, FillersAssumption
  <1>4. Len(g) - 1 \in 1 .. Len(g) - 1 /\ Len(g) - 1 \in 1 .. Len(h) - s /\ (Len(g) - 1) + s = Len(h)
    BY <1>1, <1>2, <1>3
  <1>5. g[Len(g) - 1] = h[Len(h)]
    BY <1>2, <1>4
  <1>6. \A m \in (Len(g) - 1) + 1 .. Len(g) - 1 : g[m].type \in skip
    BY <1>1
  <1>7. k = Len(g) - 1
    BY <1>1, <1>4, <1>5, <1>6, ScanIs
  <1> HIDE DEF k
  <1>8. k # 0 /\ k \in 1 .. Len(g) - 1 /\ g[k] = h[Len(h)]
    BY <1>1, <1>4, <1>5, <1>7
  <1> QED BY <1>8 DEF g, k

\* The FUP of an interrupt has been recorded.
LEMMA FupRecorded ==
  ASSUME NEW h \in HistType, NEW src \in Nat, NEW n \in Nat, n + 3 <= INTEL_PT_PKT_HISTORY
  PROVE  HasFup(Recorded(h, "FUP", src), src, n)
  <1> DEFINE g == Recorded(h, "FUP", src)
  <1>1. "FUP" \in HistTypes /\ "FUP" # "TIP_PGD"
    BY TypesInHistory
  <1>2. g \in HistType /\ Len(g) \in Nat /\ Len(g) >= 1 /\ g[Len(g)] = [type |-> "FUP", ip |-> src]
    BY <1>1, RecordShifts
  <1> HIDE DEF g
  <1>3. DOMAIN g = 1 .. Len(g)
    BY <1>2 DEF HistType
  <1>4. (Len(g) - Len(g)) + n + 3 <= INTEL_PT_PKT_HISTORY
    BY <1>2
  <1>5. Len(g) \in DOMAIN g /\ \A j \in Len(g) + 1 .. Len(g) : g[j].type \in AsyncSkip
    BY <1>2, <1>3
  <1> QED BY <1>2, <1>4, <1>5 DEF HasFup, g

\* What the scan for a FUP skips is recorded.
LEMMA AsyncTypes ==
  ASSUME NEW type \in AsyncSkip
  PROVE  /\ type \in PktTypes /\ type \in HistTypes
         /\ type \notin {"TIP_PGD", "FUP", "OVF", "TIP", "TIP_PGE", "SHORT_TNT", "BEP", "PTW"}
  <1>1. type \in TimingTypes \/ type \in {"VMCS", "PIP", "MODE_EXEC"}
    BY DEF AsyncSkip
  <1>2. type \in PktTypes
    BY <1>1 DEF PktTypes, RecordTypes, TimingTypes
  <1>3. type \in HistTypes
    BY <1>2, TypesInHistory
  <1>4. type \notin {"TIP_PGD", "FUP", "OVF", "TIP", "TIP_PGE", "SHORT_TNT", "BEP", "PTW"}
    BY <1>1 DEF TimingTypes
  <1> QED BY <1>2, <1>3, <1>4

\* It stays where it is seen, whatever can come before the TIP.
LEMMA FupStays ==
  ASSUME NEW h \in HistType, NEW src, NEW n \in Nat, HasFup(h, src, n + 1),
         NEW type \in AsyncSkip, NEW ip \in Nat
  PROVE  HasFup(Recorded(h, type, ip), src, n)
  <1> DEFINE g == Recorded(h, type, ip)
  <1>1. type \in HistTypes /\ type # "TIP_PGD"
    BY AsyncTypes
  <1>10. g \in HistType /\ Len(g) \in Nat /\ Len(h) \in Nat /\ g[Len(g)] = [type |-> type, ip |-> ip]
    BY <1>1, RecordShifts
  <1>2. g \in HistType /\ Len(g) \in Nat /\ Len(h) \in Nat /\ g[Len(g)].type = type
    BY <1>10
  <1>3. PICK s \in {0, 1} : /\ Len(g) = Len(h) + 1 - s
                            /\ \A m \in 1 .. Len(h) - s : g[m] = h[m + s]
                            /\ s = 1 => Len(h) + 1 >= INTEL_PT_PKT_HISTORY
    BY <1>1, RecordShifts
  <1> HIDE DEF g
  <1>4. DOMAIN g = 1 .. Len(g) /\ DOMAIN h = 1 .. Len(h)
    BY <1>2 DEF HistType
  <1>5. PICK k \in 1 .. Len(h) : /\ h[k] = [type |-> "FUP", ip |-> src]
                                 /\ \A j \in k + 1 .. Len(h) : h[j].type \in AsyncSkip
                                 /\ (Len(h) - k) + (n + 1) + 3 <= INTEL_PT_PKT_HISTORY
    BY <1>4 DEF HasFup
  <1>6. INTEL_PT_PKT_HISTORY \in Nat
    BY PacketsAssumption
  <1>7. /\ k - s \in 1 .. Len(g) /\ k - s \in 1 .. Len(h) - s /\ (k - s) + s = k
        /\ (Len(g) - (k - s)) + n + 3 <= INTEL_PT_PKT_HISTORY
    BY <1>2, <1>3, <1>5, <1>6
  <1>8. g[k - s] = h[k]
    BY <1>3, <1>7
  <1>9. \A j \in (k - s) + 1 .. Len(g) : g[j].type \in AsyncSkip
    <2> SUFFICES ASSUME NEW j \in (k - s) + 1 .. Len(g), j # Len(g) PROVE g[j].type \in AsyncSkip
      BY <1>2
    <2>1. j + s \in k + 1 .. Len(h) /\ j \in 1 .. Len(h) - s
      BY <1>2, <1>3, <1>5
    <2> QED BY <1>3, <1>5, <2>1
  <1> QED BY <1>4, <1>5, <1>7, <1>8, <1>9 DEF HasFup, g

\* The TIP finds it.
LEMMA FupFound ==
  ASSUME NEW h \in HistType, NEW src, HasFup(h, src, 0), NEW ip \in Nat
  PROVE  LET g == Recorded(h, "TIP", ip)
             k == FupOf(g)
         IN  k # 0 /\ k \in 1 .. Len(g) - 1 /\ g[k].ip = src
  <1> DEFINE g == Recorded(h, "TIP", ip)
  <1>1. "TIP" \in HistTypes /\ "TIP" # "TIP_PGD" /\ "FUP" \notin AsyncSkip
    BY TypesInHistory DEF AsyncSkip, TimingTypes
  <1>2. g \in HistType /\ Len(g) \in Nat /\ Len(h) \in Nat
    BY <1>1, RecordShifts
  <1>3. PICK s \in {0, 1} : /\ Len(g) = Len(h) + 1 - s
                            /\ \A m \in 1 .. Len(h) - s : g[m] = h[m + s]
                            /\ s = 1 => Len(h) + 1 >= INTEL_PT_PKT_HISTORY
    BY <1>1, RecordShifts
  <1> HIDE DEF g
  <1>4. DOMAIN h = 1 .. Len(h)
    BY <1>2 DEF HistType
  <1>5. PICK k \in 1 .. Len(h) : /\ h[k] = [type |-> "FUP", ip |-> src]
                                 /\ \A j \in k + 1 .. Len(h) : h[j].type \in AsyncSkip
                                 /\ (Len(h) - k) + 0 + 3 <= INTEL_PT_PKT_HISTORY
    BY <1>4 DEF HasFup
  <1>6. INTEL_PT_PKT_HISTORY \in Nat
    BY PacketsAssumption
  <1>7. k - s \in 1 .. Len(g) - 1 /\ k - s \in 1 .. Len(h) - s /\ (k - s) + s = k /\ k - s # 0
    BY <1>2, <1>3, <1>5, <1>6
  <1>8. g[k - s] = h[k]
    BY <1>3, <1>7
  <1>9. \A j \in (k - s) + 1 .. Len(g) - 1 : g[j].type \in AsyncSkip
    <2> SUFFICES ASSUME NEW j \in (k - s) + 1 .. Len(g) - 1 PROVE g[j].type \in AsyncSkip
      OBVIOUS
    <2>1. j + s \in k + 1 .. Len(h) /\ j \in 1 .. Len(h) - s
      BY <1>2, <1>3, <1>5
    <2> QED BY <1>3, <1>5, <2>1
  <1>10. g[k - s].type = "FUP" /\ g[k - s].ip = src
    BY <1>5, <1>8
  <1>11. LastOutside(g, AsyncSkip) = k - s
    BY <1>1, <1>2, <1>7, <1>9, <1>10, ScanIs
  <1> QED BY <1>7, <1>10, <1>11 DEF FupOf, g

\* A pair leaves nothing that waits.
LEMMA PairQuiet ==
  ASSUME NEW h \in HistType, NEW k \in 1 .. Len(h) - 1, NEW old \in HistTypes, NEW new \in HistTypes,
         new \notin AsyncSkip \cup OvfSkip \cup {"FUP", "OVF"}
  PROVE  Quiet(Paired(h, k, old, new)) /\ Paired(h, k, old, new) \in HistType
  <1> DEFINE g == Paired(h, k, old, new)
  <1>1. Len(h) \in Nat /\ Len(h) >= 1
    BY DEF HistType
  <1>2. /\ DOMAIN g = DOMAIN h /\ Len(g) = Len(h)
        /\ g[k] = [type |-> old, ip |-> h[k].ip] /\ g[Len(h)].type = new
    BY PairedEntries
  <1>3. g \in HistType /\ Len(g) = Len(h)
    BY <1>1, PairedInHistory
  <1> HIDE DEF g
  <1>4. Quiet(g)
    BY <1>1, <1>2, <1>3, QuietLast
  <1> QED BY <1>3, <1>4 DEF g

-----------------------------------------------------------------------------
(* Sequences of packets.                                                   *)

\* A sequence in front of another one.
LEMMA CatParts ==
  ASSUME NEW S, NEW u \in Seq(S), u # << >>, NEW v \in Seq(S)
  PROVE  /\ u \o v \in Seq(S) /\ u \o v # << >>
         /\ Head(u \o v) = Head(u) /\ Tail(u \o v) = Tail(u) \o v
  <1>1. /\ Len(u) \in Nat /\ Len(u) >= 1 /\ Len(v) \in Nat
        /\ u \o v \in Seq(S) /\ Len(u \o v) = Len(u) + Len(v)
        /\ \A i \in 1 .. Len(u) + Len(v) : (u \o v)[i] = IF i <= Len(u) THEN u[i] ELSE v[i - Len(u)]
    BY ConcatProperties, EmptySeq
  <1>2. u \o v # << >>
    BY <1>1
  <1>3. /\ Tail(u) \in Seq(S) /\ Len(Tail(u)) = Len(u) - 1
        /\ \A i \in 1 .. Len(u) - 1 : Tail(u)[i] = u[i + 1]
    BY <1>1, HeadTailProperties
  <1>4. /\ Tail(u \o v) \in Seq(S) /\ Len(Tail(u \o v)) = (Len(u) + Len(v)) - 1
        /\ \A i \in 1 .. (Len(u) + Len(v)) - 1 : Tail(u \o v)[i] = (u \o v)[i + 1]
    BY <1>1, <1>2, HeadTailProperties
  <1>5. /\ Tail(u) \o v \in Seq(S) /\ Len(Tail(u) \o v) = (Len(u) - 1) + Len(v)
        /\ \A i \in 1 .. (Len(u) - 1) + Len(v) :
             (Tail(u) \o v)[i] = IF i <= Len(u) - 1 THEN Tail(u)[i] ELSE v[i - (Len(u) - 1)]
    BY <1>3, ConcatProperties
  <1>6. \A i \in 1 .. (Len(u) + Len(v)) - 1 : Tail(u \o v)[i] = (Tail(u) \o v)[i]
    <2> SUFFICES ASSUME NEW i \in 1 .. (Len(u) + Len(v)) - 1
                 PROVE  Tail(u \o v)[i] = (Tail(u) \o v)[i]
      OBVIOUS
    <2>1. Tail(u \o v)[i] = IF i + 1 <= Len(u) THEN u[i + 1] ELSE v[(i + 1) - Len(u)]
      BY <1>1, <1>4
    <2>2. (Tail(u) \o v)[i] = IF i <= Len(u) - 1 THEN u[i + 1] ELSE v[i - (Len(u) - 1)]
      BY <1>1, <1>3, <1>5
    <2>3. (i + 1) - Len(u) = i - (Len(u) - 1) /\ (i + 1 <= Len(u) <=> i <= Len(u) - 1)
      BY <1>1
    <2> QED BY <2>1, <2>2, <2>3
  <1>7. Tail(u \o v) = Tail(u) \o v
    <2>1. Len(Tail(u \o v)) = Len(Tail(u) \o v)
      BY <1>1, <1>4, <1>5
    <2>2. \A i \in 1 .. Len(Tail(u \o v)) : Tail(u \o v)[i] = (Tail(u) \o v)[i]
      BY <1>4, <1>6
    <2> QED BY <1>4, <1>5, <2>1, <2>2, SeqEqual
  <1>8. Head(u \o v) = Head(u)
    <2>1. Head(u \o v) = (u \o v)[1] /\ Head(u) = u[1]
      OBVIOUS
    <2>2. (u \o v)[1] = u[1]
      BY <1>1
    <2> QED BY <2>1, <2>2
  <1> QED BY <1>1, <1>2, <1>7, <1>8

\* One packet in front of others.
LEMMA ConsParts ==
  ASSUME NEW S, NEW p \in S, NEW v \in Seq(S)
  PROVE  /\ << p >> \o v \in Seq(S) /\ << p >> \o v # << >>
         /\ Head(<< p >> \o v) = p /\ Tail(<< p >> \o v) = v
  <1>1. << p >> \in Seq(S) /\ << p >> # << >> /\ Head(<< p >>) = p /\ Tail(<< p >>) = << >>
    OBVIOUS
  <1>2. << >> \o v = v
    BY ConcatEmptySeq
  <1> QED BY <1>1, <1>2, CatParts

-----------------------------------------------------------------------------
(* The invariant: the packets to come.                                     *)

AnyPkt == [type: PktTypes, val: Nat, tnt: Seq(BOOLEAN)]

\* Packets that leave the contexts of the decoder alone.
PlainTypes == RecordTypes \cup {"PSB", "PSBEND", "TSC_MTC", "PIP"}
Plains(types) == {p \in AnyPkt : p.type \in types /\ (p.type = "PIP" => p.val \in Pgds)}

TipTo(addr)   == << Pkt("TIP", addr, << >>) >>
SyncEnd(addr) == << Pkt("FUP", addr, << >>), Plain("PSBEND") >>

\* Status packets, and the end of a PSB+.
Trailing(w, addr) == \E u \in Seq(Plains(PlainTypes)) : w = u \/ w = u \o SyncEnd(addr)

\* The packets of an interrupt.
IrqWire(w, src, addr) ==
  \E f : /\ f \in Seq(Plains(AsyncSkip)) /\ Len(f) + 3 <= INTEL_PT_PKT_HISTORY
         /\ w = << Pkt("FUP", src, << >>) >> \o (f \o TipTo(addr))

\* p is what q is when it has just been interrupted.
Interrupts(q, p) ==
  /\ q \in Views /\ p.one = q.one
  /\ Len(q.frames) >= 1 /\ p.frames = Append(q.frames, Frame(q.pc, TRUE))

\* The packets of a processor that has come to p and traces or does not, for a
\* decoder that is on its way to G and knows of the interrupts of q.
Comes(w, G, q, p, on) ==
  \/ on /\ G = Heading(p) /\ q = p /\ Trailing(w, p.pc)
  \/ /\ on /\ w = TipTo(p.pc)
     /\ \E exit \in BOOLEAN : (exit => p.one) /\ G = Turns(p, exit) /\ q = Before(p, exit)
  \/ on /\ Interrupts(q, p) /\ G = Heading(q) /\ IrqWire(w, q.pc, p.pc)
  \/ ~on /\ G = Heading(p) /\ q = p /\ w = << Pkt("TIP_PGD", NoAddr, << >>) >>

\* The packets that are written are packets.
LEMMA PktIs ==
  ASSUME NEW type \in PktTypes, NEW val \in Nat, NEW tnt \in Seq(BOOLEAN)
  PROVE  /\ Pkt(type, val, tnt) \in AnyPkt /\ Pkt(type, val, tnt).type = type
         /\ Pkt(type, val, tnt).val = val /\ Pkt(type, val, tnt).tnt = tnt
         /\ type # "PIP" => IsPacket(Pkt(type, val, tnt))
  BY DEF Pkt, AnyPkt, IsPacket

\* So are those that leave the contexts alone.
LEMMA PlainIs ==
  ASSUME NEW types, types \subseteq PktTypes, NEW p \in Plains(types)
  PROVE  p \in AnyPkt /\ IsPacket(p) /\ p.type \in types
  BY DEF Plains, AnyPkt, IsPacket

\* What the scan for a FUP skips is among them.
LEMMA PlainSets ==
  /\ PlainTypes \subseteq PktTypes /\ AsyncSkip \subseteq PlainTypes
  /\ PlainTypes \cap {"FUP", "OVF", "TIP", "TIP_PGE", "TIP_PGD", "SHORT_TNT", "BEP", "PTW"} = {}
  /\ Plains(AsyncSkip) \subseteq Plains(PlainTypes) /\ Plains(PlainTypes) \subseteq AnyPkt
  <1>1. AsyncSkip \subseteq PlainTypes
    BY DEF AsyncSkip, PlainTypes, RecordTypes, TimingTypes
  <1>2. PlainTypes \subseteq PktTypes
    BY DEF PlainTypes, PktTypes
  <1>3. PlainTypes \cap {"FUP", "OVF", "TIP", "TIP_PGE", "TIP_PGD", "SHORT_TNT", "BEP", "PTW"} = {}
    BY DEF PlainTypes, RecordTypes, TimingTypes
  <1>4. Plains(AsyncSkip) \subseteq Plains(PlainTypes) /\ Plains(PlainTypes) \subseteq AnyPkt
    BY <1>1 DEF Plains
  <1> QED BY <1>1, <1>2, <1>3, <1>4

-----------------------------------------------------------------------------
(* One packet.                                                             *)

\* Each kind has one handler.
LEMMA Handlers ==
  ASSUME NEW p, intel_pt_decode_online(p)
  PROVE  /\ Ok(xed) /\ ~xed.walking
         /\ p.type = "FUP" => Fup(p)
         /\ p.type = "TIP" => Tip(p)
         /\ p.type = "TIP_PGE" => TipPge(p)
         /\ p.type = "TIP_PGD" => TipPgd(p)
         /\ p.type = "SHORT_TNT" => ShortTnt(p)
         /\ p.type = "OVF" => Ovf(p)
         /\ p.type \in PlainTypes => Record(p) \/ Psb(p) \/ PsbEnd(p) \/ TscMtc(p) \/ Pip(p)
  <1>1. /\ (Fup(p) => p.type = "FUP") /\ (Tip(p) => p.type = "TIP") /\ (TipPge(p) => p.type = "TIP_PGE")
        /\ (TipPgd(p) => p.type = "TIP_PGD") /\ (ShortTnt(p) => p.type = "SHORT_TNT")
        /\ (Psb(p) => p.type = "PSB") /\ (PsbEnd(p) => p.type = "PSBEND") /\ (Ovf(p) => p.type = "OVF")
        /\ (Pip(p) => p.type = "PIP") /\ (TscMtc(p) => p.type = "TSC_MTC") /\ (Bep(p) => p.type = "BEP")
        /\ (Bbp(p) => p.type = "BBP") /\ (Bip(p) => p.type = "BIP") /\ (Ptw(p) => p.type = "PTW") /\ (Record(p) => p.type \in RecordTypes)
        /\ (Unsupported(p) => p.type \in ErrorTypes)
    BY DEF Fup, Tip, TipPge, TipPgd, ShortTnt, Psb, PsbEnd, Ovf, Pip, TscMtc, Bbp, Bip, Bep, Ptw,
           Record, Unsupported
  <1>2. Ok(xed) /\ ~xed.walking
    BY DEF intel_pt_decode_online, Idle
  <1>3. RecordTypes \cap {"FUP", "TIP", "TIP_PGE", "TIP_PGD", "SHORT_TNT", "PSB", "PSBEND", "OVF", "PIP",
                          "TSC_MTC", "BBP", "BIP", "BEP", "PTW"} = {}
    BY DEF RecordTypes, TimingTypes
  <1>4. /\ ErrorTypes \cap RecordTypes = {}
        /\ ErrorTypes \cap {"FUP", "TIP", "TIP_PGE", "TIP_PGD", "SHORT_TNT", "PSB", "PSBEND", "OVF",
                            "PIP", "TSC_MTC", "BBP", "BIP", "BEP", "PTW"} = {}
    BY DEF ErrorTypes, RecordTypes, TimingTypes
  <1>5. \/ Fup(p) \/ TipPge(p) \/ Tip(p) \/ TipPgd(p) \/ ShortTnt(p) \/ Psb(p) \/ PsbEnd(p)
        \/ Ovf(p) \/ Pip(p) \/ TscMtc(p) \/ Bbp(p) \/ Bip(p) \/ Bep(p) \/ Ptw(p) \/ Record(p)
        \/ Unsupported(p)
    BY DEF intel_pt_decode_online
  <1>6. p.type \in PlainTypes => p.type \in RecordTypes \/ p.type \in {"PSB", "PSBEND", "TSC_MTC", "PIP"}
    BY DEF PlainTypes
  <1> HIDE DEF RecordTypes
  <1> QED BY <1>1, <1>2, <1>3, <1>4, <1>5, <1>6

\* No FUP is announced: none of these packets does.
LEMMA NoneAnnounced ==
  ASSUME NEW p, intel_pt_decode_online(p), p.type \in PktTypes, p.type \notin {"BEP", "PTW"},
         last_bep_fup = 0, last_ptw_fup = 0
  PROVE  last_bep_fup' = 0 /\ last_ptw_fup' = 0
  <1>1. ~Bep(p) /\ ~Ptw(p)
    BY DEF Bep, Ptw
  <1>2. Fup(p) \/ Ovf(p) => last_bep_fup' = 0 /\ last_ptw_fup' = 0
    BY DEF Fup, Ovf
  <1>3. TipPge(p) \/ Tip(p) \/ TipPgd(p) \/ ShortTnt(p) \/ Psb(p) \/ PsbEnd(p) \/ Pip(p) \/ TscMtc(p)
          \/ Bbp(p) \/ Bip(p) \/ Record(p) \/ Unsupported(p)
        => last_bep_fup' = 0 /\ last_ptw_fup' = 0
    BY DEF TipPge, Tip, TipPgd, ShortTnt, Psb, PsbEnd, Pip, TscMtc, Bbp, Bip, Record, Unsupported, ptVars
  <1> QED BY <1>1, <1>2, <1>3 DEF intel_pt_decode_online

\* A packet that leaves the contexts alone.
LEMMA PlainLeaves ==
  ASSUME Inv, NEW p, intel_pt_decode_online(p), p.type \in PlainTypes, Ok(xed')
  PROVE  /\ hist' = Recorded(hist, p.type, Told(p))
         /\ xed'.ctx = xed.ctx /\ xed'.ctx_idx = xed.ctx_idx /\ xed'.walking = xed.walking
  <1>1. Record(p) \/ Psb(p) \/ PsbEnd(p) \/ TscMtc(p) \/ Pip(p)
    BY Handlers
  <1>2. Sound(xed) /\ \A m : m # "none" => ~Ok(Fatal(xed, m))
    BY FatalFails DEF Inv
  <1>3. p.type # "TSC" => Told(p) = NoAddr
    BY DEF Told
  <1>4. CASE Record(p)
    BY <1>4, RecordedHist DEF Record
  <1>5. CASE Psb(p)
    BY <1>3, <1>5, RecordedHist DEF Psb
  <1>6. CASE PsbEnd(p)
    <2>1. ~Ok(Fatal(xed, "PSB error"))
      BY <1>2
    <2> QED BY <1>3, <1>6, <2>1, RecordedHist DEF PsbEnd
  <1>7. CASE TscMtc(p)
    <2>1. ~Ok(Fatal(xed, "tsc_mtc error 1")) /\ ~Ok(Fatal(xed, "tsc_mtc error 0"))
      BY <1>2
    <2>2. hist' = record_intel_pt_pkt("TSC_MTC", NoAddr) /\ xed' = xed /\ p.type = "TSC_MTC"
      BY <1>7, <2>1 DEF TscMtc
    <2> QED BY <1>3, <2>2, RecordedHist
  <1>8. CASE Pip(p)
    BY <1>2, <1>3, <1>8, RecordedHist, PipKeeps DEF Pip
  <1> QED BY <1>1, <1>4, <1>5, <1>6, <1>7, <1>8

\* An entry renamed to what it was.
LEMMA RenameSame ==
  ASSUME NEW h \in HistType, NEW n \in 1 .. Len(h)
  PROVE  [h EXCEPT ![n].type = h[n].type] = h
  <1> DEFINE E == [type: HistTypes, ip: Nat]
  <1>0. h \in Seq(E)
    BY DEF HistType
  <1>1. Len(h) \in Nat /\ h \in [1 .. Len(h) -> E]
    <2> HIDE DEF E
    <2> QED BY <1>0, LenProperties
  <1>2. [h[n] EXCEPT !.type = h[n].type] = h[n]
    <2>1. h[n] \in E
      BY <1>1
    <2> QED BY <2>1
  <1> HIDE DEF E
  <1> QED BY <1>1, <1>2

\* The new history of a FUP that closes nothing, or an OVF, when none was announced.
LEMMA FupDoes ==
  ASSUME Inv, NEW p, Fup(p), p.val \in Nat, p.val # NoAddr, last_bep_fup = 0, last_ptw_fup = 0, Ok(xed')
  PROVE  LET h == Recorded(hist, "FUP", p.val)
             k == OvfOf(h)
         IN  /\ k = 0 => xed' = xed /\ hist' = h
             /\ k # 0 => xed' = StartAt(xed, p.val) /\ hist' = Paired(h, k, "OVF_FUP", "FUP_OVF")
  <1> DEFINE h == Recorded(hist, "FUP", p.val)
             k == OvfOf(h)
             d == CheckIp(xed, "FUP", p.val)
             g == IF Ok(d) /\ k # 0 THEN Paired(h, k, "OVF_FUP", "FUP_OVF") ELSE h
             name == CASE last_ptw_fup = 1 -> "FUP_PTW"
                       [] last_ptw_fup # 1 /\ last_bep_fup = 1 -> "FUP_BEP"
                       [] OTHER -> g[Len(g)].type
  <1>1. /\ xed' = (IF Ok(d) /\ k # 0 THEN StartAt(d, p.val) ELSE d)
        /\ hist' = [g EXCEPT ![Len(g)].type = name]
    BY RecordedHist DEF Fup
  <1>2. name = g[Len(g)].type
    <2> HIDE DEF g
    <2> QED BY DEF name
  <1>3. Sound(xed) /\ hist \in HistType
    BY DEF Inv
  <1>4. {"FUP", "OVF_FUP", "FUP_OVF"} \subseteq HistTypes /\ "FUP" # "TIP_PGD"
    BY TypesInHistory
  <1>5. h \in HistType /\ Len(h) >= 1 /\ Len(h) \in Nat
    BY <1>3, <1>4, RecordShifts
  <1>6. k # 0 => k \in 1 .. Len(h) - 1
    <2> HIDE DEF h
    <2> QED BY <1>5, ScanInHistory DEF OvfOf
  <1>7. g \in HistType /\ Len(g) >= 1 /\ Len(g) \in Nat
    <2> HIDE DEF h, k, d
    <2> QED BY <1>4, <1>5, <1>6, PairedInHistory
  <1> HIDE DEF g, name
  <1>8. [g EXCEPT ![Len(g)].type = name] = g
    BY <1>2, <1>7, RenameSame
  <1>9. Ok(d) => d = xed
    BY <1>3, CheckPasses
  <1>10. Ok(StartAt(d, p.val)) => Ok(d)
    BY DEF StartAt, xed_process_branches, xed_update_last_inst
  <1>11. Ok(d)
    BY <1>1, <1>10
  <1> HIDE DEF h, k, d
  <1> QED BY <1>1, <1>8, <1>9, <1>11 DEF g, h, k, d

-----------------------------------------------------------------------------
(* The invariant: where decoder and processor are, with d for xed, h for    *)
(* hist, w for wire, b for bits, p for the processor, and on and off for   *)
(* traced and lost.                                                        *)

\* The decoder is on its way.
Following(d, h, w, b, p, on, off) ==
  /\ ~off /\ Quiet(h) /\ (w # << >> => b = << >>)
  /\ \E G, q : Comes(w, G, q, p, on) /\ Follows(d, b, G, q)

\* Outcomes are to come first.
Branches(d, h, w, b, p, on, off) ==
  /\ ~off /\ Quiet(h) /\ b = << >> /\ ~d.walking
  /\ \E t \in Seq(BOOLEAN), v \in Seq(AnyPkt) : \E G, q :
       /\ t # << >> /\ w = << Pkt("SHORT_TNT", 0, t) >> \o v
       /\ Comes(v, G, q, p, on) /\ Follows(d, t, G, q)

\* It takes a target.
Taking(d, h, w, b, p, on, off) ==
  /\ w = << >> /\ b = << >> /\ on /\ ~off /\ Quiet(h)
  /\ \E exit \in BOOLEAN : (exit => p.one) /\ Takes(d, p, exit)

\* It has seen the FUP of an interrupt.
Interrupted(d, h, w, b, p, on, off) ==
  /\ b = << >> /\ on /\ ~off /\ ~d.walking /\ Hides(h, "OVF", OvfSkip)
  /\ \E q, f : /\ Interrupts(q, p) /\ f \in Seq(Plains(AsyncSkip)) /\ w = f \o TipTo(p.pc)
              /\ HasFup(h, q.pc, Len(f)) /\ Follows(d, << >>, Heading(q), q)

\* It has seen the FUP of a PSB+.
SyncEnds(d, h, w, b, p, on, off) ==
  /\ b = << >> /\ on /\ ~off /\ ~d.walking /\ Hides(h, "OVF", OvfSkip)
  /\ w = << Plain("PSBEND") >> /\ Follows(d, << >>, Heading(p), p)

\* It has nothing, and knows of the interrupts of p.
Rests(d, p) == Waits(d) /\ Chain(d, p)

\* It is to be restarted, by a TIP_PGE: if ever calls are followed from the start
\* to the end, it is the first one.
Restarting(d, h, w, b, p, on, off) ==
  /\ b = << >> /\ on /\ ~off /\ Rests(d, p) /\ (Exact(p) => this_ctx(d).call_stack = << >>)
  /\ \/ w = << Pkt("TIP_PGE", p.pc, << >>) >>
     \/ \E n \in Pgds : w = << Pkt("PIP", n, << >>), Pkt("TIP_PGE", p.pc, << >>) >>

\* By the FUP behind an OVF.
Overflowing(d, h, w, b, p, on, off) ==
  /\ b = << >> /\ ~off /\ Waits(d)
  /\ w = << Plain("OVF") >> \o (IF on THEN << Pkt("FUP", p.pc, << >>) >> ELSE << >>)

Overflowed(d, h, w, b, p, on, off) ==
  /\ b = << >> /\ on /\ ~off /\ Rests(d, p) /\ this_ctx(d).call_stack = << >>
  /\ w = << Pkt("FUP", p.pc, << >>) >> /\ Len(h) >= 1 /\ h[Len(h)].type = "OVF"

\* It hears nothing.
Hushed(d, h, w, b, p, on, off) ==
  w = << >> /\ b = << >> /\ (~on \/ off) /\ Waits(d) /\ (~off => Chain(d, p))

Phase(d, h, w, b, p, on, off) ==
  \/ Following(d, h, w, b, p, on, off)
  \/ Branches(d, h, w, b, p, on, off)
  \/ Taking(d, h, w, b, p, on, off)
  \/ Interrupted(d, h, w, b, p, on, off)
  \/ SyncEnds(d, h, w, b, p, on, off)
  \/ Restarting(d, h, w, b, p, on, off)
  \/ Overflowing(d, h, w, b, p, on, off)
  \/ Overflowed(d, h, w, b, p, on, off)
  \/ Hushed(d, h, w, b, p, on, off)


\* A decoder on its way with nothing more to come.
LEMMA OnItsWay ==
  ASSUME NEW d, NEW h, Quiet(h), NEW p, Follows(d, << >>, Heading(p), p)
  PROVE  Following(d, h, << >>, << >>, p, TRUE, FALSE)
  <1>1. << >> \in Seq(Plains(PlainTypes))
    OBVIOUS
  <1>2. Comes(<< >>, Heading(p), p, p, TRUE)
    BY <1>1 DEF Comes, Trailing
  <1> QED BY <1>2 DEF Following

\* Any packet that leaves the contexts alone.
LEMMA PlainSteps ==
  ASSUME Inv, NEW p \in Plains(PlainTypes), intel_pt_decode_online(p), Ok(xed')
  PROVE  /\ \A q : Chain(xed, q) => Chain(xed', q)
         /\ Waits(xed) => Waits(xed')
         /\ this_ctx(xed') = this_ctx(xed)
         /\ \A more, G, q : Follows(xed, more, G, q) => Follows(xed', more, G, q)
         /\ ~xed'.walking /\ hist' = Recorded(hist, p.type, Told(p)) /\ Told(p) \in Nat
         /\ \A what : what \notin PlainTypes => \A skip : Hides(hist, what, skip) => Hides(hist', what, skip)
  <1>1. /\ p.type \in PlainTypes /\ p.type \in HistTypes /\ Told(p) \in Nat
    <2>1. p.type \in PlainTypes /\ p.type \in HistTypes
      BY PlainIs, PlainSets, TypesInHistory
    <2>2. p.val \in Nat
      BY DEF Plains, AnyPkt
    <2> QED BY <2>1, <2>2 DEF Told, NoAddr
  <1>2. /\ hist' = Recorded(hist, p.type, Told(p))
        /\ xed'.ctx = xed.ctx /\ xed'.ctx_idx = xed.ctx_idx /\ xed'.walking = xed.walking
    BY <1>1, PlainLeaves
  <1>3. /\ \A q : Chain(xed, q) => Chain(xed', q)
        /\ Waits(xed) => Waits(xed')
        /\ this_ctx(xed') = this_ctx(xed)
        /\ \A more, G, q : Follows(xed, more, G, q) => Follows(xed', more, G, q)
    BY <1>2, SameCtxs
  <1>4. ~xed'.walking
    BY <1>2, Handlers
  <1>5. hist \in HistType
    BY DEF Inv
  <1>6. \A what : what \notin PlainTypes => \A skip : Hides(hist, what, skip) => Hides(hist', what, skip)
    BY <1>1, <1>2, <1>5, HidesOn
  <1> QED BY <1>1, <1>2, <1>3, <1>4, <1>6

\* The TIP_PGE that restarts the decoder.
LEMMA PgeSteps ==
  ASSUME Inv, NEW p \in Views, intel_pt_decode_online(Pkt("TIP_PGE", p.pc, << >>)), Ok(xed'),
         Rests(xed, p), Exact(p) => this_ctx(xed).call_stack = << >>, p.one => p.pc \in Sites
  PROVE  Following(xed', hist', << >>, << >>, p, TRUE, FALSE)
  <1> DEFINE addr == p.pc
             h == Recorded(hist, "TIP_PGE", NoAddr)
             d == CheckIp(xed, "TIP_PGE", addr)
             k == OvfOf(h)
  <1>1. TipPge(Pkt("TIP_PGE", addr, << >>)) /\ Pkt("TIP_PGE", addr, << >>).val = addr
    BY Handlers DEF Pkt
  <1>2. /\ xed' = StartAt(d, addr)
        /\ hist' = IF Ok(d) /\ k # 0 THEN Paired(h, k, "OVF_TIP_PGE", "TIP_PGE_OVF") ELSE h
    BY <1>1, RecordedHist DEF TipPge
  <1>3. Sound(xed) /\ hist \in HistType /\ ~xed.walking
    BY Handlers DEF Inv
  <1>4. {"TIP_PGE", "OVF_TIP_PGE", "TIP_PGE_OVF"} \subseteq HistTypes /\ NoAddr \in Nat
    BY TypesInHistory DEF NoAddr
  <1>5. /\ h \in HistType /\ Len(h) >= 1 /\ Len(h) \in Nat
        /\ h[Len(h)] = [type |-> "TIP_PGE", ip |-> NoAddr]
    BY <1>3, <1>4, RecordShifts
  <1>6. Ok(d) /\ Sound(d)
    <2>1. Sound(d)
      BY <1>3, SoundCheckIp
    <2>2. Ok(StartAt(d, addr)) => Ok(d)
      BY DEF StartAt, xed_process_branches, xed_update_last_inst
    <2> QED BY <1>2, <2>1, <2>2
  <1>7. d = xed
    BY <1>3, <1>6, CheckPasses
  <1> HIDE DEF d
  <1>8. Empty(this_ctx(xed)) /\ Chain(xed, p)
    BY DEF Rests, Waits
  <1>9. Follows(xed', << >>, Heading(p), p)
    BY <1>2, <1>3, <1>7, <1>8, StartFollows
  <1>10. Quiet(hist')
    <2>1. CASE k = 0
      <3>1. hist' = h
        BY <1>2, <2>1
      <3>2. h[Len(h)].type = "TIP_PGE"
        BY <1>5
      <3>3. "TIP_PGE" \notin AsyncSkip \cup OvfSkip \cup {"FUP", "OVF"}
        BY DEF AsyncSkip, OvfSkip, TimingTypes
      <3> HIDE DEF h
      <3> QED BY <1>5, <3>1, <3>2, <3>3, QuietLast
    <2>2. CASE k # 0
      <3> HIDE DEF h
      <3>1. k \in 1 .. Len(h) - 1
        BY <1>5, <2>2, ScanInHistory DEF OvfOf
      <3>2. "TIP_PGE_OVF" \notin AsyncSkip \cup OvfSkip \cup {"FUP", "OVF"}
        BY DEF AsyncSkip, OvfSkip, TimingTypes
      <3>3. hist' = Paired(h, k, "OVF_TIP_PGE", "TIP_PGE_OVF")
        BY <1>2, <1>6, <2>2
      <3> HIDE DEF k
      <3> QED BY <1>4, <1>5, <3>1, <3>2, <3>3, PairQuiet
    <2> QED BY <2>1, <2>2
  <1> QED BY <1>9, <1>10, OnItsWay

\* A FUP that belongs to no overflow leaves the decoder as it is.
LEMMA FupSteps ==
  ASSUME Inv, last_bep_fup = 0, last_ptw_fup = 0, NEW src \in Spots,
         intel_pt_decode_online(Pkt("FUP", src, << >>)), Ok(xed'), Hides(hist, "OVF", OvfSkip)
  PROVE  /\ xed' = xed /\ hist' = Recorded(hist, "FUP", src) /\ ~xed.walking
         /\ Hides(hist', "OVF", OvfSkip)
  <1> DEFINE h == Recorded(hist, "FUP", src)
  <1>1. Fup(Pkt("FUP", src, << >>)) /\ Pkt("FUP", src, << >>).val = src /\ ~xed.walking
    BY Handlers DEF Pkt
  <1>2. src \in Nat /\ src # NoAddr
    BY SpotNat
  <1>3. hist \in HistType /\ "FUP" \in HistTypes /\ "FUP" # "TIP_PGD" /\ "FUP" # "OVF"
    BY TypesInHistory DEF Inv
  <1>4. OvfOf(h) = 0
    <2>1. LastOutside(h, OvfSkip) # 0 => h[LastOutside(h, OvfSkip)].type # "OVF"
      BY <1>2, <1>3, ScanMisses
    <2> HIDE DEF h
    <2> QED BY <2>1 DEF OvfOf, OvfSkip
  <1>5. xed' = xed /\ hist' = h
    BY <1>1, <1>2, <1>4, FupDoes
  <1>6. Hides(h, "OVF", OvfSkip)
    BY <1>2, <1>3, HidesOn
  <1> QED BY <1>1, <1>5, <1>6

\* The FUP behind an OVF restarts it.
LEMMA ClosingSteps ==
  ASSUME Inv, last_bep_fup = 0, last_ptw_fup = 0, NEW p \in Views, p.one => p.pc \in Sites,
         intel_pt_decode_online(Pkt("FUP", p.pc, << >>)), Ok(xed'), Rests(xed, p),
         this_ctx(xed).call_stack = << >>, Len(hist) >= 1, hist[Len(hist)].type = "OVF"
  PROVE  Following(xed', hist', << >>, << >>, p, TRUE, FALSE)
  <1> DEFINE addr == p.pc
             h == Recorded(hist, "FUP", addr)
             k == OvfOf(h)
  <1>1. Fup(Pkt("FUP", addr, << >>)) /\ Pkt("FUP", addr, << >>).val = addr /\ ~xed.walking
    BY Handlers DEF Pkt
  <1>2. addr \in Nat /\ addr # NoAddr
    BY SpotNat DEF Views
  <1>3. /\ hist \in HistType /\ {"FUP", "OVF_FUP", "FUP_OVF"} \subseteq HistTypes /\ "FUP" # "TIP_PGD"
        /\ Sound(xed)
    BY TypesInHistory DEF Inv
  <1>4. h \in HistType
    BY <1>2, <1>3, RecordShifts
  <1>5. "OVF" \notin OvfSkip
    BY DEF OvfSkip, TimingTypes
  <1>6. /\ LastOutside(h, OvfSkip) # 0 /\ LastOutside(h, OvfSkip) \in 1 .. Len(h) - 1
        /\ h[LastOutside(h, OvfSkip)] = hist[Len(hist)]
    BY <1>2, <1>3, <1>5, ScanFirst
  <1> HIDE DEF h
  <1>7. k # 0 /\ k \in 1 .. Len(h) - 1
    BY <1>6 DEF OvfOf, OvfSkip
  <1>8. xed' = StartAt(xed, addr) /\ hist' = Paired(h, k, "OVF_FUP", "FUP_OVF")
    BY <1>1, <1>2, <1>7, FupDoes DEF h
  <1> HIDE DEF k
  <1>9. Empty(this_ctx(xed)) /\ Chain(xed, p)
    BY DEF Rests, Waits
  <1>10. Follows(xed', << >>, Heading(p), p)
    BY <1>1, <1>3, <1>8, <1>9, StartFollows
  <1>11. "FUP_OVF" \notin AsyncSkip \cup OvfSkip \cup {"FUP", "OVF"}
    BY DEF AsyncSkip, OvfSkip, TimingTypes
  <1>12. Quiet(hist')
    BY <1>3, <1>4, <1>7, <1>8, <1>11, PairQuiet
  <1> QED BY <1>10, <1>12, OnItsWay

\* What a TIP does: the FUP of an interrupt, or none.
LEMMA TipDoes ==
  ASSUME Inv, NEW addr \in Spots, intel_pt_decode_online(Pkt("TIP", addr, << >>)), Ok(xed')
  PROVE  LET h == Recorded(hist, "TIP", NoAddr)
             k == FupOf(h)
         IN  /\ Sound(xed) /\ hist \in HistType /\ ~xed.walking /\ h \in HistType
             /\ k = 0 => xed' = xed_process_branches(xed, << >>, addr) /\ hist' = h
             /\ k # 0 => /\ xed' = StartAt(xed_async_enter(xed, h[k].ip), addr)
                         /\ hist' = Paired(h, k, "FUP_TIP", "TIP_FUP")
  <1> DEFINE p == Pkt("TIP", addr, << >>)
             h == Recorded(hist, "TIP", NoAddr)
             k == FupOf(h)
             d == CheckIp(xed, "TIP", addr)
  <1>1. Tip(p) /\ p.val = addr /\ ~xed.walking
    BY Handlers DEF Pkt
  <1>2. /\ (Ok(d) /\ k # 0) => /\ xed' = StartAt(xed_async_enter(d, h[k].ip), addr)
                               /\ hist' = Paired(h, k, "FUP_TIP", "TIP_FUP")
        /\ ~(Ok(d) /\ k # 0) => xed' = xed_process_branches(d, << >>, addr) /\ hist' = h
    BY <1>1, RecordedHist DEF Tip
  <1>3. Sound(xed) /\ hist \in HistType /\ "TIP" \in HistTypes /\ "TIP" # "TIP_PGD" /\ NoAddr \in Nat
    BY TypesInHistory DEF Inv, NoAddr
  <1>4. h \in HistType
    BY <1>3, RecordShifts
  <1> HIDE DEF h, k
  <1>5. Ok(d)
    <2>1. Ok(xed_process_branches(d, << >>, addr)) => Ok(d)
      BY DEF xed_process_branches
    <2> HIDE DEF d
    <2> QED BY <1>2, <2>1
  <1>6. d = xed
    BY <1>3, <1>5, CheckPasses
  <1> HIDE DEF d
  <1> QED BY <1>1, <1>2, <1>3, <1>4, <1>5, <1>6 DEF h, k

\* The target of a branch.
LEMMA TipSteps ==
  ASSUME Inv, NEW p \in Views, intel_pt_decode_online(Pkt("TIP", p.pc, << >>)), Ok(xed'),
         Quiet(hist), NEW exit \in BOOLEAN, exit => p.one,
         Follows(xed, << >>, Turns(p, exit), Before(p, exit))
  PROVE  \/ Taking(xed', hist', << >>, << >>, p, TRUE, FALSE)
         \/ Following(xed', hist', << >>, << >>, p, TRUE, FALSE)
  <1> DEFINE addr == p.pc
             h == Recorded(hist, "TIP", NoAddr)
  <1>0. addr \in Spots
    BY DEF Views
  <1>1. Sound(xed) /\ hist \in HistType /\ ~xed.walking
    BY <1>0, TipDoes
  <1>2. "TIP" \in HistTypes \ {"FUP", "OVF"} /\ "TIP" # "TIP_PGD" /\ NoAddr \in Nat
    BY TypesInHistory DEF NoAddr
  <1>3. FupOf(h) = 0
    <2>1. LastOutside(h, AsyncSkip) # 0 => h[LastOutside(h, AsyncSkip)].type # "FUP"
      BY <1>1, <1>2, ScanMisses DEF Quiet
    <2> HIDE DEF h
    <2> QED BY <2>1 DEF FupOf
  <1>4. xed' = xed_process_branches(xed, << >>, addr) /\ hist' = h
    BY <1>0, <1>3, TipDoes
  <1>5. Quiet(hist')
    BY <1>1, <1>2, <1>4, QuietOn
  <1>6. Takes(xed', p, exit) \/ Follows(xed', << >>, Heading(p), p)
    BY <1>1, <1>4, TipTakes
  <1>7. CASE Takes(xed', p, exit)
    BY <1>5, <1>7 DEF Taking
  <1>8. CASE Follows(xed', << >>, Heading(p), p)
    BY <1>5, <1>8, OnItsWay
  <1> QED BY <1>6, <1>7, <1>8

\* The target of an interrupt.
LEMMA IrqTipSteps ==
  ASSUME Inv, NEW p \in Views, intel_pt_decode_online(Pkt("TIP", p.pc, << >>)), Ok(xed'),
         p.one => p.pc \in Sites, NEW q, Interrupts(q, p), HasFup(hist, q.pc, 0),
         Follows(xed, << >>, Heading(q), q)
  PROVE  Following(xed', hist', << >>, << >>, p, TRUE, FALSE)
  <1> DEFINE addr == p.pc
             src == q.pc
             h == Recorded(hist, "TIP", NoAddr)
             k == FupOf(h)
  <1>0. /\ addr \in Spots /\ src \in Spots /\ q \in Views
        /\ p.one = q.one /\ Len(q.frames) >= 1 /\ p.frames = Append(q.frames, Frame(q.pc, TRUE))
    BY DEF Views, Interrupts
  <1>1. Sound(xed) /\ hist \in HistType /\ ~xed.walking /\ h \in HistType
    BY <1>0, TipDoes
  <1>2. {"FUP_TIP", "TIP_FUP"} \subseteq HistTypes /\ NoAddr \in Nat
    BY TypesInHistory DEF NoAddr
  <1>3. k # 0 /\ k \in 1 .. Len(h) - 1 /\ h[k].ip = src
    BY <1>0, <1>1, <1>2, FupFound
  <1>4. /\ xed' = StartAt(xed_async_enter(xed, h[k].ip), addr)
        /\ hist' = Paired(h, k, "FUP_TIP", "TIP_FUP")
    BY <1>0, <1>3, TipDoes
  <1> HIDE DEF h, k
  <1>5. Follows(xed', << >>, Heading(p), p)
    BY <1>0, <1>1, <1>3, <1>4, EnterFollows
  <1>6. "TIP_FUP" \notin AsyncSkip \cup OvfSkip \cup {"FUP", "OVF"}
    BY DEF AsyncSkip, OvfSkip, TimingTypes
  <1>7. Quiet(hist')
    BY <1>1, <1>2, <1>3, <1>4, <1>6, PairQuiet
  <1> QED BY <1>5, <1>7, OnItsWay

\* The end of the trace finds a decoder that waits.
LEMMA PgdSteps ==
  ASSUME Inv, intel_pt_decode_online(Pkt("TIP_PGD", NoAddr, << >>)), Ok(xed'), NEW p, Chain(xed, p)
  PROVE  Rests(xed', p)
  <1> DEFINE d == CheckIp(xed, "TIP_PGD", NoAddr)
  <1>1. TipPgd(Pkt("TIP_PGD", NoAddr, << >>)) /\ ~xed.walking /\ Pkt("TIP_PGD", NoAddr, << >>).val = NoAddr
    BY Handlers DEF Pkt
  <1>2. xed' = d
    BY <1>1 DEF TipPgd
  <1>3. d = xed /\ Empty(this_ctx(xed))
    BY <1>2, CheckPasses DEF Inv
  <1> QED BY <1>1, <1>2, <1>3 DEF Rests, Waits, Chain

\* An overflow.
LEMMA OvfSteps ==
  ASSUME Inv, intel_pt_decode_online(Plain("OVF")), Waits(xed), NEW p
  PROVE  /\ Rests(xed', p) /\ this_ctx(xed').call_stack = << >>
         /\ Len(hist') >= 1 /\ hist'[Len(hist')].type = "OVF"
  <1> DEFINE h == Recorded(hist, "OVF", NoAddr)
  <1>1. Ovf(Plain("OVF")) /\ ~xed.walking
    BY Handlers DEF Plain, Pkt
  <1>2. xed' = xed_intel_pt_ovf(xed) /\ hist' = h
    BY <1>1, RecordedHist DEF Ovf
  <1>3. Sound(xed) /\ hist \in HistType /\ "OVF" \in HistTypes /\ "OVF" # "TIP_PGD" /\ NoAddr \in Nat
    BY TypesInHistory DEF Inv, NoAddr
  <1>4. Len(h) >= 1 /\ h[Len(h)] = [type |-> "OVF", ip |-> NoAddr]
    BY <1>3, RecordShifts
  <1>5. Rests(xed', p) /\ this_ctx(xed').call_stack = << >>
    BY <1>1, <1>2, <1>3, OvfWaits DEF Waits, Rests
  <1> HIDE DEF h
  <1>6. h[Len(h)].type = "OVF"
    BY <1>4
  <1> QED BY <1>2, <1>4, <1>5, <1>6

\* The outcomes of conditional branches.
LEMMA TntSteps ==
  ASSUME Inv, NEW t \in Seq(BOOLEAN), t # << >>, intel_pt_decode_online(Pkt("SHORT_TNT", 0, t)), Ok(xed'),
         Quiet(hist), NEW G, NEW q, Follows(xed, t, G, q)
  PROVE  Quiet(hist') /\ Follows(xed', << >>, G, q)
  <1>1. ShortTnt(Pkt("SHORT_TNT", 0, t)) /\ ~xed.walking /\ Pkt("SHORT_TNT", 0, t).tnt = t
    BY Handlers DEF Pkt
  <1>2. xed' = xed_process_branches(xed, t, NoAddr) /\ hist' = Recorded(hist, "SHORT_TNT", NoAddr)
    BY <1>1, RecordedHist DEF ShortTnt
  <1>3. Sound(xed) /\ hist \in HistType /\ "SHORT_TNT" \in HistTypes \ {"FUP", "OVF"} /\ NoAddr \in Nat
    BY TypesInHistory DEF Inv, NoAddr
  <1>4. Quiet(hist')
    BY <1>2, <1>3, QuietOn
  <1>5. Follows(xed', << >>, G, q)
    BY <1>1, <1>2, <1>3, TntFollows
  <1> QED BY <1>4, <1>5

-----------------------------------------------------------------------------
(* A packet in each phase.                                                 *)

\* The first of the packets that trail.
LEMMA TrailingParts ==
  ASSUME NEW addr \in Spots, NEW w, w # << >>, Trailing(w, addr)
  PROVE  \/ Head(w) \in Plains(PlainTypes) /\ Trailing(Tail(w), addr)
         \/ Head(w) = Pkt("FUP", addr, << >>) /\ Tail(w) = << Plain("PSBEND") >>
  <1> DEFINE S == Plains(PlainTypes)
             e == SyncEnd(addr)
  <1>1. PICK u \in Seq(S) : w = u \/ w = u \o e
    BY DEF Trailing
  <1>2. e \in Seq(AnyPkt)
    <2>1. {"FUP", "PSBEND"} \subseteq PktTypes
      BY DEF PktTypes, IpTypes
    <2>2. Pkt("FUP", addr, << >>) \in AnyPkt /\ Plain("PSBEND") \in AnyPkt
      BY <2>1, SpotNat DEF Pkt, Plain, AnyPkt
    <2> HIDE DEF AnyPkt
    <2> QED BY <2>2 DEF SyncEnd
  <1>3. S \subseteq AnyPkt /\ u \in Seq(AnyPkt)
    BY <1>1, PlainSets, SeqMonotonic
  <1> HIDE DEF S
  <1>4. CASE u = << >>
    <2>1. w = e
      <3> HIDE DEF e
      <3>1. << >> \o e = e
        BY <1>2, ConcatEmptySeq
      <3> QED BY <1>1, <1>4, <3>1
    <2> QED BY <2>1 DEF SyncEnd
  <1>5. CASE u # << >>
    <2> HIDE DEF e
    <2>1. Head(u) \in S /\ Tail(u) \in Seq(S)
      BY <1>1, <1>5, HeadTailProperties
    <2>2. Head(u \o e) = Head(u) /\ Tail(u \o e) = Tail(u) \o e
      BY <1>2, <1>3, <1>5, CatParts
    <2>3. Head(w) = Head(u) /\ (Tail(w) = Tail(u) \/ Tail(w) = Tail(u) \o e)
      BY <1>1, <2>2
    <2> QED BY <2>1, <2>3 DEF Trailing, S, e
  <1> QED BY <1>4, <1>5

\* The first of the packets of an interrupt behind its FUP.
LEMMA IrqParts ==
  ASSUME NEW addr \in Spots, NEW f \in Seq(Plains(AsyncSkip)), NEW w, w = f \o TipTo(addr)
  PROVE  /\ f = << >> => Head(w) = Pkt("TIP", addr, << >>) /\ Tail(w) = << >>
         /\ f # << >> => /\ Head(w) \in Plains(AsyncSkip) /\ Tail(f) \in Seq(Plains(AsyncSkip))
                         /\ Tail(w) = Tail(f) \o TipTo(addr)
                         /\ Len(f) = Len(Tail(f)) + 1 /\ Len(Tail(f)) \in Nat
  <1> DEFINE S == Plains(AsyncSkip)
             e == TipTo(addr)
  <1>1. e \in Seq(AnyPkt)
    <2>1. "TIP" \in PktTypes
      BY DEF PktTypes, IpTypes
    <2>2. Pkt("TIP", addr, << >>) \in AnyPkt
      BY <2>1, SpotNat DEF Pkt, AnyPkt
    <2> HIDE DEF AnyPkt
    <2> QED BY <2>2 DEF TipTo
  <1>2. S \subseteq AnyPkt /\ f \in Seq(AnyPkt)
    <2>1. S \subseteq AnyPkt
      BY PlainSets
    <2> HIDE DEF S
    <2>2. f \in Seq(S)
      BY DEF S
    <2> QED BY <2>1, <2>2, SeqMonotonic
  <1>3. CASE f = << >>
    <2>1. w = e
      <3> HIDE DEF e
      <3>1. << >> \o e = e
        BY <1>1, ConcatEmptySeq
      <3> QED BY <1>3, <3>1 DEF e
    <2> QED BY <1>3, <2>1 DEF TipTo
  <1>4. CASE f # << >>
    <2>1. f \in Seq(S)
      OBVIOUS
    <2> HIDE DEF e, S
    <2>2. /\ Head(f) \in S /\ Tail(f) \in Seq(S) /\ Len(Tail(f)) = Len(f) - 1
          /\ Len(f) \in Nat \ {0}
      BY <1>4, <2>1, HeadTailProperties, EmptySeq
    <2>3. Head(f \o e) = Head(f) /\ Tail(f \o e) = Tail(f) \o e
      BY <1>1, <1>2, <1>4, CatParts
    <2>4. Len(f) = Len(Tail(f)) + 1 /\ Len(Tail(f)) \in Nat
      BY <2>2
    <2> QED BY <1>4, <2>2, <2>3, <2>4 DEF S, e
  <1> QED BY <1>3, <1>4

\* These packets are such as the invariant of the decoder is kept by.
LEMMA WrittenPkts ==
  /\ \A addr \in Spots, type \in {"FUP", "TIP", "TIP_PGE"} : IsPacket(Pkt(type, addr, << >>))
  /\ IsPacket(Pkt("TIP_PGD", NoAddr, << >>)) /\ IsPacket(Plain("OVF")) /\ IsPacket(Plain("PSBEND"))
  /\ \A t \in Seq(BOOLEAN) : IsPacket(Pkt("SHORT_TNT", 0, t))
  /\ \A n \in Pgds : IsPacket(Pkt("PIP", n, << >>))
  <1>1. {"FUP", "TIP", "TIP_PGE", "TIP_PGD", "OVF", "PSBEND", "SHORT_TNT", "PIP"} \subseteq PktTypes
    BY DEF PktTypes, IpTypes
  <1>2. NoAddr \in Nat /\ 0 \in Nat /\ \A n \in Pgds : n \in Nat
    BY PgdsAssumption DEF NoAddr
  <1> HIDE DEF PktTypes
  <1>3. \A addr \in Spots, type \in {"FUP", "TIP", "TIP_PGE"} : IsPacket(Pkt(type, addr, << >>))
    BY <1>1, SpotNat DEF IsPacket, Pkt
  <1>4. IsPacket(Pkt("TIP_PGD", NoAddr, << >>)) /\ IsPacket(Plain("OVF")) /\ IsPacket(Plain("PSBEND"))
    BY <1>1, <1>2 DEF IsPacket, Pkt, Plain
  <1>5. \A t \in Seq(BOOLEAN) : IsPacket(Pkt("SHORT_TNT", 0, t))
    BY <1>1, <1>2 DEF IsPacket, Pkt
  <1>6. \A n \in Pgds : IsPacket(Pkt("PIP", n, << >>))
    BY <1>1, <1>2 DEF IsPacket, Pkt
  <1> QED BY <1>3, <1>4, <1>5, <1>6

\* A packet that the decoder can take and that announces no FUP.
Takeable(p) == IsPacket(p) /\ p.type \notin {"BEP", "PTW"}

\* Every packet the processor writes is one.
LEMMA TakeablePkts ==
  /\ \A addr \in Spots, type \in {"FUP", "TIP", "TIP_PGE"} : Takeable(Pkt(type, addr, << >>))
  /\ Takeable(Pkt("TIP_PGD", NoAddr, << >>)) /\ Takeable(Plain("OVF")) /\ Takeable(Plain("PSBEND"))
  /\ \A t \in Seq(BOOLEAN) : Takeable(Pkt("SHORT_TNT", 0, t))
  /\ \A n \in Pgds : Takeable(Pkt("PIP", n, << >>))
  /\ \A p \in Plains(PlainTypes) : Takeable(p)
  <1>1. \A p \in Plains(PlainTypes) : Takeable(p)
    BY PlainIs, PlainSets DEF Takeable
  <1> QED BY <1>1, WrittenPkts DEF Takeable, Plain, Pkt

\* The FUP of an interrupt, and what is behind it.
LEMMA IrqWireParts ==
  ASSUME NEW addr \in Spots, NEW src \in Spots, NEW f \in Seq(Plains(AsyncSkip))
  PROVE  LET w == << Pkt("FUP", src, << >>) >> \o (f \o TipTo(addr))
         IN  /\ Head(w) = Pkt("FUP", src, << >>) /\ Tail(w) = f \o TipTo(addr) /\ Len(f) \in Nat
             /\ w # << >>
  <1> DEFINE S == Plains(AsyncSkip)
             e == TipTo(addr)
             p == Pkt("FUP", src, << >>)
  <1>1. p \in AnyPkt /\ Pkt("TIP", addr, << >>) \in AnyPkt
    <2>1. "FUP" \in PktTypes /\ "TIP" \in PktTypes
      BY DEF PktTypes, IpTypes
    <2> QED BY <2>1, SpotNat DEF Pkt, AnyPkt
  <1>2. S \subseteq AnyPkt /\ f \in Seq(S)
    BY PlainSets
  <1> HIDE DEF S, AnyPkt, p
  <1>3. e \in Seq(AnyPkt)
    BY <1>1 DEF TipTo
  <1>4. f \in Seq(AnyPkt) /\ Len(f) \in Nat
    BY <1>2, SeqMonotonic
  <1> HIDE DEF e
  <1>5. f \o e \in Seq(AnyPkt)
    BY <1>3, <1>4, ConcatProperties
  <1> QED BY <1>1, <1>4, <1>5, ConsParts DEF e, p

\* What a packet taken in a phase has to do.
Goes(b, p, on, off) ==
  /\ Takeable(Head(wire))
  /\ intel_pt_decode_online(Head(wire)) /\ Ok(xed') =>
       Phase(xed', hist', Tail(wire), b, p, on, off)

\* A processor of one process runs in the table.
InTable(p) == p \in Views /\ (p.one => p.pc \in Sites)

\* Of a decoder on its way.
LEMMA FollowingSteps ==
  ASSUME Inv, last_bep_fup = 0, last_ptw_fup = 0, wire # << >>,
         NEW p, InTable(p), NEW on \in BOOLEAN, NEW off \in BOOLEAN, NEW b,
         Following(xed, hist, wire, b, p, on, off)
  PROVE  Goes(b, p, on, off)
  <1> DEFINE first == Head(wire)
             addr  == p.pc
  <1>0. p \in Views /\ addr \in Spots /\ (p.one => p.pc \in Sites)
    BY DEF Views, InTable
  <1>1. b = << >> /\ off = FALSE /\ Quiet(hist)
    BY DEF Following
  <1>2. PICK G, q : Comes(wire, G, q, p, on) /\ Follows(xed, << >>, G, q)
    BY <1>1 DEF Following
  <1>3. Hides(hist, "OVF", OvfSkip)
    BY <1>1 DEF Quiet
  <1>4. CASE on /\ G = Heading(p) /\ q = p /\ Trailing(wire, addr)
    <2>1. on = TRUE /\ Follows(xed, << >>, Heading(p), p)
      BY <1>2, <1>4
    <2>2. CASE first \in Plains(PlainTypes) /\ Trailing(Tail(wire), addr)
      <3>1. Takeable(first)
        BY <2>2, TakeablePkts
      <3>2. ASSUME intel_pt_decode_online(first), Ok(xed')
            PROVE  Following(xed', hist', Tail(wire), << >>, p, TRUE, FALSE)
        <4>1. /\ Follows(xed', << >>, Heading(p), p)
              /\ \A what : what \notin PlainTypes =>
                   \A skip : Hides(hist, what, skip) => Hides(hist', what, skip)
          BY <2>1, <2>2, <3>2, PlainSteps
        <4>2. "FUP" \notin PlainTypes /\ "OVF" \notin PlainTypes
          BY PlainSets
        <4>3. Quiet(hist')
          BY <1>1, <4>1, <4>2 DEF Quiet
        <4>4. Comes(Tail(wire), Heading(p), p, p, TRUE)
          BY <2>2 DEF Comes
        <4> QED BY <4>1, <4>3, <4>4 DEF Following
      <3> QED BY <1>1, <2>1, <3>1, <3>2 DEF Goes, Phase
    <2>3. CASE first = Pkt("FUP", addr, << >>) /\ Tail(wire) = << Plain("PSBEND") >>
      <3>1. Takeable(first)
        BY <1>0, <2>3, TakeablePkts
      <3>2. ASSUME intel_pt_decode_online(first), Ok(xed')
            PROVE  SyncEnds(xed', hist', Tail(wire), << >>, p, TRUE, FALSE)
        <4>1. xed' = xed /\ ~xed.walking /\ Hides(hist', "OVF", OvfSkip)
          BY <1>0, <1>3, <2>3, <3>2, FupSteps
        <4> QED BY <2>1, <2>3, <4>1 DEF SyncEnds
      <3> QED BY <1>1, <2>1, <3>1, <3>2 DEF Goes, Phase
    <2> QED BY <1>0, <1>4, <2>2, <2>3, TrailingParts
  <1>5. ASSUME on, NEW exit \in BOOLEAN, exit => p.one, G = Turns(p, exit), q = Before(p, exit),
               wire = TipTo(addr)
        PROVE  Goes(b, p, on, off)
    <2>1. /\ first = Pkt("TIP", addr, << >>) /\ Tail(wire) = << >> /\ on = TRUE
          /\ Follows(xed, << >>, Turns(p, exit), Before(p, exit))
      BY <1>2, <1>5 DEF TipTo
    <2>2. Takeable(first)
      BY <1>0, <2>1, TakeablePkts
    <2>3. ASSUME intel_pt_decode_online(first), Ok(xed')
          PROVE  Phase(xed', hist', << >>, << >>, p, TRUE, FALSE)
      BY <1>0, <1>1, <1>5, <2>1, <2>3, TipSteps DEF Phase
    <2> QED BY <1>1, <2>1, <2>2, <2>3 DEF Goes
  <1>6. CASE on /\ Interrupts(q, p) /\ G = Heading(q) /\ IrqWire(wire, q.pc, p.pc)
    <2>0. q.pc \in Spots
      BY <1>6 DEF Interrupts, Views
    <2>1. PICK f : /\ f \in Seq(Plains(AsyncSkip)) /\ Len(f) + 3 <= INTEL_PT_PKT_HISTORY
                   /\ wire = << Pkt("FUP", q.pc, << >>) >> \o (f \o TipTo(addr))
      BY <1>6 DEF IrqWire
    <2>2. first = Pkt("FUP", q.pc, << >>) /\ Tail(wire) = f \o TipTo(addr) /\ Len(f) \in Nat
      BY <1>0, <2>0, <2>1, IrqWireParts
    <2>3. Takeable(first)
      BY <2>0, <2>2, TakeablePkts
    <2>4. ASSUME intel_pt_decode_online(first), Ok(xed')
          PROVE  Interrupted(xed', hist', Tail(wire), << >>, p, TRUE, FALSE)
      <3>1. /\ xed' = xed /\ ~xed.walking /\ Hides(hist', "OVF", OvfSkip)
            /\ hist' = Recorded(hist, "FUP", q.pc)
        BY <1>3, <2>0, <2>2, <2>4, FupSteps
      <3>2. HasFup(Recorded(hist, "FUP", q.pc), q.pc, Len(f))
        BY <2>0, <2>1, <2>2, SpotNat, FupRecorded DEF Inv
      <3> QED BY <1>2, <1>6, <2>1, <2>2, <3>1, <3>2 DEF Interrupted
    <2> QED BY <1>1, <1>6, <2>3, <2>4 DEF Goes, Phase
  <1>7. CASE ~on /\ G = Heading(p) /\ q = p /\ wire = << Pkt("TIP_PGD", NoAddr, << >>) >>
    <2>1. /\ first = Pkt("TIP_PGD", NoAddr, << >>) /\ Tail(wire) = << >> /\ on = FALSE
          /\ Chain(xed, p)
      BY <1>2, <1>7 DEF Follows
    <2>2. Takeable(first)
      BY <2>1, TakeablePkts
    <2>3. ASSUME intel_pt_decode_online(first), Ok(xed')
          PROVE  Hushed(xed', hist', << >>, << >>, p, FALSE, FALSE)
      BY <2>1, <2>3, PgdSteps DEF Hushed, Rests
    <2> QED BY <1>1, <2>1, <2>2, <2>3 DEF Goes, Phase
  <1> QED BY <1>2, <1>4, <1>5, <1>6, <1>7 DEF Comes

\* Of one that has outcomes to take.
LEMMA BranchesSteps ==
  ASSUME Inv, NEW p, NEW on, NEW off, NEW b, Branches(xed, hist, wire, b, p, on, off)
  PROVE  Goes(b, p, on, off)
  <1>0. PICK t \in Seq(BOOLEAN), v \in Seq(AnyPkt) : \E G, q :
          /\ t # << >> /\ wire = << Pkt("SHORT_TNT", 0, t) >> \o v
          /\ Comes(v, G, q, p, on) /\ Follows(xed, t, G, q)
    BY DEF Branches
  <1>1. PICK G, q : /\ t # << >> /\ wire = << Pkt("SHORT_TNT", 0, t) >> \o v
                    /\ Comes(v, G, q, p, on) /\ Follows(xed, t, G, q)
    BY <1>0
  <1>2. b = << >> /\ ~off /\ Quiet(hist)
    BY DEF Branches
  <1>3. Head(wire) = Pkt("SHORT_TNT", 0, t) /\ Tail(wire) = v
    <2>1. Pkt("SHORT_TNT", 0, t) \in AnyPkt
      <3>1. "SHORT_TNT" \in PktTypes
        BY DEF PktTypes
      <3> QED BY <3>1, PktIs
    <2> HIDE DEF AnyPkt
    <2> QED BY <1>1, <2>1, ConsParts
  <1>4. Takeable(Head(wire))
    BY <1>3, TakeablePkts
  <1>5. ASSUME intel_pt_decode_online(Head(wire)), Ok(xed')
        PROVE  Following(xed', hist', v, << >>, p, on, off)
    <2>1. Quiet(hist') /\ Follows(xed', << >>, G, q)
      BY <1>1, <1>2, <1>3, <1>5, TntSteps
    <2> QED BY <1>1, <1>2, <2>1 DEF Following
  <1> QED BY <1>2, <1>3, <1>4, <1>5 DEF Goes, Phase

\* Of one that has seen the FUP of an interrupt.
LEMMA InterruptedSteps ==
  ASSUME Inv, NEW p, InTable(p), NEW on \in BOOLEAN, NEW off \in BOOLEAN, NEW b,
         Interrupted(xed, hist, wire, b, p, on, off)
  PROVE  Goes(b, p, on, off)
  <1> DEFINE addr == p.pc
  <1>0. p \in Views /\ addr \in Spots /\ (p.one => p.pc \in Sites)
    BY DEF Views, InTable
  <1>1. PICK q, f : /\ Interrupts(q, p) /\ f \in Seq(Plains(AsyncSkip)) /\ wire = f \o TipTo(addr)
                    /\ HasFup(hist, q.pc, Len(f)) /\ Follows(xed, << >>, Heading(q), q)
    BY DEF Interrupted
  <1>2. b = << >> /\ on = TRUE /\ off = FALSE /\ Hides(hist, "OVF", OvfSkip)
    BY DEF Interrupted
  <1>3. CASE f = << >>
    <2>1. Head(wire) = Pkt("TIP", addr, << >>) /\ Tail(wire) = << >> /\ HasFup(hist, q.pc, 0)
      BY <1>0, <1>1, <1>3, IrqParts
    <2>2. Takeable(Head(wire))
      BY <1>0, <2>1, TakeablePkts
    <2>3. ASSUME intel_pt_decode_online(Head(wire)), Ok(xed')
          PROVE  Following(xed', hist', << >>, << >>, p, TRUE, FALSE)
      BY <1>0, <1>1, <2>1, <2>3, IrqTipSteps
    <2> QED BY <1>2, <2>1, <2>2, <2>3 DEF Goes, Phase
  <1>4. CASE f # << >>
    <2>1. /\ Head(wire) \in Plains(AsyncSkip) /\ Tail(f) \in Seq(Plains(AsyncSkip))
          /\ Tail(wire) = Tail(f) \o TipTo(addr)
          /\ Len(f) = Len(Tail(f)) + 1 /\ Len(Tail(f)) \in Nat
      BY <1>0, <1>1, <1>4, IrqParts
    <2>2. Takeable(Head(wire)) /\ Head(wire) \in Plains(PlainTypes)
      BY <2>1, PlainSets, TakeablePkts
    <2>3. ASSUME intel_pt_decode_online(Head(wire)), Ok(xed')
          PROVE  Interrupted(xed', hist', Tail(wire), << >>, p, TRUE, FALSE)
      <3>1. /\ Follows(xed', << >>, Heading(q), q) /\ ~xed'.walking
            /\ hist' = Recorded(hist, Head(wire).type, Told(Head(wire))) /\ Told(Head(wire)) \in Nat
            /\ \A what : what \notin PlainTypes =>
                 \A skip : Hides(hist, what, skip) => Hides(hist', what, skip)
        BY <1>1, <2>2, <2>3, PlainSteps
      <3>2. "OVF" \notin PlainTypes /\ Head(wire).type \in AsyncSkip
        BY <2>1, PlainSets DEF Plains
      <3>3. Hides(hist', "OVF", OvfSkip)
        BY <1>2, <3>1, <3>2
      <3>4. HasFup(hist', q.pc, Len(Tail(f)))
        <4>1. hist \in HistType /\ HasFup(hist, q.pc, Len(Tail(f)) + 1)
          BY <1>1, <2>1 DEF Inv
        <4>2. q.pc \in Spots
          BY <1>1 DEF Interrupts, Views
        <4> QED BY <2>1, <3>1, <3>2, <4>1, <4>2, FupStays
      <3> QED BY <1>1, <2>1, <3>1, <3>3, <3>4 DEF Interrupted
    <2> QED BY <1>2, <2>2, <2>3 DEF Goes, Phase
  <1> QED BY <1>3, <1>4

\* Of one that has seen the FUP of a PSB+.
LEMMA SyncEndsSteps ==
  ASSUME Inv, NEW p, NEW on \in BOOLEAN, NEW off \in BOOLEAN, NEW b,
         SyncEnds(xed, hist, wire, b, p, on, off)
  PROVE  Goes(b, p, on, off)
  <1> DEFINE first == Plain("PSBEND")
  <1>1. /\ b = << >> /\ on = TRUE /\ off = FALSE /\ Hides(hist, "OVF", OvfSkip)
        /\ Head(wire) = first /\ Tail(wire) = << >> /\ Follows(xed, << >>, Heading(p), p)
    BY DEF SyncEnds
  <1>2. Takeable(first) /\ first \in Plains(PlainTypes) /\ first.type = "PSBEND"
    <2>1. Takeable(first)
      BY TakeablePkts
    <2>2. "PSBEND" \in PlainTypes /\ "PSBEND" \in PktTypes
      BY DEF PlainTypes, PktTypes
    <2> QED BY <2>1, <2>2 DEF Plains, AnyPkt, Plain, Pkt
  <1>3. ASSUME intel_pt_decode_online(first), Ok(xed')
        PROVE  Following(xed', hist', << >>, << >>, p, TRUE, FALSE)
    <2>1. /\ Follows(xed', << >>, Heading(p), p)
          /\ hist' = Recorded(hist, first.type, Told(first))
          /\ \A what : what \notin PlainTypes =>
               \A skip : Hides(hist, what, skip) => Hides(hist', what, skip)
      BY <1>1, <1>2, <1>3, PlainSteps
    <2>2. "OVF" \notin PlainTypes
      BY PlainSets
    <2>3. Hides(hist', "OVF", OvfSkip)
      BY <1>1, <2>1, <2>2
    <2>4. hist \in HistType /\ "PSBEND" \in HistTypes /\ "PSBEND" # "TIP_PGD" /\ NoAddr \in Nat
      BY TypesInHistory DEF Inv, NoAddr
    <2>5. hist' = Recorded(hist, "PSBEND", NoAddr)
      BY <1>2, <2>1 DEF Told
    <2>6. /\ hist' \in HistType /\ Len(hist') >= 1
          /\ hist'[Len(hist')] = [type |-> "PSBEND", ip |-> NoAddr]
      BY <2>4, <2>5, RecordShifts
    <2>7. hist'[Len(hist')].type = "PSBEND" /\ "PSBEND" \notin AsyncSkip /\ "PSBEND" # "FUP"
      BY <2>6 DEF AsyncSkip, TimingTypes
    <2>8. Hides(hist', "FUP", AsyncSkip)
      BY <2>6, <2>7, LastHides
    <2>9. Quiet(hist')
      BY <2>3, <2>8 DEF Quiet
    <2> QED BY <2>1, <2>9, OnItsWay
  <1> HIDE DEF first
  <1> QED BY <1>1, <1>2, <1>3 DEF Goes, Phase

\* Of one that a TIP_PGE is to restart.
LEMMA RestartingSteps ==
  ASSUME Inv, NEW p, InTable(p), NEW on \in BOOLEAN, NEW off \in BOOLEAN, NEW b,
         Restarting(xed, hist, wire, b, p, on, off)
  PROVE  Goes(b, p, on, off)
  <1> DEFINE addr == p.pc
  <1>0. p \in Views /\ addr \in Spots /\ (p.one => p.pc \in Sites)
    BY DEF Views, InTable
  <1>1. /\ b = << >> /\ on = TRUE /\ off = FALSE /\ Rests(xed, p)
        /\ Exact(p) => this_ctx(xed).call_stack = << >>
    BY DEF Restarting
  <1>2. CASE wire = << Pkt("TIP_PGE", addr, << >>) >>
    <2>1. Head(wire) = Pkt("TIP_PGE", addr, << >>) /\ Tail(wire) = << >>
      BY <1>2
    <2>2. Takeable(Head(wire))
      BY <1>0, <2>1, TakeablePkts
    <2>3. ASSUME intel_pt_decode_online(Head(wire)), Ok(xed')
          PROVE  Following(xed', hist', << >>, << >>, p, TRUE, FALSE)
      BY <1>0, <1>1, <2>1, <2>3, PgeSteps
    <2> QED BY <1>1, <2>1, <2>2, <2>3 DEF Goes, Phase
  <1>3. ASSUME NEW n \in Pgds, wire = << Pkt("PIP", n, << >>), Pkt("TIP_PGE", addr, << >>) >>
        PROVE  Goes(b, p, on, off)
    <2>1. Head(wire) = Pkt("PIP", n, << >>) /\ Tail(wire) = << Pkt("TIP_PGE", addr, << >>) >>
      BY <1>3
    <2>2. Takeable(Head(wire)) /\ Head(wire) \in Plains(PlainTypes)
      <3>1. "PIP" \in PlainTypes /\ "PIP" \in PktTypes /\ n \in Nat
        BY PgdsAssumption DEF PlainTypes, PktTypes
      <3>2. Pkt("PIP", n, << >>) \in Plains(PlainTypes)
        BY <3>1 DEF Plains, AnyPkt, Pkt
      <3> QED BY <2>1, <3>2, TakeablePkts
    <2>3. ASSUME intel_pt_decode_online(Head(wire)), Ok(xed')
          PROVE  Restarting(xed', hist', Tail(wire), << >>, p, TRUE, FALSE)
      <3>1. Rests(xed', p) /\ this_ctx(xed') = this_ctx(xed)
        BY <1>1, <2>2, <2>3, PlainSteps DEF Rests
      <3> QED BY <1>1, <2>1, <3>1 DEF Restarting
    <2> QED BY <1>1, <2>2, <2>3 DEF Goes, Phase
  <1> QED BY <1>2, <1>3 DEF Restarting

\* Of one that has lost what was written.
LEMMA OverflowingSteps ==
  ASSUME Inv, NEW p, InTable(p), NEW on \in BOOLEAN, NEW off \in BOOLEAN, NEW b,
         Overflowing(xed, hist, wire, b, p, on, off)
  PROVE  Goes(b, p, on, off)
  <1> DEFINE addr == p.pc
             v == IF on THEN << Pkt("FUP", addr, << >>) >> ELSE << >>
  <1>1. b = << >> /\ off = FALSE /\ wire = << Plain("OVF") >> \o v /\ Waits(xed)
    BY DEF Overflowing
  <1>2. Head(wire) = Plain("OVF") /\ Tail(wire) = v
    <2>0. addr \in Spots
      BY DEF InTable, Views
    <2>1. "FUP" \in PktTypes /\ "OVF" \in PktTypes
      BY DEF PktTypes, IpTypes
    <2>2. Pkt("FUP", addr, << >>) \in AnyPkt /\ Plain("OVF") \in AnyPkt
      BY <2>0, <2>1, SpotNat DEF Pkt, Plain, AnyPkt
    <2> HIDE DEF AnyPkt
    <2>3. v \in Seq(AnyPkt)
      BY <2>2
    <2> HIDE DEF v
    <2> QED BY <1>1, <2>2, <2>3, ConsParts
  <1>3. Takeable(Head(wire))
    BY <1>2, TakeablePkts
  <1>4. ASSUME intel_pt_decode_online(Head(wire)), Ok(xed')
        PROVE  \/ Overflowed(xed', hist', v, << >>, p, on, FALSE)
               \/ Hushed(xed', hist', v, << >>, p, on, FALSE)
    <2>1. /\ Rests(xed', p) /\ this_ctx(xed').call_stack = << >>
          /\ Len(hist') >= 1 /\ hist'[Len(hist')].type = "OVF"
      BY <1>1, <1>2, <1>4, OvfSteps
    <2> QED BY <2>1 DEF Overflowed, Hushed, Rests
  <1> HIDE DEF v
  <1> QED BY <1>1, <1>2, <1>3, <1>4 DEF Goes, Phase

\* Of one that has seen the OVF.
LEMMA OverflowedSteps ==
  ASSUME Inv, last_bep_fup = 0, last_ptw_fup = 0,
         NEW p, InTable(p), NEW on \in BOOLEAN, NEW off \in BOOLEAN, NEW b,
         Overflowed(xed, hist, wire, b, p, on, off)
  PROVE  Goes(b, p, on, off)
  <1>0. p \in Views /\ p.pc \in Spots /\ (p.one => p.pc \in Sites)
    BY DEF Views, InTable
  <1>1. /\ b = << >> /\ on = TRUE /\ off = FALSE /\ Rests(xed, p) /\ this_ctx(xed).call_stack = << >>
        /\ Head(wire) = Pkt("FUP", p.pc, << >>) /\ Tail(wire) = << >>
        /\ Len(hist) >= 1 /\ hist[Len(hist)].type = "OVF"
    BY DEF Overflowed
  <1>2. Takeable(Head(wire))
    BY <1>0, <1>1, TakeablePkts
  <1>3. ASSUME intel_pt_decode_online(Head(wire)), Ok(xed')
        PROVE  Following(xed', hist', << >>, << >>, p, TRUE, FALSE)
    BY <1>0, <1>1, <1>3, ClosingSteps
  <1> QED BY <1>1, <1>2, <1>3 DEF Goes, Phase

\* Of any.
LEMMA AnyPhaseSteps ==
  ASSUME Inv, last_bep_fup = 0, last_ptw_fup = 0, wire # << >>,
         NEW p, InTable(p), NEW on \in BOOLEAN, NEW off \in BOOLEAN, NEW b,
         Phase(xed, hist, wire, b, p, on, off)
  PROVE  Goes(b, p, on, off)
  <1>1. ~Taking(xed, hist, wire, b, p, on, off) /\ ~Hushed(xed, hist, wire, b, p, on, off)
    BY DEF Taking, Hushed
  <1>2. CASE Following(xed, hist, wire, b, p, on, off)
    BY <1>2, FollowingSteps
  <1>3. CASE Branches(xed, hist, wire, b, p, on, off)
    BY <1>3, BranchesSteps
  <1>4. CASE Interrupted(xed, hist, wire, b, p, on, off)
    BY <1>4, InterruptedSteps
  <1>5. CASE SyncEnds(xed, hist, wire, b, p, on, off)
    BY <1>5, SyncEndsSteps
  <1>6. CASE Restarting(xed, hist, wire, b, p, on, off)
    BY <1>6, RestartingSteps
  <1>7. CASE Overflowing(xed, hist, wire, b, p, on, off)
    BY <1>7, OverflowingSteps
  <1>8. CASE Overflowed(xed, hist, wire, b, p, on, off)
    BY <1>8, OverflowedSteps
  <1> QED BY <1>1, <1>2, <1>3, <1>4, <1>5, <1>6, <1>7, <1>8 DEF Phase

\* A turn of the walk in any phase.
LEMMA WalkSteps ==
  ASSUME Inv, WalkStep, Ok(xed'), NEW p, InTable(p), NEW on, NEW off, NEW b,
         Phase(xed, hist, wire, b, p, on, off)
  PROVE  Phase(xed', hist', wire, b, p, on, off)
  <1>0. p \in Views /\ (p.one => p.pc \in Sites)
    BY DEF InTable
  <1>1. Sound(xed) /\ Walk /\ hist' = hist
    BY DEF Inv, WalkStep, ptVars
  <1>2. xed.walking
    BY <1>1, WalkWalks
  <1>3. CASE Following(xed, hist, wire, b, p, on, off)
    <2>1. PICK G, q : Comes(wire, G, q, p, on) /\ Follows(xed, b, G, q)
      BY <1>3 DEF Following
    <2>2. b = << >>
      BY <1>2, <2>1 DEF Follows
    <2>3. Goals(G)
      BY <2>1, AreGoals DEF Comes
    <2>4. Follows(xed', << >>, G, q)
      BY <1>1, <2>1, <2>2, <2>3, FollowsOn
    <2>5. Following(xed', hist', wire, b, p, on, off)
      BY <1>1, <1>3, <2>1, <2>2, <2>4 DEF Following
    <2> QED BY <2>5 DEF Phase
  <1>4. CASE Taking(xed, hist, wire, b, p, on, off)
    <2>1. wire = << >> /\ b = << >> /\ on /\ ~off /\ Quiet(hist)
      BY <1>4 DEF Taking
    <2>2. PICK exit \in BOOLEAN : (exit => p.one) /\ Takes(xed, p, exit)
      BY <1>4 DEF Taking
    <2>3. Takes(xed', p, exit) \/ Follows(xed', << >>, Heading(p), p)
      BY <1>0, <1>1, <2>2, TakesOn
    <2>4. Takes(xed', p, exit) => Taking(xed', hist', wire, b, p, on, off)
      BY <1>1, <2>1, <2>2 DEF Taking
    <2>5. Follows(xed', << >>, Heading(p), p) => Following(xed', hist', wire, b, p, on, off)
      <3>1. << >> \in Seq(Plains(PlainTypes))
        OBVIOUS
      <3>2. Comes(<< >>, Heading(p), p, p, on)
        BY <2>1, <3>1 DEF Comes, Trailing
      <3> QED BY <1>1, <2>1, <3>2 DEF Following
    <2> QED BY <2>3, <2>4, <2>5 DEF Phase
  <1>5. ~Branches(xed, hist, wire, b, p, on, off) /\ ~Interrupted(xed, hist, wire, b, p, on, off)
    BY <1>2 DEF Branches, Interrupted
  <1>6. ~SyncEnds(xed, hist, wire, b, p, on, off) /\ ~Restarting(xed, hist, wire, b, p, on, off)
    BY <1>2 DEF SyncEnds, Restarting, Rests, Waits
  <1>7. /\ ~Overflowing(xed, hist, wire, b, p, on, off) /\ ~Overflowed(xed, hist, wire, b, p, on, off)
        /\ ~Hushed(xed, hist, wire, b, p, on, off)
    BY <1>2 DEF Overflowing, Overflowed, Hushed, Rests, Waits
  <1> QED BY <1>3, <1>4, <1>5, <1>6, <1>7 DEF Phase

-----------------------------------------------------------------------------
(* The invariant: the processor.                                           *)

\* Every thread is in code there is; one that does not run is where threads are switched.
Threads ==
  /\ cur \in DOMAIN InitThread /\ DOMAIN thread = DOMAIN InitThread
  /\ \A t \in DOMAIN InitThread : thread[t].pc \in Spots /\ FramesOK(thread[t].frames)
  /\ \A t \in DOMAIN InitThread \ {cur} : \A addr \in SwitchPoints : thread[t].pc = After(addr)

Processors ==
  /\ Threads /\ bits \in Seq(BOOLEAN) /\ traced \in BOOLEAN /\ lost \in BOOLEAN
  /\ Whole => traced

\* The processor as the proofs see it.
Seen(addr, fs, one) == [pc |-> addr, frames |-> fs, one |-> one]
Cpu(one) == Seen(pc, frames, one)

\* Its fields.
LEMMA SeenIs ==
  ASSUME NEW addr \in Spots, NEW fs, FramesOK(fs), NEW one \in BOOLEAN, one => OneProcess
  PROVE  LET p == Seen(addr, fs, one)
         IN  /\ p \in Views /\ InTable(p) /\ p.pc = addr /\ p.frames = fs /\ p.one = one
             /\ CallsIn(p.frames) \in Stacks
  <1> DEFINE p == Seen(addr, fs, one)
  <1>1. fs \in Seq(FrameType)
    BY DEF FramesOK
  <1>2. p.pc = addr /\ p.frames = fs /\ p.one = one
    BY DEF Seen
  <1>3. p \in Views
    <2> HIDE DEF FrameType
    <2> QED BY <1>1 DEF Seen, Views
  <1>4. one => addr \in Sites
    BY DEF OneProcess, Spots
  <1>5. CallsIn(fs) \in Stacks
    BY CallsInTop
  <1> QED BY <1>2, <1>3, <1>4, <1>5 DEF InTable

\* The thread that runs goes on.
LEMMA GoTo ==
  ASSUME Threads, NEW addr \in Spots, NEW fs, FramesOK(fs), Go(addr, fs), cur' = cur
  PROVE  Threads' /\ pc' = addr /\ frames' = fs
  <1> DEFINE r == [pc |-> addr, frames |-> fs]
  <1>1. thread' = [thread EXCEPT ![cur] = r]
    BY DEF Go
  <1>2. r.pc = addr /\ r.frames = fs
    OBVIOUS
  <1> HIDE DEF r
  <1>3. /\ DOMAIN thread' = DOMAIN InitThread /\ cur \in DOMAIN InitThread
        /\ thread'[cur] = r /\ \A t \in DOMAIN InitThread \ {cur} : thread'[t] = thread[t]
    BY <1>1 DEF Threads
  <1>4. \A t \in DOMAIN InitThread : thread'[t].pc \in Spots /\ FramesOK(thread'[t].frames)
    BY <1>2, <1>3 DEF Threads
  <1>5. \A t \in DOMAIN InitThread \ {cur} : \A a \in SwitchPoints : thread'[t].pc = After(a)
    BY <1>3 DEF Threads
  <1>6. thread'[cur].pc = addr /\ thread'[cur].frames = fs
    BY <1>2, <1>3
  <1>7. pc' = addr /\ frames' = fs
    BY <1>6 DEF pc, frames
  <1> QED BY <1>3, <1>4, <1>5, <1>7 DEF Threads

\* What the current thread is.
LEMMA Running ==
  ASSUME Threads
  PROVE  pc \in Spots /\ FramesOK(frames)
  BY DEF Threads, pc, frames

-----------------------------------------------------------------------------
(* What the processor writes.                                              *)

\* A decoder that has been given everything, of a trace that goes on.
Ready(d, h, b, p, on, off) == on /\ ~off /\ Quiet(h) /\ Follows(d, b, Heading(p), p)

\* Others in front of a packet.
LEMMA BehindParts ==
  ASSUME NEW S, NEW u \in Seq(S), NEW p \in S
  PROVE  u \o << p >> \in Seq(S) /\ u \o << p >> # << >>
  <1>1. << p >> \in Seq(S) /\ Len(<< p >>) = 1 /\ Len(u) \in Nat
    OBVIOUS
  <1>2. u \o << p >> \in Seq(S) /\ Len(u \o << p >>) = Len(u) + Len(<< p >>)
    BY <1>1, ConcatProperties
  <1>3. Len(u \o << p >>) # 0
    BY <1>1, <1>2
  <1> QED BY <1>2, <1>3

\* A decoder that has nothing to do is on its way or hears nothing.
LEMMA Idles ==
  ASSUME NEW d, ~d.walking, NEW h, NEW w, w = << >>, NEW b, NEW p \in Views, NEW on, NEW off,
         Phase(d, h, w, b, p, on, off)
  PROVE  Ready(d, h, b, p, on, off) \/ Hushed(d, h, w, b, p, on, off)
  <1> DEFINE addr == p.pc
  <1>0. /\ addr \in Spots
        /\ Pkt("TIP", addr, << >>) \in AnyPkt /\ Plain("OVF") \in AnyPkt
        /\ Pkt("FUP", addr, << >>) \in AnyPkt
        /\ \A t \in Seq(BOOLEAN) : Pkt("SHORT_TNT", 0, t) \in AnyPkt
    <2>1. {"TIP", "FUP", "OVF", "SHORT_TNT"} \subseteq PktTypes
      BY DEF PktTypes, IpTypes
    <2>2. addr \in Spots
      BY DEF Views
    <2> QED BY <2>1, <2>2, SpotNat DEF Pkt, Plain, AnyPkt
  <1>1. CASE Following(d, h, w, b, p, on, off)
    <2>1. PICK G, q : Comes(w, G, q, p, on) /\ Follows(d, b, G, q)
      BY <1>1 DEF Following
    <2>2. w # TipTo(addr) /\ w # << Pkt("TIP_PGD", NoAddr, << >>) >>
      BY DEF TipTo
    <2>3. ASSUME NEW src \in Spots PROVE ~IrqWire(w, src, addr)
      BY <1>0, <2>3, IrqWireParts DEF IrqWire
    <2>4. Interrupts(q, p) => q.pc \in Spots
      BY DEF Interrupts, Views
    <2>5. on /\ G = Heading(p) /\ q = p
      BY <2>1, <2>2, <2>3, <2>4 DEF Comes
    <2> QED BY <1>1, <2>1, <2>5 DEF Following, Ready
  <1>2. ~Branches(d, h, w, b, p, on, off)
    <2> SUFFICES ASSUME NEW t \in Seq(BOOLEAN), NEW v \in Seq(AnyPkt)
                 PROVE  << Pkt("SHORT_TNT", 0, t) >> \o v # << >>
      BY DEF Branches
    <2>1. Pkt("SHORT_TNT", 0, t) \in AnyPkt
      BY <1>0
    <2> HIDE DEF AnyPkt
    <2> QED BY <2>1, ConsParts
  <1>3. ~Taking(d, h, w, b, p, on, off)
    BY DEF Taking, Takes
  <1>4. ~Interrupted(d, h, w, b, p, on, off)
    <2> SUFFICES ASSUME NEW f \in Seq(Plains(AsyncSkip)) PROVE f \o TipTo(addr) # << >>
      BY DEF Interrupted
    <2> DEFINE S == Plains(AsyncSkip)
    <2>1. S \subseteq AnyPkt /\ f \in Seq(S)
      BY PlainSets
    <2> HIDE DEF S, AnyPkt
    <2>2. f \in Seq(AnyPkt)
      BY <2>1, SeqMonotonic
    <2> QED BY <1>0, <2>2, BehindParts DEF TipTo
  <1>5. ~SyncEnds(d, h, w, b, p, on, off) /\ ~Restarting(d, h, w, b, p, on, off)
        /\ ~Overflowed(d, h, w, b, p, on, off)
    BY DEF SyncEnds, Restarting, Overflowed
  <1>6. ~Overflowing(d, h, w, b, p, on, off)
    <2> DEFINE v == IF on THEN << Pkt("FUP", addr, << >>) >> ELSE << >>
    <2> SUFFICES << Plain("OVF") >> \o v # << >>
      BY DEF Overflowing
    <2> HIDE DEF AnyPkt
    <2>1. v \in Seq(AnyPkt)
      BY <1>0
    <2> HIDE DEF v
    <2> QED BY <1>0, <2>1, ConsParts
  <1> QED BY <1>1, <1>2, <1>3, <1>4, <1>5, <1>6 DEF Phase

\* What is written behind the outcomes that are not in a packet yet.
LEMMA EmitFollows ==
  ASSUME NEW d, ~d.walking, NEW h, Quiet(h), NEW b \in Seq(BOOLEAN), NEW G, NEW q, Follows(d, b, G, q),
         NEW p, NEW on, NEW ps \in Seq(AnyPkt), Comes(ps, G, q, p, on),
         NEW w, w = (IF b = << >> THEN << >> ELSE << Pkt("SHORT_TNT", 0, b) >>) \o ps
  PROVE  Phase(d, h, w, << >>, p, on, FALSE)
  <1>1. CASE b = << >>
    <2>1. w = ps
      <3> HIDE DEF AnyPkt
      <3>1. << >> \o ps = ps
        BY ConcatEmptySeq
      <3> QED BY <1>1, <3>1
    <2>2. Comes(w, G, q, p, on) /\ Follows(d, << >>, G, q)
      BY <1>1, <2>1
    <2> QED BY <2>2 DEF Phase, Following
  <1>2. CASE b # << >>
    <2>1. w = << Pkt("SHORT_TNT", 0, b) >> \o ps
      BY <1>2
    <2> HIDE DEF AnyPkt
    <2>2. Branches(d, h, w, << >>, p, on, FALSE)
      BY <1>2, <2>1 DEF Branches
    <2> QED BY <2>2 DEF Phase
  <1> QED BY <1>1, <1>2

\* One more outcome.
LEMMA BitFollows ==
  ASSUME NEW d, ~d.walking, NEW h, Quiet(h), NEW b \in Seq(BOOLEAN), NEW x \in BOOLEAN,
         NEW p, Follows(d, Append(b, x), Heading(p), p),
         NEW w, NEW c,
         \/ w = << >> /\ c = Append(b, x)
         \/ w = << Pkt("SHORT_TNT", 0, Append(b, x)) >> /\ c = << >>
  PROVE  Phase(d, h, w, c, p, TRUE, FALSE)
  <1> DEFINE G == Heading(p)
             t == Append(b, x)
             e == << >>
  <1>1. t \in Seq(BOOLEAN) /\ t # << >>
    BY AppendProperties, EmptySeq
  <1>2. e \in Seq(Plains(PlainTypes)) /\ e \in Seq(AnyPkt)
    OBVIOUS
  <1>3. Comes(e, G, p, p, TRUE)
    BY <1>2 DEF Comes, Trailing
  <1>4. CASE w = << >> /\ c = t
    <2>1. Comes(w, G, p, p, TRUE) /\ Follows(d, c, G, p)
      BY <1>3, <1>4
    <2> QED BY <1>4, <2>1 DEF Phase, Following
  <1>5. CASE w = << Pkt("SHORT_TNT", 0, t) >> /\ c = << >>
    <2>1. w = << Pkt("SHORT_TNT", 0, t) >> \o e
      <3>1. Pkt("SHORT_TNT", 0, t) \in AnyPkt
        <4>1. "SHORT_TNT" \in PktTypes
          BY DEF PktTypes
        <4> QED BY <1>1, <4>1, PktIs
      <3> HIDE DEF t, AnyPkt
      <3>2. << Pkt("SHORT_TNT", 0, t) >> \in Seq(AnyPkt)
        BY <3>1
      <3>3. << Pkt("SHORT_TNT", 0, t) >> \o << >> = << Pkt("SHORT_TNT", 0, t) >>
        BY <3>2, ConcatEmptySeq
      <3> QED BY <1>5, <3>3
    <2> HIDE DEF t, e, AnyPkt
    <2>2. Branches(d, h, w, c, p, TRUE, FALSE)
      BY <1>1, <1>2, <1>3, <1>5, <2>1 DEF Branches, t
    <2> QED BY <2>2 DEF Phase
  <1> QED BY <1>4, <1>5

\* What follows an instruction that goes on in the table.
LEMMA AfterIs ==
  ASSUME NEW addr \in Sites,
         \/ Insts[At(addr)].type \in {"NONE", "COND_BRANCH"}
         \/ Insts[At(addr)].category \in {"CALL", "SYSCALL"}
  PROVE  After(addr) \in Sites /\ At(After(addr)) = At(addr) + 1
  <1>1. At(addr) \in Idx
    BY SiteAt
  <1>2. At(addr) + 1 < NoInsts
    BY <1>1, CodeAssumption DEF Idx
  <1>3. At(addr) + 1 \in Idx
    BY <1>1, <1>2, InstsAssumption DEF Idx
  <1> QED BY <1>3, AtSite DEF After

\* p goes on to q, within the same interrupts.
Within(p, q) == q \in Views /\ q.one = p.one /\ (p.one => SameIrqs(p.frames, q.frames))

\* Over an instruction that has no packet.
LEMMA OverDirect ==
  ASSUME NEW d, Sound(d), ~d.walking, NEW b \in Seq(BOOLEAN), NEW p \in Views, NEW q, Within(p, q),
         p.pc \in Sites, q.pc \in Sites, DirectAt(At(p.pc)), At(q.pc) = NextAt(At(p.pc)),
         Exact(p) => CallsIn(q.frames) = CallsAt(At(p.pc), CallsIn(p.frames)),
         Follows(d, b, Heading(p), p)
  PROVE  Follows(d, b, Heading(q), q)
  <1> DEFINE c == this_ctx(d)
  <1>1. /\ Empty(c) /\ Chain(d, p) /\ (c.last_inst = NoInst => ~p.one)
        /\ c.last_inst # NoInst => On(Place(c), b, Heading(p)) /\ Stops(c.last_inst)
    BY IdleFollows
  <1>2. c.last_inst # NoInst => Place(c) \in Places
    BY SoundFields, CtxPlace
  <1> HIDE DEF c
  <1>3. q \in Views /\ q.one = p.one /\ (p.one => SameIrqs(p.frames, q.frames))
    BY DEF Within
  <1>4. Chain(d, q)
    BY <1>1, <1>3, ChainMoves
  <1>5. c.last_inst # NoInst => On(Place(c), b, Heading(q))
    BY <1>1, <1>2, <1>3, OnDirect
  <1> QED BY <1>1, <1>3, <1>4, <1>5, IdleFollows DEF c

\* Over a conditional branch: the decoder follows with its outcome.
LEMMA OverFork ==
  ASSUME NEW d, Sound(d), ~d.walking, NEW b \in Seq(BOOLEAN), NEW p \in Views, NEW q, Within(p, q),
         p.pc \in Sites, q.pc \in Sites, NEW x \in BOOLEAN, IsCond(At(p.pc)), At(q.pc) = ForkAt(At(p.pc), x),
         CallsIn(q.frames) = CallsIn(p.frames), Follows(d, b, Heading(p), p)
  PROVE  Follows(d, Append(b, x), Heading(q), q)
  <1> DEFINE c == this_ctx(d)
  <1>1. /\ Empty(c) /\ Chain(d, p) /\ (c.last_inst = NoInst => ~p.one)
        /\ c.last_inst # NoInst => On(Place(c), b, Heading(p)) /\ Stops(c.last_inst)
    BY IdleFollows
  <1>2. c.last_inst # NoInst => Place(c) \in Places
    BY SoundFields, CtxPlace
  <1> HIDE DEF c
  <1>3. q \in Views /\ q.one = p.one /\ (p.one => SameIrqs(p.frames, q.frames))
    BY DEF Within
  <1>4. Chain(d, q)
    BY <1>1, <1>3, ChainMoves
  <1>5. Append(b, x) = b \o << x >> /\ Append(b, x) \in Seq(BOOLEAN)
    BY AppendIsConcat, AppendProperties
  <1>6. CallsIn(q.frames) \in Stacks
    BY <1>3, ViewCalls
  <1>7. c.last_inst # NoInst => On(Place(c), Append(b, x), Heading(q))
    BY <1>1, <1>2, <1>3, <1>5, <1>6, OnFork
  <1> QED BY <1>1, <1>3, <1>4, <1>5, <1>7, IdleFollows DEF c

\* A branch takes p to q: when it ends an interrupt, to where it was.
Branching(p, q, exit) ==
  /\ q \in Views /\ q.one = p.one /\ exit \in BOOLEAN /\ (exit => p.one)
  /\ p.pc \in Sites => At(p.pc) \in Tips
  /\ p.one => (ExitAt(At(p.pc)) <=> exit)
  /\ Exact(p) /\ exit => CallsIn(p.frames) = << >>
  /\ Exact(p) /\ ~exit =>
       \A t \in Stacks : Innermost(t, CallsIn(p.frames)) =>
         Innermost(Took(<<At(p.pc), t>>, q.pc), CallsIn(q.frames))
  /\ Within(p, Before(q, exit))

\* The decoder is then on its way to where it takes the TIP.
LEMMA OverTip ==
  ASSUME NEW d, Sound(d), ~d.walking, NEW b \in Seq(BOOLEAN), NEW p \in Views, NEW q, NEW exit,
         Branching(p, q, exit), Follows(d, b, Heading(p), p)
  PROVE  Follows(d, b, Turns(q, exit), Before(q, exit))
  <1> DEFINE c == this_ctx(d)
             r == Before(q, exit)
  <1>1. /\ Empty(c) /\ Chain(d, p) /\ (c.last_inst = NoInst => ~p.one)
        /\ c.last_inst # NoInst => On(Place(c), b, Heading(p)) /\ Stops(c.last_inst)
    BY IdleFollows
  <1> HIDE DEF c, r
  <1>2. r \in Views /\ r.one = p.one /\ (p.one => SameIrqs(p.frames, r.frames)) /\ exit \in BOOLEAN
    BY DEF Branching, Within, r
  <1>3. Chain(d, r)
    BY <1>1, <1>2, ChainMoves
  <1>4. c.last_inst # NoInst => On(Place(c), b, Turns(q, exit))
    <2> SUFFICES ASSUME c.last_inst # NoInst PROVE On(Place(c), b, Turns(q, exit))
      OBVIOUS
    <2>1. On(Place(c), b, Heading(p)) /\ p.pc \in Sites
      BY <1>1, OnSite
    <2>2. /\ At(p.pc) \in Tips /\ q.one = p.one /\ exit \in BOOLEAN
          /\ p.one => (ExitAt(At(p.pc)) <=> exit)
          /\ Exact(p) /\ exit => CallsIn(p.frames) = << >>
          /\ Exact(p) /\ ~exit =>
               \A t \in Stacks : Innermost(t, CallsIn(p.frames)) =>
                 Innermost(Took(<<At(p.pc), t>>, q.pc), CallsIn(q.frames))
      BY <2>1 DEF Branching
    <2> QED BY <2>1, <2>2, OnTurns
  <1> QED BY <1>1, <1>2, <1>3, <1>4, IdleFollows DEF c, r

\* Outside of the table the decoder has no position: it follows whatever runs.
LEMMA OverForeign ==
  ASSUME NEW d, ~d.walking, NEW b \in Seq(BOOLEAN), NEW p \in Views, p.pc \in Foreign, ~p.one,
         Follows(d, b, Heading(p), p), NEW more \in Seq(BOOLEAN), NEW G, NEW q, Within(p, q)
  PROVE  Follows(d, more, G, q)
  <1>1. p.pc \notin Sites
    BY ForeignNowhere
  <1>2. Empty(this_ctx(d)) /\ this_ctx(d).last_inst = NoInst /\ Chain(d, p)
    BY <1>1, IdleFollows, OnSite
  <1>3. Chain(d, q) /\ ~q.one
    BY <1>2, ChainMoves DEF Within
  <1> QED BY <1>2, <1>3, IdleFollows

-----------------------------------------------------------------------------
(* The steps of the processor.                                             *)

\* The decoder has taken everything, and the processor runs.
Standing(one) ==
  /\ one \in BOOLEAN /\ (one => OneProcess)
  /\ Sound(xed) /\ ~xed.walking /\ Processors /\ wire = << >>
  /\ Phase(xed, hist, wire, bits, Cpu(one), traced, lost)

\* What a step of the processor keeps.
Agrees(one) == Processors' /\ Phase(xed, hist, wire', bits', Seen(pc', frames', one), traced', lost')

\* What is written is for a decoder that is where the processor was.
Meets(ps, p, on) == \E G, q : Comes(ps, G, q, p, on) /\ Follows(xed, bits, G, q)

\* No interrupt begins or ends that the trace says nothing of.
Onto(one, q) == q \in Views /\ q.one = one /\ (one /\ ~traced => SameIrqs(frames, q.frames))

\* Then.
LEMMA StandingIs ==
  ASSUME NEW one, Standing(one)
  PROVE  /\ one \in BOOLEAN /\ (one => OneProcess)
         /\ pc \in Spots /\ FramesOK(frames) /\ bits \in Seq(BOOLEAN)
         /\ traced \in BOOLEAN /\ lost \in BOOLEAN /\ cur \in DOMAIN InitThread
         /\ Sound(xed) /\ ~xed.walking /\ wire = << >>
         /\ Cpu(one) \in Views /\ InTable(Cpu(one)) /\ CallsIn(frames) \in Stacks
         /\ Cpu(one).pc = pc /\ Cpu(one).frames = frames /\ Cpu(one).one = one
         /\ \/ Ready(xed, hist, bits, Cpu(one), traced, lost)
            \/ Hushed(xed, hist, wire, bits, Cpu(one), traced, lost)
  <1>1. pc \in Spots /\ FramesOK(frames)
    BY Running DEF Standing, Processors
  <1>2. one \in BOOLEAN /\ (one => OneProcess)
    BY DEF Standing
  <1>3. /\ Cpu(one) \in Views /\ InTable(Cpu(one)) /\ CallsIn(Cpu(one).frames) \in Stacks
        /\ Cpu(one).pc = pc /\ Cpu(one).frames = frames /\ Cpu(one).one = one
    BY <1>1, <1>2, SeenIs DEF Cpu
  <1>4. Ready(xed, hist, bits, Cpu(one), traced, lost) \/ Hushed(xed, hist, wire, bits, Cpu(one), traced, lost)
    BY <1>3, Idles DEF Standing
  <1> QED BY <1>1, <1>2, <1>3, <1>4 DEF Standing, Processors, Threads

\* The processor goes on elsewhere, within the same interrupts.
LEMMA OntoIs ==
  ASSUME NEW one, Standing(one), NEW addr \in Spots, NEW fs, FramesOK(fs), one => SameIrqs(frames, fs)
  PROVE  LET q == Seen(addr, fs, one)
         IN  /\ q \in Views /\ q.pc = addr /\ q.frames = fs /\ q.one = one /\ CallsIn(fs) \in Stacks
             /\ Onto(one, q) /\ Within(Cpu(one), q)
  <1> DEFINE q == Seen(addr, fs, one)
  <1>1. /\ one \in BOOLEAN /\ (one => OneProcess)
        /\ Cpu(one).frames = frames /\ Cpu(one).one = one
    BY StandingIs
  <1>2. q \in Views /\ q.pc = addr /\ q.frames = fs /\ q.one = one /\ CallsIn(q.frames) \in Stacks
    BY <1>1, SeenIs
  <1> HIDE DEF q
  <1> QED BY <1>1, <1>2 DEF Onto, Within, q

\* Where it is, too.
LEMMA SameIrqsHere == ASSUME NEW fs, FramesOK(fs) PROVE SameIrqs(fs, fs)
  BY DEF SameIrqs

\* A decoder that hears nothing.
LEMMA HushedMoves ==
  ASSUME NEW one, Standing(one), Hushed(xed, hist, wire, bits, Cpu(one), traced, lost), NEW q, Onto(one, q)
  PROVE  Hushed(xed, hist, << >>, << >>, q, traced, lost)
  <1>1. Waits(xed) /\ (~traced \/ lost) /\ (~lost => Chain(xed, Cpu(one)))
    BY DEF Hushed
  <1>2. /\ Cpu(one) \in Views /\ Cpu(one).frames = frames /\ Cpu(one).one = one
    BY StandingIs
  <1>3. q \in Views /\ q.one = one /\ (one /\ ~traced => SameIrqs(frames, q.frames))
    BY DEF Onto
  <1>4. ~lost => Chain(xed, q)
    BY <1>1, <1>2, <1>3, ChainMoves
  <1> QED BY <1>1, <1>4 DEF Hushed

\* A step that writes nothing.
LEMMA Quietly ==
  ASSUME NEW one, Standing(one), Silent, NEW q, Onto(one, q),
         Follows(xed, bits, Heading(Cpu(one)), Cpu(one)) => Follows(xed, bits, Heading(q), q)
  PROVE  bits' \in Seq(BOOLEAN) /\ Phase(xed, hist, wire', bits', q, traced, lost)
  <1>1. bits' = bits /\ wire' = wire /\ wire = << >> /\ bits \in Seq(BOOLEAN)
    BY StandingIs DEF Silent
  <1>2. CASE Ready(xed, hist, bits, Cpu(one), traced, lost)
    <2>1. << >> \in Seq(Plains(PlainTypes))
      OBVIOUS
    <2>2. Comes(wire', Heading(q), q, q, traced)
      BY <1>1, <1>2, <2>1 DEF Comes, Trailing, Ready
    <2>3. Following(xed, hist, wire', bits', q, traced, lost)
      BY <1>1, <1>2, <2>2 DEF Ready, Following
    <2> QED BY <1>1, <2>3 DEF Phase
  <1>3. CASE Hushed(xed, hist, wire, bits, Cpu(one), traced, lost)
    <2>1. bits = << >>
      BY <1>3 DEF Hushed
    <2>2. Hushed(xed, hist, wire', bits', q, traced, lost)
      BY <1>1, <1>3, <2>1, HushedMoves
    <2> QED BY <1>1, <2>2 DEF Phase
  <1> QED BY <1>2, <1>3, StandingIs

\* A step that writes an outcome.
LEMMA WithBit ==
  ASSUME NEW one, Standing(one), NEW x \in BOOLEAN, EmitBit(x), NEW q, Onto(one, q),
         Follows(xed, bits, Heading(Cpu(one)), Cpu(one)) => Follows(xed, Append(bits, x), Heading(q), q)
  PROVE  bits' \in Seq(BOOLEAN) /\ Phase(xed, hist, wire', bits', q, traced, lost)
  <1>1. wire = << >> /\ bits \in Seq(BOOLEAN) /\ ~xed.walking
    BY StandingIs
  <1>2. Append(bits, x) \in Seq(BOOLEAN)
    BY <1>1, AppendProperties
  <1>3. CASE Ready(xed, hist, bits, Cpu(one), traced, lost)
    <2>1. traced = TRUE /\ lost = FALSE /\ Quiet(hist) /\ Follows(xed, Append(bits, x), Heading(q), q)
      BY <1>3, StandingIs DEF Ready
    <2>2. \/ wire' = << >> /\ bits' = Append(bits, x)
          \/ wire' = << Pkt("SHORT_TNT", 0, Append(bits, x)) >> /\ bits' = << >>
      BY <1>1, <2>1 DEF EmitBit
    <2>3. Phase(xed, hist, wire', bits', q, TRUE, FALSE)
      BY <1>1, <2>1, <2>2, BitFollows
    <2>4. bits' \in Seq(BOOLEAN)
      <3>1. << >> \in Seq(BOOLEAN)
        OBVIOUS
      <3>2. bits' = Append(bits, x) \/ bits' = << >>
        BY <2>2
      <3> QED BY <1>2, <3>1, <3>2, Zenon
    <2> QED BY <2>1, <2>3, <2>4
  <1>4. CASE Hushed(xed, hist, wire, bits, Cpu(one), traced, lost)
    <2>1. bits' = << >> /\ wire' = << >>
      BY <1>4 DEF EmitBit, Hushed
    <2>2. Hushed(xed, hist, wire', bits', q, traced, lost)
      BY <1>4, <2>1, HushedMoves
    <2>3. << >> \in Seq(BOOLEAN)
      OBVIOUS
    <2> QED BY <2>1, <2>2, <2>3 DEF Phase
  <1> QED BY <1>3, <1>4, StandingIs

\* A step that writes packets.
LEMMA Written ==
  ASSUME NEW one, Standing(one), NEW ps \in Seq(AnyPkt), Emit(ps), NEW q, Onto(one, q),
         NEW on \in BOOLEAN, on => traced,
         Follows(xed, bits, Heading(Cpu(one)), Cpu(one)) => Meets(ps, q, on)
  PROVE  bits' \in Seq(BOOLEAN) /\ Phase(xed, hist, wire', bits', q, on, lost)
  <1>1. wire = << >> /\ bits \in Seq(BOOLEAN) /\ ~xed.walking /\ bits' = << >>
    BY StandingIs DEF Emit
  <1>2. << >> \in Seq(BOOLEAN)
    OBVIOUS
  <1>3. CASE Ready(xed, hist, bits, Cpu(one), traced, lost)
    <2>1. traced = TRUE /\ lost = FALSE /\ Quiet(hist) /\ Meets(ps, q, on)
      BY <1>3, StandingIs DEF Ready
    <2>2. wire' = (IF bits = << >> THEN << >> ELSE << Pkt("SHORT_TNT", 0, bits) >>) \o ps
      BY <2>1 DEF Emit
    <2>3. PICK G, r : Comes(ps, G, r, q, on) /\ Follows(xed, bits, G, r)
      BY <2>1 DEF Meets
    <2>4. Phase(xed, hist, wire', << >>, q, on, FALSE)
      BY <1>1, <2>1, <2>2, <2>3, EmitFollows
    <2> QED BY <1>1, <1>2, <2>1, <2>4
  <1>4. CASE Hushed(xed, hist, wire, bits, Cpu(one), traced, lost)
    <2>1. wire' = << >> /\ (~traced \/ lost)
      BY <1>4 DEF Emit, Hushed
    <2>2. Hushed(xed, hist, << >>, << >>, q, traced, lost)
      BY <1>4, HushedMoves
    <2>3. Hushed(xed, hist, wire', bits', q, on, lost)
      BY <1>1, <2>1, <2>2 DEF Hushed
    <2> QED BY <1>1, <1>2, <2>3 DEF Phase
  <1> QED BY <1>3, <1>4, StandingIs

\* The target of a branch.
LEMMA WithTip ==
  ASSUME NEW one, Standing(one), NEW q, Onto(one, q), NEW exit, Branching(Cpu(one), q, exit),
         NEW to \in Spots, q.pc = to, Emit(<< Pkt("TIP", to, << >>) >>)
  PROVE  bits' \in Seq(BOOLEAN) /\ Phase(xed, hist, wire', bits', q, traced, lost)
  <1> DEFINE ps == << Pkt("TIP", to, << >>) >>
             p == Cpu(one)
             b == bits
  <1>1. ps \in Seq(AnyPkt)
    <2>1. "TIP" \in PktTypes
      BY DEF PktTypes, IpTypes
    <2>2. Pkt("TIP", to, << >>) \in AnyPkt
      BY <2>1, SpotNat DEF Pkt, AnyPkt
    <2> HIDE DEF AnyPkt
    <2> QED BY <2>2
  <1>2. b \in Seq(BOOLEAN) /\ Sound(xed) /\ ~xed.walking /\ traced \in BOOLEAN /\ p \in Views
    BY StandingIs
  <1>3. q \in Views /\ q.one = p.one /\ exit \in BOOLEAN /\ (exit => q.one)
    BY DEF Branching
  <1>4. CASE traced
    <2>1. Comes(ps, Turns(q, exit), Before(q, exit), q, traced)
      <3>1. ps = TipTo(q.pc)
        BY DEF TipTo
      <3> HIDE DEF ps
      <3> QED BY <1>3, <1>4, <3>1 DEF Comes
    <2> HIDE DEF ps
    <2>2. Follows(xed, b, Heading(p), p) => Follows(xed, b, Turns(q, exit), Before(q, exit))
      <3> HIDE DEF p, b
      <3> QED BY <1>2, <1>3, OverTip DEF p
    <2>3. Follows(xed, bits, Heading(p), p) => Meets(ps, q, traced)
      BY <2>1, <2>2 DEF Meets
    <2> QED BY <1>1, <1>2, <2>3, Written DEF ps
  <1>5. CASE ~traced
    <2>1. Hushed(xed, hist, wire, bits, Cpu(one), traced, lost)
      BY <1>5, StandingIs DEF Ready
    <2>2. wire' = << >> /\ bits' = << >>
      BY <1>5 DEF Emit
    <2>3. Hushed(xed, hist, wire', bits', q, traced, lost)
      BY <2>1, <2>2, HushedMoves
    <2>4. << >> \in Seq(BOOLEAN)
      OBVIOUS
    <2> QED BY <2>2, <2>3, <2>4 DEF Phase
  <1> QED BY <1>2, <1>4, <1>5

\* The thread goes on, and what is written says so.
LEMMA GoesTo ==
  ASSUME NEW one, Standing(one), NEW addr \in Spots, NEW fs, FramesOK(fs), Go(addr, fs),
         UNCHANGED <<cur, traced, lost>>,
         bits' \in Seq(BOOLEAN) /\ Phase(xed, hist, wire', bits', Seen(addr, fs, one), traced, lost)
  PROVE  Agrees(one)
  <1>1. Threads' /\ pc' = addr /\ frames' = fs
    BY GoTo DEF Standing, Processors
  <1>2. traced' = traced /\ lost' = lost /\ traced \in BOOLEAN /\ lost \in BOOLEAN /\ (Whole => traced)
    BY StandingIs DEF Standing, Processors
  <1>3. Processors'
    BY <1>1, <1>2 DEF Processors, Whole
  <1>4. Phase(xed, hist, wire', bits', Seen(pc', frames', one), traced', lost')
    BY <1>1, <1>2
  <1> QED BY <1>3, <1>4 DEF Agrees

\* The code that runs is in the table.
LEMMA KnownIs ==
  ASSUME NEW one, Standing(one), Known
  PROVE  /\ pc \in Sites /\ At(pc) \in Idx /\ Insts[At(pc)].addr = pc /\ Here = Insts[At(pc)]
         /\ Here.type \in {"INDIRECT_BRANCH", "FAR_TRANSFER"} => At(pc) \in Tips
  <1>1. pc \in Sites
    BY StandingIs DEF Known, Spots
  <1>2. At(pc) \in Idx /\ Insts[At(pc)].addr = pc /\ Here = Insts[At(pc)]
    BY <1>1, SiteAt DEF Here
  <1> QED BY <1>1, <1>2 DEF Tips

\* The calls of the innermost frame, as they are and with one more.
LEMMA CallsAre ==
  ASSUME NEW one, Standing(one)
  PROVE  /\ Top.calls \in Seq(Sites)
         /\ \A calls \in Seq(Sites) :
              FramesOK(WithCalls(calls)) /\ SameIrqs(frames, WithCalls(calls))
         /\ \A addr \in Sites :
              /\ Append(Top.calls, addr) \in Seq(Sites)
              /\ CallsIn(WithCalls(Append(Top.calls, addr))) = Append(CallsIn(frames), addr)
  <1>1. FramesOK(frames)
    BY StandingIs
  <1>2. Top \in FrameType
    BY <1>1, FrameParts DEF Top
  <1>3. Top.calls \in Seq(Sites)
    BY <1>2 DEF FrameType
  <1>4. ASSUME NEW calls \in Seq(Sites)
        PROVE  FramesOK(WithCalls(calls)) /\ SameIrqs(frames, WithCalls(calls))
    <2> DEFINE fs == frames
               gs == Front(fs) \o << [Last(fs) EXCEPT !.calls = calls] >>
    <2>1. WithCalls(calls) = gs
      BY DEF WithCalls, Top
    <2>2. FramesOK(fs)
      BY <1>1
    <2> HIDE DEF fs
    <2>3. FramesOK(gs) /\ SameIrqs(fs, gs)
      BY <2>2, CallsOK, SameIrqsCall
    <2> QED BY <2>1, <2>3 DEF fs
  <1>5. ASSUME NEW addr \in Sites
        PROVE  /\ Append(Top.calls, addr) \in Seq(Sites)
               /\ CallsIn(WithCalls(Append(Top.calls, addr))) = Append(CallsIn(frames), addr)
    <2> DEFINE fs == frames
               cs == Last(fs).calls
               with(ds) == Front(fs) \o << [Last(fs) EXCEPT !.calls = ds] >>
    <2>1. cs \in Seq(Sites) /\ FramesOK(fs) /\ Top.calls = cs
      BY <1>1, <1>3 DEF Top
    <2>2. WithCalls(Append(Top.calls, addr)) = with(Append(cs, addr))
      BY DEF WithCalls, Top
    <2> HIDE DEF fs, Sites
    <2>3. Append(cs, addr) \in Seq(Sites)
      BY <2>1, AppendProperties
    <2>4. CallsIn(with(Append(cs, addr))) = Append(CallsIn(with(cs)), addr) /\ CallsIn(with(cs)) = CallsIn(fs)
      BY <2>1, CallsInCall
    <2> QED BY <2>1, <2>2, <2>3, <2>4 DEF fs
  <1> QED BY <1>3, <1>4, <1>5

\* Code that has no packet.
LEMMA DirectTo ==
  ASSUME NEW one, Standing(one), pc \in Sites, DirectAt(At(pc)),
         NEW to \in Sites, At(to) = NextAt(At(pc)),
         NEW fs, FramesOK(fs), SameIrqs(frames, fs),
         CallsIn(fs) = CallsAt(At(pc), CallsIn(frames))
  PROVE  LET q == Seen(to, fs, one)
         IN  /\ to \in Spots /\ Onto(one, q)
             /\ Follows(xed, bits, Heading(Cpu(one)), Cpu(one)) => Follows(xed, bits, Heading(q), q)
  <1> DEFINE p == Cpu(one)
             q == Seen(to, fs, one)
             b == bits
  <1>1. to \in Spots
    BY DEF Spots
  <1>2. Onto(one, q) /\ Within(p, q) /\ q.pc = to /\ q.frames = fs /\ CallsIn(fs) \in Stacks
    BY <1>1, OntoIs
  <1>3. /\ b \in Seq(BOOLEAN) /\ Sound(xed) /\ ~xed.walking
        /\ p \in Views /\ p.pc = pc /\ p.frames = frames
    BY StandingIs
  <1>4. /\ p.pc \in Sites /\ q.pc \in Sites /\ DirectAt(At(p.pc)) /\ At(q.pc) = NextAt(At(p.pc))
        /\ CallsIn(q.frames) = CallsAt(At(p.pc), CallsIn(p.frames))
    BY <1>2, <1>3
  <1> HIDE DEF p, q, b
  <1>5. Follows(xed, b, Heading(p), p) => Follows(xed, b, Heading(q), q)
    BY <1>2, <1>3, <1>4, OverDirect
  <1> QED BY <1>1, <1>2, <1>5 DEF p, q, b

\* Anything but a branch.
LEMMA NextTo ==
  ASSUME NEW one, Standing(one), pc \in Sites, Insts[At(pc)].type = "NONE"
  PROVE  LET q == Seen(After(pc), frames, one)
         IN  /\ After(pc) \in Sites /\ After(pc) \in Spots /\ Onto(one, q)
             /\ Follows(xed, bits, Heading(Cpu(one)), Cpu(one)) => Follows(xed, bits, Heading(q), q)
  <1>1. After(pc) \in Sites /\ At(After(pc)) = NextAt(At(pc)) /\ DirectAt(At(pc))
    BY AfterIs DEF NextAt, DirectAt
  <1>2. CallsIn(frames) = CallsAt(At(pc), CallsIn(frames))
    BY DEF CallsAt, CallAt
  <1>3. FramesOK(frames) /\ SameIrqs(frames, frames)
    BY StandingIs, SameIrqsHere
  <1> QED BY <1>1, <1>2, <1>3, DirectTo DEF Spots

\* Code that is no branch.
LEMMA PlainlyKeeps == ASSUME NEW one, Standing(one), Plainly PROVE Agrees(one)
  <1>1. /\ Known /\ Here.type = "NONE" /\ Go(After(pc), frames) /\ Silent
        /\ UNCHANGED <<cur, traced, lost>>
    BY DEF Plainly
  <1>2. pc \in Sites /\ Insts[At(pc)].type = "NONE"
    BY <1>1, KnownIs
  <1>3. bits' \in Seq(BOOLEAN) /\ Phase(xed, hist, wire', bits', Seen(After(pc), frames, one), traced, lost)
    BY <1>1, <1>2, NextTo, Quietly
  <1> QED BY <1>1, <1>2, <1>3, NextTo, StandingIs, GoesTo

\* A conditional branch.
LEMMA CondKeeps == ASSUME NEW one, Standing(one), Cond PROVE Agrees(one)
  <1>1. PICK taken \in BOOLEAN :
          Go(IF taken THEN Here.target ELSE After(pc), frames) /\ EmitBit(taken)
    BY DEF Cond
  <1>2. Known /\ Here.type = "COND_BRANCH" /\ UNCHANGED <<cur, traced, lost>>
    BY DEF Cond, Runs
  <1> DEFINE to == IF taken THEN Here.target ELSE After(pc)
             p == Cpu(one)
             q == Seen(to, frames, one)
             b == bits
  <1>3. pc \in Sites /\ At(pc) \in Idx /\ Insts[At(pc)].type = "COND_BRANCH" /\ Here = Insts[At(pc)]
    BY <1>2, KnownIs
  <1>4. After(pc) \in Sites /\ At(After(pc)) = At(pc) + 1
    BY <1>3, AfterIs
  <1>5. Here.target \in Sites
    BY <1>3, GoesOn
  <1>6. to \in Sites /\ to \in Spots /\ At(to) = ForkAt(At(pc), taken) /\ IsCond(At(pc))
    BY <1>3, <1>4, <1>5 DEF ForkAt, IsCond, Spots
  <1>7. Go(to, frames)
    BY <1>1
  <1> HIDE DEF to
  <1>8. /\ Sound(xed) /\ ~xed.walking /\ b \in Seq(BOOLEAN) /\ FramesOK(frames) /\ SameIrqs(frames, frames)
        /\ p \in Views /\ p.pc = pc /\ p.frames = frames
    BY StandingIs, SameIrqsHere
  <1>9. Onto(one, q) /\ Within(p, q) /\ q.pc = to /\ q.frames = frames
    BY <1>6, <1>8, OntoIs
  <1>10. Follows(xed, b, Heading(p), p) => Follows(xed, Append(b, taken), Heading(q), q)
    <2>1. /\ p.pc \in Sites /\ q.pc \in Sites /\ IsCond(At(p.pc)) /\ At(q.pc) = ForkAt(At(p.pc), taken)
          /\ CallsIn(q.frames) = CallsIn(p.frames)
      BY <1>3, <1>6, <1>8, <1>9
    <2> HIDE DEF p, q, b
    <2> QED BY <1>8, <1>9, <2>1, OverFork
  <1>11. bits' \in Seq(BOOLEAN) /\ Phase(xed, hist, wire', bits', q, traced, lost)
    BY <1>1, <1>9, <1>10, WithBit
  <1> QED BY <1>2, <1>6, <1>7, <1>8, <1>11, GoesTo

\* A direct jump or call.
LEMMA DirectKeeps == ASSUME NEW one, Standing(one), DirectJump \/ DirectCall PROVE Agrees(one)
  <1> DEFINE to == Here.target
  <1>1. /\ Known /\ Here.type = "UNCOND_DIRECT_BRANCH" /\ Silent
        /\ UNCHANGED <<cur, traced, lost>>
        /\ \/ Here.category = "UNCOND_BR" /\ Go(to, frames)
           \/ Here.category = "CALL" /\ Go(to, WithCalls(Append(Top.calls, After(pc))))
    BY DEF DirectJump, DirectCall, Runs
  <1>2. /\ pc \in Sites /\ At(pc) \in Idx /\ Insts[At(pc)].type = "UNCOND_DIRECT_BRANCH"
        /\ Here = Insts[At(pc)]
    BY <1>1, KnownIs
  <1>3. to \in Sites /\ to \in Spots
    BY <1>2, GoesOn DEF Spots
  <1>4. DirectAt(At(pc)) /\ At(to) = NextAt(At(pc))
    BY <1>2 DEF DirectAt, NextAt
  <1> HIDE DEF to
  <1>5. \E fs : Go(to, fs) /\ FramesOK(fs) /\ SameIrqs(frames, fs) /\ CallsIn(fs) = CallsAt(At(pc), CallsIn(frames))
    <2>1. CASE Here.category = "UNCOND_BR" /\ Go(to, frames)
      <3>1. CallsIn(frames) = CallsAt(At(pc), CallsIn(frames))
        BY <1>2, <2>1 DEF CallsAt, CallAt
      <3>2. FramesOK(frames) /\ SameIrqs(frames, frames)
        BY StandingIs, SameIrqsHere
      <3> QED BY <2>1, <3>1, <3>2
    <2>2. CASE Here.category = "CALL" /\ Go(to, WithCalls(Append(Top.calls, After(pc))))
      <3> DEFINE fs == WithCalls(Append(Top.calls, After(pc)))
      <3>1. After(pc) \in Sites /\ At(After(pc)) = At(pc) + 1
        BY <1>2, <2>2, AfterIs
      <3>2. FramesOK(fs) /\ SameIrqs(frames, fs) /\ CallsIn(fs) = Append(CallsIn(frames), After(pc))
        BY <3>1, CallsAre
      <3>3. RetAddr(At(pc) + 1) = After(pc)
        BY <1>2, <2>2, OnwardAt DEF Calls
      <3>4. CallsIn(fs) = CallsAt(At(pc), CallsIn(frames))
        BY <1>2, <2>2, <3>2, <3>3 DEF CallsAt, CallAt
      <3> HIDE DEF fs
      <3>5. Go(to, fs)
        BY <2>2 DEF fs
      <3> QED BY <3>2, <3>4, <3>5
    <2> QED BY <1>1, <2>1, <2>2
  <1>6. PICK fs : /\ Go(to, fs) /\ FramesOK(fs) /\ SameIrqs(frames, fs)
                  /\ CallsIn(fs) = CallsAt(At(pc), CallsIn(frames))
    BY <1>5
  <1>7. LET q == Seen(to, fs, one)
        IN  /\ Onto(one, q)
            /\ Follows(xed, bits, Heading(Cpu(one)), Cpu(one)) => Follows(xed, bits, Heading(q), q)
    BY <1>2, <1>3, <1>4, <1>6, DirectTo
  <1>8. bits' \in Seq(BOOLEAN) /\ Phase(xed, hist, wire', bits', Seen(to, fs, one), traced, lost)
    BY <1>1, <1>7, Quietly
  <1> QED BY <1>1, <1>3, <1>6, <1>8, GoesTo

\* A branch that ends no interrupt.
LEMMA BranchOn ==
  ASSUME NEW one, Standing(one), NEW to \in Spots, NEW fs, FramesOK(fs), pc \in Sites => At(pc) \in Tips,
         one => ~ExitAt(At(pc)) /\ SameIrqs(frames, fs),
         one => \A t \in Stacks : Innermost(t, CallsIn(frames)) =>
                  Innermost(Took(<<At(pc), t>>, to), CallsIn(fs))
  PROVE  LET q == Seen(to, fs, one)
         IN  Onto(one, q) /\ Branching(Cpu(one), q, FALSE)
  <1> DEFINE p == Cpu(one)
             q == Seen(to, fs, one)
  <1>1. q \in Views /\ q.pc = to /\ q.frames = fs /\ q.one = one /\ Onto(one, q) /\ Within(p, q)
    BY OntoIs
  <1>2. p.pc = pc /\ p.frames = frames /\ p.one = one
    BY StandingIs
  <1>3. Before(q, FALSE) = q
    BY DEF Before
  <1> HIDE DEF p, q
  <1>4. Branching(p, q, FALSE)
    BY <1>1, <1>2, <1>3 DEF Branching, Exact
  <1> QED BY <1>1, <1>4 DEF p, q

\* A branch whose target is written.
LEMMA TipKeeps ==
  ASSUME NEW one, Standing(one), NEW to \in Spots, NEW fs, FramesOK(fs), NEW exit,
         Onto(one, Seen(to, fs, one)), Branching(Cpu(one), Seen(to, fs, one), exit),
         Go(to, fs), Emit(<< Pkt("TIP", to, << >>) >>), UNCHANGED <<cur, traced, lost>>
  PROVE  Agrees(one)
  <1>1. Seen(to, fs, one).pc = to
    BY DEF Seen
  <1>2. bits' \in Seq(BOOLEAN) /\ Phase(xed, hist, wire', bits', Seen(to, fs, one), traced, lost)
    BY <1>1, WithTip
  <1> QED BY <1>2, GoesTo

\* Such a branch that ends no interrupt.
LEMMA BranchKeeps ==
  ASSUME NEW one, Standing(one), NEW to \in Spots, NEW fs, FramesOK(fs), pc \in Sites => At(pc) \in Tips,
         one => ~ExitAt(At(pc)) /\ SameIrqs(frames, fs),
         one => \A t \in Stacks : Innermost(t, CallsIn(frames)) =>
                  Innermost(Took(<<At(pc), t>>, to), CallsIn(fs)),
         Go(to, fs), Emit(<< Pkt("TIP", to, << >>) >>), UNCHANGED <<cur, traced, lost>>
  PROVE  Agrees(one)
  <1>1. Onto(one, Seen(to, fs, one)) /\ Branching(Cpu(one), Seen(to, fs, one), FALSE)
    BY BranchOn
  <1> QED BY <1>1, TipKeeps

\* An indirect jump or call.
LEMMA IndirectKeeps == ASSUME NEW one, Standing(one), IndirectJump \/ IndirectCall PROVE Agrees(one)
  <1>1. /\ Known /\ Here.type = "INDIRECT_BRANCH" /\ Here.category \in {"CALL", "UNCOND_BR"}
        /\ UNCHANGED <<cur, traced, lost>>
    BY DEF IndirectJump, IndirectCall, Runs
  <1>2. PICK to \in Targets[pc] :
          /\ Emit(<< Pkt("TIP", to, << >>) >>)
          /\ \/ Here.category = "UNCOND_BR" /\ Go(to, frames)
             \/ Here.category = "CALL" /\ Go(to, WithCalls(Append(Top.calls, After(pc))))
    BY DEF IndirectJump, IndirectCall, Runs
  <1>3. pc \in Sites /\ At(pc) \in Idx /\ Insts[At(pc)].addr = pc /\ Here = Insts[At(pc)] /\ At(pc) \in Tips
    BY <1>1, KnownIs
  <1>4. to \in Spots
    <2>1. Targets[Insts[At(pc)].addr] \subseteq Sites
      BY <1>1, <1>3, CodeAssumption DEF Idx
    <2> QED BY <1>2, <1>3, <2>1 DEF Spots
  <1>5. ~ExitAt(At(pc))
    BY <1>1, <1>3 DEF ExitAt
  <1>6. \A t : <<At(pc), t>>[1] = At(pc) /\ <<At(pc), t>>[2] = t
    OBVIOUS
  <1>7. CASE Here.category = "UNCOND_BR" /\ Go(to, frames)
    <2>1. \A t : Took(<<At(pc), t>>, to) = t
      BY <1>1, <1>3, <1>6, <1>7 DEF Took
    <2>2. FramesOK(frames) /\ SameIrqs(frames, frames)
      BY StandingIs, SameIrqsHere
    <2> QED BY <1>1, <1>2, <1>3, <1>4, <1>5, <1>7, <2>1, <2>2, BranchKeeps
  <1>8. CASE Here.category = "CALL" /\ Go(to, WithCalls(Append(Top.calls, After(pc))))
    <2> DEFINE fs == WithCalls(Append(Top.calls, After(pc)))
    <2>1. After(pc) \in Sites /\ After(pc) = RetAddr(At(pc) + 1)
      BY <1>1, <1>3, <1>8, OnwardAt DEF Calls
    <2>2. FramesOK(fs) /\ SameIrqs(frames, fs) /\ CallsIn(fs) = Append(CallsIn(frames), After(pc))
      BY <2>1, CallsAre
    <2>3. Go(to, fs)
      BY <1>8
    <2> HIDE DEF fs
    <2>4. \A t : Took(<<At(pc), t>>, to) = Append(t, After(pc))
      BY <1>1, <1>3, <1>6, <1>8, <2>1 DEF Took
    <2>5. CallsIn(frames) \in Stacks /\ After(pc) \in Nat
      BY <2>1, StandingIs, SiteAt
    <2>6. ASSUME NEW t \in Stacks, Innermost(t, CallsIn(frames))
          PROVE  Innermost(Took(<<At(pc), t>>, to), CallsIn(fs))
      BY <2>2, <2>4, <2>5, <2>6, InnermostPush
    <2> QED BY <1>1, <1>2, <1>3, <1>4, <1>5, <2>2, <2>3, <2>6, BranchKeeps
  <1> QED BY <1>2, <1>7, <1>8

\* A return.
LEMMA RetKeeps == ASSUME NEW one, Standing(one), Ret PROVE Agrees(one)
  <1> DEFINE calls == Top.calls
             to == Last(calls)
             fs == WithCalls(Front(calls))
  <1>1. /\ Known /\ Here.type = "INDIRECT_BRANCH" /\ Here.category = "RET" /\ calls # << >>
        /\ Go(to, fs) /\ Emit(<< Pkt("TIP", to, << >>) >>)
        /\ UNCHANGED <<cur, traced, lost>>
    BY DEF Ret, Runs
  <1>2. pc \in Sites /\ At(pc) \in Tips /\ Here = Insts[At(pc)]
    BY <1>1, KnownIs
  <1>3. calls \in Seq(Sites)
    BY CallsAre
  <1>4. to \in Sites /\ Front(calls) \in Seq(Sites) /\ calls = Append(Front(calls), to)
    <2> HIDE DEF calls, Sites
    <2>1. Len(calls) \in Nat \ {0} /\ calls # << >>
      BY <1>1, <1>3, EmptySeq
    <2>2. to \in Sites
      BY <1>3, <2>1, ElementOfSeq DEF Last
    <2>3. Front(calls) \in Seq(Sites) /\ calls = Append(Front(calls), to)
      BY <1>3, <2>1, WithoutLast DEF Front, Last
    <2> QED BY <2>2, <2>3
  <1>5. FramesOK(fs) /\ SameIrqs(frames, fs)
    BY <1>4, CallsAre
  <1>6. to \in Spots /\ to \in Nat
    BY <1>4, SpotNat DEF Spots
  <1>7. CallsIn(frames) = Append(CallsIn(fs), to) /\ CallsIn(fs) \in Stacks
    <2> DEFINE gs == frames
               with(cs) == Front(gs) \o << [Last(gs) EXCEPT !.calls = cs] >>
               front == Front(calls)
               a == to
    <2>1. /\ fs = with(front) /\ calls = Last(gs).calls /\ FramesOK(gs)
          /\ front \in Seq(Sites) /\ a \in Sites /\ calls = Append(front, a)
      BY <1>4, StandingIs DEF WithCalls, Top
    <2> HIDE DEF gs, fs, front, a, calls, to, Sites
    <2>2. CallsIn(with(front)) \in Stacks /\ CallsIn(with(Append(front, a))) = Append(CallsIn(with(front)), a)
          /\ CallsIn(with(Last(gs).calls)) = CallsIn(gs)
      BY <2>1, CallsInCall
    <2>3. CallsIn(gs) = Append(CallsIn(fs), a) /\ CallsIn(fs) \in Stacks
      BY <2>1, <2>2
    <2> QED BY <2>3 DEF gs, a
  <1>8. ~ExitAt(At(pc))
    BY <1>1, <1>2 DEF ExitAt
  <1> HIDE DEF to, calls, fs
  <1>9. \A t : Took(<<At(pc), t>>, to) = Popped(t, to)
    <2>1. \A t : <<At(pc), t>>[1] = At(pc) /\ <<At(pc), t>>[2] = t
      OBVIOUS
    <2> QED BY <1>1, <1>2, <2>1 DEF Took
  <1>10. ASSUME NEW t \in Stacks, Innermost(t, CallsIn(frames))
         PROVE  Innermost(Took(<<At(pc), t>>, to), CallsIn(fs))
    BY <1>6, <1>7, <1>9, <1>10, InnermostPop
  <1> QED BY <1>1, <1>2, <1>5, <1>6, <1>8, <1>10, BranchKeeps

\* A system call.
LEMMA SyscallKeeps == ASSUME NEW one, Standing(one), Syscall PROVE Agrees(one)
  <1> DEFINE fs == Append(frames, Frame(After(pc), FALSE))
  <1>1. /\ Known /\ Here.type = "FAR_TRANSFER" /\ Here.category = "SYSCALL"
        /\ Go(SyscallEntry, fs) /\ Emit(<< Pkt("TIP", SyscallEntry, << >>) >>)
        /\ UNCHANGED <<cur, traced, lost>>
    BY DEF Syscall, Runs
  <1>2. pc \in Sites /\ At(pc) \in Idx /\ Here = Insts[At(pc)] /\ At(pc) \in Tips
    BY <1>1, KnownIs
  <1>3. SyscallEntry \in Spots /\ After(pc) \in Spots /\ ~Insts[At(pc)].iret
    <2>1. SyscallEntry \in Sites /\ ~Insts[At(pc)].iret
      BY <1>1, <1>2, CodeAssumption DEF Idx
    <2>2. After(pc) \in Sites
      BY <1>1, <1>2, AfterIs
    <2> QED BY <2>1, <2>2 DEF Spots
  <1>4. FramesOK(fs) /\ SameIrqs(frames, fs) /\ CallsIn(fs) = CallsIn(frames)
    BY <1>3, StandingIs, PushOK, SameIrqsFrames, CallsInFrames
  <1>5. ~ExitAt(At(pc))
    BY <1>3 DEF ExitAt
  <1>6. \A t : Took(<<At(pc), t>>, SyscallEntry) = t
    <2>1. \A t : <<At(pc), t>>[1] = At(pc) /\ <<At(pc), t>>[2] = t
      OBVIOUS
    <2> QED BY <1>1, <1>2, <2>1 DEF Took
  <1> HIDE DEF fs
  <1> QED BY <1>1, <1>2, <1>3, <1>4, <1>5, <1>6, BranchKeeps

\* A return to user code or to what was interrupted.
LEMMA FarReturnKeeps ==
  ASSUME NEW one, Standing(one), FarReturn, one => ReturnsInOrder
  PROVE  Agrees(one)
  <1> DEFINE fs == Front(frames)
             to == Top.ret
  <1>1. /\ Known /\ Here.type = "FAR_TRANSFER" /\ Here.category \in {"SYSRET", "RET"} /\ Len(frames) > 1
        /\ Go(to, fs) /\ Emit(<< Pkt("TIP", to, << >>) >>)
        /\ UNCHANGED <<cur, traced, lost>>
    BY DEF FarReturn, Runs
  <1>2. pc \in Sites /\ At(pc) \in Tips /\ Here = Insts[At(pc)]
    BY <1>1, KnownIs
  <1>3. to \in Spots /\ FramesOK(fs) /\ FramesOK(frames) /\ Top \in FrameType /\ Top = Last(frames)
    BY <1>1, StandingIs, FrameParts, PopOK DEF Top
  <1>4. one => (Here.iret <=> Top.irq) /\ (Top.irq => traced) /\ Top.calls = << >>
    BY <1>1 DEF ReturnsInOrder
  <1>5. \A t : Took(<<At(pc), t>>, to) = t
    <2>1. \A t : <<At(pc), t>>[1] = At(pc) /\ <<At(pc), t>>[2] = t
      OBVIOUS
    <2> QED BY <1>1, <1>2, <2>1 DEF Took
  <1>6. CASE one /\ Top.irq
    <2> DEFINE p == Cpu(one)
               q == Seen(to, fs, one)
    <2>1. Top = Frame(to, TRUE)
      <3>1. Top = [ret |-> Top.ret, irq |-> Top.irq, calls |-> Top.calls] /\ Top.irq \in BOOLEAN
        BY <1>3 DEF FrameType
      <3> QED BY <1>4, <1>6, <3>1 DEF Frame
    <2>2. frames = Append(fs, Frame(to, TRUE))
      <3> DEFINE gs == frames
      <3>1. gs \in Seq(FrameType) /\ gs # << >> /\ Last(gs) = Frame(to, TRUE)
        <4>1. gs \in Seq(FrameType) /\ Len(gs) > 0 /\ Last(gs) = Frame(to, TRUE)
          BY <1>3, <2>1 DEF FramesOK
        <4> HIDE DEF gs, FrameType, to
        <4> QED BY <4>1, EmptySeq
      <3> HIDE DEF gs, FrameType
      <3>2. gs = Append(Front(gs), Last(gs))
        <4> DEFINE S == FrameType
                   front == SubSeq(gs, 1, Len(gs) - 1)
                   last == gs[Len(gs)]
        <4>1. gs \in Seq(S) /\ Len(gs) \in Nat \ {0}
          BY <3>1, EmptySeq
        <4> HIDE DEF S
        <4>2. last \in S
          BY <4>1, ElementOfSeq
        <4>3. /\ front \in Seq(S) /\ Len(front) = Len(gs) - 1
              /\ \A k \in 1 .. Len(gs) - 1 : front[k] = gs[k]
          BY <4>1, WithoutLast
        <4> HIDE DEF front, last
        <4>4. /\ Append(front, last) \in Seq(S) /\ Len(Append(front, last)) = Len(gs)
              /\ \A k \in 1 .. Len(gs) : Append(front, last)[k] = gs[k]
          BY <4>1, <4>2, <4>3, AppendProperties DEF last
        <4>5. gs = Append(front, last)
          BY <4>1, <4>4, SeqEqual
        <4> QED BY <4>5 DEF Front, Last, front, last
      <3> QED BY <3>1, <3>2 DEF gs
    <2>3. CallsIn(frames) = << >>
      <3> HIDE DEF fs, to
      <3> QED BY <1>3, <2>2, CallsInFrames
    <2>4. /\ one \in BOOLEAN /\ (one => OneProcess) /\ p \in Views /\ p.pc = pc /\ p.frames = frames /\ p.one = one
      BY StandingIs
    <2>5. q \in Views /\ q.pc = to /\ q.frames = fs /\ q.one = one
      BY <1>3, <2>4, SeenIs
    <2> HIDE DEF p, q
    <2>6. /\ Before(q, TRUE) \in Views /\ Before(q, TRUE).one = p.one /\ Before(q, TRUE).frames = frames
      BY <2>2, <2>4, <2>5, BeforeIs
    <2>7. Within(p, Before(q, TRUE))
      BY <1>3, <2>4, <2>6, SameIrqsHere DEF Within
    <2>8. ExitAt(At(pc))
      BY <1>1, <1>2, <1>4, <1>6 DEF ExitAt
    <2>9. Branching(p, q, TRUE)
      BY <1>2, <1>6, <2>3, <2>4, <2>5, <2>7, <2>8 DEF Branching
    <2>10. Onto(one, q)
      BY <1>4, <1>6, <2>5 DEF Onto
    <2> HIDE DEF to, fs
    <2> QED BY <1>1, <1>3, <2>9, <2>10, TipKeeps DEF p, q
  <1>7. CASE ~(one /\ Top.irq)
    <2>1. one => ~ExitAt(At(pc)) /\ SameIrqs(frames, fs) /\ CallsIn(fs) = CallsIn(frames)
      <3>1. one => ~ExitAt(At(pc))
        BY <1>2, <1>4, <1>7 DEF ExitAt
      <3>2. one => SameIrqs(frames, fs) /\ CallsIn(fs) = CallsIn(frames)
        BY <1>3, <1>4, <1>7, SameIrqsFrames, CallsInFrames
      <3> QED BY <3>1, <3>2
    <2> HIDE DEF to, fs
    <2> QED BY <1>1, <1>2, <1>3, <1>5, <2>1, BranchKeeps
  <1> QED BY <1>6, <1>7

\* User code of another process.
LEMMA ForeignKeeps == ASSUME NEW one, Standing(one), ForeignBranch \/ ForeignSyscall PROVE Agrees(one)
  <1>1. /\ pc \in Foreign /\ pc \in Spots /\ pc \notin Sites /\ bits \in Seq(BOOLEAN) /\ ~xed.walking
        /\ FramesOK(frames) /\ one = FALSE
    BY StandingIs, ForeignNowhere DEF ForeignBranch, ForeignSyscall, Known, OneProcess
  <1>2. CASE ForeignBranch
    <2> DEFINE p == Cpu(one)
               b == bits
    <2>1. EmitBit(TRUE) /\ UNCHANGED <<cur, thread, traced, lost>>
      BY <1>2 DEF ForeignBranch
    <2>2. Append(b, TRUE) \in Seq(BOOLEAN)
      BY <1>1, AppendProperties
    <2>3. p \in Views /\ p.pc \in Foreign /\ ~p.one
      BY <1>1, StandingIs
    <2>4. Onto(one, p) /\ Within(p, p)
      <3>1. p = Seen(pc, frames, one)
        BY DEF Cpu
      <3> QED BY <1>1, <3>1, OntoIs
    <2>5. Follows(xed, b, Heading(p), p) => Follows(xed, Append(b, TRUE), Heading(p), p)
      <3> HIDE DEF p, b
      <3> QED BY <1>1, <2>2, <2>3, <2>4, OverForeign DEF b
    <2>6. bits' \in Seq(BOOLEAN) /\ Phase(xed, hist, wire', bits', p, traced, lost)
      BY <2>1, <2>4, <2>5, WithBit
    <2>7. pc' = pc /\ frames' = frames /\ (Threads => Threads') /\ traced' = traced /\ lost' = lost
      BY <2>1 DEF pc, frames, Threads
    <2>8. Seen(pc', frames', one) = p
      BY <2>7 DEF Cpu
    <2> QED BY <2>6, <2>7, <2>8 DEF Agrees, Standing, Processors, Whole
  <1>3. CASE ForeignSyscall
    <2> DEFINE fs == Append(frames, Frame(pc, FALSE))
    <2>1. /\ Go(SyscallEntry, fs) /\ Emit(<< Pkt("TIP", SyscallEntry, << >>) >>)
          /\ UNCHANGED <<cur, traced, lost>>
      BY <1>3 DEF ForeignSyscall
    <2>2. FramesOK(fs)
      BY <1>1, PushOK
    <2>3. SyscallEntry \in Spots
      BY <1>1, ForeignAssumption DEF Spots
    <2> HIDE DEF fs
    <2> QED BY <1>1, <2>1, <2>2, <2>3, BranchKeeps
  <1> QED BY <1>2, <1>3

\* What comes inside of an interrupt leaves the contexts alone.
LEMMA FillerIs ==
  ASSUME NEW filler \in Fillers
  PROVE  filler \in Seq(Plains(AsyncSkip)) /\ Len(filler) + 3 <= INTEL_PT_PKT_HISTORY
  <1> DEFINE S == {Pkt(type, val, << >>) : type \in AsyncSkip, val \in Pgds \cup {0}}
  <1>1. /\ filler \in Seq(S) /\ \A k \in DOMAIN filler : filler[k].type = "PIP" => filler[k].val \in Pgds
        /\ Len(filler) + 3 <= INTEL_PT_PKT_HISTORY
    BY FillersAssumption
  <1>2. ASSUME NEW p \in S, p.type = "PIP" => p.val \in Pgds PROVE p \in Plains(AsyncSkip)
    <2>1. PICK type \in AsyncSkip, val \in Pgds \cup {0} : p = Pkt(type, val, << >>)
      OBVIOUS
    <2>2. type \in PktTypes /\ val \in Nat
      BY PlainSets, PgdsAssumption
    <2>3. p \in AnyPkt /\ p.type \in AsyncSkip
      BY <2>1, <2>2 DEF Pkt, AnyPkt
    <2> QED BY <1>2, <2>3 DEF Plains
  <1> HIDE DEF S
  <1>3. filler \in [1 .. Len(filler) -> S] /\ Len(filler) \in Nat /\ DOMAIN filler = 1 .. Len(filler)
    BY <1>1, LenProperties
  <1>4. \A k \in 1 .. Len(filler) : filler[k] \in Plains(AsyncSkip)
    BY <1>1, <1>2, <1>3
  <1> DEFINE T == Plains(AsyncSkip)
  <1> HIDE DEF T
  <1>5. filler \in [1 .. Len(filler) -> T]
    BY <1>3, <1>4 DEF T
  <1>6. filler \in Seq(T)
    BY <1>3, <1>5, SeqDef
  <1> QED BY <1>1, <1>6 DEF T

\* An interrupt.
LEMMA IrqKeeps == ASSUME NEW one, Standing(one), Irq PROVE Agrees(one)
  <1>1. PICK filler \in Fillers :
          Emit(<< Pkt("FUP", pc, << >>) >> \o filler \o << Pkt("TIP", IrqEntry, << >>) >>)
    BY DEF Irq
  <1> DEFINE fs == Append(frames, Frame(pc, TRUE))
             p == Pkt("FUP", pc, << >>)
             q == Pkt("TIP", IrqEntry, << >>)
             ps == << p >> \o filler \o << q >>
             from == Cpu(one)
             to == Seen(IrqEntry, fs, one)
  <1>2. traced /\ Go(IrqEntry, fs) /\ UNCHANGED <<cur, traced, lost>>
    BY DEF Irq
  <1>3. /\ pc \in Spots /\ IrqEntry \in Spots /\ FramesOK(frames) /\ traced \in BOOLEAN
        /\ one \in BOOLEAN /\ (one => OneProcess)
        /\ from \in Views /\ from.pc = pc /\ from.frames = frames /\ from.one = one
    BY StandingIs, CodeAssumption DEF Spots
  <1>4. FramesOK(fs)
    BY <1>3, PushOK
  <1>5. filler \in Seq(Plains(AsyncSkip)) /\ Len(filler) + 3 <= INTEL_PT_PKT_HISTORY
    BY FillerIs
  <1>6. filler \in Seq(AnyPkt) /\ p \in AnyPkt /\ q \in AnyPkt
    <2>1. Plains(AsyncSkip) \subseteq AnyPkt /\ {"FUP", "TIP"} \subseteq PktTypes
      BY PlainSets DEF PktTypes, IpTypes
    <2>2. filler \in Seq(AnyPkt)
      BY <1>5, <2>1, SeqMonotonic
    <2> QED BY <1>3, <2>1, <2>2, SpotNat DEF Pkt, AnyPkt
  <1>7. ps \in Seq(AnyPkt) /\ ps = << p >> \o (filler \o << q >>)
    <2> HIDE DEF p, q, AnyPkt
    <2>1. << p >> \in Seq(AnyPkt) /\ << q >> \in Seq(AnyPkt)
      BY <1>6
    <2>2. << p >> \o filler \in Seq(AnyPkt)
      BY <1>6, <2>1, ConcatProperties
    <2>3. ps \in Seq(AnyPkt)
      BY <2>1, <2>2, ConcatProperties
    <2> QED BY <1>6, <2>1, <2>3, ConcatAssociative
  <1>8. IrqWire(ps, pc, IrqEntry)
    <2> HIDE DEF ps
    <2> QED BY <1>5, <1>7 DEF IrqWire, TipTo
  <1>9. Emit(ps)
    BY <1>1
  <1>10. to \in Views /\ to.pc = IrqEntry /\ to.frames = fs /\ to.one = one
    <2> HIDE DEF fs
    <2> QED BY <1>3, <1>4, SeenIs
  <1>11. Interrupts(from, to)
    <2>1. Len(frames) >= 1
      BY <1>3, FrameParts
    <2> HIDE DEF from, to
    <2> QED BY <1>3, <1>10, <2>1 DEF Interrupts
  <1> HIDE DEF fs, ps, p, q, from, to
  <1>12. Onto(one, to)
    BY <1>2, <1>10 DEF Onto
  <1>13. Comes(ps, Heading(from), from, to, traced)
    BY <1>2, <1>3, <1>8, <1>10, <1>11 DEF Comes
  <1>14. Follows(xed, bits, Heading(from), from) => Meets(ps, to, traced)
    BY <1>13 DEF Meets
  <1>15. bits' \in Seq(BOOLEAN) /\ Phase(xed, hist, wire', bits', to, traced, lost)
    BY <1>3, <1>7, <1>9, <1>12, <1>14, Written DEF from
  <1> QED BY <1>2, <1>3, <1>4, <1>15, GoesTo DEF to

\* Code at which an event happens goes on behind it.
LEMMA PointIs ==
  ASSUME NEW one, Standing(one), pc \in Points
  PROVE  LET q == Seen(After(pc), frames, one)
         IN  /\ pc \in Sites /\ After(pc) \in Spots /\ Onto(one, q)
             /\ Follows(xed, bits, Heading(Cpu(one)), Cpu(one)) => Follows(xed, bits, Heading(q), q)
  <1>1. pc \in Sites /\ Insts[At(pc)].type = "NONE"
    BY CodeAssumption
  <1> QED BY <1>1, NextTo

\* Status packets say nothing of where the processor is.
LEMMA StatusWritten ==
  ASSUME NEW one, Standing(one), NEW q, Onto(one, q), NEW u \in Seq(Plains(PlainTypes)),
         NEW ps, ps = u \/ ps = u \o SyncEnd(q.pc), Emit(ps),
         Follows(xed, bits, Heading(Cpu(one)), Cpu(one)) => Follows(xed, bits, Heading(q), q)
  PROVE  bits' \in Seq(BOOLEAN) /\ Phase(xed, hist, wire', bits', q, traced, lost)
  <1>1. ps \in Seq(AnyPkt)
    <2>1. Plains(PlainTypes) \subseteq AnyPkt /\ {"FUP", "PSBEND"} \subseteq PktTypes
      BY PlainSets DEF PktTypes, IpTypes
    <2>2. u \in Seq(AnyPkt)
      BY <2>1, SeqMonotonic
    <2>3. q.pc \in Spots
      BY DEF Onto, Views
    <2>4. Pkt("FUP", q.pc, << >>) \in AnyPkt /\ Plain("PSBEND") \in AnyPkt
      BY <2>1, <2>3, SpotNat DEF Pkt, Plain, AnyPkt
    <2> HIDE DEF AnyPkt
    <2>5. SyncEnd(q.pc) \in Seq(AnyPkt)
      BY <2>4 DEF SyncEnd
    <2>6. u \o SyncEnd(q.pc) \in Seq(AnyPkt)
      BY <2>2, <2>5, ConcatProperties
    <2> QED BY <2>2, <2>6
  <1>2. traced \in BOOLEAN
    BY StandingIs
  <1>3. CASE traced
    <2>1. Comes(ps, Heading(q), q, q, traced)
      BY <1>3 DEF Comes, Trailing
    <2>2. Follows(xed, bits, Heading(Cpu(one)), Cpu(one)) => Meets(ps, q, traced)
      BY <2>1 DEF Meets
    <2> QED BY <1>1, <1>2, <2>2, Written
  <1>4. CASE ~traced
    <2>1. Hushed(xed, hist, wire, bits, Cpu(one), traced, lost)
      BY <1>4, StandingIs DEF Ready
    <2>2. wire' = << >> /\ bits' = << >>
      BY <1>4 DEF Emit
    <2>3. Hushed(xed, hist, wire', bits', q, traced, lost)
      BY <2>1, <2>2, HushedMoves
    <2>4. << >> \in Seq(BOOLEAN)
      OBVIOUS
    <2> QED BY <2>2, <2>3, <2>4 DEF Phase
  <1> QED BY <1>2, <1>3, <1>4

\* So does one packet.
LEMMA PlainWritten ==
  ASSUME NEW one, Standing(one), NEW q, Onto(one, q), NEW p \in Plains(PlainTypes), Emit(<< p >>),
         Follows(xed, bits, Heading(Cpu(one)), Cpu(one)) => Follows(xed, bits, Heading(q), q)
  PROVE  bits' \in Seq(BOOLEAN) /\ Phase(xed, hist, wire', bits', q, traced, lost)
  <1> DEFINE S == Plains(PlainTypes)
             u == << p >>
  <1>1. u \in Seq(S)
    <2>1. p \in S
      OBVIOUS
    <2> HIDE DEF S
    <2> QED BY <2>1
  <1>2. Emit(u)
    OBVIOUS
  <1> HIDE DEF u
  <1> QED BY <1>1, <1>2, StatusWritten

\* The decoder follows no calls across a switch to another process.
LEMMA OtherFollows ==
  ASSUME NEW one, Standing(one), ~one, NEW addr \in Spots, NEW fs, FramesOK(fs), NEW gs, FramesOK(gs),
         Follows(xed, bits, Heading(Seen(addr, fs, one)), Seen(addr, fs, one))
  PROVE  Follows(xed, bits, Heading(Seen(addr, gs, one)), Seen(addr, gs, one))
  <1> DEFINE p == Seen(addr, fs, one)
             q == Seen(addr, gs, one)
             b == bits
  <1>1. /\ p \in Views /\ p.pc = addr /\ p.one = one /\ q \in Views /\ q.pc = addr /\ q.one = one
        /\ b \in Seq(BOOLEAN) /\ ~xed.walking
    BY StandingIs, SeenIs
  <1>2. Follows(xed, b, Heading(p), p)
    OBVIOUS
  <1> HIDE DEF p, q, b
  <1>3. Heading(p) = Heading(q)
    BY <1>1, HeadingSame DEF Exact
  <1>4. /\ Empty(this_ctx(xed)) /\ Chain(xed, p)
        /\ this_ctx(xed).last_inst # NoInst =>
             On(Place(this_ctx(xed)), b, Heading(p)) /\ Stops(this_ctx(xed).last_inst)
    BY <1>1, <1>2, IdleFollows
  <1>5. Chain(xed, q)
    BY <1>1, <1>4, ChainMoves
  <1>6. Follows(xed, b, Heading(q), q)
    BY <1>1, <1>3, <1>4, <1>5, IdleFollows
  <1> QED BY <1>6 DEF q, b

\* Another thread runs: it was left where this one is.
LEMMA SwitchKeeps == ASSUME NEW one, Standing(one), Switch PROVE Agrees(one)
  <1>1. PICK next \in DOMAIN thread : cur' = next /\ Emit(<< Pkt("PIP", next, << >>) >>)
    BY DEF Switch
  <1>2. pc \in SwitchPoints /\ Go(After(pc), frames) /\ traced' = traced /\ lost' = lost
    BY DEF Switch
  <1> DEFINE to == After(pc)
             gs == thread'[next].frames
             here == Seen(to, frames, one)
             there == Seen(to, gs, one)
             r == [pc |-> to, frames |-> frames]
  <1>3. /\ pc \in Sites /\ to \in Spots /\ Onto(one, here)
        /\ Follows(xed, bits, Heading(Cpu(one)), Cpu(one)) => Follows(xed, bits, Heading(here), here)
    BY <1>2, PointIs DEF Points
  <1>4. cur \in DOMAIN InitThread /\ DOMAIN thread = DOMAIN InitThread /\ next \in DOMAIN InitThread
        /\ FramesOK(frames) /\ (one => OneProcess) /\ one \in BOOLEAN
    BY StandingIs DEF Standing, Processors, Threads
  <1>5. thread' = [thread EXCEPT ![cur] = r] /\ r.pc = to /\ r.frames = frames
    BY <1>2 DEF Go
  <1>6. ASSUME next # cur PROVE \A addr \in SwitchPoints : to = After(addr)
    <2>1. PICK t \in DOMAIN InitThread : t # PerfedPgd
      BY <1>4, <1>6
    <2>2. \A addr \in SwitchPoints : InitThread[t].pc = After(addr)
      BY <2>1, ThreadsAssumption
    <2> QED BY <1>2, <2>2
  <1>7. /\ \A t \in DOMAIN InitThread : thread[t].pc \in Spots /\ FramesOK(thread[t].frames)
        /\ \A t \in DOMAIN InitThread \ {cur} : \A addr \in SwitchPoints : thread[t].pc = After(addr)
    BY DEF Standing, Processors, Threads
  <1> HIDE DEF to, r, here, there
  <1>8. /\ DOMAIN thread' = DOMAIN InitThread /\ thread'[cur] = r
        /\ \A t \in DOMAIN InitThread \ {cur} : thread'[t] = thread[t]
    BY <1>4, <1>5
  <1>9. \A t \in DOMAIN InitThread : thread'[t].pc \in Spots /\ FramesOK(thread'[t].frames)
    BY <1>3, <1>4, <1>5, <1>7, <1>8
  <1>10. \A t \in DOMAIN InitThread \ {next} : \A addr \in SwitchPoints : thread'[t].pc = After(addr)
    <2> SUFFICES ASSUME NEW t \in DOMAIN InitThread \ {next}, NEW addr \in SwitchPoints
                 PROVE  thread'[t].pc = After(addr)
      OBVIOUS
    <2>1. CASE t = cur
      BY <1>5, <1>6, <1>8, <2>1
    <2>2. CASE t # cur
      BY <1>7, <1>8, <2>2
    <2> QED BY <2>1, <2>2
  <1>11. Threads'
    BY <1>1, <1>4, <1>8, <1>9, <1>10 DEF Threads
  <1>12. pc' = to /\ frames' = gs /\ FramesOK(gs)
    <2>1. thread'[next].pc = to
      <3>1. CASE next = cur
        BY <1>5, <1>8, <3>1
      <3>2. CASE next # cur
        BY <1>2, <1>4, <1>7, <1>8, <3>2 DEF to
      <3> QED BY <3>1, <3>2
    <2>2. FramesOK(gs)
      BY <1>4, <1>9
    <2> QED BY <1>1, <2>1, <2>2 DEF pc, frames
  <1>13. one => gs = frames
    <2>1. one => next = cur
      BY <1>4 DEF OneProcess
    <2> QED BY <1>5, <1>8, <2>1
  <1> HIDE DEF gs
  <1>14. Onto(one, there)
    <2>1. one => SameIrqs(frames, gs)
      BY <1>4, <1>13, SameIrqsHere
    <2> QED BY <1>3, <1>12, <2>1, OntoIs DEF there
  <1>15. Follows(xed, bits, Heading(Cpu(one)), Cpu(one)) => Follows(xed, bits, Heading(there), there)
    <2>1. CASE one
      <3>1. here = there
        BY <1>13, <2>1 DEF here, there
      <3> QED BY <1>3, <3>1
    <2>2. CASE ~one
      <3>1. Follows(xed, bits, Heading(here), here) => Follows(xed, bits, Heading(there), there)
        BY <1>3, <1>4, <1>12, <2>2, OtherFollows DEF here, there
      <3> QED BY <1>3, <3>1
    <2> QED BY <1>4, <2>1, <2>2
  <1>16. Pkt("PIP", next, << >>) \in Plains(PlainTypes)
    <2>1. next \in Pgds /\ next \in Nat /\ "PIP" \in PktTypes /\ "PIP" \in PlainTypes
      BY <1>4, ThreadsAssumption, PgdsAssumption DEF PktTypes, PlainTypes
    <2> QED BY <2>1 DEF Plains, Pkt, AnyPkt
  <1>17. bits' \in Seq(BOOLEAN) /\ Phase(xed, hist, wire', bits', there, traced, lost)
    BY <1>1, <1>14, <1>15, <1>16, PlainWritten
  <1>18. traced \in BOOLEAN /\ lost \in BOOLEAN /\ (Whole => traced)
    BY StandingIs DEF Standing, Processors
  <1> QED BY <1>2, <1>11, <1>12, <1>17, <1>18 DEF Agrees, Processors, Whole, there

\* The trace stops.
LEMMA PtOffKeeps == ASSUME NEW one, Standing(one), PtOff PROVE Agrees(one)
  <1> DEFINE to == After(pc)
             ps == << Pkt("TIP_PGD", NoAddr, << >>) >>
             q == Seen(to, frames, one)
  <1>1. /\ pc \in PtOffPoints /\ Go(to, frames) /\ Emit(ps) /\ traced' = FALSE
        /\ cur' = cur /\ lost' = lost
    BY DEF PtOff
  <1>2. /\ to \in Spots /\ Onto(one, q)
        /\ Follows(xed, bits, Heading(Cpu(one)), Cpu(one)) => Follows(xed, bits, Heading(q), q)
    BY <1>1, PointIs DEF Points
  <1>3. ps \in Seq(AnyPkt)
    <2>1. "TIP_PGD" \in PktTypes /\ NoAddr \in Nat
      BY DEF PktTypes, IpTypes, NoAddr
    <2>2. Pkt("TIP_PGD", NoAddr, << >>) \in AnyPkt
      BY <2>1 DEF Pkt, AnyPkt
    <2> HIDE DEF AnyPkt
    <2> QED BY <2>2
  <1>4. Comes(ps, Heading(q), q, q, FALSE)
    BY DEF Comes
  <1>5. FramesOK(frames) /\ lost \in BOOLEAN
    BY StandingIs
  <1> HIDE DEF to, ps, q
  <1>6. Follows(xed, bits, Heading(Cpu(one)), Cpu(one)) => Meets(ps, q, FALSE)
    BY <1>2, <1>4 DEF Meets
  <1>7. bits' \in Seq(BOOLEAN) /\ Phase(xed, hist, wire', bits', q, FALSE, lost)
    BY <1>1, <1>2, <1>3, <1>6, Written
  <1>8. Threads' /\ pc' = to /\ frames' = frames
    BY <1>1, <1>2, <1>5, GoTo DEF Standing, Processors
  <1>9. ~Whole
    BY <1>1 DEF Whole
  <1>10. Processors'
    BY <1>1, <1>5, <1>7, <1>8, <1>9 DEF Processors, Whole
  <1>11. Phase(xed, hist, wire', bits', Seen(pc', frames', one), traced', lost')
    BY <1>1, <1>7, <1>8 DEF q
  <1> QED BY <1>10, <1>11 DEF Agrees

\* The trace starts again.
LEMMA PtOnKeeps == ASSUME NEW one, Standing(one), PtOn PROVE Agrees(one)
  <1> DEFINE to == After(pc)
             q == Seen(to, frames, one)
  <1>1. /\ pc \in PtOnPoints /\ ~lost /\ Go(to, frames) /\ traced' = TRUE
        /\ cur' = cur /\ lost' = lost
        /\ bits' = IF traced THEN bits ELSE << >>
        /\ wire' = IF traced THEN wire ELSE << Pkt("TIP_PGE", to, << >>) >>
    BY DEF PtOn
  <1>2. /\ to \in Spots /\ Onto(one, q)
        /\ Follows(xed, bits, Heading(Cpu(one)), Cpu(one)) => Follows(xed, bits, Heading(q), q)
    BY <1>1, PointIs DEF Points
  <1>3. FramesOK(frames) /\ lost = FALSE /\ traced \in BOOLEAN /\ (Whole => traced)
    BY <1>1, StandingIs DEF Standing, Processors
  <1>4. q.pc = to
    BY DEF Seen
  <1> HIDE DEF to, q
  <1>5. bits' \in Seq(BOOLEAN) /\ Phase(xed, hist, wire', bits', q, TRUE, FALSE)
    <2>1. CASE traced
      <3>1. Silent /\ traced = TRUE
        BY <1>1, <1>3, <2>1 DEF Silent
      <3> QED BY <1>2, <1>3, <3>1, Quietly
    <2>2. CASE ~traced
      <3>1. bits' = << >> /\ wire' = << Pkt("TIP_PGE", to, << >>) >>
        BY <1>1, <2>2
      <3>2. Hushed(xed, hist, wire, bits, Cpu(one), traced, lost)
        BY <2>2, StandingIs DEF Ready
      <3>3. Hushed(xed, hist, << >>, << >>, q, traced, lost)
        BY <1>2, <3>2, HushedMoves
      <3>4. Waits(xed) /\ Chain(xed, q)
        BY <1>3, <3>3 DEF Hushed
      <3>5. ~Exact(q)
        BY <1>3, <2>2 DEF Exact
      <3>6. Restarting(xed, hist, wire', bits', q, TRUE, FALSE)
        BY <1>4, <3>1, <3>4, <3>5 DEF Restarting, Rests
      <3>7. << >> \in Seq(BOOLEAN)
        OBVIOUS
      <3> QED BY <3>1, <3>6, <3>7 DEF Phase
    <2> QED BY <2>1, <2>2
  <1>6. Threads' /\ pc' = to /\ frames' = frames
    BY <1>1, <1>2, <1>3, GoTo DEF Standing, Processors
  <1>7. Processors'
    BY <1>1, <1>3, <1>5, <1>6 DEF Processors, Whole
  <1>8. traced' = TRUE /\ lost' = FALSE
    BY <1>1, <1>3
  <1>9. Phase(xed, hist, wire', bits', Seen(pc', frames', one), traced', lost')
    BY <1>5, <1>6, <1>8 DEF q
  <1> QED BY <1>7, <1>9 DEF Agrees

\* Nothing runs.
LEMMA Stays ==
  ASSUME NEW one, Standing(one), UNCHANGED <<cur, thread, traced>>, lost' \in BOOLEAN, bits' \in Seq(BOOLEAN),
         Phase(xed, hist, wire', bits', Cpu(one), traced, lost')
  PROVE  Agrees(one)
  <1>1. pc' = pc /\ frames' = frames /\ (Threads => Threads') /\ traced' = traced
    BY DEF pc, frames, Threads
  <1>2. Seen(pc', frames', one) = Cpu(one)
    BY <1>1 DEF Cpu
  <1>3. Processors'
    BY <1>1 DEF Standing, Processors, Whole
  <1> QED BY <1>1, <1>2, <1>3 DEF Agrees

\* A PSB+.
LEMMA PsbPlusKeeps == ASSUME NEW one, Standing(one), PsbPlus PROVE Agrees(one)
  <1> DEFINE S == Plains(PlainTypes)
             psbs == [k \in 1 .. 4 |-> Plain("PSB")]
             u == psbs \o Status
             ps == psbs \o Status \o << Pkt("FUP", pc, << >>), Plain("PSBEND") >>
  <1>1. Emit(ps) /\ UNCHANGED <<cur, thread, traced, lost>>
    BY DEF PsbPlus
  <1>2. pc \in Spots /\ cur \in DOMAIN InitThread /\ FramesOK(frames) /\ lost \in BOOLEAN
    BY StandingIs
  <1>3. {"PSB", "TSC", "TSC_MTC", "PIP", "CBR", "MODE_EXEC"} \subseteq PktTypes \cap PlainTypes
    BY DEF PktTypes, PlainTypes, RecordTypes, TimingTypes
  <1>4. cur \in Pgds /\ cur \in Nat
    BY <1>2, ThreadsAssumption, PgdsAssumption
  <1>5. /\ Plain("PSB") \in S /\ Plain("TSC") \in S /\ Plain("TSC_MTC") \in S /\ Plain("CBR") \in S
        /\ Plain("MODE_EXEC") \in S /\ Pkt("PIP", cur, << >>) \in S
    BY <1>3, <1>4 DEF Plains, Plain, Pkt, AnyPkt
  <1> HIDE DEF S
  <1>6. u \in Seq(S)
    <2>1. psbs \in Seq(S)
      <3>1. psbs \in [1 .. 4 -> S] /\ 4 \in Nat
        BY <1>5
      <3> HIDE DEF psbs
      <3> QED BY <3>1, SeqDef
    <2>2. Status \in Seq(S)
      BY <1>5 DEF Status
    <2> HIDE DEF psbs
    <2> QED BY <2>1, <2>2, ConcatProperties
  <1>7. ps = u \o SyncEnd(pc)
    BY DEF SyncEnd
  <1> HIDE DEF u, ps
  <1>8. Onto(one, Cpu(one)) /\ Cpu(one).pc = pc
    BY <1>2, OntoIs, SameIrqsHere DEF Cpu
  <1>9. bits' \in Seq(BOOLEAN) /\ Phase(xed, hist, wire', bits', Cpu(one), traced, lost)
    BY <1>1, <1>6, <1>7, <1>8, StatusWritten DEF S
  <1> QED BY <1>1, <1>2, <1>9, Stays

\* An overflow begins: what was not written is lost.
LEMMA LoseKeeps == ASSUME NEW one, Standing(one), Lose PROVE Agrees(one)
  <1>1. /\ traced /\ ~lost /\ lost' = TRUE /\ bits' = << >> /\ wire' = wire /\ wire = << >>
        /\ UNCHANGED <<cur, thread, traced>>
    BY DEF Lose, Standing
  <1>2. Ready(xed, hist, bits, Cpu(one), traced, lost)
    BY <1>1, StandingIs DEF Hushed
  <1>3. Waits(xed)
    BY <1>2, StandingIs, IdleFollows DEF Ready, Waits, Chain
  <1>4. Hushed(xed, hist, wire', bits', Cpu(one), traced, lost')
    BY <1>1, <1>3 DEF Hushed
  <1>5. << >> \in Seq(BOOLEAN)
    OBVIOUS
  <1>6. Phase(xed, hist, wire', bits', Cpu(one), traced, lost')
    BY <1>4 DEF Phase
  <1> QED BY <1>1, <1>5, <1>6, Stays

\* It ends, with the place where the trace goes on.
LEMMA RecoverKeeps == ASSUME NEW one, Standing(one), Recover PROVE Agrees(one)
  <1>1. /\ lost /\ lost' = FALSE /\ UNCHANGED <<cur, thread, bits, traced>>
        /\ wire' = << Plain("OVF") >> \o (IF traced THEN << Pkt("FUP", pc, << >>) >> ELSE << >>)
    BY DEF Recover
  <1>2. bits = << >> /\ Waits(xed) /\ Cpu(one).pc = pc
    BY <1>1, StandingIs DEF Ready, Hushed
  <1>3. Overflowing(xed, hist, wire', bits', Cpu(one), traced, lost')
    BY <1>1, <1>2 DEF Overflowing
  <1>4. bits' \in Seq(BOOLEAN)
    BY <1>1, StandingIs
  <1>5. Phase(xed, hist, wire', bits', Cpu(one), traced, lost')
    BY <1>3 DEF Phase
  <1> QED BY <1>1, <1>4, <1>5, Stays

\* Every step of the processor.
LEMMA CpuSteps ==
  ASSUME NEW one, Standing(one), CpuStep, one => ReturnsInOrder
  PROVE  Agrees(one)
  BY PlainlyKeeps, CondKeeps, DirectKeeps, IndirectKeeps, RetKeeps, SyscallKeeps, FarReturnKeeps,
     ForeignKeeps, IrqKeeps, SwitchKeeps, PtOffKeeps, PtOnKeeps, PsbPlusKeeps, LoseKeeps, RecoverKeeps
  DEF CpuStep

-----------------------------------------------------------------------------
(* The invariant.                                                          *)

\* Decoder and processor agree: what each keeps is in order, and, unless the
\* decoder has stopped with an error, where the one is says where the other is.
Agreement(one) ==
  /\ Inv /\ Processors /\ last_bep_fup = 0 /\ last_ptw_fup = 0
  /\ Ok(xed) => Phase(xed, hist, wire, bits, Cpu(one), traced, lost)

\* They do at the start: the TIP_PGE is to come.
LEMMA AgreementInit == ASSUME NEW one, TraceInit PROVE Agreement(one)
  <1>1. Inv /\ last_bep_fup = 0 /\ last_ptw_fup = 0
    BY InitInv DEF TraceInit, PtInit
  <1>2. /\ cur = PerfedPgd /\ thread = InitThread /\ bits = << >> /\ traced = TRUE /\ lost = FALSE
        /\ wire = << Pkt("PIP", PerfedPgd, << >>), Pkt("TIP_PGE", InitThread[PerfedPgd].pc, << >>) >>
    BY DEF TraceInit, CpuInit
  <1>3. PerfedPgd \in DOMAIN InitThread /\ PerfedPgd \in Pgds
    BY ThreadsAssumption, PgdsAssumption
  <1>4. ASSUME NEW t \in DOMAIN InitThread
        PROVE  InitThread[t].pc \in Spots /\ FramesOK(InitThread[t].frames)
    <2>1. LET fs == InitThread[t].frames
          IN  /\ InitThread[t].pc \in Spots
              /\ fs \in Seq(FrameType)
              /\ Len(fs) > 0 /\ \A k \in 2 .. Len(fs) : fs[k].ret # NoAddr
      BY <1>4, ThreadsAssumption DEF Spots, FrameType
    <2> QED BY <2>1 DEF FramesOK
  <1>5. \A t \in DOMAIN InitThread \ {PerfedPgd} : \A addr \in SwitchPoints : InitThread[t].pc = After(addr)
    BY ThreadsAssumption
  <1>6. Processors
    <2>1. Threads
      BY <1>2, <1>3, <1>4, <1>5 DEF Threads
    <2>2. bits \in Seq(BOOLEAN)
      <3>1. << >> \in Seq(BOOLEAN)
        OBVIOUS
      <3> QED BY <1>2, <3>1
    <2> QED BY <1>2, <2>1, <2>2 DEF Processors
  <1>7. Rests(xed, Cpu(one)) /\ this_ctx(xed).call_stack = << >>
    <2>1. xed.ctx_idx = 0 /\ ~xed.walking
      BY DEF TraceInit, PtInit, XedInit
    <2>2. Empty(this_ctx(xed)) /\ this_ctx(xed).call_stack = << >>
      BY <2>1, SizesAssumption DEF TraceInit, PtInit, XedInit, this_ctx, Empty
    <2>3. Rooted(xed)
      BY SizesAssumption DEF TraceInit, PtInit, XedInit, Rooted
    <2> QED BY <2>1, <2>2, <2>3, ChainNone DEF Waits, Rests
  <1>8. Cpu(one).pc = InitThread[PerfedPgd].pc
    BY <1>2 DEF pc, Cpu, Seen
  <1>9. Restarting(xed, hist, wire, bits, Cpu(one), traced, lost)
    BY <1>2, <1>3, <1>7, <1>8 DEF Restarting
  <1> QED BY <1>1, <1>6, <1>9 DEF Agreement, Phase

\* The processor stays where it is while the decoder runs.
LEMMA SameCpu ==
  ASSUME NEW one \in BOOLEAN, one => OneProcess, Processors, UNCHANGED <<cur, thread, bits, traced, lost>>
  PROVE  Processors' /\ Cpu(one)' = Cpu(one) /\ InTable(Cpu(one))
  <1>1. pc' = pc /\ frames' = frames
    BY DEF pc, frames
  <1>2. Processors'
    BY DEF Processors, Threads, Whole
  <1>3. InTable(Cpu(one))
    BY Running, SeenIs DEF Processors, Cpu
  <1> QED BY <1>1, <1>2, <1>3 DEF Cpu, Seen

\* A turn of the walk.
LEMMA WalkAgrees ==
  ASSUME NEW one \in BOOLEAN, one => OneProcess, Agreement(one), WalkStep, UNCHANGED cpuVars
  PROVE  Agreement(one)'
  <1>1. Inv'
    BY WalkKeepsInv DEF Agreement
  <1>2. last_bep_fup' = 0 /\ last_ptw_fup' = 0 /\ Ok(xed)
    BY DEF Agreement, WalkStep, ptVars, Walk, WalkLost, WalkPlain, WalkCond, WalkDirect, WalkIndirect,
           WalkFar, WalkingAt, Walking
  <1>3. /\ wire' = wire /\ bits' = bits /\ traced' = traced /\ lost' = lost
        /\ Processors' /\ Cpu(one)' = Cpu(one) /\ InTable(Cpu(one))
    BY SameCpu DEF Agreement, cpuVars
  <1>4. Ok(xed') => Phase(xed', hist', wire, bits, Cpu(one), traced, lost)
    BY <1>2, <1>3, WalkSteps DEF Agreement
  <1>5. Ok(xed') => Phase(xed', hist', wire', bits', Cpu(one)', traced', lost')
    BY <1>3, <1>4
  <1>6. Ok(xed)' <=> Ok(xed')
    BY DEF Ok
  <1> QED BY <1>1, <1>2, <1>3, <1>5, <1>6 DEF Agreement

\* A packet.
LEMMA PacketAgrees ==
  ASSUME NEW one \in BOOLEAN, one => OneProcess, Agreement(one),
         wire # << >>, intel_pt_decode_online(Head(wire)), wire' = Tail(wire),
         UNCHANGED <<cur, thread, bits, traced, lost>>
  PROVE  Agreement(one)'
  <1>1. Ok(xed)
    BY Handlers
  <1>2. /\ Inv /\ last_bep_fup = 0 /\ last_ptw_fup = 0 /\ Processors
        /\ Phase(xed, hist, wire, bits, Cpu(one), traced, lost)
        /\ traced \in BOOLEAN /\ lost \in BOOLEAN
    BY <1>1 DEF Agreement, Processors
  <1>3. Processors' /\ Cpu(one)' = Cpu(one) /\ InTable(Cpu(one))
    BY <1>2, SameCpu
  <1>4. Goes(bits, Cpu(one), traced, lost)
    BY <1>2, <1>3, AnyPhaseSteps
  <1>5. IsPacket(Head(wire)) /\ Head(wire).type \notin {"BEP", "PTW"} /\ Head(wire).type \in PktTypes
    BY <1>4 DEF Goes, Takeable, IsPacket
  <1>6. Inv'
    BY <1>2, <1>5, PacketKeepsInv
  <1>7. last_bep_fup' = 0 /\ last_ptw_fup' = 0
    BY <1>2, <1>5, NoneAnnounced
  <1>8. Ok(xed') => Phase(xed', hist', Tail(wire), bits, Cpu(one), traced, lost)
    BY <1>4 DEF Goes
  <1>9. Ok(xed') => Phase(xed', hist', wire', bits', Cpu(one)', traced', lost')
    BY <1>3, <1>8
  <1>10. Ok(xed)' <=> Ok(xed')
    BY DEF Ok
  <1> QED BY <1>3, <1>6, <1>7, <1>9, <1>10 DEF Agreement

\* The processor runs when the decoder has taken everything.
LEMMA AgreementStands ==
  ASSUME NEW one \in BOOLEAN, one => OneProcess, Agreement(one), Idle, wire = << >>
  PROVE  Standing(one)
  BY DEF Idle, Agreement, Standing, Inv

\* A step of the processor.
LEMMA RunAgrees ==
  ASSUME NEW one \in BOOLEAN, one => OneProcess /\ ReturnsInOrder, Agreement(one), Run
  PROVE  Agreement(one)'
  <1>1. Ok(xed) /\ Idle /\ CpuStep /\ UNCHANGED vars
    BY DEF Run, Idle
  <1>2. wire = << >>
    BY <1>1 DEF CpuStep
  <1>3. Standing(one)
    BY <1>1, <1>2, AgreementStands
  <1>4. Agrees(one)
    BY <1>1, <1>3, CpuSteps
  <1>5. xed' = xed /\ hist' = hist /\ Inv' /\ last_bep_fup' = 0 /\ last_ptw_fup' = 0
    BY <1>1 DEF Agreement, vars, ptVars, Inv
  <1>6. Processors' /\ Phase(xed', hist', wire', bits', Seen(pc', frames', one), traced', lost')
    BY <1>4, <1>5 DEF Agrees
  <1> QED BY <1>5, <1>6 DEF Agreement, Cpu

\* Every step keeps the agreement.
LEMMA AgreementNext ==
  ASSUME NEW one \in BOOLEAN, one => OneProcess /\ ReturnsInOrder, Agreement(one), [TraceNext]_traceVars
  PROVE  Agreement(one)'
  <1>1. CASE Decode
    BY <1>1, WalkAgrees, PacketAgrees DEF Decode
  <1>2. CASE Run
    BY <1>2, RunAgrees
  <1>3. CASE UNCHANGED traceVars
    <2>1. UNCHANGED <<xed, hist, last_psb, last_bep_fup, last_ptw_fup, last_bbp>>
          /\ UNCHANGED <<cur, thread, bits, traced, lost, wire>>
      BY <1>3 DEF traceVars, vars, ptVars, cpuVars
    <2>2. Inv'
      BY <2>1 DEF Agreement, Inv
    <2>3. Processors' /\ Cpu(one)' = Cpu(one)
      BY <2>1, SameCpu DEF Agreement
    <2>4. Ok(xed)' <=> Ok(xed)
      BY <2>1 DEF Ok
    <2> QED BY <2>1, <2>2, <2>3, <2>4 DEF Agreement
  <1> QED BY <1>1, <1>2, <1>3 DEF TraceNext

-----------------------------------------------------------------------------
(* What it says when the decoder has decoded everything.                   *)

\* Where its current context is.
LEMMA UpToDateIs ==
  ASSUME NEW one \in BOOLEAN, one => OneProcess, Agreement(one), UpToDate
  PROVE  LET c == this_ctx(xed)
         IN  /\ Standing(one) /\ Chain(xed, Cpu(one)) /\ (c.last_inst = NoInst => ~one)
             /\ Located => /\ On(Place(c), << >>, Heading(Cpu(one))) /\ Stops(c.last_inst)
                           /\ Place(c) \in Places
                           /\ Place(c)[1] = c.last_inst /\ Place(c)[2] = AddrsOf(c.call_stack)
  <1> DEFINE c == this_ctx(xed)
             p == Cpu(one)
  <1>1. Idle /\ ~xed.walking /\ wire = << >> /\ traced /\ ~lost /\ bits = << >>
    BY DEF UpToDate, Idle
  <1>2. Standing(one)
    BY <1>1, AgreementStands
  <1>3. Follows(xed, << >>, Heading(p), p) /\ Sound(xed) /\ p.one = one
    BY <1>1, <1>2, StandingIs DEF Ready, Hushed
  <1>4. << >> \in Seq(BOOLEAN)
    OBVIOUS
  <1>5. /\ Chain(xed, p) /\ (c.last_inst = NoInst => ~p.one)
        /\ c.last_inst # NoInst => On(Place(c), << >>, Heading(p)) /\ Stops(c.last_inst)
    BY <1>1, <1>3, <1>4, IdleFollows
  <1>6. c.last_inst # NoInst => Place(c) \in Places
    BY <1>3, SoundFields, CtxPlace
  <1>7. Place(c)[1] = c.last_inst /\ Place(c)[2] = AddrsOf(c.call_stack)
    BY DEF Place, Addrs
  <1> QED BY <1>2, <1>3, <1>5, <1>6, <1>7 DEF Located

\* A decoder that claims a position waits at the branch the processor comes to.
LEMMA AgreementPosition == Agreement(FALSE) => PositionAgrees
  <1> SUFFICES ASSUME Agreement(FALSE), UpToDate, Located
               PROVE  Insts[this_ctx(xed).last_inst].addr = Ahead[pc]
    BY DEF PositionAgrees
  <1> DEFINE x == Place(this_ctx(xed))
             p == Cpu(FALSE)
  <1>1. On(x, << >>, Heading(p)) /\ Stops(x[1]) /\ x \in Places /\ x[1] = this_ctx(xed).last_inst
    BY UpToDateIs
  <1>2. p.pc = pc
    BY DEF Cpu, Seen
  <1> HIDE DEF x, p
  <1>3. Ahead[p.pc] = Insts[x[1]].addr
    BY <1>1, WaitsAhead
  <1> QED BY <1>1, <1>2, <1>3

\* Of one process it always claims one.
LEMMA AgreementLocated == ASSUME OneProcess, Agreement(TRUE) PROVE AlwaysLocated
  BY UpToDateIs DEF AlwaysLocated, Located

\* Frames of interrupts that are told apart are as many interrupts in progress.
LEMMA IrqsAtLeast ==
  ASSUME FramesOK(frames), NEW c \in Nat, NEW n \in [1 .. c -> Nat],
         \A k \in 1 .. c : n[k] \in 1 .. Len(frames) /\ frames[n[k]].irq,
         \A j, k \in 1 .. c : j < k => n[j] < n[k]
  PROVE  c <= Irqs /\ Irqs \in Nat
  <1> DEFINE T == {k \in DOMAIN frames : frames[k].irq}
             S == 1 .. c
  <1>1. Len(frames) \in Nat /\ DOMAIN frames = 1 .. Len(frames)
    <2> DEFINE fs == frames
    <2>1. fs \in Seq(FrameType)
      BY DEF FramesOK
    <2> HIDE DEF fs, FrameType
    <2>2. Len(fs) \in Nat /\ DOMAIN fs = 1 .. Len(fs)
      BY <2>1, LenProperties
    <2> QED BY <2>2 DEF fs
  <1>2. IsFiniteSet(T)
    <2>1. IsFiniteSet(1 .. Len(frames))
      BY <1>1, FS_Interval
    <2>2. T \subseteq 1 .. Len(frames)
      BY <1>1
    <2> HIDE DEF T
    <2> QED BY <2>1, <2>2, FS_Subset
  <1>3. n \in Injection(S, T)
    <2>1. \A k \in S : n[k] \in T
      BY <1>1
    <2>2. \A j, k \in S : n[j] = n[k] => j = k
      <3> SUFFICES ASSUME NEW j \in S, NEW k \in S, n[j] = n[k] PROVE j = k
        OBVIOUS
      <3>1. n[j] \in Nat /\ n[k] \in Nat /\ j \in Nat /\ k \in Nat
        OBVIOUS
      <3>2. ~(n[j] < n[k]) /\ ~(n[k] < n[j])
        BY <3>1
      <3>3. ~(j < k) /\ ~(k < j)
        BY <3>2
      <3> QED BY <3>1, <3>3
    <2> HIDE DEF S, T
    <2>3. n \in [S -> Nat]
      BY DEF S
    <2> QED BY <2>1, <2>2, <2>3 DEF Injection, IsInjective
  <1>4. Cardinality(S) <= Cardinality(T)
    <2> HIDE DEF S, T
    <2> QED BY <1>2, <1>3, FS_Injection
  <1>5. Cardinality(S) = c
    BY FS_Interval
  <1>6. Cardinality(T) \in Nat
    BY <1>2, FS_CardinalityType
  <1> HIDE DEF T, S
  <1> QED BY <1>4, <1>5, <1>6 DEF Irqs, T

\* The contexts are open at different interrupts.
LEMMA AgreementContexts == ASSUME OneProcess, Agreement(TRUE) PROVE CtxPerInterrupt
  <1> SUFFICES ASSUME UpToDate PROVE xed.ctx_idx <= Irqs
    BY DEF CtxPerInterrupt
  <1> DEFINE p == Cpu(TRUE)
             c == xed.ctx_idx
  <1>1. Standing(TRUE) /\ Chain(xed, p)
    BY UpToDateIs
  <1>2. p.frames = frames /\ p.one = TRUE /\ FramesOK(frames)
    BY <1>1, StandingIs
  <1>3. c \in Nat
    BY <1>1, SoundFields DEF Standing, Ctxs
  <1>4. PICK n \in [1 .. c -> Nat] : Nested(xed, p, n)
    BY <1>1, <1>2 DEF Chain
  <1>5. /\ \A k \in 1 .. c : n[k] \in 2 .. Len(frames) /\ frames[n[k]].irq
        /\ \A j, k \in 1 .. c : j < k => n[j] < n[k]
    BY <1>2, <1>4 DEF Nested
  <1>6. \A k \in 1 .. c : n[k] \in 1 .. Len(frames)
    BY <1>5
  <1> HIDE DEF p, c
  <1>7. c <= Irqs
    BY <1>2, <1>3, <1>4, <1>5, <1>6, IrqsAtLeast
  <1> QED BY <1>7 DEF c

\* The calls on its stack are the innermost ones.
LEMMA AgreementCalls ==
  ASSUME OneProcess, Whole, BranchesAhead, Agreement(TRUE)
  PROVE  CallStackTruthful
  <1> SUFFICES ASSUME UpToDate, Located
               PROVE  LET stack == this_ctx(xed).call_stack
                      IN  IsSuffix([k \in DOMAIN stack |-> RetAddr(stack[k])], OpenCalls \o CallsAhead[pc])
    BY DEF CallStackTruthful
  <1> DEFINE x == Place(this_ctx(xed))
             p == Cpu(TRUE)
             t == AddrsOf(this_ctx(xed).call_stack)
             u == CallsIn(frames)
             v == CallsAhead[pc]
  <1>1. /\ On(x, << >>, Heading(p)) /\ Stops(x[1]) /\ x \in Places /\ x[2] = t /\ Standing(TRUE)
    BY UpToDateIs
  <1>2. p.pc = pc /\ CallsIn(p.frames) = u /\ u \in Stacks /\ p.one = TRUE
    BY <1>1, StandingIs
  <1>3. CallsAhead[p.pc] = v
    BY <1>2
  <1>4. t = [k \in DOMAIN this_ctx(xed).call_stack |-> RetAddr(this_ctx(xed).call_stack[k])]
    BY DEF AddrsOf
  <1> HIDE DEF x, p, t, u, v
  <1>5. Exact(p)
    BY <1>2 DEF Exact
  <1>6. v \in Stacks /\ Innermost(t, u \o v)
    BY <1>1, <1>2, <1>3, <1>5, CallsWaitAhead
  <1>7. t \in Stacks
    BY <1>1, PlaceIs
  <1>8. u \o v \in Stacks
    BY <1>2, <1>6, ConcatProperties DEF Stacks
  <1>9. IsSuffix(t, u \o v)
    BY <1>6, <1>7, <1>8, InnermostSuffix
  <1> QED BY <1>4, <1>9 DEF OpenCalls, t, u, v

-----------------------------------------------------------------------------
(* No error: the functions of src/xed.c.                                   *)

\* A queue of the code holds one entry less than its size.
Roomy == TNT_QUEUE_LEN > 1 /\ TIP_QUEUE_LEN > 1

\* The decoder has not stopped, or with as many calls as it can keep.
Fine(d) == Ok(d) \/ d.fatal = "Full stack"

\* No address in the table is out of bounds.
LEMMA SiteBound == ASSUME NEW addr \in Sites PROVE addr <= Insts[NoInsts - 1].addr
  <1>1. PICK i \in 0 .. NoInsts - 1 : addr = Insts[i].addr
    BY DEF Sites
  <1>2. \A k \in 0 .. NoInsts - 1 : Insts[k].addr \in Nat /\ Insts[k].length \in Nat
    BY InstsAssumption DEF InstType
  <1>3. NoInsts \in Nat \ {0}
    BY InstsAssumption
  <1>4. CASE i = NoInsts - 1
    BY <1>1, <1>2, <1>4
  <1>5. CASE i # NoInsts - 1
    <2>1. i < NoInsts - 1 /\ NoInsts - 1 \in 0 .. NoInsts - 1
      BY <1>3, <1>5
    <2>2. Insts[i].addr + Insts[i].length <= Insts[NoInsts - 1].addr
      BY <2>1, InstsAssumption
    <2> QED BY <1>1, <1>2, <2>1, <2>2
  <1> QED BY <1>4, <1>5

\* A new value of the current context stops nothing.
LEMMA SetCtxOk == ASSUME NEW d, Sound(d), NEW c PROVE SetCtx(d, c).fatal = d.fatal
  BY DEF SetCtx, Sound, XedType

\* A target in the table is found.
LEMMA UpdateOk ==
  ASSUME NEW d, Sound(d), Ok(d), NEW addr \in Sites
  PROVE  Ok(xed_update_last_inst(d, addr))
  <1>1. xed_unwind_find_inst(addr) # NoInst
    BY SiteAt DEF Idx, NoInst
  <1>2. xed_update_last_inst(d, addr) = MoveTo(d, xed_unwind_find_inst(addr))
    BY <1>1 DEF xed_update_last_inst
  <1> QED BY <1>2, SetCtxOk DEF MoveTo, Ok

\* There is room for what a packet brings.
LEMMA ProcessOk ==
  ASSUME Roomy, NEW d, Sound(d), Ok(d), Empty(this_ctx(d)), NEW tnt \in Seq(BOOLEAN),
         NEW tip \in Sites \cup {NoAddr}, tnt = << >> \/ tip = NoAddr
  PROVE  Ok(xed_process_branches(d, tnt, tip))
  <1> DEFINE e == add_tnt(d, tnt)
             f == add_tip(e, tip)
  <1>1. Len(this_ctx(d).tnt_queue) = 0 /\ Len(this_ctx(d).tip_queue) = 0
    BY DEF Empty
  <1>2. ~(0 + 1 >= TNT_QUEUE_LEN) /\ ~(0 + 1 >= TIP_QUEUE_LEN)
    BY SizesAssumption DEF Roomy
  <1>3. Ok(e) /\ (tnt = << >> => e = d)
    BY <1>1, <1>2, SetCtxOk DEF add_tnt, Ok
  <1>4. Sound(e)
    BY SoundAddTnt
  <1>5. Ok(f)
    <2>1. CASE tip = NoAddr
      BY <1>3, <2>1 DEF add_tip
    <2>2. CASE tip # NoAddr
      <3>1. e = d /\ tip \in Sites
        BY <1>3, <2>2
      <3>2. ~(tip > Insts[NoInsts - 1].addr)
        <4>1. tip \in Nat /\ tip <= Insts[NoInsts - 1].addr
          BY <3>1, SiteAt, SiteBound
        <4>2. Insts[NoInsts - 1].addr \in Nat
          BY InstsAssumption DEF InstType
        <4> QED BY <4>1, <4>2
      <3> HIDE DEF e
      <3>3. f = SetCtx(d, [this_ctx(d) EXCEPT !.tip_queue = Append(@, tip)])
        BY <1>1, <1>2, <2>2, <3>1, <3>2 DEF add_tip
      <3> QED BY <3>3, SetCtxOk DEF Ok
    <2> QED BY <2>1, <2>2
  <1> HIDE DEF e
  <1>6. Sound(f)
    BY <1>4, SiteAt, SoundAddTip DEF NoAddr
  <1> HIDE DEF f
  <1>7. Ok([f EXCEPT !.walking = TRUE])
    BY <1>5, <1>6 DEF Ok, Sound, XedType
  <1> QED BY <1>7 DEF xed_process_branches, e, f

\* A restart at an address in the table.
LEMMA StartOk ==
  ASSUME NEW d, Sound(d), Ok(d), NEW addr \in Sites
  PROVE  Ok(StartAt(d, addr))
  <1> DEFINE e == xed_update_last_inst(d, addr)
  <1>1. Ok(e) /\ Sound(e)
    BY UpdateOk, SoundUpdate
  <1> HIDE DEF e
  <1>2. add_tip(add_tnt(e, << >>), NoAddr) = e
    BY DEF add_tip, add_tnt
  <1>3. Ok([e EXCEPT !.walking = TRUE])
    BY <1>1 DEF Ok, Sound, XedType
  <1>4. Ok(xed_process_branches(e, << >>, NoAddr))
    BY <1>1, <1>2, <1>3 DEF xed_process_branches
  <1> QED BY <1>4 DEF StartAt, e

\* A context that is left has no input.
LEMMA NoInputOk ==
  ASSUME NEW d, Empty(this_ctx(d)), NEW where
  PROVE  NoInput(d, where) = d
  BY DEF NoInput, Empty

\* The start of an interrupt, with a context left.
LEMMA EnterOk ==
  ASSUME NEW d, Sound(d), Ok(d), Empty(this_ctx(d)), d.ctx_idx + 1 < MAX_NO_CTXS, NEW src \in Nat
  PROVE  Ok(xed_async_enter(d, src)) /\ Sound(xed_async_enter(d, src))
  <1> DEFINE inner == [d EXCEPT !.ctx_idx = @ + 1]
             c == [this_ctx(inner) EXCEPT !.async_src = src]
  <1>1. d \in XedType /\ MAX_NO_CTXS \in Nat
    BY SizesAssumption DEF Sound
  <1>2. ~(d.ctx_idx + 1 >= MAX_NO_CTXS)
    BY <1>1 DEF XedType
  <1>3. xed_async_enter(d, src) = SetCtx(inner, c)
    BY <1>2, NoInputOk DEF xed_async_enter
  <1>4. inner.fatal = d.fatal /\ SetCtx(inner, c).fatal = inner.fatal
    <2>1. inner = [ctx |-> d.ctx, ctx_idx |-> d.ctx_idx + 1, this_pgd |-> d.this_pgd,
                   walking |-> d.walking, fatal |-> d.fatal]
      BY <1>1 DEF XedType
    <2> HIDE DEF c, inner
    <2> QED BY <2>1 DEF SetCtx
  <1>5. Sound(xed_async_enter(d, src))
    BY SoundEnter
  <1> QED BY <1>3, <1>4, <1>5 DEF Ok

\* An address that is in the table, or left out where it may be.
LEMMA CheckOk ==
  ASSUME NEW d, Ok(d), Empty(this_ctx(d)), NEW type, NEW ip,
         IF type = "TIP_PGD" THEN ip = NoAddr ELSE ip \in Sites
  PROVE  CheckIp(d, type, ip) = d
  <1>1. CASE type = "TIP_PGD"
    BY <1>1, NoInputOk DEF CheckIp, xed_intel_pt_tip_disable
  <1>2. CASE type # "TIP_PGD"
    <2>1. ip # NoAddr /\ xed_unwind_find_inst(ip) # NoInst
      BY <1>2, SiteAt DEF Idx, NoInst, NoAddr
    <2> QED BY <1>2, <2>1 DEF CheckIp
  <1> QED BY <1>1, <1>2

\* The end of an interrupt, with all it called returned.
LEMMA ExitOk ==
  ASSUME NEW d, Sound(d), Ok(d), Empty(this_ctx(d)), this_ctx(d).call_stack = << >>, NEW tip
  PROVE  Ok(AsyncExit(d, tip))
  <1>1. NoInput(CallsReturned(d), "async exit") = d
    BY NoInputOk DEF CallsReturned
  <1>2. /\ xed_async_reset(d).fatal = d.fatal /\ Leave(d).fatal = d.fatal
        /\ Leave(xed_async_reset(d)).fatal = d.fatal
    <2>1. d \in XedType
      BY DEF Sound
    <2>2. xed_async_reset(d).fatal = d.fatal /\ xed_async_reset(d).ctx_idx = 0
      BY <2>1 DEF xed_async_reset, XedType
    <2>3. Leave(xed_async_reset(d)) = xed_async_reset(d)
      BY <2>2 DEF Leave
    <2>4. Leave(d).fatal = d.fatal
      BY <2>1 DEF Leave, XedType
    <2> QED BY <2>2, <2>3, <2>4
  <1> QED BY <1>1, <1>2 DEF AsyncExit, Ok

\* A target that is taken.
LEMMA TakeTipOk ==
  ASSUME NEW d, Sound(d), Fine(d), NEW tip \in Sites
  PROVE  Fine(TakeTip(d, tip)) /\ (Ok(d) => Ok(TakeTip(d, tip)))
  <1> DEFINE e == xed_update_last_inst(d, tip)
  <1>1. CASE Ok(d)
    <2>1. Ok(e) /\ Sound(e)
      BY <1>1, UpdateOk, SoundUpdate
    <2> HIDE DEF e
    <2>2. PopTip(e).fatal = e.fatal
      BY <2>1, SetCtxOk DEF PopTip
    <2> QED BY <2>1, <2>2 DEF TakeTip, Fine, Ok, e
  <1>2. CASE ~Ok(d)
    BY <1>2 DEF TakeTip, xed_update_last_inst, Fine
  <1> QED BY <1>1, <1>2

\* A call.
LEMMA PushFine ==
  ASSUME NEW d, Sound(d), Ok(d)
  PROVE  Fine(PushCall(d))
  <1>1. Fatal(d, "Full stack").fatal = "Full stack"
    BY DEF Fatal, Sound, XedType
  <1> QED BY <1>1, SetCtxOk DEF PushCall, Fine, Ok

-----------------------------------------------------------------------------
(* No error: a packet and a turn of the walk.                              *)

\* What a packet has to be for the decoder to take it.
IpOk(p) ==
  /\ p.type \in {"FUP", "TIP", "TIP_PGE"} => p.val \in Sites
  /\ p.type = "TIP_PGD" => p.val = NoAddr

\* A TSC_MTC goes with the TSC before it.
Matches(p) == LET k == prev_intel_pt_pkt("TSC") IN k # 0 /\ hist[k].ip = p.val

\* Such a packet is taken without an error.
LEMMA PacketOk ==
  ASSUME Roomy, Inv, Empty(this_ctx(xed)), NEW p, p.tnt \in Seq(BOOLEAN), IpOk(p),
         p.type \notin ErrorTypes \cup {"BBP"},
         p.type = "PSBEND" => last_psb = 4, p.type = "TSC_MTC" => Matches(p),
         p.type = "TIP" /\ FupOf(Recorded(hist, "TIP", NoAddr)) # 0 => xed.ctx_idx + 1 < MAX_NO_CTXS,
         intel_pt_decode_online(p)
  PROVE  Ok(xed')
  <1>1. Ok(xed) /\ Sound(xed) /\ hist \in HistType
    BY Handlers DEF Inv
  <1>2. \A type, ip : (IF type = "TIP_PGD" THEN ip = NoAddr ELSE ip \in Sites) => CheckIp(xed, type, ip) = xed
    BY <1>1, CheckOk
  <1>3. \A ip \in Sites : Ok(StartAt(xed, ip))
    BY <1>1, StartOk
  <1>4. \A ip \in Sites \cup {NoAddr} : Ok(xed_process_branches(xed, << >>, ip))
    <2>1. << >> \in Seq(BOOLEAN)
      OBVIOUS
    <2> QED BY <1>1, <2>1, ProcessOk
  <1>5. CASE Fup(p)
    <2>1. p.type = "FUP"
      BY <1>5 DEF Fup
    <2>2. p.val \in Sites /\ CheckIp(xed, "FUP", p.val) = xed
      BY <1>2, <2>1 DEF IpOk
    <2>3. xed' = StartAt(xed, p.val) \/ xed' = xed
      BY <1>5, <2>2 DEF Fup
    <2> QED BY <1>1, <1>3, <2>2, <2>3
  <1>6. CASE TipPge(p)
    <2>1. p.type = "TIP_PGE"
      BY <1>6 DEF TipPge
    <2>2. p.val \in Sites /\ CheckIp(xed, "TIP_PGE", p.val) = xed
      BY <1>2, <2>1 DEF IpOk
    <2>3. xed' = StartAt(xed, p.val)
      BY <1>6, <2>2 DEF TipPge
    <2> QED BY <1>3, <2>2, <2>3
  <1>7. CASE Tip(p)
    <2> DEFINE h == Recorded(hist, "TIP", NoAddr)
               k == FupOf(h)
    <2>1. p.type = "TIP"
      BY <1>7 DEF Tip
    <2>2. p.val \in Sites /\ CheckIp(xed, "TIP", p.val) = xed
      BY <1>2, <2>1 DEF IpOk
    <2>3. IF k # 0 THEN xed' = StartAt(xed_async_enter(xed, h[k].ip), p.val)
                   ELSE xed' = xed_process_branches(xed, << >>, p.val)
      BY <1>1, <1>7, <2>2, RecordedHist DEF Tip
    <2>4. h \in HistType
      BY <1>1, RecordShifts, TypesInHistory DEF NoAddr
    <2> HIDE DEF h
    <2>5. k # 0 => h[k].ip \in Nat
      <3>1. Len(h) >= 1
        BY <1>1, RecordShifts, TypesInHistory DEF NoAddr, h
      <3> DEFINE E == [type: HistTypes, ip: Nat]
                 o == LastOutside(h, AsyncSkip)
      <3>2. \A m \in 1 .. Len(h) : h[m].ip \in Nat
        <4>1. h \in Seq(E) /\ \A x \in E : x.ip \in Nat
          BY <2>4 DEF HistType
        <4> HIDE DEF E
        <4>2. \A m \in 1 .. Len(h) : h[m] \in E
          BY <4>1
        <4> QED BY <4>1, <4>2
      <3>3. o = 0 \/ o \in 1 .. Len(h) - 1
        BY <2>4, <3>1, ScanInHistory
      <3>4. k = 0 \/ k = o
        BY DEF FupOf
      <3> HIDE DEF k, o
      <3>5. k # 0 => k \in 1 .. Len(h)
        <4>1. Len(h) \in Nat
          BY <2>4 DEF HistType
        <4> QED BY <3>3, <3>4, <4>1
      <3> QED BY <3>2, <3>5
    <2> HIDE DEF k
    <2>6. CASE k # 0
      <3>1. xed.ctx_idx + 1 < MAX_NO_CTXS
        BY <2>1, <2>6 DEF h, k
      <3>2. Ok(xed_async_enter(xed, h[k].ip)) /\ Sound(xed_async_enter(xed, h[k].ip))
        BY <1>1, <2>5, <2>6, <3>1, EnterOk
      <3> QED BY <2>2, <2>3, <2>6, <3>2, StartOk
    <2>7. CASE k = 0
      BY <1>4, <2>2, <2>3, <2>7
    <2> QED BY <2>6, <2>7
  <1>8. CASE TipPgd(p)
    <2>1. p.type = "TIP_PGD"
      BY <1>8 DEF TipPgd
    <2>2. p.val = NoAddr /\ CheckIp(xed, "TIP_PGD", p.val) = xed
      BY <1>2, <2>1 DEF IpOk
    <2> QED BY <1>1, <1>8, <2>2 DEF TipPgd
  <1>9. CASE ShortTnt(p)
    <2>1. xed' = xed_process_branches(xed, p.tnt, NoAddr)
      BY <1>9 DEF ShortTnt
    <2> QED BY <1>1, <2>1, ProcessOk
  <1>10. CASE Psb(p) \/ Bip(p) \/ Bep(p) \/ Ptw(p) \/ Record(p)
    BY <1>1, <1>10 DEF Psb, Bip, Bep, Ptw, Record
  <1>11. CASE PsbEnd(p)
    BY <1>1, <1>11 DEF PsbEnd
  <1>12. CASE TscMtc(p)
    BY <1>1, <1>12 DEF TscMtc, Matches
  <1>13. CASE Pip(p)
    <2>1. xed' = xed_intel_pt_pip(xed, p.val)
      BY <1>13 DEF Pip
    <2> QED BY <1>1, <2>1 DEF xed_intel_pt_pip, Ok, Sound, XedType
  <1>14. CASE Ovf(p)
    <2>1. xed' = xed_intel_pt_ovf(xed)
      BY <1>14 DEF Ovf
    <2> QED BY <1>1, <2>1 DEF xed_intel_pt_ovf, xed_async_reset, Ok, Sound, XedType
  <1>15. ~Unsupported(p) /\ ~Bbp(p)
    BY DEF Unsupported, Bbp
  <1> QED BY <1>5, <1>6, <1>7, <1>8, <1>9, <1>10, <1>11, <1>12, <1>13, <1>14, <1>15
          DEF intel_pt_decode_online

\* A turn of the walk, of a context that has a target in the table at most, and
\* when it ends an interrupt nothing else.
LEMMA WalkFine ==
  ASSUME Sound(xed), Walk, this_ctx(xed).last_inst # NoInst => this_ctx(xed).last_inst \in Idx,
         NEW bs \in Seq(BOOLEAN), Holds(this_ctx(xed), bs), NEW tip \in Sites,
         this_ctx(xed).tip_queue # << >> =>
           /\ this_ctx(xed).tip_queue = << tip >>
           /\ ExitAt(this_ctx(xed).last_inst) => this_ctx(xed).call_stack = << >> /\ bs = << >>
  PROVE  Fine(xed')
  <1> DEFINE c == this_ctx(xed)
             i == c.last_inst
             d == AtBranch
  <1>1. /\ Like(xed, d) /\ Sound(d) /\ d.fatal = xed.fatal
        /\ this_ctx(d).last_inst = i /\ this_ctx(d).call_stack = c.call_stack
        /\ this_ctx(d).tip_queue = c.tip_queue /\ this_ctx(d).tnt_queue = Left(bs)
    BY AtBranchHas
  <1>2. Ok(xed) /\ Ok(d) /\ Ok(Return(xed)) /\ Ok(Return(d))
    <2>1. Ok(xed)
      BY DEF Walk, WalkLost, WalkPlain, WalkCond, WalkDirect, WalkIndirect, WalkFar, WalkingAt, Walking
    <2> HIDE DEF d
    <2> QED BY <1>1, <2>1 DEF Ok, Return, Sound, XedType
  <1> HIDE DEF d
  <1>3. CASE WalkLost
    BY <1>2, <1>3 DEF WalkLost, Fine
  <1>4. CASE WalkPlain
    <2>1. i \in Idx /\ Insts[i].type = "NONE" /\ xed' = Advance(xed)
      BY <1>4 DEF WalkPlain, WalkingAt, inst
    <2>2. ~(i + 1 >= NoInsts)
      BY <2>1, CodeAssumption, InstsAssumption DEF Idx
    <2>3. xed' = MoveTo(xed, i + 1)
      BY <2>1, <2>2 DEF Advance
    <2> QED BY <1>2, <2>3, SetCtxOk DEF MoveTo, Fine, Ok
  <1>5. CASE WalkCond
    <2> DEFINE e == SetCtx(d, [this_ctx(d) EXCEPT !.tnt_queue = << Tail(Head(@)) >> \o Tail(@)])
    <2>1. i \in Idx /\ Insts[i].type = "COND_BRANCH"
      BY <1>5 DEF WalkCond, WalkingAt, inst
    <2>2. \/ xed' = Return(d)
          \/ this_ctx(d).tnt_queue # << >> /\ xed' = xed_update_last_inst(e, Insts[i].target)
          \/ this_ctx(d).tnt_queue # << >> /\ xed' = Advance(e)
      BY <1>5 DEF WalkCond, inst, d
    <2>3. CASE this_ctx(d).tnt_queue # << >>
      <3>1. bs # << >> /\ this_ctx(d).tnt_queue = << bs >>
        BY <1>1, <2>3 DEF Left
      <3>2. Good([this_ctx(d) EXCEPT !.tnt_queue = << Tail(Head(@)) >> \o Tail(@)])
        <4> DEFINE g == this_ctx(d)
        <4>1. Good(g) /\ Head(g.tnt_queue) = bs /\ g.tnt_queue # << >>
          BY <1>1, <3>1, SoundFields
        <4> HIDE DEF g
        <4>2. Good([g EXCEPT !.tnt_queue = << Tail(Head(@)) >> \o Tail(@)])
          BY <3>1, <4>1, GoodBit
        <4> QED BY <4>2 DEF g
      <3>3. Sound(e) /\ Ok(e)
        BY <1>1, <1>2, <3>2, SoundSetCtx, SetCtxOk DEF Ok
      <3>4. this_ctx(e).last_inst = i
        <4>1. this_ctx(d) \in CtxType /\ d \in XedType
          BY <1>1, SoundFields DEF Good, Sound
        <4>2. this_ctx(e) = [this_ctx(d) EXCEPT !.tnt_queue = << Tail(Head(@)) >> \o Tail(@)]
          BY <1>1, <3>2, SoundSetCtx
        <4> QED BY <1>1, <4>1, <4>2 DEF CtxType
      <3> HIDE DEF e
      <3>5. Ok(xed_update_last_inst(e, Insts[i].target))
        BY <2>1, <3>3, UpdateOk, CodeAssumption DEF Idx
      <3>6. Ok(Advance(e))
        <4>1. ~(i + 1 >= NoInsts)
          BY <2>1, CodeAssumption, InstsAssumption DEF Idx
        <4>2. Advance(e) = MoveTo(e, i + 1)
          BY <3>4, <4>1 DEF Advance
        <4> QED BY <3>3, <4>2, SetCtxOk DEF MoveTo, Ok
      <3> QED BY <1>2, <2>2, <3>5, <3>6 DEF Fine, e
    <2> QED BY <1>2, <2>2, <2>3 DEF Fine
  <1>6. CASE WalkDirect
    <2>1. i \in Idx /\ Insts[i].type = "UNCOND_DIRECT_BRANCH"
      BY <1>6 DEF WalkDirect, WalkingAt, inst
    <2>2. Insts[i].target \in Sites /\ Insts[i].category \in {"CALL", "UNCOND_BR"}
      BY <2>1, CodeAssumption DEF Idx
    <2>3. \/ xed' = xed_update_last_inst(PushCall(d), Insts[i].target)
          \/ xed' = xed_update_last_inst(d, Insts[i].target)
      BY <1>6, <2>2 DEF WalkDirect, inst, d
    <2>4. Fine(PushCall(d)) /\ Sound(PushCall(d))
      <3>1. this_ctx(d).last_inst # NoInst
        BY <1>1, <2>1 DEF Idx, NoInst
      <3> QED BY <1>1, <1>2, <3>1, PushFine, SoundPush
    <2>5. Fine(xed_update_last_inst(PushCall(d), Insts[i].target))
      <3>1. CASE Ok(PushCall(d))
        BY <2>2, <2>4, <3>1, UpdateOk DEF Fine
      <3>2. CASE ~Ok(PushCall(d))
        BY <2>4, <3>2 DEF xed_update_last_inst
      <3> QED BY <3>1, <3>2
    <2>6. Ok(xed_update_last_inst(d, Insts[i].target))
      BY <1>1, <1>2, <2>2, UpdateOk
    <2> QED BY <2>3, <2>5, <2>6 DEF Fine
  <1>7. c.tip_queue # << >> => Head(this_ctx(d).tip_queue) = tip
    BY <1>1
  <1>8. CASE WalkIndirect
    <2>1. \/ xed' = Return(d)
          \/ /\ c.tip_queue # << >>
             /\ \/ xed' = TakeTip(PushCall(d), tip)
                \/ xed' = TakeTip(PopCall(d, tip), tip)
                \/ xed' = TakeTip(d, tip)
      BY <1>1, <1>7, <1>8 DEF WalkIndirect, d
    <2>2. Fine(PushCall(d)) /\ Sound(PushCall(d))
      <3>1. this_ctx(d).last_inst # NoInst
        BY <1>1, <1>8 DEF WalkIndirect, WalkingAt
      <3> QED BY <1>1, <1>2, <3>1, PushFine, SoundPush
    <2>3. Ok(PopCall(d, tip)) /\ Sound(PopCall(d, tip))
      BY <1>1, <1>2, SoundPop, SetCtxOk DEF PopCall, Ok
    <2> QED BY <1>1, <1>2, <2>1, <2>2, <2>3, TakeTipOk DEF Fine
  <1>9. CASE WalkFar
    <2> DEFINE f == TakeTip(d, tip)
    <2>1. Insts[i].type = "FAR_TRANSFER" /\ i \in Idx
      BY <1>9 DEF WalkFar, WalkingAt, inst
    <2>2. \/ xed' = Return(d)
          \/ c.tip_queue # << >> /\ xed' = (IF Insts[i].iret THEN AsyncExit(f, tip) ELSE f)
      BY <1>1, <1>7, <1>9 DEF WalkFar, inst, d
    <2>3. Ok(f)
      BY <1>1, <1>2, TakeTipOk DEF Fine
    <2>4. CASE c.tip_queue # << >> /\ Insts[i].iret
      <3>1. c.call_stack = << >> /\ bs = << >> /\ c.tip_queue = << tip >>
        BY <2>1, <2>4 DEF ExitAt
      <3>2. Kept(d, d) /\ this_ctx(d).tip_queue # << >>
        BY <1>1, <2>4, LikeTrans
      <3>3. /\ Like(d, f) /\ Place(this_ctx(f)) = << xed_unwind_find_inst(tip), Addrs(this_ctx(d)) >>
            /\ this_ctx(f).tip_queue = Tail(this_ctx(d).tip_queue)
            /\ this_ctx(f).tnt_queue = this_ctx(d).tnt_queue
        BY <1>1, <2>3, <3>2, TakeTipArrives
      <3> HIDE DEF f
      <3>4. Empty(this_ctx(f))
        <4>1. Tail(<< tip >>) = << >>
          OBVIOUS
        <4> QED BY <1>1, <3>1, <3>3, <4>1 DEF Empty, Left
      <3>5. Addrs(this_ctx(f)) = Addrs(this_ctx(d))
        BY <3>3 DEF Place
      <3>6. Addrs(this_ctx(d)) = << >>
        <4>1. Good(this_ctx(d))
          BY <1>1, SoundFields
        <4> QED BY <1>1, <3>1, <4>1, AddrsOfStack DEF Addrs, Good, CtxType
      <3>7. this_ctx(f).call_stack = << >>
        <4>1. Good(this_ctx(f))
          BY <3>3, SoundFields DEF Like
        <4> QED BY <3>5, <3>6, <4>1, AddrsOfStack DEF Addrs, Good, CtxType
      <3>8. Ok(AsyncExit(f, tip))
        BY <2>3, <3>3, <3>4, <3>7, ExitOk DEF Like
      <3> QED BY <1>2, <2>2, <2>4, <3>8 DEF Fine
    <2> QED BY <1>2, <2>2, <2>3, <2>4 DEF Fine
  <1> QED BY <1>3, <1>4, <1>5, <1>6, <1>8, <1>9 DEF Walk

-----------------------------------------------------------------------------
(* No error: a turn of the walk and a packet, of the whole.                *)

\* The walk meets nothing that it could stop at.
LEMMA WalkIsFine ==
  ASSUME Inv, Whole, WalkStep, NEW p, InTable(p), p.one, NEW on, NEW off, NEW b,
         Phase(xed, hist, wire, b, p, on, off)
  PROVE  Fine(xed')
  <1> DEFINE c == this_ctx(xed)
             i == c.last_inst
             x == Place(c)
  <1>1. Sound(xed) /\ Walk /\ p \in Views /\ p.pc \in Sites /\ IrqEntry \in Sites
    BY CodeAssumption DEF Inv, WalkStep, InTable
  <1>2. xed.walking
    BY <1>1, WalkWalks
  <1>3. c \in CtxType /\ (i # NoInst => i \in Idx /\ x \in Places /\ x[1] = i /\ x[2] = Addrs(c))
    BY <1>1, SoundFields, CtxPlace
  <1>4. CASE Following(xed, hist, wire, b, p, on, off)
    <2>1. PICK G, q : Follows(xed, b, G, q)
      BY <1>4 DEF Following
    <2>2. Nears(c, b, G) /\ c.tip_queue = << >> /\ (i = NoInst => c.tnt_queue = << >>)
      BY <2>1 DEF Follows
    <2>3. \E bs \in Seq(BOOLEAN) : Holds(c, bs)
      <3>1. << >> \in Seq(BOOLEAN)
        OBVIOUS
      <3> HIDE DEF c
      <3> QED BY <2>2, <3>1 DEF Nears, Holds
    <2> HIDE DEF x
    <2> QED BY <1>1, <1>3, <2>2, <2>3, WalkFine
  <1>5. CASE Taking(xed, hist, wire, b, p, on, off)
    <2>1. PICK exit \in BOOLEAN : (exit => p.one) /\ Takes(xed, p, exit)
      BY <1>5 DEF Taking
    <2>2. i # NoInst /\ c.tip_queue = << p.pc >> /\ Nears(c, << >>, Turns(p, exit))
      BY <2>1 DEF Takes
    <2>3. PICK bs \in Seq(BOOLEAN) : Holds(c, bs) /\ On(x, bs, Turns(p, exit))
      <3>1. \A s \in Seq(BOOLEAN) : s \o << >> = s
        OBVIOUS
      <3> QED BY <2>2, <3>1 DEF Nears
    <2>4. ASSUME ExitAt(i) PROVE c.call_stack = << >> /\ bs = << >>
      <3>1. x \in Places /\ x[1] \in Tips
        BY <1>3, <2>2, <2>4 DEF Tips, ExitAt
      <3>2. bs = << >> /\ x \in Turns(p, exit)
        BY <2>3, <3>1, StopsStuck, OnStuck
      <3>3. exit /\ x[2] = << >>
        BY <1>3, <2>2, <2>4, <3>2 DEF Turns, Exact
      <3>4. c.call_stack = << >>
        BY <1>3, <2>2, <3>3, CtxPlace
      <3> QED BY <3>2, <3>4
    <2> HIDE DEF x
    <2> QED BY <1>1, <1>3, <2>2, <2>3, <2>4, WalkFine
  <1>6. ~Branches(xed, hist, wire, b, p, on, off) /\ ~Interrupted(xed, hist, wire, b, p, on, off)
    BY <1>2 DEF Branches, Interrupted
  <1>7. ~SyncEnds(xed, hist, wire, b, p, on, off) /\ ~Restarting(xed, hist, wire, b, p, on, off)
    BY <1>2 DEF SyncEnds, Restarting, Rests, Waits
  <1>8. /\ ~Overflowing(xed, hist, wire, b, p, on, off) /\ ~Overflowed(xed, hist, wire, b, p, on, off)
        /\ ~Hushed(xed, hist, wire, b, p, on, off)
    BY <1>2 DEF Overflowing, Overflowed, Hushed, Rests, Waits
  <1> QED BY <1>4, <1>5, <1>6, <1>7, <1>8 DEF Phase

\* The packets a processor writes.
Writes(p) ==
  \/ p \in Plains(PlainTypes)
  \/ \E addr \in Spots, type \in {"FUP", "TIP", "TIP_PGE"} : p = Pkt(type, addr, << >>)
  \/ p = Pkt("TIP_PGD", NoAddr, << >>) \/ p = Plain("OVF")
  \/ \E t \in Seq(BOOLEAN) : p = Pkt("SHORT_TNT", 0, t)

\* The decoder can take them, if it finds the addresses.
LEMMA WritesOk ==
  ASSUME Foreign = {}, NEW p, Writes(p)
  PROVE  p.tnt \in Seq(BOOLEAN) /\ p.type \notin ErrorTypes \cup {"BBP"} /\ IpOk(p)
  <1>1. Spots = Sites /\ << >> \in Seq(BOOLEAN)
    BY DEF Spots
  <1>2. CASE p \in Plains(PlainTypes)
    <2>1. p.type \in PlainTypes /\ p.tnt \in Seq(BOOLEAN)
      BY <1>2 DEF Plains, AnyPkt
    <2>2. PlainTypes \cap (ErrorTypes \cup {"BBP"}) = {}
      BY DEF PlainTypes, RecordTypes, TimingTypes, ErrorTypes
    <2>3. p.type \notin {"FUP", "TIP", "TIP_PGE", "TIP_PGD"}
      BY <2>1, PlainSets
    <2> QED BY <2>1, <2>2, <2>3 DEF IpOk
  <1>3. CASE \E addr \in Spots, type \in {"FUP", "TIP", "TIP_PGE"} : p = Pkt(type, addr, << >>)
    BY <1>1, <1>3 DEF Pkt, IpOk, ErrorTypes
  <1>4. CASE p = Pkt("TIP_PGD", NoAddr, << >>) \/ p = Plain("OVF")
    <2>1. p.type \in {"TIP_PGD", "OVF"} /\ p.tnt = << >> /\ (p.type = "TIP_PGD" => p.val = NoAddr)
      BY <1>4 DEF Pkt, Plain
    <2> QED BY <1>1, <2>1 DEF IpOk, ErrorTypes
  <1>5. CASE \E t \in Seq(BOOLEAN) : p = Pkt("SHORT_TNT", 0, t)
    BY <1>5 DEF Pkt, IpOk, ErrorTypes
  <1> QED BY <1>2, <1>3, <1>4, <1>5 DEF Writes

\* A decoder on its way that waits has no input, and one that is to be restarted
\* has none either.
LEMMA NoInputYet ==
  ASSUME NEW d, ~d.walking
  PROVE  /\ \A more, G, q : Follows(d, more, G, q) => Empty(this_ctx(d))
         /\ \A q : Rests(d, q) => Empty(this_ctx(d))
         /\ Waits(d) => Empty(this_ctx(d))
  BY DEF Follows, Rests, Waits, Empty

\* A PIP is one of the packets that leave the contexts alone.
LEMMA PipPlain == ASSUME NEW n \in Pgds PROVE Pkt("PIP", n, << >>) \in Plains(PlainTypes)
  <1> DEFINE r == Pkt("PIP", n, << >>)
  <1>1. "PIP" \in PktTypes /\ "PIP" \in PlainTypes /\ << >> \in Seq(BOOLEAN) /\ n \in Nat
    BY PgdsAssumption DEF PktTypes, PlainTypes
  <1>2. r.type = "PIP" /\ r.val = n /\ r.tnt = << >>
    BY DEF Pkt
  <1>3. r \in AnyPkt
    BY <1>1 DEF AnyPkt, Pkt
  <1> HIDE DEF r
  <1> QED BY <1>1, <1>2, <1>3 DEF Plains, r

\* In every phase the next packet is one of them, finds no input that is not
\* consumed, and is taken for an interrupt only if it belongs to one.
LEMMA NextPacket ==
  ASSUME Inv, ~xed.walking, wire # << >>, NEW p, InTable(p), NEW on \in BOOLEAN, NEW off, NEW b,
         Phase(xed, hist, wire, b, p, on, off)
  PROVE  /\ Writes(Head(wire)) /\ Empty(this_ctx(xed))
         /\ Head(wire).type = "TIP" /\ FupOf(Recorded(hist, "TIP", NoAddr)) # 0 =>
              \E q : Interrupts(q, p) /\ Chain(xed, q)
  <1> DEFINE first == Head(wire)
             addr  == p.pc
             h     == Recorded(hist, "TIP", NoAddr)
  <1>0. addr \in Spots /\ hist \in HistType
    BY DEF InTable, Views, Inv
  <1>1. \A q : q \in Views => q.pc \in Spots
    BY DEF Views
  <1>2. \A src \in Spots, type \in {"FUP", "TIP", "TIP_PGE"} : Writes(Pkt(type, src, << >>))
    BY DEF Writes
  <1>3. /\ Writes(Pkt("TIP_PGD", NoAddr, << >>)) /\ Writes(Plain("OVF"))
        /\ \A t \in Seq(BOOLEAN) : Writes(Pkt("SHORT_TNT", 0, t))
        /\ \A r \in Plains(PlainTypes) : Writes(r)
    BY DEF Writes
  <1>4. \A r \in Plains(PlainTypes) : r.type # "TIP"
    BY PlainSets DEF Plains
  <1>5. Quiet(hist) => FupOf(h) = 0
    <2> SUFFICES ASSUME Quiet(hist) PROVE FupOf(h) = 0
      OBVIOUS
    <2>1. "TIP" \in HistTypes /\ "TIP" # "TIP_PGD" /\ NoAddr \in Nat
      BY TypesInHistory DEF NoAddr
    <2>2. LastOutside(h, AsyncSkip) # 0 => h[LastOutside(h, AsyncSkip)].type # "FUP"
      BY <1>0, <2>1, ScanMisses DEF Quiet
    <2> HIDE DEF h
    <2> QED BY <2>2 DEF FupOf
  <1>6. CASE Following(xed, hist, wire, b, p, on, off)
    <2>1. PICK G, q : Comes(wire, G, q, p, on) /\ Follows(xed, b, G, q)
      BY <1>6 DEF Following
    <2>2. Quiet(hist) /\ Empty(this_ctx(xed))
      BY <1>6, <2>1, NoInputYet DEF Following
    <2>3. CASE Trailing(wire, addr)
      <3>1. first \in Plains(PlainTypes) \/ first = Pkt("FUP", addr, << >>)
        BY <1>0, <2>3, TrailingParts
      <3> QED BY <1>0, <1>2, <1>3, <1>5, <2>2, <3>1
    <2>4. CASE wire = TipTo(addr)
      BY <1>0, <1>2, <1>5, <2>2, <2>4 DEF TipTo
    <2>5. CASE Interrupts(q, p) /\ IrqWire(wire, q.pc, p.pc)
      <3>1. PICK f : /\ f \in Seq(Plains(AsyncSkip))
                     /\ wire = << Pkt("FUP", q.pc, << >>) >> \o (f \o TipTo(addr))
        BY <2>5 DEF IrqWire
      <3>2. q.pc \in Spots
        BY <1>1, <2>5 DEF Interrupts
      <3>3. first = Pkt("FUP", q.pc, << >>)
        BY <1>0, <3>1, <3>2, IrqWireParts
      <3> QED BY <1>2, <1>5, <2>2, <3>2, <3>3
    <2>6. CASE wire = << Pkt("TIP_PGD", NoAddr, << >>) >>
      BY <1>3, <1>5, <2>2, <2>6
    <2> QED BY <2>1, <2>3, <2>4, <2>5, <2>6 DEF Comes
  <1>7. CASE Branches(xed, hist, wire, b, p, on, off)
    <2>1. PICK t \in Seq(BOOLEAN), v \in Seq(AnyPkt) :
            wire = << Pkt("SHORT_TNT", 0, t) >> \o v /\ \E G, q : Follows(xed, t, G, q)
      BY <1>7 DEF Branches
    <2>2. Pkt("SHORT_TNT", 0, t) \in AnyPkt
      <3>1. "SHORT_TNT" \in PktTypes
        BY DEF PktTypes
      <3> QED BY <3>1, PktIs
    <2>3. first = Pkt("SHORT_TNT", 0, t)
      <3> HIDE DEF AnyPkt
      <3> QED BY <2>1, <2>2, ConsParts
    <2> QED BY <1>3, <1>5, <1>7, <2>1, <2>3, NoInputYet DEF Branches
  <1>8. CASE Interrupted(xed, hist, wire, b, p, on, off)
    <2>1. PICK q, f : /\ Interrupts(q, p) /\ f \in Seq(Plains(AsyncSkip)) /\ wire = f \o TipTo(addr)
                      /\ Follows(xed, << >>, Heading(q), q)
      BY <1>8 DEF Interrupted
    <2>2. first = Pkt("TIP", addr, << >>) \/ first \in Plains(AsyncSkip)
      BY <1>0, <2>1, IrqParts
    <2>3. Writes(first)
      BY <1>0, <1>2, <1>3, <2>2, PlainSets
    <2> QED BY <2>1, <2>3, NoInputYet DEF Follows
  <1>9. CASE SyncEnds(xed, hist, wire, b, p, on, off)
    <2>1. first = Plain("PSBEND") /\ Empty(this_ctx(xed))
      BY <1>9, NoInputYet DEF SyncEnds
    <2>2. Plain("PSBEND") \in Plains(PlainTypes)
      <3>1. "PSBEND" \in PktTypes /\ "PSBEND" \in PlainTypes /\ << >> \in Seq(BOOLEAN)
        BY DEF PktTypes, PlainTypes
      <3> QED BY <3>1 DEF Plain, Pkt, Plains, AnyPkt
    <2> QED BY <1>3, <1>4, <2>1, <2>2
  <1>10. CASE Restarting(xed, hist, wire, b, p, on, off)
    <2>1. Empty(this_ctx(xed))
      BY <1>10, NoInputYet DEF Restarting
    <2>2. CASE wire = << Pkt("TIP_PGE", addr, << >>) >>
      <3>1. first = Pkt("TIP_PGE", addr, << >>) /\ first.type # "TIP"
        BY <2>2 DEF Pkt
      <3> QED BY <1>0, <1>2, <2>1, <3>1
    <2>3. ASSUME NEW n \in Pgds, wire = << Pkt("PIP", n, << >>), Pkt("TIP_PGE", addr, << >>) >>
          PROVE  first \in Plains(PlainTypes)
      BY <2>3, PipPlain
    <2> QED BY <1>3, <1>4, <1>10, <2>1, <2>2, <2>3 DEF Restarting
  <1>11. CASE Overflowing(xed, hist, wire, b, p, on, off)
    <2>1. first = Plain("OVF")
      <3>1. wire = << Plain("OVF") >> \o (IF on THEN << Pkt("FUP", addr, << >>) >> ELSE << >>)
        BY <1>11 DEF Overflowing
      <3> QED BY <3>1
    <2>2. first.type # "TIP"
      BY <2>1 DEF Plain, Pkt
    <2> QED BY <1>3, <1>11, <2>1, <2>2, NoInputYet DEF Overflowing
  <1>12. CASE Overflowed(xed, hist, wire, b, p, on, off)
    <2>1. first = Pkt("FUP", addr, << >>) /\ Empty(this_ctx(xed)) /\ first.type # "TIP"
      BY <1>12, NoInputYet DEF Overflowed, Pkt
    <2> QED BY <1>0, <1>2, <2>1
  <1>13. ~Taking(xed, hist, wire, b, p, on, off) /\ ~Hushed(xed, hist, wire, b, p, on, off)
    BY DEF Taking, Hushed
  <1> QED BY <1>6, <1>7, <1>8, <1>9, <1>10, <1>11, <1>12, <1>13 DEF Phase

-----------------------------------------------------------------------------
(* No error: the packets of a PSB+ come in their order.                    *)

\* The packets that the decoder takes in a PSB+ only.
SyncOnly == {"PSB", "PSBEND", "TSC_MTC"}
Calm(w)  == \E S : w \in Seq(S) /\ \A p \in S : p.type \notin SyncOnly

\* Which packet is the k-th of a PSB+; the outcomes before it are the 0th.
InPlace(p, k) ==
  /\ k \in 1 .. 4 => p.type = "PSB"
  /\ k = 5 => p.type = "TSC" /\ p.val = 0
  /\ k = 6 => p.type = "TSC_MTC" /\ p.val = 0
  /\ k = 11 => p.type = "PSBEND"
  /\ k = 0 \/ k \in 7 .. 10 => p.type \notin SyncOnly \cup {"OVF"}

\* The newest entry of the history is the TSC's.
NewestTsc(h) == Len(h) \in Nat \ {0} /\ h[Len(h)] = [type |-> "TSC", ip |-> 0]

\* What is left of one when n of its packets have been taken.
Left11(w, n) ==
  /\ \E S : w \in Seq(S)
  /\ Len(w) = 11 - n /\ \A k \in 1 .. Len(w) : InPlace(w[k], n + k)

\* The decoder has counted the quarters of the PSB that it has taken.
Counted(w, psb, h) ==
  \/ psb = 0 /\ Calm(w)
  \/ \E n \in -1 .. 10 :
       /\ Left11(w, n)
       /\ psb = IF n < 0 THEN 0 ELSE IF n < 4 THEN n ELSE 4
       /\ n = 5 => NewestTsc(h)

\* What each packet does to the count.
LEMMA CountDoes ==
  ASSUME NEW p, intel_pt_decode_online(p)
  PROVE  /\ p.type = "PSB" => last_psb' = last_psb + 1
         /\ p.type = "PSBEND" /\ last_psb = 4 => last_psb' = 0
         /\ p.type = "OVF" => last_psb' = 0
         /\ p.type \notin {"PSB", "PSBEND", "OVF"} => last_psb' = last_psb
  <1>1. RecordTypes \cap {"PSB", "PSBEND", "OVF"} = {} /\ ErrorTypes \cap {"PSB", "PSBEND", "OVF"} = {}
    BY DEF RecordTypes, TimingTypes, ErrorTypes
  <1> HIDE DEF RecordTypes, ErrorTypes
  <1>2. CASE Fup(p) \/ TipPge(p) \/ Tip(p) \/ TipPgd(p) \/ ShortTnt(p) \/ Pip(p) \/ TscMtc(p)
             \/ Bbp(p) \/ Bip(p) \/ Bep(p) \/ Ptw(p)
    <2>1. last_psb' = last_psb
      BY <1>2 DEF Fup, TipPge, Tip, TipPgd, ShortTnt, Pip, TscMtc, Bbp, Bip, Bep, Ptw
    <2>2. p.type \notin {"PSB", "PSBEND", "OVF"}
      BY <1>2 DEF Fup, TipPge, Tip, TipPgd, ShortTnt, Pip, TscMtc, Bbp, Bip, Bep, Ptw
    <2> QED BY <2>1, <2>2
  <1>3. CASE Record(p) \/ Unsupported(p)
    BY <1>1, <1>3 DEF Record, Unsupported, ptVars
  <1>4. CASE Psb(p)
    BY <1>4 DEF Psb
  <1>5. CASE PsbEnd(p)
    BY <1>5 DEF PsbEnd
  <1>6. CASE Ovf(p)
    BY <1>6 DEF Ovf
  <1> QED BY <1>2, <1>3, <1>4, <1>5, <1>6 DEF intel_pt_decode_online

\* The scan for a TSC finds it there.
LEMMA NewestMatches == ASSUME NewestTsc(hist), NEW p, p.val = 0 PROVE Matches(p)
  <1> DEFINE S == {k \in 1 .. Len(hist) : hist[k].type = "TSC"}
             l == Len(hist)
  <1>1. l \in S /\ l \in Nat \ {0} /\ hist[l].ip = 0
    BY DEF NewestTsc
  <1>2. \A j \in S : j \in Nat /\ j <= l
    BY <1>1
  <1>3. prev_intel_pt_pkt("TSC") = CHOOSE k \in S : \A j \in S : j <= k
    BY <1>1 DEF prev_intel_pt_pkt
  <1> HIDE DEF S, l
  <1>4. \A k \in S : (\A j \in S : j <= k) => k = l
    BY <1>1, <1>2
  <1>5. prev_intel_pt_pkt("TSC") = l
    BY <1>1, <1>2, <1>3, <1>4
  <1> QED BY <1>1, <1>5 DEF Matches

\* At the PSBEND all four quarters are counted, and the TMA and its MTC come right
\* after their TSC.
LEMMA CountReady ==
  ASSUME Counted(wire, last_psb, hist), wire # << >>
  PROVE  /\ Head(wire).type = "PSBEND" => last_psb = 4
         /\ Head(wire).type = "TSC_MTC" => Matches(Head(wire))
  <1>1. CASE Calm(wire)
    <2>1. PICK S : wire \in Seq(S) /\ \A p \in S : p.type \notin SyncOnly
      BY <1>1 DEF Calm
    <2>2. Head(wire) \in S
      BY <2>1
    <2> QED BY <2>1, <2>2 DEF SyncOnly
  <1>2. ASSUME NEW n \in -1 .. 10, Left11(wire, n),
               last_psb = IF n < 0 THEN 0 ELSE IF n < 4 THEN n ELSE 4,
               n = 5 => NewestTsc(hist)
        PROVE  /\ Head(wire).type = "PSBEND" => last_psb = 4
               /\ Head(wire).type = "TSC_MTC" => Matches(Head(wire))
    <2> DEFINE p == Head(wire)
    <2>1. InPlace(p, n + 1)
      <3>1. PICK S : wire \in Seq(S)
        BY <1>2 DEF Left11
      <3>2. Head(wire) = wire[1] /\ Len(wire) >= 1
        BY <1>2, <3>1 DEF Left11
      <3> QED BY <1>2, <3>2 DEF Left11
    <2> HIDE DEF p
    <2>2. n = 10 \/ n = 5 \/ p.type \notin {"PSBEND", "TSC_MTC"}
      BY <2>1 DEF InPlace, SyncOnly
    <2>3. n = 10 => last_psb = 4 /\ p.type = "PSBEND"
      BY <1>2, <2>1 DEF InPlace
    <2>4. ASSUME n = 5 PROVE Matches(p) /\ p.type = "TSC_MTC"
      <3>1. p.type = "TSC_MTC" /\ p.val = 0
        BY <2>1, <2>4 DEF InPlace
      <3>2. NewestTsc(hist)
        BY <1>2, <2>4
      <3> QED BY <3>1, <3>2, NewestMatches
    <2> QED BY <2>2, <2>3, <2>4 DEF p
  <1> QED BY <1>1, <1>2 DEF Counted

\* A packet is taken.
LEMMA CountTakes ==
  ASSUME Inv, Counted(wire, last_psb, hist), wire # << >>, intel_pt_decode_online(Head(wire)), Ok(xed')
  PROVE  Counted(Tail(wire), last_psb', hist')
  <1> DEFINE p == Head(wire)
  <1>1. CASE last_psb = 0 /\ Calm(wire)
    <2>1. PICK S : wire \in Seq(S) /\ \A r \in S : r.type \notin SyncOnly
      BY <1>1 DEF Calm
    <2>2. p \in S /\ Tail(wire) \in Seq(S)
      BY <2>1, HeadTailProperties
    <2>3. p.type \notin {"PSB", "PSBEND"}
      BY <2>1, <2>2 DEF SyncOnly
    <2>4. last_psb' = 0
      BY <1>1, <2>3, CountDoes
    <2>5. Calm(Tail(wire))
      BY <2>1, <2>2 DEF Calm
    <2> QED BY <2>4, <2>5 DEF Counted
  <1>2. ASSUME NEW n \in -1 .. 10, Left11(wire, n),
               last_psb = IF n < 0 THEN 0 ELSE IF n < 4 THEN n ELSE 4
        PROVE  Counted(Tail(wire), last_psb', hist')
    <2>1. PICK S : wire \in Seq(S)
      BY <1>2 DEF Left11
    <2>2. /\ p = wire[1] /\ Tail(wire) \in Seq(S) /\ Len(wire) \in Nat /\ Len(wire) >= 1
          /\ Len(Tail(wire)) = Len(wire) - 1
          /\ \A k \in 1 .. Len(wire) - 1 : Tail(wire)[k] = wire[k + 1]
      BY <1>2, <2>1 DEF Left11
    <2>3. Len(wire) = 11 - n /\ \A k \in 1 .. Len(wire) : InPlace(wire[k], n + k)
      BY <1>2 DEF Left11
    <2>4. InPlace(p, n + 1)
      BY <2>2, <2>3
    <2> DEFINE v == Tail(wire)
    <2>5. ASSUME n < 10 PROVE Left11(v, n + 1)
      <3>1. Len(v) = 11 - (n + 1)
        BY <2>2, <2>3
      <3>2. ASSUME NEW k \in 1 .. Len(v) PROVE InPlace(v[k], (n + 1) + k)
        <4>1. k + 1 \in 1 .. Len(wire) /\ v[k] = wire[k + 1] /\ n + (k + 1) = (n + 1) + k
          BY <2>2
        <4>2. InPlace(wire[k + 1], n + (k + 1))
          BY <2>3, <4>1
        <4> QED BY <4>1, <4>2
      <3> HIDE DEF v
      <3> QED BY <2>2, <3>1, <3>2 DEF Left11, v
    <2> DEFINE type == p.type
    <2> HIDE DEF v, type
    <2>6. /\ n \in 0 .. 3 => type = "PSB"
          /\ n = 4 => type = "TSC" /\ p.val = 0
          /\ n = 10 => type = "PSBEND"
          /\ n = -1 \/ n \in 4 .. 9 => type \notin {"PSB", "PSBEND", "OVF"}
      BY <2>4 DEF InPlace, SyncOnly, type
    <2>7. /\ type = "PSB" => last_psb' = last_psb + 1
          /\ type = "PSBEND" /\ last_psb = 4 => last_psb' = 0
          /\ type \notin {"PSB", "PSBEND", "OVF"} => last_psb' = last_psb
      BY CountDoes DEF type
    <2>8. CASE n = 10
      <3>1. last_psb' = 0
        BY <1>2, <2>6, <2>7, <2>8
      <3>2. Len(v) = 0 /\ v \in Seq(S)
        BY <2>2, <2>3, <2>8 DEF v
      <3>3. v = << >> /\ v \in Seq({})
        BY <3>2
      <3>4. Calm(v)
        BY <3>3 DEF Calm
      <3> QED BY <3>1, <3>4 DEF Counted, v
    <2>9. CASE n < 10
      <3> DEFINE m == n + 1
      <3>1. m \in -1 .. 10 /\ Left11(v, m)
        BY <2>5, <2>9
      <3>2. last_psb' = IF m < 0 THEN 0 ELSE IF m < 4 THEN m ELSE 4
        <4>1. CASE n \in 0 .. 3
          BY <1>2, <2>6, <2>7, <4>1
        <4>2. CASE n = -1 \/ n \in 4 .. 9
          <5>1. last_psb' = last_psb
            BY <2>6, <2>7, <4>2
          <5> QED BY <1>2, <4>2, <5>1
        <4> QED BY <2>9, <4>1, <4>2
      <3>3. m = 5 => NewestTsc(hist')
        <4> SUFFICES ASSUME m = 5 PROVE NewestTsc(hist')
          OBVIOUS
        <4>1. p.type = "TSC" /\ p.val = 0
          BY <2>6 DEF type
        <4>2. p.type \in PlainTypes /\ "TSC" \in HistTypes /\ hist \in HistType
          BY <4>1, TypesInHistory DEF PlainTypes, RecordTypes, TimingTypes, Inv
        <4>3. hist' = Recorded(hist, "TSC", 0)
          BY <4>1, <4>2, PlainLeaves DEF Told
        <4>4. Len(hist') \in Nat /\ Len(hist') >= 1 /\ hist'[Len(hist')] = [type |-> "TSC", ip |-> 0]
          BY <4>2, <4>3, RecordShifts
        <4> QED BY <4>4 DEF NewestTsc
      <3> HIDE DEF m
      <3> QED BY <3>1, <3>2, <3>3 DEF Counted, v
    <2> QED BY <2>8, <2>9
  <1> QED BY <1>1, <1>2 DEF Counted

\* What the processor writes behind the outcomes it has.
LEMMA CalmEmit ==
  ASSUME NEW ps, Calm(ps), Emit(ps)
  PROVE  Calm(wire')
  <1>1. PICK S : ps \in Seq(S) /\ \A p \in S : p.type \notin SyncOnly
    BY DEF Calm
  <1> DEFINE t == Pkt("SHORT_TNT", 0, bits)
             R == S \cup {t}
  <1>2. t.type \notin SyncOnly
    BY DEF Pkt, SyncOnly
  <1>3. wire' = << >> \/ wire' = << >> \o ps \/ wire' = << t >> \o ps
    BY DEF Emit
  <1> HIDE DEF t
  <1>4. << >> \in Seq(R) /\ << t >> \in Seq(R) /\ ps \in Seq(R)
    <2>1. ps \in Seq(R)
      BY <1>1, SeqMonotonic
    <2> QED BY <2>1
  <1>5. \A p \in R : p.type \notin SyncOnly
    BY <1>1, <1>2
  <1> HIDE DEF R
  <1>6. wire' \in Seq(R)
    BY <1>3, <1>4, ConcatProperties
  <1> QED BY <1>5, <1>6 DEF Calm

\* One packet.
LEMMA CalmOne ==
  ASSUME NEW p, p.type \notin SyncOnly
  PROVE  Calm(<< p >>)
  <1> DEFINE S == {p}
             w == << p >>
  <1>1. w \in Seq(S)
    OBVIOUS
  <1>2. \A r \in S : r.type \notin SyncOnly
    OBVIOUS
  <1> HIDE DEF S, w
  <1>3. Calm(w)
    BY <1>1, <1>2 DEF Calm
  <1> QED BY <1>3 DEF w

\* No packet.
LEMMA CalmNone == Calm(<< >>)
  <1> DEFINE S == {}
             w == << >>
  <1>1. w \in Seq(S)
    OBVIOUS
  <1>2. \A r \in S : r.type \notin SyncOnly
    OBVIOUS
  <1> HIDE DEF S, w
  <1>3. Calm(w)
    BY <1>1, <1>2 DEF Calm
  <1> QED BY <1>3 DEF w

\* One outcome.
LEMMA CalmBit ==
  ASSUME wire = << >>, NEW b, EmitBit(b)
  PROVE  Calm(wire')
  <1>1. wire' = << >> \/ wire' = << Pkt("SHORT_TNT", 0, Append(bits, b)) >>
    BY DEF EmitBit
  <1>2. Pkt("SHORT_TNT", 0, Append(bits, b)).type \notin SyncOnly
    BY DEF Pkt, SyncOnly
  <1> QED BY <1>1, <1>2, CalmOne, CalmNone

\* One sequence behind another.
LEMMA CalmCat ==
  ASSUME NEW v, NEW w, Calm(v), Calm(w)
  PROVE  Calm(v \o w)
  <1>1. PICK S : v \in Seq(S) /\ \A p \in S : p.type \notin SyncOnly
    BY DEF Calm
  <1>2. PICK R : w \in Seq(R) /\ \A p \in R : p.type \notin SyncOnly
    BY DEF Calm
  <1> DEFINE T == S \cup R
  <1>3. v \in Seq(T) /\ w \in Seq(T) /\ \A p \in T : p.type \notin SyncOnly
    BY <1>1, <1>2, SeqMonotonic
  <1> HIDE DEF T
  <1>4. v \o w \in Seq(T)
    BY <1>3, ConcatProperties
  <1> QED BY <1>3, <1>4 DEF Calm

\* What comes between the FUP and the TIP of an interrupt.
LEMMA CalmFiller ==
  ASSUME NEW filler \in Fillers
  PROVE  Calm(filler)
  <1> DEFINE S == {Pkt(type, val, << >>) : type \in AsyncSkip, val \in Pgds \cup {0}}
  <1>1. filler \in Seq(S)
    BY FillersAssumption
  <1>2. \A p \in S : p.type \notin SyncOnly
    BY DEF Pkt, AsyncSkip, TimingTypes, SyncOnly
  <1> HIDE DEF S
  <1> QED BY <1>1, <1>2 DEF Calm

\* The packets of a PSB+ are in their places.
LEMMA PsbPlusIs ==
  ASSUME NEW addr
  PROVE  LET ps == [k \in 1 .. 4 |-> Plain("PSB")] \o Status \o << Pkt("FUP", addr, << >>), Plain("PSBEND") >>
         IN  /\ \E S : ps \in Seq(S)
             /\ Len(ps) = 11 /\ \A k \in 1 .. 11 : InPlace(ps[k], k)
  <1> DEFINE a == [k \in 1 .. 4 |-> Plain("PSB")]
             c == << Pkt("FUP", addr, << >>), Plain("PSBEND") >>
             S == {Plain("PSB"), Plain("TSC"), Plain("TSC_MTC"), Pkt("PIP", cur, << >>), Plain("CBR"),
                   Plain("MODE_EXEC"), Pkt("FUP", addr, << >>), Plain("PSBEND")}
  <1>1. a \in Seq(S) /\ Len(a) = 4 /\ \A k \in 1 .. 4 : a[k].type = "PSB"
    <2>1. Plain("PSB") \in S /\ Plain("PSB").type = "PSB"
      BY DEF Plain, Pkt
    <2> DEFINE x == Plain("PSB")
               l == << x, x, x, x >>
    <2> HIDE DEF S, x
    <2>2. l \in Seq(S) /\ Len(l) = 4 /\ \A k \in 1 .. 4 : l[k] = x
      BY <2>1 DEF x
    <2>3. a = l
      BY DEF x
    <2> HIDE DEF l
    <2>4. l \in Seq(S) /\ Len(l) = 4 /\ \A k \in 1 .. 4 : l[k].type = "PSB"
      BY <2>1, <2>2 DEF x
    <2> HIDE DEF a
    <2> QED BY <2>3, <2>4
  <1>2. /\ Status \in Seq(S) /\ Len(Status) = 5
        /\ Status[1] = Plain("TSC") /\ Status[2] = Plain("TSC_MTC") /\ Status[3].type = "PIP"
        /\ Status[4].type = "CBR" /\ Status[5].type = "MODE_EXEC"
    <2>1. /\ Plain("TSC") \in S /\ Plain("TSC_MTC") \in S /\ Pkt("PIP", cur, << >>) \in S
          /\ Plain("CBR") \in S /\ Plain("MODE_EXEC") \in S
      OBVIOUS
    <2> HIDE DEF S
    <2>2. Status \in Seq(S) /\ Len(Status) = 5
      BY <2>1 DEF Status
    <2> QED BY <2>2 DEF Status, Plain, Pkt
  <1>3. c \in Seq(S) /\ Len(c) = 2 /\ c[1].type = "FUP" /\ c[2].type = "PSBEND"
    <2>1. Pkt("FUP", addr, << >>) \in S /\ Plain("PSBEND") \in S
      OBVIOUS
    <2> HIDE DEF S
    <2>2. c \in Seq(S) /\ Len(c) = 2
      BY <2>1
    <2> QED BY <2>2 DEF Plain, Pkt
  <1> HIDE DEF a, c, S
  <1> DEFINE e == a \o Status
             ps == e \o c
  <1>4. /\ e \in Seq(S) /\ Len(e) = 9
        /\ \A k \in 1 .. 9 : e[k] = IF k <= 4 THEN a[k] ELSE Status[k - 4]
    <2>1. a \in Seq(S) /\ Status \in Seq(S) /\ Len(a) = 4 /\ Len(Status) = 5
      BY <1>1, <1>2
    <2>2. /\ a \o Status \in Seq(S) /\ Len(a \o Status) = Len(a) + Len(Status)
          /\ \A k \in 1 .. Len(a) + Len(Status) :
               (a \o Status)[k] = IF k <= Len(a) THEN a[k] ELSE Status[k - Len(a)]
      BY <2>1, ConcatProperties
    <2> QED BY <2>1, <2>2
  <1> HIDE DEF e
  <1>5. /\ ps \in Seq(S) /\ Len(ps) = 11
        /\ \A k \in 1 .. 11 : ps[k] = IF k <= 9 THEN e[k] ELSE c[k - 9]
    <2>1. e \in Seq(S) /\ c \in Seq(S) /\ Len(e) = 9 /\ Len(c) = 2
      BY <1>3, <1>4
    <2>2. /\ e \o c \in Seq(S) /\ Len(e \o c) = Len(e) + Len(c)
          /\ \A k \in 1 .. Len(e) + Len(c) :
               (e \o c)[k] = IF k <= Len(e) THEN e[k] ELSE c[k - Len(e)]
      BY <2>1, ConcatProperties
    <2> QED BY <2>1, <2>2
  <1> HIDE DEF ps
  <1>6. ASSUME NEW k \in 1 .. 11 PROVE InPlace(ps[k], k)
    <2>1. CASE k \in 1 .. 4
      <3>1. ps[k] = a[k]
        BY <1>4, <1>5, <2>1
      <3> QED BY <1>1, <2>1, <3>1 DEF InPlace
    <2>2. CASE k \in 5 .. 9
      <3>1. ps[k] = Status[k - 4]
        BY <1>4, <1>5, <2>2
      <3>2. k = 5 \/ k = 6 \/ k = 7 \/ k = 8 \/ k = 9
        BY <2>2
      <3>3. /\ k = 5 => ps[k] = Plain("TSC")
            /\ k = 6 => ps[k] = Plain("TSC_MTC")
            /\ k \in 7 .. 9 => ps[k].type \in {"PIP", "CBR", "MODE_EXEC"}
        BY <1>2, <3>1, <3>2
      <3>4. /\ Plain("TSC").type = "TSC" /\ Plain("TSC").val = 0
            /\ Plain("TSC_MTC").type = "TSC_MTC" /\ Plain("TSC_MTC").val = 0
        BY DEF Plain, Pkt
      <3> QED BY <3>2, <3>3, <3>4 DEF InPlace, SyncOnly
    <2>3. CASE k = 10 \/ k = 11
      <3>1. ps[k] = c[k - 9]
        BY <1>5, <2>3
      <3>2. /\ k = 10 => ps[k].type = "FUP"
            /\ k = 11 => ps[k].type = "PSBEND"
        BY <1>3, <3>1
      <3> QED BY <2>3, <3>2 DEF InPlace, SyncOnly
    <2> QED BY <2>1, <2>2, <2>3
  <1>7. \E R : ps \in Seq(R)
    BY <1>5
  <1> QED BY <1>5, <1>6, <1>7 DEF ps, e, a, c

\* It is whole on the wire, with the outcomes before it or without.
LEMMA CountStarts ==
  ASSUME wire = << >>, PsbPlus, NEW h
  PROVE  Counted(wire', 0, h)
  <1> DEFINE ps == [k \in 1 .. 4 |-> Plain("PSB")] \o Status \o << Pkt("FUP", pc, << >>), Plain("PSBEND") >>
             t == Pkt("SHORT_TNT", 0, bits)
  <1>1. wire' = << >> \o ps \/ wire' = << t >> \o ps
    BY DEF PsbPlus, Emit
  <1>2. /\ \E S : ps \in Seq(S)
        /\ Len(ps) = 11 /\ \A k \in 1 .. 11 : InPlace(ps[k], k)
    BY PsbPlusIs
  <1>3. t.type = "SHORT_TNT"
    BY DEF Pkt
  <1> HIDE DEF ps, t
  <1>4. PICK S : ps \in Seq(S)
    BY <1>2
  <1>5. CASE wire' = << >> \o ps
    <2>1. wire' = ps
      BY <1>4, <1>5, ConcatEmptySeq
    <2>2. \A k \in 1 .. 11 : 0 + k = k
      OBVIOUS
    <2>3. Left11(ps, 0)
      BY <1>2, <2>2 DEF Left11
    <2> QED BY <2>1, <2>3 DEF Counted
  <1>6. CASE wire' = << t >> \o ps
    <2> DEFINE R == S \cup {t}
               w == << t >> \o ps
    <2>1. << t >> \in Seq(R) /\ ps \in Seq(R) /\ Len(<< t >>) = 1 /\ << t >>[1] = t
      BY <1>4, SeqMonotonic
    <2> HIDE DEF R
    <2>2. /\ w \in Seq(R) /\ Len(w) = 12
          /\ \A k \in 1 .. 12 : w[k] = IF k <= 1 THEN t ELSE ps[k - 1]
      <3> DEFINE v == << t >>
      <3>1. v \in Seq(R) /\ ps \in Seq(R) /\ Len(v) = 1 /\ Len(ps) = 11 /\ v[1] = t
        BY <1>2, <2>1
      <3> HIDE DEF v
      <3>2. /\ v \o ps \in Seq(R) /\ Len(v \o ps) = Len(v) + Len(ps)
            /\ \A k \in 1 .. Len(v) + Len(ps) :
                 (v \o ps)[k] = IF k <= Len(v) THEN v[k] ELSE ps[k - Len(v)]
        BY <3>1, ConcatProperties
      <3>3. w = v \o ps
        BY DEF v
      <3> HIDE DEF w
      <3>4. w \in Seq(R) /\ Len(w) = 1 + 11
        BY <3>1, <3>2, <3>3
      <3>5. ASSUME NEW k \in 1 .. 12 PROVE w[k] = IF k <= 1 THEN t ELSE ps[k - 1]
        <4>1. k \in 1 .. Len(v) + Len(ps)
          BY <3>1
        <4>2. (v \o ps)[k] = IF k <= Len(v) THEN v[k] ELSE ps[k - Len(v)]
          BY <3>2, <4>1
        <4>3. CASE k = 1
          BY <3>1, <3>3, <4>2, <4>3
        <4>4. CASE k # 1
          <5>1. ~(k <= Len(v)) /\ k - Len(v) = k - 1
            BY <3>1, <4>4
          <5>2. (v \o ps)[k] = ps[k - 1]
            BY <4>2, <5>1
          <5> QED BY <3>3, <4>4, <5>2
        <4> QED BY <4>3, <4>4
      <3> QED BY <3>4, <3>5
    <2> HIDE DEF w
    <2>3. ASSUME NEW k \in 1 .. 12 PROVE InPlace(w[k], -1 + k)
      <3>1. CASE k = 1
        BY <1>3, <2>2, <3>1 DEF InPlace, SyncOnly
      <3>2. CASE k # 1
        <4>1. w[k] = ps[k - 1] /\ k - 1 \in 1 .. 11 /\ -1 + k = k - 1
          BY <2>2, <3>2
        <4> QED BY <1>2, <4>1
      <3> QED BY <3>1, <3>2
    <2>4. Left11(w, -1)
      BY <2>2, <2>3 DEF Left11
    <2> QED BY <1>6, <2>4 DEF Counted, w
  <1> QED BY <1>1, <1>5, <1>6

\* Any step of the processor.
LEMMA CountWrites ==
  ASSUME CpuStep, NEW h
  PROVE  Counted(wire', 0, h)
  <1>1. wire = << >> /\ Calm(wire)
    BY CalmNone DEF CpuStep
  <1>2. \A type, val : type \notin SyncOnly => Calm(<< Pkt(type, val, << >>) >>)
    <2> SUFFICES ASSUME NEW type, NEW val, type \notin SyncOnly PROVE Calm(<< Pkt(type, val, << >>) >>)
      OBVIOUS
    <2>1. Pkt(type, val, << >>).type = type
      BY DEF Pkt
    <2> QED BY <2>1, CalmOne
  <1>3. {"TIP", "PIP", "TIP_PGD", "TIP_PGE", "FUP", "OVF"} \cap SyncOnly = {}
    BY DEF SyncOnly
  <1>4. \A type \in {"TIP", "PIP", "TIP_PGD", "TIP_PGE", "FUP", "OVF"} : \A val : Calm(<< Pkt(type, val, << >>) >>)
    BY <1>2, <1>3
  <1> HIDE DEF SyncOnly
  <1>5. CASE Plainly \/ DirectJump \/ DirectCall \/ Lose
    BY <1>1, <1>5 DEF Plainly, DirectJump, DirectCall, Lose, Silent, Counted
  <1>6. CASE Cond \/ ForeignBranch
    <2>1. Calm(wire')
      BY <1>1, <1>6, CalmBit DEF Cond, ForeignBranch
    <2> QED BY <2>1 DEF Counted
  <1>7. CASE IndirectJump \/ IndirectCall \/ Ret \/ Syscall \/ FarReturn \/ ForeignSyscall
    <2>1. \E val : Emit(<< Pkt("TIP", val, << >>) >>)
      BY <1>7 DEF IndirectJump, IndirectCall, Ret, Syscall, FarReturn, ForeignSyscall
    <2>2. Calm(wire')
      BY <1>4, <2>1, CalmEmit
    <2> QED BY <2>2 DEF Counted
  <1>8. CASE Switch \/ PtOff
    <2>1. \E val, type : type \in {"PIP", "TIP_PGD"} /\ Emit(<< Pkt(type, val, << >>) >>)
      BY <1>8 DEF Switch, PtOff
    <2>2. Calm(wire')
      BY <1>4, <2>1, CalmEmit
    <2> QED BY <2>2 DEF Counted
  <1>9. CASE Irq
    <2>1. PICK filler \in Fillers :
            Emit(<< Pkt("FUP", pc, << >>) >> \o filler \o << Pkt("TIP", IrqEntry, << >>) >>)
      BY <1>9 DEF Irq
    <2>2. Calm(<< Pkt("FUP", pc, << >>) >> \o filler \o << Pkt("TIP", IrqEntry, << >>) >>)
      BY <1>4, CalmFiller, CalmCat
    <2>3. Calm(wire')
      BY <2>1, <2>2, CalmEmit
    <2> QED BY <2>3 DEF Counted
  <1>10. CASE PtOn
    <2>1. wire' = wire \/ wire' = << Pkt("TIP_PGE", After(pc), << >>) >>
      BY <1>10 DEF PtOn
    <2>2. Calm(wire')
      BY <1>1, <1>4, <2>1
    <2> QED BY <2>2 DEF Counted
  <1>11. CASE Recover
    <2>1. wire' = << Plain("OVF") >> \o (IF traced THEN << Pkt("FUP", pc, << >>) >> ELSE << >>)
      BY <1>11 DEF Recover
    <2>2. Calm(<< Plain("OVF") >>) /\ Calm(IF traced THEN << Pkt("FUP", pc, << >>) >> ELSE << >>)
      BY <1>4, CalmNone DEF Plain
    <2>3. Calm(wire')
      BY <2>1, <2>2, CalmCat
    <2> QED BY <2>3 DEF Counted
  <1>12. CASE PsbPlus
    BY <1>1, <1>12, CountStarts
  <1> QED BY <1>5, <1>6, <1>7, <1>8, <1>9, <1>10, <1>11, <1>12 DEF CpuStep

-----------------------------------------------------------------------------
(* No error: the invariant.                                                *)

\* The contexts that are open when an interrupt begins are open for the others.
LEMMA IrqRoom ==
  ASSUME FramesOK(frames), xed.ctx_idx \in Nat, NEW q, Interrupts(q, Cpu(TRUE)), Chain(xed, q)
  PROVE  xed.ctx_idx + 1 <= Irqs /\ Irqs \in Nat
  <1> DEFINE c  == xed.ctx_idx
             fs == q.frames
             f  == Frame(q.pc, TRUE)
             gs == frames
  <1>1. q \in Views /\ q.one /\ gs = Append(fs, f)
    <2>1. Cpu(TRUE).one = TRUE /\ Cpu(TRUE).frames = gs
      BY DEF Cpu, Seen
    <2>2. q \in Views /\ Cpu(TRUE).one = q.one /\ Cpu(TRUE).frames = Append(fs, f)
      BY DEF Interrupts
    <2> HIDE DEF fs, f, gs
    <2> QED BY <2>1, <2>2
  <1>2. f.irq /\ f \in FrameType /\ fs \in Seq(FrameType) /\ c \in Nat
    BY <1>1 DEF Frame, FrameType, Views, Spots
  <1>3. PICK n \in [1 .. c -> Nat] : Nested(xed, q, n)
    BY <1>1 DEF Chain
  <1>4. /\ \A k \in 1 .. c : n[k] \in 2 .. Len(fs) /\ fs[n[k]].irq
        /\ \A j, k \in 1 .. c : j < k => n[j] < n[k]
    BY <1>3 DEF Nested
  <1> HIDE DEF fs, f, c, gs, FrameType
  <1>5. /\ Len(fs) \in Nat /\ Len(gs) = Len(fs) + 1 /\ gs[Len(fs) + 1] = f
        /\ \A k \in 1 .. Len(fs) : gs[k] = fs[k]
    BY <1>1, <1>2, AppendProperties, LenProperties
  <1> DEFINE m == [k \in 1 .. c + 1 |-> IF k <= c THEN n[k] ELSE Len(fs) + 1]
  <1>6. \A k \in 1 .. c + 1 : IF k <= c THEN k \in 1 .. c /\ m[k] = n[k] ELSE k = c + 1 /\ m[k] = Len(fs) + 1
    BY <1>2
  <1>7. \A k \in 1 .. c : n[k] \in 1 .. Len(fs) /\ gs[n[k]].irq
    BY <1>4, <1>5
  <1>8. m \in [1 .. c + 1 -> Nat]
    BY <1>2, <1>5
  <1> HIDE DEF m
  <1>9. \A k \in 1 .. c + 1 : m[k] \in 1 .. Len(gs) /\ gs[m[k]].irq
    BY <1>2, <1>5, <1>6, <1>7
  <1>10. \A j, k \in 1 .. c + 1 : j < k => m[j] < m[k]
    <2> SUFFICES ASSUME NEW j \in 1 .. c + 1, NEW k \in 1 .. c + 1, j < k PROVE m[j] < m[k]
      OBVIOUS
    <2>1. j \in 1 .. c /\ m[j] = n[j]
      BY <1>2, <1>6
    <2>2. CASE k <= c
      BY <1>4, <1>6, <2>1, <2>2
    <2>3. CASE k > c
      <3>1. m[k] = Len(fs) + 1
        BY <1>2, <1>6, <2>3
      <3>2. n[j] <= Len(fs) /\ n[j] \in Nat
        BY <1>5, <1>7, <2>1
      <3> QED BY <1>5, <2>1, <3>1, <3>2
    <2> QED BY <1>2, <2>2, <2>3
  <1>11. c + 1 \in Nat
    BY <1>2
  <1>12. c + 1 <= Irqs /\ Irqs \in Nat
    BY <1>8, <1>9, <1>10, <1>11, IrqsAtLeast DEF gs
  <1> QED BY <1>12 DEF c

\* Decoder and processor agree, the one has not stopped or with its stack of calls
\* full, and it has counted the packets of the PSB+ that it has taken.
Counting ==
  /\ Agreement(TRUE) /\ Fine(xed)
  /\ Ok(xed) => Counted(wire, last_psb, hist)

\* At the start there is none.
LEMMA CountingInit == ASSUME OneProcess, TraceInit PROVE Counting
  <1>1. Agreement(TRUE)
    BY AgreementInit
  <1>2. Fine(xed) /\ last_psb = 0
    BY DEF TraceInit, PtInit, XedInit, Fine, Ok
  <1> DEFINE n == PerfedPgd
             a == InitThread[PerfedPgd].pc
             x == Pkt("PIP", n, << >>)
             y == Pkt("TIP_PGE", a, << >>)
             w == << x >> \o << y >>
  <1>3. wire = w
    BY DEF TraceInit, CpuInit
  <1>4. x.type \notin SyncOnly /\ y.type \notin SyncOnly
    BY DEF Pkt, SyncOnly
  <1> HIDE DEF x, y
  <1>5. Calm(w)
    BY <1>4, CalmOne, CalmCat
  <1> QED BY <1>1, <1>2, <1>3, <1>5 DEF Counting, Counted

\* A turn of the walk.
LEMMA WalkCounts ==
  ASSUME OneProcess, Whole, Counting, WalkStep, UNCHANGED cpuVars
  PROVE  Fine(xed') /\ (Ok(xed') => Counted(wire', last_psb', hist'))
  <1>1. /\ Ok(xed) /\ last_psb' = last_psb /\ hist' = hist
    BY DEF WalkStep, ptVars, Walk, WalkLost, WalkPlain, WalkCond, WalkDirect, WalkIndirect,
           WalkFar, WalkingAt, Walking
  <1>2. Agreement(TRUE) /\ Counted(wire, last_psb, hist) /\ wire' = wire
    BY <1>1 DEF Counting, cpuVars
  <1>3. /\ Inv /\ InTable(Cpu(TRUE)) /\ Phase(xed, hist, wire, bits, Cpu(TRUE), traced, lost)
    BY <1>1, <1>2, SameCpu DEF Agreement, cpuVars
  <1>4. Cpu(TRUE).one
    <2>1. Cpu(TRUE).one = TRUE
      BY DEF Cpu, Seen
    <2> QED BY <2>1
  <1>5. Fine(xed')
    BY <1>3, <1>4, WalkIsFine
  <1> QED BY <1>1, <1>2, <1>5

\* A packet.
LEMMA PacketCounts ==
  ASSUME OneProcess, Roomy, Irqs < MAX_NO_CTXS, Counting,
         wire # << >>, intel_pt_decode_online(Head(wire)), wire' = Tail(wire),
         UNCHANGED <<cur, thread, bits, traced, lost>>
  PROVE  Ok(xed') /\ Counted(wire', last_psb', hist')
  <1> DEFINE first == Head(wire)
  <1>1. Ok(xed) /\ ~xed.walking
    BY Handlers
  <1>2. /\ Agreement(TRUE) /\ Counted(wire, last_psb, hist)
        /\ Inv /\ Processors /\ Phase(xed, hist, wire, bits, Cpu(TRUE), traced, lost)
        /\ traced \in BOOLEAN /\ lost \in BOOLEAN
    BY <1>1 DEF Counting, Agreement, Processors
  <1>3. InTable(Cpu(TRUE)) /\ FramesOK(frames) /\ Foreign = {}
    BY <1>2, SameCpu, Running DEF OneProcess, Processors
  <1>4. /\ Writes(first) /\ Empty(this_ctx(xed))
        /\ first.type = "TIP" /\ FupOf(Recorded(hist, "TIP", NoAddr)) # 0 =>
             \E q : Interrupts(q, Cpu(TRUE)) /\ Chain(xed, q)
    BY <1>1, <1>2, <1>3, NextPacket
  <1>5. first.tnt \in Seq(BOOLEAN) /\ first.type \notin ErrorTypes \cup {"BBP"} /\ IpOk(first)
    BY <1>3, <1>4, WritesOk
  <1>6. /\ first.type = "PSBEND" => last_psb = 4
        /\ first.type = "TSC_MTC" => Matches(first)
    BY <1>2, CountReady
  <1>7. first.type = "TIP" /\ FupOf(Recorded(hist, "TIP", NoAddr)) # 0 => xed.ctx_idx + 1 < MAX_NO_CTXS
    <2> SUFFICES ASSUME NEW q, Interrupts(q, Cpu(TRUE)), Chain(xed, q) PROVE xed.ctx_idx + 1 < MAX_NO_CTXS
      BY <1>4
    <2>1. xed.ctx_idx \in Nat /\ MAX_NO_CTXS \in Nat
      BY <1>2, SoundFields, SizesAssumption DEF Inv, Ctxs
    <2>2. xed.ctx_idx + 1 <= Irqs /\ Irqs \in Nat
      BY <1>3, <2>1, IrqRoom
    <2> QED BY <2>1, <2>2
  <1> HIDE DEF first
  <1>8. intel_pt_decode_online(first)
    BY DEF first
  <1>9. Ok(xed')
    BY <1>2, <1>4, <1>5, <1>6, <1>7, <1>8, PacketOk
  <1>10. Counted(Tail(wire), last_psb', hist')
    BY <1>2, <1>9, CountTakes
  <1> QED BY <1>9, <1>10

\* A step of the processor, which writes when all has been taken.
LEMMA RunCounts ==
  ASSUME Counting, Run
  PROVE  Ok(xed') /\ Counted(wire', last_psb', hist')
  <1>1. Ok(xed) /\ CpuStep /\ xed' = xed /\ hist' = hist /\ last_psb' = last_psb
    BY DEF Run, Idle, vars, ptVars
  <1>2. Counted(wire, last_psb, hist) /\ wire = << >>
    BY <1>1 DEF Counting, CpuStep
  <1>3. last_psb = 0
    <2>1. \A n \in -1 .. 10 : ~Left11(wire, n)
      BY <1>2 DEF Left11
    <2> QED BY <1>2, <2>1 DEF Counted
  <1> QED BY <1>1, <1>3, CountWrites

\* Every step keeps it.
LEMMA CountingNext ==
  ASSUME OneProcess, Whole, Roomy, Irqs < MAX_NO_CTXS, ReturnsInOrder, Counting, [TraceNext]_traceVars
  PROVE  Counting'
  <1>1. Agreement(TRUE)'
    BY AgreementNext DEF Counting
  <1>2. Fine(xed') /\ (Ok(xed') => Counted(wire', last_psb', hist'))
    <2>1. CASE Decode
      BY <2>1, WalkCounts, PacketCounts DEF Decode, Fine
    <2>2. CASE Run
      BY <2>2, RunCounts DEF Fine
    <2>3. CASE UNCHANGED traceVars
      <3>1. UNCHANGED <<xed, hist, last_psb, wire>>
        BY <2>3 DEF traceVars, vars, ptVars, cpuVars
      <3> QED BY <3>1 DEF Counting
    <2> QED BY <2>1, <2>2, <2>3 DEF TraceNext
  <1>3. (Ok(xed)' <=> Ok(xed')) /\ (Fine(xed)' <=> Fine(xed'))
    BY DEF Ok, Fine
  <1>4. Counted(wire, last_psb, hist)' <=> Counted(wire', last_psb', hist')
    BY DEF Counted, Calm, Left11
  <1> QED BY <1>1, <1>2, <1>3, <1>4 DEF Counting

-----------------------------------------------------------------------------
(* The theorems.                                                           *)

\* Agreement is an invariant of the decoder and the processor together, whatever
\* processes and interrupts there are.
THEOREM AgreementHolds == TraceSpec => []Agreement(FALSE)
  <1>1. TraceInit => Agreement(FALSE)
    BY AgreementInit
  <1>2. Agreement(FALSE) /\ [TraceNext]_traceVars => Agreement(FALSE)'
    BY AgreementNext
  <1> QED BY <1>1, <1>2, PTL DEF TraceSpec

\* A decoder that claims a position waits at the branch the processor executes
\* next: no code, and no interleaving of branches, system calls, interrupts,
\* switches of processes, pauses of the trace and overflows makes src/xed.c
\* follow code that did not run.
THEOREM PositionHolds == TraceSpec => []PositionAgrees
BY AgreementHolds, AgreementPosition, PTL

\* Of a trace of one process whose code returns from interrupts in order, more is
\* invariant: each context of src/xed.c is open for one interrupt in progress.
THEOREM OneAgreementHolds ==
  ASSUME OneProcess
  PROVE  TraceSpec /\ []ReturnsInOrder => []Agreement(TRUE)
  <1>1. TraceInit => Agreement(TRUE)
    BY AgreementInit
  <1>2. ReturnsInOrder /\ Agreement(TRUE) /\ [TraceNext]_traceVars => Agreement(TRUE)'
    BY AgreementNext
  <1> QED BY <1>1, <1>2, PTL DEF TraceSpec

\* Then the decoder knows where the processor is whenever it has decoded
\* everything: neither the contexts of interrupts nor pauses of the trace nor
\* overflows make it lose its position.
THEOREM LocatedHolds ==
  ASSUME OneProcess
  PROVE  TraceSpec /\ []ReturnsInOrder => []AlwaysLocated
  <1>1. Agreement(TRUE) => AlwaysLocated
    BY AgreementLocated
  <1> QED BY <1>1, OneAgreementHolds, PTL

\* It never has more contexts open than interrupts are being handled: MAX_NO_CTXS
\* bounds their nesting, not the length of the trace.
THEOREM ContextsHold ==
  ASSUME OneProcess
  PROVE  TraceSpec /\ []ReturnsInOrder => []CtxPerInterrupt
  <1>1. Agreement(TRUE) => CtxPerInterrupt
    BY AgreementContexts
  <1> QED BY <1>1, OneAgreementHolds, PTL

\* And when the trace is not stopped the calls src/xed.c keeps on the stack of a
\* context are the innermost ones in progress, in their order, for code that comes
\* to a branch the trace has a packet for wherever it begins.
THEOREM CallsHold ==
  ASSUME OneProcess, Whole, BranchesAhead
  PROVE  TraceSpec /\ []ReturnsInOrder => []CallStackTruthful
  <1>1. Agreement(TRUE) => CallStackTruthful
    BY AgreementCalls
  <1> QED BY <1>1, OneAgreementHolds, PTL

\* No trace of one process that is traced from start to end runs into an error
\* message of src/intel_pt.c or src/xed.c, if its interrupts nest no deeper than
\* there are contexts: the packets of a PSB+ are complete and in order, no queue
\* overflows, every target is found, and when an interrupt ends no call is open in
\* its context.  Only the depth of the calls is not bounded: they may fill the stack.
THEOREM NoErrorHolds ==
  ASSUME OneProcess, Whole, Roomy
  PROVE  TraceSpec /\ []ReturnsInOrder /\ [](Irqs < MAX_NO_CTXS)
           => [](NoError \/ xed.fatal = "Full stack")
  <1>1. TraceInit => Counting
    BY CountingInit
  <1>2. ReturnsInOrder /\ Irqs < MAX_NO_CTXS /\ Counting /\ [TraceNext]_traceVars => Counting'
    BY CountingNext
  <1>3. Counting => NoError \/ xed.fatal = "Full stack"
    BY DEF Counting, Fine, NoError
  <1> QED BY <1>1, <1>2, <1>3, PTL DEF TraceSpec
=============================================================================
