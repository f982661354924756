---------------------------- MODULE PacketProofs ----------------------------
(***************************************************************************)
(* Theorems about PacketValues: for every clock, every ratio and every     *)
(* sequence of packets and losses, addresses are rebuilt as they were      *)
(* sent, the ticks and the cycles that the decoder counts are those that   *)
(* ran but for what overflows cost, and while the ratio is steady the time *)
(* they add up to is the true one within a tick and a cycle, and does not  *)
(* go back by a cycle.                                                     *)
(***************************************************************************)
EXTENDS PacketValues, TLAPS

-----------------------------------------------------------------------------
(* Addresses.                                                              *)

\* What both sides take the last address for is the same.
IpInv == IpTypeOK /\ last_ip = cpu_ip /\ received = sent

\* The address both sides start from.
LEMMA ZeroIsAddress == ZeroIp \in Addresses
  BY DEF ZeroIp, Addresses, Word

\* Whatever form fits an address, the decoder fills in the words left out.
LEMMA Rebuilt ==
  ASSUME IpInv, NEW ip \in Addresses, NEW ip_bytes \in IpForms \ {0}, Fits(ip_bytes, ip)
  PROVE  Decompress(ip_bytes, [k \in 1 .. Words(ip_bytes) |-> ip[k]]) = ip
  <1> DEFINE payload == [k \in 1 .. Words(ip_bytes) |-> ip[k]]
  <1>1. ip_bytes \in {1, 2, 3, 4, 6}
    BY DEF IpForms
  <1>2. /\ Words(ip_bytes) \in 1 .. 4
        /\ ip_bytes = 3 => Words(ip_bytes) = 3
        /\ ip_bytes = 6 => Words(ip_bytes) = 4
    BY <1>1 DEF Words
  <1>3. \A k \in 1 .. 4 : k > Words(ip_bytes) =>
          ip[k] = IF ip_bytes = 3 THEN SignOf(payload[3]) ELSE last_ip[k]
    <2>1. CASE ip_bytes \in {1, 2, 4}
      <3>1. \A k \in Words(ip_bytes) + 1 .. 4 : ip[k] = cpu_ip[k]
        <4>1. CASE ip_bytes = 1
          BY <4>1 DEF Fits
        <4>2. CASE ip_bytes = 2
          BY <4>2 DEF Fits
        <4>3. CASE ip_bytes = 4
          BY <4>3 DEF Fits
        <4> QED BY <2>1, <4>1, <4>2, <4>3
      <3>2. cpu_ip = last_ip /\ Words(ip_bytes) \in Nat
        BY <1>2 DEF IpInv
      <3> QED BY <2>1, <3>1, <3>2
    <2>2. CASE ip_bytes = 3
      <3>1. ip[4] = SignOf(ip[3])
        BY <2>2 DEF Fits
      <3>2. payload[3] = ip[3] /\ \A k \in 1 .. 4 : k > Words(ip_bytes) => k = 4
        BY <1>2, <2>2
      <3> QED BY <2>2, <3>1, <3>2
    <2>3. CASE ip_bytes = 6
      BY <1>2, <2>3
    <2> QED BY <1>1, <2>1, <2>2, <2>3
  <1>4. \A k \in 1 .. 4 : k <= Words(ip_bytes) => payload[k] = ip[k]
    BY <1>2
  <1> HIDE DEF payload
  <1>5. ip = [k \in 1 .. 4 |-> ip[k]]
    BY DEF Addresses
  <1>6. \A k \in 1 .. 4 :
          ip[k] = IF k <= Words(ip_bytes) THEN payload[k]
                  ELSE IF ip_bytes = 3 THEN SignOf(payload[3]) ELSE last_ip[k]
    <2> TAKE k \in 1 .. 4
    <2>1. CASE k <= Words(ip_bytes)
      BY <2>1, <1>4
    <2>2. CASE ~(k <= Words(ip_bytes))
      <3>1. k > Words(ip_bytes)
        BY <2>2, <1>2
      <3> QED BY <2>2, <3>1, <1>3
    <2> QED BY <2>1, <2>2
  <1>7. Decompress(ip_bytes, payload) = [k \in 1 .. 4 |-> ip[k]]
    BY <1>6 DEF Decompress
  <1> QED BY <1>5, <1>7 DEF payload

\* Both sides follow every address sent.
LEMMA IpInvStep == ASSUME IpInv, [IpNext]_ipVars PROVE IpInv'
  <1>1. CASE PsbIp
    BY <1>1, ZeroIsAddress DEF PsbIp, IpInv, IpTypeOK
  <1>2. ASSUME NEW ip \in Ips, NEW ip_bytes \in IpForms, IpPacket(ip, ip_bytes) PROVE IpInv'
    <2>1. ip \in Addresses
      BY IpsAssumption
    <2>2. CASE ip_bytes = 0
      BY <1>2, <2>2, ZeroIsAddress DEF IpPacket, ip_decode, IpInv, IpTypeOK
    <2>3. CASE ip_bytes # 0
      <3>1. received' = ip /\ last_ip' = ip
        BY <1>2, <2>1, <2>3, Rebuilt DEF IpPacket, ip_decode
      <3> QED BY <1>2, <2>1, <2>3, <3>1 DEF IpPacket, IpInv, IpTypeOK
    <2> QED BY <2>2, <2>3
  <1>3. CASE UNCHANGED ipVars
    BY <1>3 DEF ipVars, IpInv, IpTypeOK
  <1> QED BY <1>1, <1>2, <1>3 DEF IpNext

\* Seen from the addresses, every step of the composition is a step of PacketIp.
LEMMA ValuesAreIps == ValuesNext => [IpNext]_ipVars
  BY DEF ValuesNext, SendIp, IpNext

\* Every address is rebuilt as it was sent, in whichever forms the ones before it
\* were sent, and whatever was lost in between.
THEOREM AddressesAgree == ValuesSpec => []IpAgrees
  <1>1. ValuesInit => IpInv
    BY ZeroIsAddress DEF ValuesInit, IpInit, IpInv, IpTypeOK
  <1>2. IpInv /\ [ValuesNext]_valueVars => IpInv'
    BY IpInvStep, ValuesAreIps DEF valueVars
  <1>3. IpInv => IpAgrees
    BY DEF IpInv, IpAgrees
  <1> QED BY <1>1, <1>2, <1>3, PTL DEF ValuesSpec

-----------------------------------------------------------------------------
(* Division.                                                               *)

\* Larger factors, larger products.
LEMMA Products ==
  ASSUME NEW n \in Nat \ {0}, NEW a \in Int, NEW b \in Int
  PROVE  a <= b <=> a * n <= b * n
  <1>1. a <= b => a * n <= b * n
    <2>1. (b - a) * n = b * n - a * n
      OBVIOUS
    <2>2. a <= b => (b - a) * n >= 0
      OBVIOUS
    <2> QED BY <2>1, <2>2
  <1>2. a > b => a * n > b * n
    <2>1. (a - b) * n = a * n - b * n
      OBVIOUS
    <2>2. a - b >= 1 => (a - b) * n >= 1
      OBVIOUS
    <2> QED BY <2>1, <2>2
  <1> QED BY <1>1, <1>2

\* Times are natural numbers.
LEMMA ProductNat == ASSUME NEW x \in Nat, NEW y \in Nat PROVE x * y \in Nat
  OBVIOUS

\* Quotient and remainder, as names the provers do not look into.
Quot(x, n) == x \div n
Rem(x, n)  == x % n

\* What they say of each other.
LEMMA Division ==
  ASSUME NEW n \in Nat \ {0}, NEW x \in Int
  PROVE  Quot(x, n) \in Int /\ Rem(x, n) \in 0 .. n - 1 /\ x = Quot(x, n) * n + Rem(x, n)
  BY DEF Quot, Rem

\* There is one quotient and one remainder.
Divides(x, n, q, r) == q \in Int /\ r \in 0 .. n - 1 /\ x = q * n + r

\* A quotient and a remainder that fit are those.
LEMMA DivisionIs ==
  ASSUME NEW n \in Nat \ {0}, NEW x \in Int, NEW q, NEW r, Divides(x, n, q, r)
  PROVE  Quot(x, n) = q /\ Rem(x, n) = r
  <1> DEFINE p == Quot(x, n)
  <1>1. p \in Int /\ Rem(x, n) \in 0 .. n - 1 /\ x = p * n + Rem(x, n)
    BY Division
  <1>2. q \in Int /\ r \in 0 .. n - 1 /\ x = q * n + r
    BY DEF Divides
  <1> HIDE DEF p
  <1>3. p <= q
    <2>1. p * n < (q + 1) * n
      <3>1. (q + 1) * n = q * n + n
        BY <1>2
      <3> QED BY <1>1, <1>2, <3>1
    <2>2. q + 1 <= p <=> (q + 1) * n <= p * n
      BY <1>1, <1>2, Products
    <2> QED BY <1>1, <1>2, <2>1, <2>2
  <1>4. q <= p
    <2>1. q * n < (p + 1) * n
      <3>1. (p + 1) * n = p * n + n
        BY <1>1
      <3> QED BY <1>1, <1>2, <3>1
    <2>2. p + 1 <= q <=> (p + 1) * n <= q * n
      BY <1>1, <1>2, Products
    <2> QED BY <1>1, <1>2, <2>1, <2>2
  <1>5. p = q
    BY <1>1, <1>2, <1>3, <1>4
  <1> QED BY <1>1, <1>2, <1>5 DEF p

\* Sums are divided by their remainders.
Adds(n, a, b) ==
  LET r == Rem(a, n) + Rem(b, n)
  IN  /\ Rem(a + b, n) = IF r < n THEN r ELSE r - n
      /\ Quot(a + b, n) = Quot(a, n) + Quot(b, n) + IF r < n THEN 0 ELSE 1

\* The remainders of two summands tell that of the sum.
LEMMA DivisionAdds ==
  ASSUME NEW n \in Nat \ {0}, NEW a \in Nat, NEW b \in Nat
  PROVE  Adds(n, a, b)
  <1>1. /\ Quot(a, n) \in Int /\ Rem(a, n) \in 0 .. n - 1 /\ a = Quot(a, n) * n + Rem(a, n)
        /\ Quot(b, n) \in Int /\ Rem(b, n) \in 0 .. n - 1 /\ b = Quot(b, n) * n + Rem(b, n)
    BY Division
  <1>2. \A i, j \in Int : (i + j) * n = i * n + j * n /\ (i + j + 1) * n = i * n + j * n + n
    OBVIOUS
  <1> DEFINE q == Quot(a, n)
             p == Quot(b, n)
             r == Rem(a, n) + Rem(b, n)
  <1>3. a + b = (q + p) * n + r /\ a + b = (q + p + 1) * n + (r - n)
    BY <1>1, <1>2
  <1>4. q \in Int /\ p \in Int /\ r \in Int /\ r >= 0 /\ r < 2 * n
    BY <1>1
  <1> HIDE DEF q, p, r
  <1>5. CASE r < n
    <2>1. Divides(a + b, n, q + p, r)
      BY <1>3, <1>4, <1>5 DEF Divides
    <2>2. Rem(a + b, n) = r /\ Quot(a + b, n) = q + p
      BY <2>1, DivisionIs
    <2> QED BY <1>4, <1>5, <2>2 DEF Adds, q, p, r
  <1>6. CASE ~(r < n)
    <2>1. Divides(a + b, n, q + p + 1, r - n)
      BY <1>3, <1>4, <1>6 DEF Divides
    <2>2. Rem(a + b, n) = r - n /\ Quot(a + b, n) = q + p + 1
      BY <2>1, DivisionIs
    <2> QED BY <1>4, <1>6, <2>2 DEF Adds, q, p, r
  <1> QED BY <1>5, <1>6

\* Less than n is its own remainder.
LEMMA DivisionBelow ==
  ASSUME NEW n \in Nat \ {0}, NEW d \in 0 .. n - 1
  PROVE  Rem(d, n) = d /\ Quot(d, n) = 0
  <1>1. Divides(d, n, 0, d)
    BY DEF Divides
  <1> QED BY <1>1, DivisionIs

\* The difference of two remainders is that of the numbers.
LEMMA DifferenceOf ==
  ASSUME NEW n \in Nat \ {0}, NEW a \in Nat, NEW x \in Nat
  PROVE  Rem(Rem(a + x, n) - Rem(a, n), n) = Rem(x, n)
  <1> DEFINE d == Rem(a + x, n) - Rem(a, n)
             r == Rem(x, n)
  <1>1. r \in 0 .. n - 1 /\ Rem(a, n) \in 0 .. n - 1
    BY Division
  <1>2. d = r \/ d = r - n
    <2>1. Adds(n, a, x)
      BY DivisionAdds
    <2> QED BY <1>1, <2>1 DEF Adds
  <1> HIDE DEF d, r
  <1>3. Divides(r, n, 0, r) /\ Divides(r - n, n, -1, r)
    BY <1>1 DEF Divides
  <1>4. Rem(r, n) = r /\ Rem(r - n, n) = r
    BY <1>1, <1>3, DivisionIs
  <1> QED BY <1>2, <1>4 DEF d, r

\* A tick is a time.
LEMMA TickNat == ASSUME NEW t \in Nat PROVE Tick(t) \in Nat
  BY ClockAssumption DEF Tick

\* The tick of a time.
LEMMA TickIs ==
  ASSUME NEW t \in Nat
  PROVE  /\ Tick(t) \in Nat /\ Tick(t) * tsc_ratio <= t /\ t < (Tick(t) + 1) * tsc_ratio
         /\ t % tsc_ratio = 0 => t = Tick(t) * tsc_ratio
         /\ \A k \in Nat : t = k * tsc_ratio => Tick(t) = k /\ t % tsc_ratio = 0
         /\ Tick(t) <= Tick(t + 1)
  <1>1. tsc_ratio \in Nat \ {0} /\ Tick(t) \in Nat /\ Tick(t + 1) \in Nat
    BY ClockAssumption, TickNat
  <1>2. \A x \in Nat : /\ Tick(x) = Quot(x, tsc_ratio) /\ x % tsc_ratio = Rem(x, tsc_ratio)
                      /\ Rem(x, tsc_ratio) \in 0 .. tsc_ratio - 1
                      /\ x = Tick(x) * tsc_ratio + Rem(x, tsc_ratio)
    BY <1>1, Division DEF Tick, Quot, Rem
  <1>3. \A k \in Nat : (k + 1) * tsc_ratio = k * tsc_ratio + tsc_ratio
    BY <1>1
  <1>4. Tick(t) * tsc_ratio <= t /\ t < (Tick(t) + 1) * tsc_ratio
    BY <1>1, <1>2, <1>3
  <1>5. \A k \in Nat : t = k * tsc_ratio => Tick(t) = k /\ t % tsc_ratio = 0
    <2> SUFFICES ASSUME NEW k \in Nat, t = k * tsc_ratio PROVE Tick(t) = k /\ t % tsc_ratio = 0
      OBVIOUS
    <2>1. Divides(t, tsc_ratio, k, 0)
      BY <1>1 DEF Divides
    <2> QED BY <1>1, <1>2, <2>1, DivisionIs
  <1>6. Tick(t) <= Tick(t + 1)
    <2>1. Tick(t) * tsc_ratio < (Tick(t + 1) + 1) * tsc_ratio
      <3>1. (Tick(t + 1) + 1) * tsc_ratio = Tick(t + 1) * tsc_ratio + tsc_ratio
        BY <1>1, <1>3
      <3>2. t + 1 \in Nat /\ Rem(t + 1, tsc_ratio) < tsc_ratio /\ Rem(t, tsc_ratio) >= 0
        BY <1>1, <1>2
      <3>3. /\ t = Tick(t) * tsc_ratio + Rem(t, tsc_ratio)
            /\ t + 1 = Tick(t + 1) * tsc_ratio + Rem(t + 1, tsc_ratio)
            /\ Tick(t) * tsc_ratio \in Int /\ Tick(t + 1) * tsc_ratio \in Int
            /\ Rem(t, tsc_ratio) \in Int /\ Rem(t + 1, tsc_ratio) \in Int
        <4>1. \A x \in {t, t + 1} :
                /\ x = Tick(x) * tsc_ratio + Rem(x, tsc_ratio)
                /\ Tick(x) * tsc_ratio \in Int /\ Rem(x, tsc_ratio) \in Int
          <5> SUFFICES ASSUME NEW x \in Nat
                       PROVE  /\ x = Tick(x) * tsc_ratio + Rem(x, tsc_ratio)
                              /\ Tick(x) * tsc_ratio \in Int /\ Rem(x, tsc_ratio) \in Int
            BY <3>2
          <5>1. Tick(x) \in Nat
            BY TickNat
          <5> QED BY <1>1, <1>2, <5>1
        <4> QED BY <4>1
      <3> QED BY <1>1, <3>1, <3>2, <3>3
    <2>2. Tick(t + 1) + 1 <= Tick(t) <=> (Tick(t + 1) + 1) * tsc_ratio <= Tick(t) * tsc_ratio
      BY <1>1, Products
    <2>3. Tick(t) * tsc_ratio \in Int /\ (Tick(t + 1) + 1) * tsc_ratio \in Int
      BY <1>1
    <2> QED BY <1>1, <2>1, <2>2, <2>3
  <1> QED BY <1>1, <1>2, <1>4, <1>5, <1>6

\* The decoder tells, from what it saw last, whether the low part of the clock
\* passed the reference, however many MTCs were lost within a turn.
LEMMA PassedRight ==
  ASSUME NEW c, NEW ref \in Nat, NEW last \in Nat, ref <= last, NEW d \in 1 .. CtcRange - 1,
         c.tsc_ref_ctc = ref % CtcRange, c.ctc_prev = last % CtcRange,
         c.tsc_approx_ovf \in Nat, c.tsc_approx_ovf = 0 => d = 1
  PROVE  Passed(c, (last + d) % CtcRange) <=> Rem(last - ref, CtcRange) + d >= CtcRange
  <1> DEFINE C    == CtcRange
             a    == Rem(ref, C)
             r    == Rem(last - ref, C)
             prev == Rem(last, C)
             ctc  == Rem(last + d, C)
  <1>1. C \in Nat \ {0, 1} /\ d \in 0 .. C - 1
    BY ClockAssumption
  <1>2. a \in 0 .. C - 1 /\ r \in 0 .. C - 1 /\ prev \in 0 .. C - 1
    <2>1. C \in Nat \ {0} /\ ref \in Int /\ last \in Int /\ last - ref \in Int
      BY <1>1
    <2> HIDE DEF C
    <2> QED BY <2>1, Division
  <1>3. prev = IF a + r < C THEN a + r ELSE a + r - C
    <2>1. last = ref + (last - ref) /\ last - ref \in Nat
      OBVIOUS
    <2>2. Adds(C, ref, last - ref)
      BY <1>1, <2>1, DivisionAdds
    <2> QED BY <1>1, <1>2, <2>1, <2>2 DEF Adds
  <1>4. ctc = IF prev + d < C THEN prev + d ELSE prev + d - C
    <2>1. Rem(d, C) = d /\ Adds(C, last, d)
      BY <1>1, DivisionBelow, DivisionAdds
    <2> QED BY <1>1, <1>2, <2>1 DEF Adds
  <1>5. Passed(c, ctc) <=>
          \/ c.tsc_approx_ovf = 0 /\ ctc = a
          \/ c.tsc_approx_ovf >= 1 /\ prev < a /\ (prev >= ctc \/ ctc >= a)
          \/ c.tsc_approx_ovf >= 1 /\ prev > a /\ a <= ctc /\ ctc <= prev
    BY DEF Passed, Rem
  <1>6. (last + d) % CtcRange = ctc
    BY DEF Rem
  <1> HIDE DEF C, a, r, prev, ctc
  <1>7. Passed(c, ctc) <=> r + d >= C
    BY <1>1, <1>2, <1>3, <1>4, <1>5
  <1> QED BY <1>6, <1>7 DEF r, C

-----------------------------------------------------------------------------
(* The rate of the core's clock.                                           *)

\* A cycle at any ratio takes a whole number of units.
LEMMA RateIs ==
  ASSUME NEW cbr \in Cbrs
  PROVE  /\ cbr * bus_hz \in Nat \ {0} /\ CycTime(cbr) \in Nat \ {0}
         /\ base_factor = CycTime(cbr) * (cbr * bus_hz)
  <1> DEFINE f == cbr * bus_hz
  <1>1. cbr \in Nat \ {0} /\ bus_hz \in Nat \ {0} /\ base_factor \in Nat \ {0}
        /\ base_factor % f = 0
    BY RateAssumption
  <1>2. f \in Nat \ {0}
    BY <1>1
  <1>3. CycTime(cbr) = Quot(base_factor, f) /\ Rem(base_factor, f) = 0
    BY <1>1 DEF CycTime, Quot, Rem
  <1> HIDE DEF f
  <1>4. Quot(base_factor, f) \in Int /\ base_factor = Quot(base_factor, f) * f + 0
    BY <1>1, <1>2, <1>3, Division
  <1> DEFINE q == Quot(base_factor, f)
  <1> HIDE DEF q
  <1>5. q \in Int /\ base_factor = q * f
    BY <1>1, <1>2, <1>4 DEF q
  <1>6. q >= 1
    <2>1. q <= 0 <=> q * f <= 0 * f
      BY <1>2, <1>5, Products
    <2>2. 0 * f = 0
      BY <1>2
    <2> QED BY <1>1, <1>5, <2>1, <2>2
  <1> QED BY <1>2, <1>3, <1>5, <1>6 DEF f, q

\* Products that divide.
LEMMA QuotientOf ==
  ASSUME NEW x \in Nat, NEW t \in Nat, NEW f \in Nat \ {0}
  PROVE  (x * (t * f)) \div f = x * t
  <1>1. x * t \in Int /\ x * (t * f) \in Int /\ x * (t * f) = (x * t) * f + 0
    OBVIOUS
  <1> DEFINE y == x * (t * f)
             z == x * t
  <1>2. y \in Int /\ z \in Int /\ y = z * f + 0
    BY <1>1
  <1> HIDE DEF y, z
  <1>3. Divides(y, f, z, 0)
    BY <1>2 DEF Divides
  <1>4. Quot(y, f) = z
    BY <1>2, <1>3, DivisionIs
  <1> QED BY <1>4 DEF y, z, Quot

\* Quotients of times are times.
LEMMA QuotientNat ==
  ASSUME NEW x \in Nat, NEW f \in Nat \ {0}
  PROVE  x \div f \in Nat
  <1> DEFINE q == Quot(x, f)
  <1>1. q \in Int /\ Rem(x, f) \in 0 .. f - 1 /\ x = q * f + Rem(x, f)
    BY Division
  <1> HIDE DEF q
  <1>2. q >= 0
    <2>1. q <= -1 <=> q * f <= (-1) * f
      BY <1>1, Products
    <2>2. (-1) * f = -f /\ q * f \in Int
      BY <1>1
    <2> QED BY <1>1, <2>1, <2>2
  <1> QED BY <1>1, <1>2 DEF q, Quot

-----------------------------------------------------------------------------
(* Times.                                                                  *)

\* No count of cycles lies behind the packets it is subtracted from.
GoodClock(c) ==
  /\ c \in ClockFields
  /\ c.tsc_ref_cyc_cnt <= c.cyc_cnt_ref /\ c.tsc.cyc_cnt <= c.cyc_cnt_ref

Untimed(c) == c.tsc_approx_en = 0 => c.tsc_approx_ref = 0

\* The 8 bits of a count.
LEMMA Remainder ==
  ASSUME NEW x \in Int PROVE x % CtcRange \in 0 .. CtcRange - 1
  BY ClockAssumption

\* An MTC moves the reference by the turns it counted.
LEMMA MtcGood ==
  ASSUME NEW c, GoodClock(c), NEW ctc \in 0 .. CtcRange - 1, NEW cyc_cnt \in Nat, cyc_cnt <= c.cyc_cnt_ref
  PROVE  GoodClock(OnMtc(c, ctc, cyc_cnt))
  <1> DEFINE ovf  == c.tsc_ref_ctc_ovf + (IF Passed(c, ctc) THEN 1 ELSE 0)
             diff == (ctc - c.tsc_ref_ctc) % CtcRange
  <1>1. ovf \in Nat /\ c.tsc_ref_ctc \in 0 .. CtcRange - 1 /\ CtcRange \in Nat /\ tsc_ratio \in Nat
    BY ClockAssumption DEF GoodClock, ClockFields
  <1>2. diff \in Nat
    <2>1. ctc - c.tsc_ref_ctc \in Int
      BY <1>1
    <2> QED BY <2>1, <1>1, Remainder
  <1> HIDE DEF ovf, diff
  <1>3. ovf * CtcRange \in Nat
    BY <1>1, ProductNat
  <1>4. diff + ovf * CtcRange \in Nat
    BY <1>2, <1>3
  <1> DEFINE at == (diff + ovf * CtcRange) * tsc_ratio
  <1>5. at \in Nat
    BY <1>1, <1>4, ProductNat
  <1>6. OnMtc(c, ctc, cyc_cnt) =
          [c EXCEPT !.tsc_ref_ctc_ovf = ovf, !.tsc_approx_ctc = at,
                    !.tsc_approx_cyc = 0, !.tsc_approx_ovf = 0,
                    !.tsc_ref_cyc_cnt = cyc_cnt, !.ctc_prev = ctc]
    BY DEF OnMtc, ovf, diff
  <1> DEFINE next == [c EXCEPT !.tsc_ref_ctc_ovf = ovf, !.tsc_approx_ctc = at,
                    !.tsc_approx_cyc = 0, !.tsc_approx_ovf = 0,
                    !.tsc_ref_cyc_cnt = cyc_cnt, !.ctc_prev = ctc]
  <1> HIDE DEF at
  <1>7. next \in ClockFields
    BY <1>1, <1>5 DEF GoodClock, ClockFields
  <1>8. /\ next.tsc_ref_cyc_cnt = cyc_cnt /\ next.cyc_cnt_ref = c.cyc_cnt_ref
        /\ next.tsc = c.tsc
    BY DEF GoodClock, ClockFields
  <1>9. c.tsc.cyc_cnt <= c.cyc_cnt_ref
    BY DEF GoodClock
  <1> HIDE DEF next
  <1>10. GoodClock(next)
    BY <1>7, <1>8, <1>9 DEF GoodClock
  <1> QED BY <1>6, <1>10 DEF next

\* What record_intel_pt_pkt does to the clock.
LEMMA AdvanceGood ==
  ASSUME NEW c, GoodClock(c), NEW type, NEW val, NEW cyc_cnt \in Nat,
         type = "MTC" => val \in 0 .. CtcRange - 1,
         c.tsc_ref_cyc_cnt <= cyc_cnt, cyc_cnt <= c.cyc_cnt_ref
  PROVE  GoodClock(Advance(c, type, val, cyc_cnt))
  <1>1. CASE type = "MTC" /\ c.tsc_approx_en = 1
    BY <1>1, MtcGood DEF Advance
  <1>2. CASE type \in {"TSC", "TSC_MTC"}
    <2>1. \A en \in {0, 1} : GoodClock(Enable(c, en))
      BY DEF Enable, GoodClock, ClockFields
    <2>2. CASE type = "TSC"
      <3>1. Advance(c, type, val, cyc_cnt) = Enable(c, 0)
        BY <2>2 DEF Advance, CycEligible
      <3> QED BY <2>1, <3>1
    <2>3. CASE type = "TSC_MTC"
      <3>1. Advance(c, type, val, cyc_cnt) = Enable(c, 1)
        BY <2>3 DEF Advance, CycEligible
      <3> QED BY <2>1, <3>1
    <2> QED BY <1>2, <2>2, <2>3
  <1>3. CASE type \in CycEligible \ {"TSC", "MTC"} /\ c.tsc_approx_en = 1
    <2>1. Advance(c, type, val, cyc_cnt) =
            [c EXCEPT !.tsc_approx_cyc = c.tsc_approx_cyc + cyc_cnt - c.tsc_ref_cyc_cnt,
                      !.tsc_ref_cyc_cnt = cyc_cnt]
      BY <1>3 DEF Advance, CycEligible
    <2>2. c.tsc_approx_cyc + cyc_cnt - c.tsc_ref_cyc_cnt \in Nat
      BY DEF GoodClock, ClockFields
    <2> QED BY <2>1, <2>2 DEF GoodClock, ClockFields
  <1> QED BY <1>1, <1>2, <1>3 DEF Advance, CycEligible

\* Recording a packet keeps the clock good, and without a reference there is no time.
LEMMA RecordGood ==
  ASSUME NEW c, GoodClock(c), NEW type, NEW val, NEW cyc_cnt \in Nat,
         type = "MTC" => val \in 0 .. CtcRange - 1,
         c.tsc_ref_cyc_cnt <= cyc_cnt, cyc_cnt <= c.cyc_cnt_ref
  PROVE  /\ GoodClock(record_intel_pt_pkt(c, type, val, cyc_cnt))
         /\ Untimed(record_intel_pt_pkt(c, type, val, cyc_cnt))
  <1> DEFINE ovf == [c EXCEPT !.tsc_approx_ovf = c.tsc_approx_ovf + (IF type = "OVF" THEN 1 ELSE 0)]
             adv == Advance(ovf, type, val, cyc_cnt)
  <1>1. GoodClock(ovf) /\ ovf.tsc_ref_cyc_cnt = c.tsc_ref_cyc_cnt /\ ovf.cyc_cnt_ref = c.cyc_cnt_ref
    BY DEF GoodClock, ClockFields
  <1> HIDE DEF ovf
  <1>2. GoodClock(adv)
    BY <1>1, AdvanceGood
  <1>3. record_intel_pt_pkt(c, type, val, cyc_cnt) = [adv EXCEPT !.tsc_approx_ref = Estimate(adv)]
    BY DEF record_intel_pt_pkt, ovf
  <1> HIDE DEF adv
  <1>4. Estimate(adv) \in Nat /\ (adv.tsc_approx_en = 0 => Estimate(adv) = 0)
    <2>1. /\ adv.tsc_ref \in Nat /\ adv.tsc_approx_ctc \in Nat /\ adv.tsc_approx_cyc \in Nat
          /\ adv.cbr_factor \in Nat /\ base_factor \in Nat
      BY <1>2, RateAssumption DEF GoodClock, ClockFields
    <2> DEFINE x == adv.tsc_approx_cyc * base_factor
    <2>2. x \in Nat
      BY <2>1, ProductNat
    <2> HIDE DEF x
    <2>3. adv.cbr_factor # 0 => x \div adv.cbr_factor \in Nat
      BY <2>1, <2>2, QuotientNat
    <2>4. adv.cbr_factor # 0 => CycTsc(adv) \in Nat
      BY <2>3 DEF CycTsc, x
    <2> QED BY <2>1, <2>4 DEF Estimate
  <1> QED BY <1>2, <1>3, <1>4 DEF GoodClock, ClockFields, Untimed

-----------------------------------------------------------------------------
(* The handlers.                                                           *)

GoodAndUntimed(c) == GoodClock(c) /\ Untimed(c)

\* A TSC or a TMA sets a new reference.
LEMMA ReferenceGood ==
  ASSUME NEW c, GoodClock(c), NEW tsc \in Nat, NEW ctc \in 0 .. CtcRange - 1,
         NEW cyc_cnt \in Nat, cyc_cnt <= c.cyc_cnt_ref
  PROVE  /\ GoodClock(Reference(c, tsc, ctc, cyc_cnt))
         /\ Reference(c, tsc, ctc, cyc_cnt).tsc_ref_cyc_cnt = cyc_cnt
         /\ Reference(c, tsc, ctc, cyc_cnt).cyc_cnt_ref = c.cyc_cnt_ref
  BY DEF Reference, GoodClock, ClockFields

\* Packets that are recorded with the count as it is.
LEMMA RecordNow ==
  ASSUME NEW c, GoodClock(c), NEW type, NEW val, type = "MTC" => val \in 0 .. CtcRange - 1
  PROVE  GoodAndUntimed(record_intel_pt_pkt(c, type, val, c.cyc_cnt_ref))
  <1>1. c.cyc_cnt_ref \in Nat /\ c.tsc_ref_cyc_cnt <= c.cyc_cnt_ref
    BY DEF GoodClock, ClockFields
  <1>2. c.cyc_cnt_ref <= c.cyc_cnt_ref
    BY <1>1
  <1> QED BY <1>1, <1>2, RecordGood DEF GoodAndUntimed

\* A packet without a time.
LEMMA OtherGood ==
  ASSUME NEW c, GoodClock(c), NEW type, type # "MTC"
  PROVE  GoodAndUntimed(pkt_Other(c, type))
  BY RecordNow DEF pkt_Other

\* An MTC.
LEMMA MtcPacketGood ==
  ASSUME NEW c, GoodClock(c), NEW ctc \in 0 .. CtcRange - 1
  PROVE  GoodAndUntimed(pkt_MTC(c, ctc))
  BY RecordNow DEF pkt_MTC

\* A CYC.
LEMMA CycGood ==
  ASSUME NEW c, GoodClock(c), NEW cyc \in Nat
  PROVE  GoodAndUntimed(pkt_CYC(c, cyc))
  <1> DEFINE n == [c EXCEPT !.cyc_cnt_ref = c.cyc_cnt_ref + cyc]
  <1>1. GoodClock(n)
    BY DEF GoodClock, ClockFields
  <1> HIDE DEF n
  <1>2. GoodAndUntimed(record_intel_pt_pkt(n, "CYC", cyc, n.cyc_cnt_ref))
    BY <1>1, RecordNow
  <1> QED BY <1>2 DEF pkt_CYC, n

\* A CBR.
LEMMA CbrGood ==
  ASSUME NEW c, GoodClock(c), NEW cbr \in Cbrs
  PROVE  GoodAndUntimed(pkt_CBR(c, cbr))
  <1> DEFINE n == [c EXCEPT !.cbr_factor = cbr * bus_hz]
  <1>1. GoodClock(n) /\ n.cyc_cnt_ref = c.cyc_cnt_ref
    BY RateIs DEF GoodClock, ClockFields
  <1> HIDE DEF n
  <1>2. GoodAndUntimed(record_intel_pt_pkt(n, "CBR", cbr, n.cyc_cnt_ref))
    BY <1>1, RecordNow
  <1> QED BY <1>1, <1>2 DEF pkt_CBR, n

\* A TSC.
LEMMA TscGood ==
  ASSUME NEW c, GoodClock(c), NEW tsc \in Nat
  PROVE  GoodAndUntimed(pkt_TSC(c, tsc))
  <1> DEFINE r == Reference(c, tsc, 0, c.cyc_cnt_ref)
             p == record_intel_pt_pkt(r, "TSC", tsc, c.cyc_cnt_ref)
  <1>1. c.cyc_cnt_ref \in Nat /\ c.cyc_cnt_ref <= c.cyc_cnt_ref /\ 0 \in 0 .. CtcRange - 1
    BY ClockAssumption DEF GoodClock, ClockFields
  <1>2. GoodClock(r) /\ r.tsc_ref_cyc_cnt = c.cyc_cnt_ref /\ r.cyc_cnt_ref = c.cyc_cnt_ref
    BY <1>1, ReferenceGood
  <1> HIDE DEF r
  <1>3. GoodClock(p) /\ Untimed(p)
    BY <1>1, <1>2, RecordNow DEF GoodAndUntimed
  <1>4. p.cyc_cnt_ref = c.cyc_cnt_ref
    <2>1. \A d, type, val, cyc_cnt : GoodClock(d) /\ type = "TSC" =>
            record_intel_pt_pkt(d, type, val, cyc_cnt).cyc_cnt_ref = d.cyc_cnt_ref
      <3> SUFFICES ASSUME NEW d, NEW val, NEW cyc_cnt, GoodClock(d)
                   PROVE  record_intel_pt_pkt(d, "TSC", val, cyc_cnt).cyc_cnt_ref = d.cyc_cnt_ref
        OBVIOUS
      <3> DEFINE ovf == [d EXCEPT !.tsc_approx_ovf = d.tsc_approx_ovf + (IF "TSC" = "OVF" THEN 1 ELSE 0)]
      <3>1. ovf \in ClockFields /\ ovf.cyc_cnt_ref = d.cyc_cnt_ref
        BY DEF GoodClock, ClockFields
      <3>2. record_intel_pt_pkt(d, "TSC", val, cyc_cnt) =
              [Advance(ovf, "TSC", val, cyc_cnt) EXCEPT !.tsc_approx_ref = Estimate(Advance(ovf, "TSC", val, cyc_cnt))]
        BY DEF record_intel_pt_pkt
      <3> HIDE DEF ovf
      <3>3. Advance(ovf, "TSC", val, cyc_cnt) = Enable(ovf, 0)
        BY DEF Advance, CycEligible
      <3>4. Enable(ovf, 0) \in ClockFields /\ Enable(ovf, 0).cyc_cnt_ref = ovf.cyc_cnt_ref
        BY <3>1 DEF Enable, ClockFields
      <3> QED BY <3>1, <3>2, <3>3, <3>4 DEF ClockFields
    <2> QED BY <2>1, <1>2
  <1> HIDE DEF p
  <1>5. GoodAndUntimed([p EXCEPT !.tsc = [val |-> tsc, cyc_cnt |-> c.cyc_cnt_ref]])
    BY <1>1, <1>3, <1>4 DEF GoodAndUntimed, GoodClock, Untimed, ClockFields
  <1> QED BY <1>5 DEF pkt_TSC, p, r

\* A TMA, which goes with the TSC recorded before it.
LEMMA TmaGood ==
  ASSUME NEW c, GoodClock(c), Untimed(c), NEW ctc \in Nat
  PROVE  GoodAndUntimed(pkt_TSC_MTC(c, ctc))
  <1>1. CASE c.tsc.val \div tsc_ratio # ctc
    BY <1>1 DEF pkt_TSC_MTC, GoodAndUntimed, GoodClock, Untimed, ClockFields
  <1>2. CASE ~(c.tsc.val \div tsc_ratio # ctc)
    <2> DEFINE r == Reference(c, c.tsc.val, ctc % CtcRange, c.tsc.cyc_cnt)
    <2>1. /\ c.tsc.val \in Nat /\ c.tsc.cyc_cnt \in Nat /\ c.tsc.cyc_cnt <= c.cyc_cnt_ref
          /\ c.tsc.cyc_cnt <= c.tsc.cyc_cnt
      BY DEF GoodClock, ClockFields
    <2>2. ctc % CtcRange \in 0 .. CtcRange - 1
      BY Remainder
    <2>3. GoodClock(r) /\ r.tsc_ref_cyc_cnt = c.tsc.cyc_cnt /\ r.cyc_cnt_ref = c.cyc_cnt_ref
      BY <2>1, <2>2, ReferenceGood
    <2> HIDE DEF r
    <2>4. GoodAndUntimed(record_intel_pt_pkt(r, "TSC_MTC", ctc % CtcRange, c.tsc.cyc_cnt))
      BY <2>1, <2>3, RecordGood DEF GoodAndUntimed
    <2> QED BY <1>2, <2>4 DEF pkt_TSC_MTC, r
  <1> QED BY <1>1, <1>2

-----------------------------------------------------------------------------
(* The invariant.                                                          *)

\* The decoder's clock is good, and the processor's has its type.
ClockInv == GoodAndUntimed(clk) /\ now \in Nat /\ core \in CoreFields

\* The clock starts without a reference.
LEMMA ClockInvInit == ClockInit => ClockInv
  <1> SUFFICES ASSUME ClockInit PROVE ClockInv
    OBVIOUS
  <1>1. 0 \in 0 .. CtcRange - 1
    BY ClockAssumption
  <1>2. GoodAndUntimed(Clock0)
    BY <1>1 DEF GoodAndUntimed, GoodClock, Untimed, ClockFields, Clock0
  <1> QED BY <1>2 DEF ClockInit, ClockInv, CoreFields

\* An edge ends a cycle.
LEMMA EdgeGood ==
  ASSUME NEW g \in CoreFields, NEW t \in Nat
  PROVE  [g EXCEPT !.edge = t, !.pending = @ + 1] \in CoreFields
  <1> DEFINE more == g.pending + 1
  <1>1. more \in Nat
    BY DEF CoreFields
  <1>2. [g EXCEPT !.edge = t, !.pending = @ + 1] = [g EXCEPT !.edge = t, !.pending = more]
    BY DEF CoreFields
  <1> HIDE DEF more
  <1>3. [g EXCEPT !.edge = t, !.pending = more] \in CoreFields
    BY <1>1 DEF CoreFields
  <1> QED BY <1>2, <1>3

\* Every packet and every loss keeps the clock.
LEMMA ClockInvStep == ASSUME ClockInv, [ValuesNext]_valueVars PROVE ClockInv'
  <1>1. GoodClock(clk) /\ Untimed(clk)
    BY DEF ClockInv, GoodAndUntimed
  <1>2. CASE SendIp
    <2>1. GoodAndUntimed(pkt_Other(clk, "TIP"))
      BY <1>1, OtherGood
    <2> QED BY <1>2, <2>1 DEF SendIp, cpuVars, ClockInv, GoodAndUntimed, GoodClock, Untimed
  <1>3. CASE SendPsb
    <2>1. GoodAndUntimed(pkt_Other(clk, "PSB"))
      BY <1>1, OtherGood
    <2> QED BY <1>3, <2>1 DEF SendPsb, ClockInv, GoodAndUntimed, GoodClock, Untimed
  <1>4. CASE TimePasses
    <2>1. now' \in Nat /\ core \in CoreFields
      BY <1>4 DEF TimePasses, ClockInv
    <2>2. CASE core' = core
      BY <1>4, <2>1, <2>2 DEF TimePasses, ClockInv, GoodAndUntimed, GoodClock, Untimed
    <2>3. CASE core' = [core EXCEPT !.edge = now', !.pending = @ + 1]
      <3>1. core' \in CoreFields
        BY <2>1, <2>3, EdgeGood
      <3> QED BY <1>4, <2>1, <3>1 DEF TimePasses, ClockInv, GoodAndUntimed, GoodClock, Untimed
    <2> QED BY <1>4, <2>2, <2>3 DEF TimePasses
  <1>5. CASE StartOverflow \/ StartPsb
    BY <1>5 DEF StartOverflow, StartPsb, ClockInv, GoodAndUntimed, GoodClock, Untimed
  <1>6. CASE SendCyc
    <2>1. core.pending \in Nat /\ core' \in CoreFields
      BY <1>6 DEF SendCyc, ClockInv, CoreFields
    <2>2. GoodAndUntimed(pkt_CYC(clk, core.pending))
      BY <1>1, <2>1, CycGood
    <2> QED BY <1>6, <2>1, <2>2 DEF SendCyc, ClockInv, GoodAndUntimed, GoodClock, Untimed
  <1>7. CASE ChangeRate
    <2>1. PICK cbr \in Cbrs :
            /\ clk' = IF overflowing THEN clk ELSE pkt_CBR(clk, cbr)
            /\ core' = [core EXCEPT !.cbr = cbr, !.told = ~overflowing]
            /\ now' = now
      BY <1>7 DEF ChangeRate
    <2>2. GoodAndUntimed(pkt_CBR(clk, cbr))
      BY <1>1, CbrGood
    <2>3. core' \in CoreFields
      BY <2>1 DEF ClockInv, CoreFields
    <2> QED BY <1>1, <2>1, <2>2, <2>3 DEF ClockInv, GoodAndUntimed, GoodClock, Untimed
  <1>8. CASE SendMtc
    <2>1. Tick(now) % CtcRange \in 0 .. CtcRange - 1
      BY TickNat, Remainder DEF ClockInv
    <2>2. GoodAndUntimed(pkt_MTC(clk, Tick(now) % CtcRange))
      BY <1>1, <2>1, MtcPacketGood
    <2> QED BY <1>8, <2>2 DEF SendMtc, ClockInv, GoodAndUntimed, GoodClock, Untimed
  <1>9. CASE EndOverflow
    <2>1. GoodAndUntimed(pkt_Other(clk, "OVF"))
      BY <1>1, OtherGood
    <2>2. core' \in CoreFields
      BY <1>9 DEF EndOverflow, ClockInv, CoreFields
    <2> QED BY <1>9, <2>1, <2>2 DEF EndOverflow, ClockInv, GoodAndUntimed, GoodClock, Untimed
  <1>10. CASE SendTsc
    <2>1. GoodAndUntimed(pkt_TSC(clk, now))
      BY <1>1, TscGood DEF ClockInv
    <2> QED BY <1>10, <2>1 DEF SendTsc, ClockInv, GoodAndUntimed, GoodClock, Untimed
  <1>11. CASE SendTma
    <2>1. GoodAndUntimed(pkt_TSC_MTC(clk, Tick(now)))
      BY <1>1, TmaGood, TickNat DEF ClockInv
    <2> QED BY <1>11, <2>1 DEF SendTma, ClockInv, GoodAndUntimed, GoodClock, Untimed
  <1>12. CASE SendCbr
    <2>1. core.cbr \in Cbrs /\ core' \in CoreFields
      BY <1>12 DEF SendCbr, ClockInv, CoreFields
    <2>2. GoodAndUntimed(pkt_CBR(clk, core.cbr))
      BY <1>1, <2>1, CbrGood
    <2> QED BY <1>12, <2>1, <2>2 DEF SendCbr, ClockInv, GoodAndUntimed, GoodClock, Untimed
  <1>13. CASE UNCHANGED valueVars
    BY <1>13 DEF valueVars, clockVars, cpuVars, ClockInv, GoodAndUntimed, GoodClock, Untimed
  <1> QED BY <1>2, <1>3, <1>4, <1>5, <1>6, <1>7, <1>8, <1>9, <1>10, <1>11, <1>12, <1>13
          DEF ValuesNext, ClockNext

\* No packet takes a part of the estimate below zero or out of the range of the
\* crystal clock, and there is no time without a reference: the cycles a TMA
\* takes over from its TSC are never ahead of the count.
THEOREM ValuesCorrect == ValuesSpec => []ValuesTypeOK
  <1>1. ValuesInit => IpInv /\ ClockInv
    BY ZeroIsAddress, ClockInvInit DEF ValuesInit, IpInit, IpInv, IpTypeOK
  <1>2. IpInv /\ ClockInv /\ [ValuesNext]_valueVars => IpInv' /\ ClockInv'
    BY IpInvStep, ValuesAreIps, ClockInvStep DEF valueVars
  <1>3. IpInv /\ ClockInv => ValuesTypeOK
    BY DEF IpInv, ClockInv, GoodAndUntimed, GoodClock, Untimed, ValuesTypeOK
  <1> QED BY <1>1, <1>2, <1>3, PTL DEF ValuesSpec

-----------------------------------------------------------------------------
(* The estimate.                                                           *)

\* In what follows c is the decoder's clock, n the true time, k the tick told last,
\* g the core's clock, h the span of its cycles since then, lost whether packets are
\* being lost, and s what since says.

\* The cycles on top of the time t, at which a tick or a reference was told, start
\* from the edge before it.
Starts(h, t) == h.from <= t /\ t < h.from + h.long

\* Before its first MTC a reference counts cycles only.
BeforeMtc(c, k, h, s) ==
  /\ k = Tick(c.tsc_ref) /\ s \in {"tma", "ovf"}
  /\ c.tsc_approx_ctc = 0 /\ c.tsc_ref_ctc_ovf = 0
  /\ Starts(h, c.tsc_ref)
  /\ s = "tma" => c.tsc_approx_ovf = 0

\* After it, the ticks since the reference are those up to the last MTC, or a turn
\* more than that.
Ticks(c, k) == k - Tick(c.tsc_ref)

\* The turns of the CTC that the decoder counted, and the time it makes of them.
Turns(c, k, extra) ==
  /\ c.tsc_ref_ctc_ovf = Quot(Ticks(c, k), CtcRange) + extra
  /\ c.tsc_approx_ctc = (Ticks(c, k) + extra * CtcRange) * tsc_ratio

\* The estimate is the time of the last tick told and the cycles since.
AfterMtc(c, k, h, s) ==
  /\ s \in {"mtc", "ovf"} /\ c.ctc_prev = k % CtcRange
  /\ \E extra \in {0, 1} : (extra = 1 => s = "ovf") /\ Turns(c, k, extra)
  /\ Starts(h, k * tsc_ratio)

\* What the estimate is made of, while there is one.
Anchored(c, n, k, h, lost, s) ==
  /\ c.tsc_ref <= n /\ c.tsc_ref_ctc = Tick(c.tsc_ref) % CtcRange
  /\ Tick(c.tsc_ref) <= k /\ c.tsc_ref_cyc_cnt = c.cyc_cnt_ref
  /\ c.tsc_approx_ovf = 0 /\ ~lost => n <= (k + 1) * tsc_ratio
  /\ BeforeMtc(c, k, h, s) \/ AfterMtc(c, k, h, s)

\* The cycles counted and those not sent yet are the ones that ran since the last
\* tick told, none shorter than the shortest, and if none was lost none longer than
\* the longest.
Counted(c, g, h) ==
  /\ (c.tsc_approx_cyc + g.pending) * h.short <= g.edge - h.from
  /\ c.tsc_approx_ovf = 0 => g.edge - h.from <= (c.tsc_approx_cyc + g.pending) * h.long

\* The processor: no tick is a turn ahead of the last one told.
Sender(n, k, lost, s) ==
  /\ n \in Nat /\ k \in Nat
  /\ k <= Tick(n) /\ Tick(n) - k < CtcRange
  /\ lost \in BOOLEAN /\ s \in {"tma", "mtc", "ovf"}

\* Its core is in the middle of a cycle.
Runs(n, g, h) ==
  /\ g \in CoreFields /\ h \in [from : Nat, short : Nat, long : Nat]
  /\ g.edge <= n /\ n < g.edge + CycTime(g.cbr) /\ h.from <= g.edge
  /\ h.short <= CycTime(g.cbr) /\ CycTime(g.cbr) <= h.long

\* The decoder and the processor together.
Tracked(c, n, k, g, h, lost, s) ==
  /\ Sender(n, k, lost, s) /\ Runs(n, g, h) /\ GoodClock(c)
  /\ c.tsc_approx_ref = Estimate(c) /\ ~c.tsc_mtc_error
  /\ g.told => c.cbr_factor = g.cbr * bus_hz
  /\ c.tsc_approx_en = 1 => Anchored(c, n, k, h, lost, s) /\ Counted(c, g, h)

\* The invariant: a PSB+ is sent in no time.
TimeInv ==
  /\ Tracked(clk, now, ticked, core, span, overflowing, since)
  /\ psb_plus # "none" => ~overflowing /\ core.pending = 0 /\ ~MtcDue
  /\ psb_plus = "TMA" => clk.tsc = [val |-> now, cyc_cnt |-> clk.cyc_cnt_ref]

\* The ratio of the cycles that the estimate counts is one, and known.
Even(g, h) == g.told /\ h.short = h.long

\* Time goes forward, but for a cycle.
Forward(c, g, h, d, g2, h2) ==
  c.tsc_approx_en = 1 /\ Even(g, h) /\ Even(g2, h2) =>
    d.tsc_approx_ref > c.tsc_approx_ref - CycTime(g.cbr)

-----------------------------------------------------------------------------
(* What a packet does to the parts of the estimate.                        *)

\* What only the handlers of a reference and of CYC and CBR change, and the
\* estimate, which is always that of the parts.
Kept(c, d) ==
  /\ d.cbr_factor = c.cbr_factor /\ d.cyc_cnt_ref = c.cyc_cnt_ref
  /\ d.tsc_ref = c.tsc_ref /\ d.tsc_ref_ctc = c.tsc_ref_ctc /\ d.tsc = c.tsc
  /\ d.tsc_mtc_error = c.tsc_mtc_error
  /\ d.tsc_approx_ref = Estimate(d)

\* The parts but the cycles.
SameTicks(c, d) ==
  /\ d.tsc_approx_ctc = c.tsc_approx_ctc /\ d.tsc_ref_ctc_ovf = c.tsc_ref_ctc_ovf
  /\ d.ctc_prev = c.ctc_prev

\* A packet that may be recorded: its count is between the reference's and the last.
Recordable(c, type, val, cyc_cnt) ==
  /\ GoodClock(c) /\ cyc_cnt \in Nat /\ c.tsc_ref_cyc_cnt <= cyc_cnt /\ cyc_cnt <= c.cyc_cnt_ref
  /\ type = "MTC" => val \in 0 .. CtcRange - 1

\* Recording takes over what the type of the packet does.
LEMMA RecordIs ==
  ASSUME NEW c, NEW type, NEW val, NEW cyc_cnt, Recordable(c, type, val, cyc_cnt), NEW o,
         o = [c EXCEPT !.tsc_approx_ovf = c.tsc_approx_ovf + (IF type = "OVF" THEN 1 ELSE 0)],
         NEW adv, adv = Advance(o, type, val, cyc_cnt)
  PROVE  /\ o \in ClockFields /\ adv \in ClockFields
         /\ o = [c EXCEPT !.tsc_approx_ovf = o.tsc_approx_ovf]
         /\ o.tsc_approx_ovf = c.tsc_approx_ovf + (IF type = "OVF" THEN 1 ELSE 0)
         /\ Kept(adv, record_intel_pt_pkt(c, type, val, cyc_cnt))
         /\ SameTicks(adv, record_intel_pt_pkt(c, type, val, cyc_cnt))
         /\ LET d == record_intel_pt_pkt(c, type, val, cyc_cnt)
            IN  /\ d.tsc_approx_en = adv.tsc_approx_en /\ d.tsc_approx_cyc = adv.tsc_approx_cyc
                /\ d.tsc_approx_ovf = adv.tsc_approx_ovf /\ d.tsc_ref_cyc_cnt = adv.tsc_ref_cyc_cnt
  <1>1. GoodClock(o) /\ o.tsc_ref_cyc_cnt = c.tsc_ref_cyc_cnt /\ o.cyc_cnt_ref = c.cyc_cnt_ref
        /\ o.tsc_approx_ovf = c.tsc_approx_ovf + (IF type = "OVF" THEN 1 ELSE 0)
    BY DEF GoodClock, ClockFields, Recordable
  <1>2. GoodClock(adv)
    BY <1>1, AdvanceGood DEF Recordable
  <1>3. record_intel_pt_pkt(c, type, val, cyc_cnt) = [adv EXCEPT !.tsc_approx_ref = Estimate(adv)]
    BY DEF record_intel_pt_pkt
  <1>4. Estimate([adv EXCEPT !.tsc_approx_ref = Estimate(adv)]) = Estimate(adv)
    BY <1>2 DEF Estimate, CycTsc, GoodClock, ClockFields
  <1>5. o = [c EXCEPT !.tsc_approx_ovf = o.tsc_approx_ovf]
    BY <1>1
  <1> QED BY <1>1, <1>2, <1>3, <1>4, <1>5 DEF Kept, SameTicks, GoodClock, ClockFields

\* Packets that bring their cycles.
LEMMA CyclesDo ==
  ASSUME NEW c, NEW type \in {"OVF", "TIP", "CYC"}, NEW val, NEW cyc_cnt,
         Recordable(c, type, val, cyc_cnt)
  PROVE  LET d == record_intel_pt_pkt(c, type, val, cyc_cnt)
         IN  /\ Kept(c, d) /\ d.tsc_approx_en = c.tsc_approx_en
             /\ c.tsc_approx_en = 1 =>
                  /\ SameTicks(c, d) /\ d.tsc_ref_cyc_cnt = cyc_cnt
                  /\ d.tsc_approx_cyc = c.tsc_approx_cyc + cyc_cnt - c.tsc_ref_cyc_cnt
                  /\ d.tsc_approx_ovf = c.tsc_approx_ovf + (IF type = "OVF" THEN 1 ELSE 0)
  <1> DEFINE o   == [c EXCEPT !.tsc_approx_ovf = c.tsc_approx_ovf + (IF type = "OVF" THEN 1 ELSE 0)]
             adv == Advance(o, type, val, cyc_cnt)
             d   == record_intel_pt_pkt(c, type, val, cyc_cnt)
  <1>1. /\ o \in ClockFields /\ adv \in ClockFields
        /\ o = [c EXCEPT !.tsc_approx_ovf = o.tsc_approx_ovf]
        /\ o.tsc_approx_ovf = c.tsc_approx_ovf + (IF type = "OVF" THEN 1 ELSE 0)
        /\ Kept(adv, d) /\ SameTicks(adv, d)
        /\ d.tsc_approx_en = adv.tsc_approx_en /\ d.tsc_approx_cyc = adv.tsc_approx_cyc
        /\ d.tsc_approx_ovf = adv.tsc_approx_ovf /\ d.tsc_ref_cyc_cnt = adv.tsc_ref_cyc_cnt
    BY RecordIs
  <1>2. c \in ClockFields
    BY DEF Recordable, GoodClock
  <1> HIDE DEF o
  <1>3. CASE o.tsc_approx_en = 1
    <2>1. adv = [o EXCEPT !.tsc_approx_cyc = o.tsc_approx_cyc + cyc_cnt - o.tsc_ref_cyc_cnt,
                          !.tsc_ref_cyc_cnt = cyc_cnt]
      BY <1>3 DEF Advance, CycEligible
    <2> HIDE DEF adv, d
    <2> QED BY <1>1, <1>2, <1>3, <2>1 DEF Kept, SameTicks, ClockFields, d
  <1>4. CASE o.tsc_approx_en # 1
    <2>1. adv = o
      BY <1>4 DEF Advance, CycEligible
    <2> HIDE DEF adv, d
    <2> QED BY <1>1, <1>2, <1>4, <2>1 DEF Kept, SameTicks, ClockFields, d
  <1> QED BY <1>3, <1>4

\* Packets that bring nothing.
LEMMA QuietDo ==
  ASSUME NEW c, NEW type \in {"PSB", "CBR"}, NEW val, NEW cyc_cnt, Recordable(c, type, val, cyc_cnt)
  PROVE  LET d == record_intel_pt_pkt(c, type, val, cyc_cnt)
         IN  /\ Kept(c, d) /\ SameTicks(c, d) /\ d.tsc_approx_en = c.tsc_approx_en
             /\ d.tsc_ref_cyc_cnt = c.tsc_ref_cyc_cnt
             /\ d.tsc_approx_cyc = c.tsc_approx_cyc /\ d.tsc_approx_ovf = c.tsc_approx_ovf
  <1> DEFINE o   == [c EXCEPT !.tsc_approx_ovf = c.tsc_approx_ovf + (IF type = "OVF" THEN 1 ELSE 0)]
             adv == Advance(o, type, val, cyc_cnt)
             d   == record_intel_pt_pkt(c, type, val, cyc_cnt)
  <1>1. /\ o \in ClockFields /\ adv \in ClockFields
        /\ o = [c EXCEPT !.tsc_approx_ovf = o.tsc_approx_ovf]
        /\ o.tsc_approx_ovf = c.tsc_approx_ovf + (IF type = "OVF" THEN 1 ELSE 0)
        /\ Kept(adv, d) /\ SameTicks(adv, d)
        /\ d.tsc_approx_en = adv.tsc_approx_en /\ d.tsc_approx_cyc = adv.tsc_approx_cyc
        /\ d.tsc_approx_ovf = adv.tsc_approx_ovf /\ d.tsc_ref_cyc_cnt = adv.tsc_ref_cyc_cnt
    BY RecordIs
  <1>2. c \in ClockFields
    BY DEF Recordable, GoodClock
  <1> HIDE DEF o
  <1>3. adv = o
    BY DEF Advance, CycEligible
  <1> HIDE DEF adv, d
  <1> QED BY <1>1, <1>2, <1>3 DEF Kept, SameTicks, ClockFields, d

\* An MTC.
LEMMA MtcDoes ==
  ASSUME NEW c, NEW ctc, NEW cyc_cnt, Recordable(c, "MTC", ctc, cyc_cnt)
  PROVE  LET d == record_intel_pt_pkt(c, "MTC", ctc, cyc_cnt)
         IN  /\ Kept(c, d) /\ d.tsc_approx_en = c.tsc_approx_en
             /\ c.tsc_approx_en = 1 =>
                  /\ d.tsc_ref_ctc_ovf = c.tsc_ref_ctc_ovf + (IF Passed(c, ctc) THEN 1 ELSE 0)
                  /\ d.tsc_approx_ctc =
                       (((ctc - c.tsc_ref_ctc) % CtcRange) + d.tsc_ref_ctc_ovf * CtcRange) * tsc_ratio
                  /\ d.tsc_approx_cyc = 0 /\ d.tsc_approx_ovf = 0
                  /\ d.tsc_ref_cyc_cnt = cyc_cnt /\ d.ctc_prev = ctc
  <1> DEFINE o   == [c EXCEPT !.tsc_approx_ovf = c.tsc_approx_ovf + (IF "MTC" = "OVF" THEN 1 ELSE 0)]
             adv == Advance(o, "MTC", ctc, cyc_cnt)
             d   == record_intel_pt_pkt(c, "MTC", ctc, cyc_cnt)
  <1>1. /\ o \in ClockFields /\ adv \in ClockFields
        /\ o = [c EXCEPT !.tsc_approx_ovf = o.tsc_approx_ovf]
        /\ o.tsc_approx_ovf = c.tsc_approx_ovf + (IF "MTC" = "OVF" THEN 1 ELSE 0)
        /\ Kept(adv, d) /\ SameTicks(adv, d)
        /\ d.tsc_approx_en = adv.tsc_approx_en /\ d.tsc_approx_cyc = adv.tsc_approx_cyc
        /\ d.tsc_approx_ovf = adv.tsc_approx_ovf /\ d.tsc_ref_cyc_cnt = adv.tsc_ref_cyc_cnt
    BY RecordIs
  <1>2. c \in ClockFields
    BY DEF Recordable, GoodClock
  <1> HIDE DEF o
  <1>3. o = c
    BY <1>1, <1>2 DEF ClockFields
  <1>4. CASE o.tsc_approx_en = 1
    <2> DEFINE ovf == o.tsc_ref_ctc_ovf + (IF Passed(o, ctc) THEN 1 ELSE 0)
               at  == (((ctc - o.tsc_ref_ctc) % CtcRange) + ovf * CtcRange) * tsc_ratio
    <2>1. adv = [o EXCEPT !.tsc_ref_ctc_ovf = ovf, !.tsc_approx_ctc = at,
                          !.tsc_approx_cyc = 0, !.tsc_approx_ovf = 0,
                          !.tsc_ref_cyc_cnt = cyc_cnt, !.ctc_prev = ctc]
      BY <1>4 DEF Advance, OnMtc
    <2>2. /\ ovf = c.tsc_ref_ctc_ovf + (IF Passed(c, ctc) THEN 1 ELSE 0)
          /\ at = (((ctc - c.tsc_ref_ctc) % CtcRange) + ovf * CtcRange) * tsc_ratio
      BY <1>3
    <2> HIDE DEF adv, d, ovf, at
    <2>3. /\ adv.tsc_ref_ctc_ovf = ovf /\ adv.tsc_approx_ctc = at /\ adv.tsc_approx_cyc = 0
          /\ adv.tsc_approx_ovf = 0 /\ adv.tsc_ref_cyc_cnt = cyc_cnt /\ adv.ctc_prev = ctc
          /\ Kept(o, d) /\ adv.tsc_approx_en = 1
      BY <1>1, <1>4, <2>1 DEF Kept, ClockFields
    <2> QED BY <1>1, <1>3, <1>4, <2>2, <2>3 DEF SameTicks, d
  <1>5. CASE o.tsc_approx_en # 1
    <2>1. adv = o
      BY <1>5 DEF Advance, CycEligible
    <2> HIDE DEF adv, d
    <2> QED BY <1>1, <1>3, <1>5, <2>1 DEF Kept, d
  <1> QED BY <1>4, <1>5

\* A TSC or a TMA: a reference is not used, or starts from nothing.
LEMMA ReferenceDoes ==
  ASSUME NEW c, NEW type \in {"TSC", "TSC_MTC"}, NEW val, NEW cyc_cnt, Recordable(c, type, val, cyc_cnt)
  PROVE  LET d == record_intel_pt_pkt(c, type, val, cyc_cnt)
         IN  /\ Kept(c, d)
             /\ d.tsc_approx_en = IF type = "TSC" THEN 0 ELSE 1
             /\ d.tsc_approx_ctc = 0 /\ d.tsc_approx_cyc = 0 /\ d.tsc_approx_ovf = 0
             /\ d.tsc_ref_ctc_ovf = c.tsc_ref_ctc_ovf /\ d.tsc_ref_cyc_cnt = c.tsc_ref_cyc_cnt
  <1> DEFINE o   == [c EXCEPT !.tsc_approx_ovf = c.tsc_approx_ovf + (IF type = "OVF" THEN 1 ELSE 0)]
             adv == Advance(o, type, val, cyc_cnt)
             d   == record_intel_pt_pkt(c, type, val, cyc_cnt)
  <1>1. /\ o \in ClockFields /\ adv \in ClockFields
        /\ o = [c EXCEPT !.tsc_approx_ovf = o.tsc_approx_ovf]
        /\ o.tsc_approx_ovf = c.tsc_approx_ovf + (IF type = "OVF" THEN 1 ELSE 0)
        /\ Kept(adv, d) /\ SameTicks(adv, d)
        /\ d.tsc_approx_en = adv.tsc_approx_en /\ d.tsc_approx_cyc = adv.tsc_approx_cyc
        /\ d.tsc_approx_ovf = adv.tsc_approx_ovf /\ d.tsc_ref_cyc_cnt = adv.tsc_ref_cyc_cnt
    BY RecordIs
  <1>2. c \in ClockFields
    BY DEF Recordable, GoodClock
  <1> HIDE DEF o
  <1>3. adv = Enable(o, IF type = "TSC" THEN 0 ELSE 1)
    BY DEF Advance, CycEligible
  <1> HIDE DEF adv, d
  <1> QED BY <1>1, <1>2, <1>3 DEF Kept, SameTicks, Enable, ClockFields, d

-----------------------------------------------------------------------------
(* Steps and the estimate.                                                 *)

\* The types of the parts.
LEMMA PartsAre ==
  ASSUME NEW c, GoodClock(c)
  PROVE  /\ c.tsc_ref \in Nat /\ c.tsc_approx_cyc \in Nat /\ c.tsc_approx_ovf \in Nat
         /\ c.tsc_approx_ctc \in Nat /\ c.tsc_ref_ctc_ovf \in Nat /\ c.cyc_cnt_ref \in Nat
         /\ c.tsc_approx_ref \in Nat /\ c.tsc_approx_en \in {0, 1} /\ c.cbr_factor \in Nat
         /\ Tick(c.tsc_ref) \in Nat
         /\ tsc_ratio \in Nat \ {0} /\ CtcRange \in Nat \ {0, 1}
  <1>1. c.tsc_ref \in Nat
    BY DEF GoodClock, ClockFields
  <1> QED BY <1>1, ClockAssumption, TickNat DEF GoodClock, ClockFields

\* What the estimate is, once the ratio is told.
LEMMA EstimateIs ==
  ASSUME NEW c, GoodClock(c), c.tsc_approx_en = 1,
         NEW cbr \in Cbrs, c.cbr_factor = cbr * bus_hz
  PROVE  /\ Estimate(c) = c.tsc_ref + c.tsc_approx_ctc + c.tsc_approx_cyc * CycTime(cbr)
         /\ c.tsc_approx_cyc * CycTime(cbr) \in Nat
  <1> DEFINE x == c.tsc_approx_cyc
             t == CycTime(cbr)
             f == cbr * bus_hz
  <1>1. x \in Nat /\ t \in Nat \ {0} /\ f \in Nat \ {0} /\ base_factor = t * f
    BY PartsAre, RateIs
  <1>2. Estimate(c) = c.tsc_ref + c.tsc_approx_ctc + (x * base_factor) \div f
    BY <1>1 DEF Estimate, CycTsc
  <1> HIDE DEF x, t, f
  <1>3. (x * (t * f)) \div f = x * t /\ x * t \in Nat
    BY <1>1, QuotientOf, ProductNat
  <1> QED BY <1>1, <1>2, <1>3 DEF x, t

\* The types of the core's clock.
LEMMA CoreIs ==
  ASSUME NEW n, NEW g, NEW h, Runs(n, g, h)
  PROVE  /\ g.cbr \in Cbrs /\ g.told \in BOOLEAN /\ g.edge \in Nat /\ g.pending \in Nat
         /\ h.from \in Nat /\ h.short \in Nat /\ h.long \in Nat
         /\ CycTime(g.cbr) \in Nat \ {0}
  <1>1. g.cbr \in Cbrs /\ g.told \in BOOLEAN /\ g.edge \in Nat /\ g.pending \in Nat
    BY DEF Runs, CoreFields
  <1> QED BY <1>1, RateIs DEF Runs

\* Cycles that come in, or get lost with an overflow, leave the reference.
LEMMA CyclesAnchored ==
  ASSUME NEW c, NEW d, GoodClock(c), GoodClock(d),
         NEW n \in Nat, NEW k \in Nat, NEW h,
         NEW lost, NEW lost2, NEW s, NEW s2, NEW more \in {0, 1},
         Anchored(c, n, k, h, lost, s),
         d.tsc_ref = c.tsc_ref, d.tsc_ref_ctc = c.tsc_ref_ctc, SameTicks(c, d),
         d.tsc_ref_cyc_cnt = d.cyc_cnt_ref,
         d.tsc_approx_ovf = c.tsc_approx_ovf + more,
         more = 0 => lost2 = lost /\ s2 = s,
         more = 1 => s2 = IF s = "tma" THEN "ovf" ELSE s
  PROVE  Anchored(d, n, k, h, lost2, s2)
  <1>1. /\ c.tsc_ref \in Nat /\ c.tsc_approx_ovf \in Nat
        /\ tsc_ratio \in Nat \ {0}
    BY PartsAre
  <1>2. /\ d.tsc_ref <= n /\ d.tsc_ref_ctc = Tick(d.tsc_ref) % CtcRange
        /\ Tick(d.tsc_ref) <= k /\ d.tsc_ref_cyc_cnt = d.cyc_cnt_ref
        /\ d.tsc_approx_ovf = 0 /\ ~lost2 => n <= (k + 1) * tsc_ratio
    BY <1>1 DEF Anchored
  <1>3. CASE BeforeMtc(c, k, h, s)
    <2>1. BeforeMtc(d, k, h, s2)
      BY <1>1, <1>3 DEF BeforeMtc, SameTicks
    <2> QED BY <1>2, <2>1 DEF Anchored
  <1>4. CASE AfterMtc(c, k, h, s)
    <2>1. s2 = s /\ d.ctc_prev = k % CtcRange
      BY <1>4 DEF AfterMtc, SameTicks
    <2>2. \A extra : Turns(c, k, extra) => Turns(d, k, extra)
      BY DEF Turns, Ticks, SameTicks
    <2>3. AfterMtc(d, k, h, s2)
      BY <1>4, <2>1, <2>2 DEF AfterMtc
    <2> QED BY <1>2, <2>3 DEF Anchored
  <1> QED BY <1>3, <1>4 DEF Anchored

\* The count of cycles is always one that may be recorded.
LEMMA CountRecordable ==
  ASSUME NEW c, GoodClock(c), NEW type, NEW val, type = "MTC" => val \in 0 .. CtcRange - 1
  PROVE  Recordable(c, type, val, c.cyc_cnt_ref)
  BY DEF Recordable, GoodClock, ClockFields

\* More cycles take more time.
LEMMA MoreCycles ==
  ASSUME NEW x \in Nat, NEW a \in Nat, NEW b \in Nat, a <= b
  PROVE  a * x <= b * x /\ x * a <= x * b /\ a * x \in Nat /\ b * x \in Nat
  <1>1. a * x \in Nat /\ b * x \in Nat
    BY ProductNat
  <1>2. x # 0 => a * x <= b * x
    BY Products
  <1>3. x = 0 => a * x = 0 /\ b * x = 0
    OBVIOUS
  <1>4. x * a = a * x /\ x * b = b * x
    OBVIOUS
  <1> QED BY <1>1, <1>2, <1>3, <1>4

LEMMA OneMore ==
  ASSUME NEW x \in Nat, NEW y \in Nat
  PROVE  (x + 1) * y = x * y + y /\ x * y \in Nat
  BY ProductNat

\* TIP, OVF and PSB.
LEMMA OtherStep ==
  ASSUME NEW type \in {"TIP", "OVF", "PSB"}, NEW c, NEW d, d = pkt_Other(c, type),
         NEW n, NEW k, NEW g, NEW h, NEW lost, NEW s, Tracked(c, n, k, g, h, lost, s),
         NEW g2, NEW lost2 \in BOOLEAN, NEW s2,
         type # "OVF" => g2 = g /\ lost2 = lost /\ s2 = s,
         type = "OVF" => g2 = [g EXCEPT !.pending = 0] /\ s2 = IF s = "tma" THEN "ovf" ELSE s
  PROVE  /\ Tracked(d, n, k, g2, h, lost2, s2) /\ Forward(c, g, h, d, g2, h)
         /\ d.tsc = c.tsc /\ d.cyc_cnt_ref = c.cyc_cnt_ref
  <1>1. GoodClock(c) /\ GoodClock(d)
    BY OtherGood DEF Tracked, GoodAndUntimed
  <1>2. Recordable(c, type, 0, c.cyc_cnt_ref)
    BY <1>1, CountRecordable
  <1>3. d = record_intel_pt_pkt(c, type, 0, c.cyc_cnt_ref)
    BY DEF pkt_Other
  <1>4. /\ c.tsc_approx_cyc \in Nat /\ c.cyc_cnt_ref \in Nat /\ c.tsc_approx_ovf \in Nat
        /\ c.tsc_approx_ref \in Nat
    BY <1>1, PartsAre
  <1> DEFINE more == IF type = "OVF" THEN 1 ELSE 0
  <1>5. /\ Kept(c, d) /\ d.tsc_approx_en = c.tsc_approx_en
        /\ c.tsc_approx_en = 1 =>
             /\ SameTicks(c, d) /\ d.tsc_ref_cyc_cnt = c.cyc_cnt_ref
             /\ d.tsc_approx_cyc = c.tsc_approx_cyc
             /\ d.tsc_approx_ovf = c.tsc_approx_ovf + more
    <2>1. c.tsc_approx_en = 1 => c.tsc_ref_cyc_cnt = c.cyc_cnt_ref
      BY DEF Tracked, Anchored
    <2>2. CASE type = "PSB"
      BY <1>2, <1>3, <1>4, <2>1, <2>2, QuietDo
    <2>3. CASE type # "PSB"
      BY <1>2, <1>3, <1>4, <2>1, <2>3, CyclesDo
    <2> QED BY <2>2, <2>3
  <1>6. n \in Nat /\ k \in Nat /\ Runs(n, g, h)
    BY DEF Tracked, Sender
  <1>7. /\ g.pending \in Nat /\ g.edge \in Nat /\ h.from \in Nat /\ h.short \in Nat
        /\ h.long \in Nat /\ CycTime(g.cbr) \in Nat \ {0}
    BY <1>6, CoreIs
  <1>8. /\ Runs(n, g2, h) /\ g2.told = g.told /\ g2.cbr = g.cbr /\ g2.edge = g.edge
        /\ g2.pending = IF more = 1 THEN 0 ELSE g.pending
    BY <1>6 DEF Runs, CoreFields
  <1>9. ASSUME c.tsc_approx_en = 1 PROVE Anchored(d, n, k, h, lost2, s2)
    <2>1. Anchored(c, n, k, h, lost, s)
      BY <1>9 DEF Tracked
    <2>2. /\ d.tsc_ref = c.tsc_ref /\ d.tsc_ref_ctc = c.tsc_ref_ctc /\ SameTicks(c, d)
          /\ d.tsc_ref_cyc_cnt = d.cyc_cnt_ref
          /\ d.tsc_approx_ovf = c.tsc_approx_ovf + more
      BY <1>4, <1>5, <1>9 DEF Kept
    <2>3. /\ more \in {0, 1}
          /\ more = 0 => lost2 = lost /\ s2 = s
          /\ more = 1 => s2 = IF s = "tma" THEN "ovf" ELSE s
      OBVIOUS
    <2> HIDE DEF more
    <2> QED BY <1>1, <1>6, <2>1, <2>2, <2>3, CyclesAnchored
  <1>10. ASSUME c.tsc_approx_en = 1 PROVE Counted(d, g2, h)
    <2>1. Counted(c, g, h) /\ d.tsc_approx_cyc = c.tsc_approx_cyc
          /\ d.tsc_approx_ovf = c.tsc_approx_ovf + more
      BY <1>5, <1>10 DEF Tracked
    <2>2. CASE more = 0
      BY <1>4, <1>8, <2>1, <2>2 DEF Counted
    <2>3. CASE more = 1
      <3> DEFINE x == c.tsc_approx_cyc + 0
                 y == c.tsc_approx_cyc + g.pending
      <3>1. x \in Nat /\ y \in Nat /\ x <= y
        BY <1>4, <1>7
      <3>2. y * h.short <= g.edge - h.from
        BY <2>1 DEF Counted
      <3>3. d.tsc_approx_cyc + g2.pending = x /\ d.tsc_approx_ovf # 0
        BY <1>4, <1>8, <2>1, <2>3
      <3> HIDE DEF x, y
      <3>4. x * h.short <= y * h.short /\ x * h.short \in Nat /\ y * h.short \in Nat
        BY <1>7, <3>1, MoreCycles
      <3>5. x * h.short <= g.edge - h.from
        BY <1>7, <3>2, <3>4
      <3> QED BY <1>8, <3>3, <3>5 DEF Counted
    <2> QED BY <2>2, <2>3
  <1>11. Forward(c, g, h, d, g2, h)
    <2>1. c.tsc_approx_ref = Estimate(c) /\ d.tsc_approx_ref = Estimate(d)
      BY <1>5 DEF Tracked, Kept
    <2>2. c.tsc_approx_en = 1 => Estimate(d) = Estimate(c)
      BY <1>5 DEF Estimate, CycTsc, Kept, SameTicks
    <2> QED BY <1>4, <1>7, <2>1, <2>2 DEF Forward
  <1>12. Sender(n, k, lost2, s2)
    BY DEF Tracked, Sender
  <1> QED BY <1>1, <1>5, <1>8, <1>9, <1>10, <1>11, <1>12 DEF Tracked, Kept

\* CYC: the cycles since those sent last.
LEMMA CycStep ==
  ASSUME NEW c, NEW n, NEW k, NEW g, NEW h, NEW s, Tracked(c, n, k, g, h, FALSE, s),
         NEW d, d = pkt_CYC(c, g.pending), NEW g2, g2 = [g EXCEPT !.pending = 0]
  PROVE  Tracked(d, n, k, g2, h, FALSE, s) /\ Forward(c, g, h, d, g2, h)
  <1> DEFINE more == g.pending
             b    == [c EXCEPT !.cyc_cnt_ref = c.cyc_cnt_ref + more]
  <1>1. n \in Nat /\ k \in Nat /\ Runs(n, g, h)
    BY DEF Tracked, Sender
  <1>2. more \in Nat /\ CycTime(g.cbr) \in Nat \ {0} /\ g.cbr \in Cbrs
    BY <1>1, CoreIs
  <1>3. /\ Runs(n, g2, h) /\ g2.told = g.told /\ g2.cbr = g.cbr /\ g2.edge = g.edge
        /\ g2.pending = 0
    BY <1>1 DEF Runs, CoreFields
  <1>4. GoodClock(c) /\ GoodClock(d)
    BY <1>2, CycGood DEF Tracked, GoodAndUntimed
  <1> HIDE DEF more
  <1>5. /\ GoodClock(b) /\ b.cyc_cnt_ref = c.cyc_cnt_ref + more
        /\ b = [c EXCEPT !.cyc_cnt_ref = b.cyc_cnt_ref]
    BY <1>2, <1>4 DEF GoodClock, ClockFields
  <1>6. d = record_intel_pt_pkt(b, "CYC", more, b.cyc_cnt_ref)
    BY DEF pkt_CYC, more
  <1> HIDE DEF b
  <1>7. Recordable(b, "CYC", more, b.cyc_cnt_ref)
    BY <1>5, CountRecordable
  <1>8. /\ Kept(b, d) /\ d.tsc_approx_en = b.tsc_approx_en
        /\ b.tsc_approx_en = 1 =>
             /\ SameTicks(b, d) /\ d.tsc_ref_cyc_cnt = b.cyc_cnt_ref
             /\ d.tsc_approx_cyc = b.tsc_approx_cyc + b.cyc_cnt_ref - b.tsc_ref_cyc_cnt
             /\ d.tsc_approx_ovf = b.tsc_approx_ovf + 0
    BY <1>6, <1>7, CyclesDo
  <1>9. /\ b.tsc_approx_en = c.tsc_approx_en /\ b.tsc_approx_cyc = c.tsc_approx_cyc
        /\ b.tsc_ref_cyc_cnt = c.tsc_ref_cyc_cnt /\ b.tsc_approx_ovf = c.tsc_approx_ovf
        /\ b.tsc_ref = c.tsc_ref /\ b.tsc_ref_ctc = c.tsc_ref_ctc
        /\ b.cbr_factor = c.cbr_factor /\ b.tsc_mtc_error = c.tsc_mtc_error
        /\ b.tsc_approx_ctc = c.tsc_approx_ctc /\ b.tsc_ref_ctc_ovf = c.tsc_ref_ctc_ovf
        /\ b.ctc_prev = c.ctc_prev
    BY <1>4, <1>5 DEF GoodClock, ClockFields
  <1>10. /\ c.tsc_approx_cyc \in Nat /\ c.cyc_cnt_ref \in Nat /\ c.tsc_approx_ovf \in Nat
         /\ c.tsc_approx_ref \in Nat /\ c.tsc_ref \in Nat /\ c.tsc_approx_ctc \in Nat
    BY <1>4, PartsAre
  <1>11. ASSUME c.tsc_approx_en = 1
         PROVE  /\ Anchored(d, n, k, h, FALSE, s) /\ SameTicks(c, d)
                /\ d.tsc_approx_cyc = c.tsc_approx_cyc + more
                /\ d.tsc_approx_ovf = c.tsc_approx_ovf
    <2>1. Anchored(c, n, k, h, FALSE, s) /\ c.tsc_ref_cyc_cnt = c.cyc_cnt_ref
      BY <1>11 DEF Tracked, Anchored
    <2>2. /\ d.tsc_ref = c.tsc_ref /\ d.tsc_ref_ctc = c.tsc_ref_ctc /\ SameTicks(c, d)
          /\ d.tsc_ref_cyc_cnt = d.cyc_cnt_ref
          /\ d.tsc_approx_ovf = c.tsc_approx_ovf + 0
      BY <1>5, <1>8, <1>9, <1>11 DEF Kept, SameTicks
    <2>3. d.tsc_approx_cyc = c.tsc_approx_cyc + more
      <3>1. d.tsc_approx_cyc = c.tsc_approx_cyc + (c.cyc_cnt_ref + more) - c.cyc_cnt_ref
        BY <1>5, <1>8, <1>9, <1>11, <2>1
      <3> QED BY <1>2, <1>10, <3>1 DEF more
    <2>4. /\ 0 \in {0, 1} /\ 0 = 0 => FALSE = FALSE /\ s = s
          /\ 0 = 1 => s = IF s = "tma" THEN "ovf" ELSE s
      OBVIOUS
    <2>5. Anchored(d, n, k, h, FALSE, s)
      BY <1>1, <1>4, <2>1, <2>2, <2>4, CyclesAnchored
    <2>6. d.tsc_approx_ovf = c.tsc_approx_ovf
      BY <1>10, <2>2
    <2> QED BY <2>2, <2>3, <2>5, <2>6
  <1>12. c.tsc_approx_en = 1 => Counted(d, g2, h)
    <2>1. c.tsc_approx_en = 1 =>
            /\ d.tsc_approx_cyc + g2.pending = c.tsc_approx_cyc + g.pending
            /\ d.tsc_approx_ovf = c.tsc_approx_ovf /\ Counted(c, g, h)
      BY <1>2, <1>3, <1>10, <1>11 DEF Tracked, more
    <2> QED BY <1>3, <2>1 DEF Counted
  <1>13. c.tsc_approx_ref = Estimate(c) /\ d.tsc_approx_ref = Estimate(d) /\ ~c.tsc_mtc_error
    BY <1>8 DEF Tracked, Kept
  <1>14. Forward(c, g, h, d, g2, h)
    <2> SUFFICES ASSUME c.tsc_approx_en = 1, g.told
                 PROVE  d.tsc_approx_ref > c.tsc_approx_ref - CycTime(g.cbr)
      BY DEF Forward, Even
    <2> DEFINE t == CycTime(g.cbr)
               x == c.tsc_approx_cyc
               y == d.tsc_approx_cyc
    <2>1. c.cbr_factor = g.cbr * bus_hz /\ d.cbr_factor = g.cbr * bus_hz
          /\ d.tsc_approx_en = 1
      BY <1>8, <1>9 DEF Tracked, Kept
    <2>2. Estimate(c) = c.tsc_ref + c.tsc_approx_ctc + x * t
      BY <1>2, <1>4, <2>1, EstimateIs
    <2>3. Estimate(d) = d.tsc_ref + d.tsc_approx_ctc + y * t
      BY <1>2, <1>4, <2>1, EstimateIs
    <2>4. d.tsc_ref = c.tsc_ref /\ d.tsc_approx_ctc = c.tsc_approx_ctc
      BY <1>8, <1>9, <1>11 DEF Kept, SameTicks
    <2>5. x \in Nat /\ y \in Nat /\ x <= y /\ t \in Nat \ {0}
      BY <1>2, <1>10, <1>11 DEF more
    <2> HIDE DEF x, y, t
    <2>6. x * t <= y * t /\ x * t \in Nat /\ y * t \in Nat
      BY <2>5, MoreCycles
    <2> QED BY <1>10, <1>13, <2>2, <2>3, <2>4, <2>5, <2>6 DEF t
  <1>15. Sender(n, k, FALSE, s)
    BY DEF Tracked, Sender
  <1> QED BY <1>3, <1>4, <1>8, <1>9, <1>11, <1>12, <1>13, <1>14, <1>15 DEF Tracked, Kept

\* An edge ends a cycle when its time is over.
Edge(g, n) ==
  IF n = g.edge + CycTime(g.cbr) THEN [g EXCEPT !.edge = n, !.pending = @ + 1] ELSE g

\* The clock runs on at an edge and between edges.
LEMMA EdgeRuns ==
  ASSUME NEW n \in Nat, NEW g, NEW h, Runs(n, g, h)
  PROVE  /\ Runs(n + 1, Edge(g, n + 1), h)
         /\ Edge(g, n + 1).told = g.told /\ Edge(g, n + 1).cbr = g.cbr
         /\ \/ Edge(g, n + 1).edge = g.edge /\ Edge(g, n + 1).pending = g.pending
            \/ /\ Edge(g, n + 1).edge = g.edge + CycTime(g.cbr)
               /\ Edge(g, n + 1).pending = g.pending + 1
  <1> DEFINE t  == CycTime(g.cbr)
             g2 == [g EXCEPT !.edge = n + 1, !.pending = @ + 1]
  <1>1. /\ g.cbr \in Cbrs /\ g.edge \in Nat /\ g.pending \in Nat
        /\ h.from \in Nat /\ h.short \in Nat /\ h.long \in Nat /\ t \in Nat \ {0}
    BY CoreIs
  <1>2. CASE n + 1 # g.edge + t
    <2>1. Edge(g, n + 1) = g
      BY <1>2 DEF Edge
    <2>2. n + 1 < g.edge + t
      BY <1>1, <1>2 DEF Runs
    <2> HIDE DEF t
    <2>3. Runs(n + 1, g, h)
      BY <1>1, <2>2 DEF Runs, t
    <2> QED BY <2>1, <2>3
  <1>3. CASE n + 1 = g.edge + t
    <2>1. Edge(g, n + 1) = g2
      BY <1>3 DEF Edge
    <2>2. n + 1 \in Nat /\ g \in CoreFields
      BY DEF Runs
    <2>3. g2 \in CoreFields
      BY <2>2, EdgeGood
    <2>4. /\ g2.edge = n + 1 /\ g2.cbr = g.cbr /\ g2.told = g.told
          /\ g2.pending = g.pending + 1
      BY <2>2 DEF CoreFields
    <2>5. Runs(n + 1, g2, h)
      <3>1. h \in [from : Nat, short : Nat, long : Nat] /\ h.from <= g.edge /\ g.edge <= n
            /\ h.short <= t /\ t <= h.long
        BY DEF Runs
      <3>2. n + 1 < n + 1 + t /\ h.from <= n + 1 /\ n + 1 <= n + 1
        BY <1>1, <3>1
      <3> HIDE DEF g2, t
      <3> QED BY <2>3, <2>4, <3>1, <3>2 DEF Runs, t
    <2> QED BY <1>3, <2>1, <2>4, <2>5
  <1> QED BY <1>2, <1>3

\* Another cycle, that is neither shorter nor longer than the others.
LEMMA CountedEdge ==
  ASSUME NEW c, GoodClock(c), NEW n \in Nat, NEW g, NEW h, Runs(n, g, h), Counted(c, g, h)
  PROVE  Counted(c, Edge(g, n + 1), h)
  <1> DEFINE t  == CycTime(g.cbr)
             g2 == Edge(g, n + 1)
             x  == c.tsc_approx_cyc + g.pending
  <1>1. /\ g.edge \in Nat /\ g.pending \in Nat
        /\ h.from \in Nat /\ h.short \in Nat /\ h.long \in Nat /\ t \in Nat \ {0}
        /\ c.tsc_approx_cyc \in Nat
    BY CoreIs, PartsAre
  <1>2. \/ g2.edge = g.edge /\ g2.pending = g.pending
        \/ g2.edge = g.edge + t /\ g2.pending = g.pending + 1
    BY EdgeRuns
  <1> HIDE DEF g2
  <1>3. CASE g2.edge = g.edge /\ g2.pending = g.pending
    BY <1>3 DEF Counted, g2
  <1>4. CASE g2.edge = g.edge + t /\ g2.pending = g.pending + 1
    <2>1. x \in Nat /\ c.tsc_approx_cyc + g2.pending = x + 1
      BY <1>1, <1>4
    <2>2. /\ x * h.short <= g.edge - h.from
          /\ c.tsc_approx_ovf = 0 => g.edge - h.from <= x * h.long
          /\ h.short <= t /\ t <= h.long
      BY DEF Counted, Runs
    <2> HIDE DEF x, t
    <2>3. (x + 1) * h.short = x * h.short + h.short /\ (x + 1) * h.long = x * h.long + h.long
          /\ x * h.short \in Nat /\ x * h.long \in Nat
      BY <1>1, <2>1, OneMore
    <2>4. /\ (x + 1) * h.short <= g2.edge - h.from
          /\ c.tsc_approx_ovf = 0 => g2.edge - h.from <= (x + 1) * h.long
      BY <1>1, <1>4, <2>1, <2>2, <2>3
    <2> QED BY <2>1, <2>4 DEF Counted, g2
  <1> QED BY <1>2, <1>3, <1>4

\* Time passes to the next tick at most, unless packets are being lost.
LEMMA TimeStep ==
  ASSUME NEW c, NEW n, NEW k, NEW g, NEW h, NEW lost, NEW s, Tracked(c, n, k, g, h, lost, s),
         n % tsc_ratio = 0 /\ k < Tick(n) => lost, Tick(n + 1) - k < CtcRange
  PROVE  Tracked(c, n + 1, k, Edge(g, n + 1), h, lost, s)
  <1>1. n \in Nat /\ k \in Nat /\ n + 1 \in Nat /\ k <= Tick(n) /\ lost \in BOOLEAN
        /\ Runs(n, g, h) /\ GoodClock(c)
    BY DEF Tracked, Sender
  <1>2. /\ Tick(n) \in Nat /\ Tick(n + 1) \in Nat /\ Tick(n) <= Tick(n + 1)
        /\ \A j \in Nat : n = j * tsc_ratio => Tick(n) = j /\ n % tsc_ratio = 0
    BY <1>1, TickIs
  <1>3. Sender(n + 1, k, lost, s)
    <2>1. k <= Tick(n + 1)
      BY <1>1, <1>2
    <2> QED BY <1>1, <2>1 DEF Tracked, Sender
  <1>4. ASSUME c.tsc_approx_en = 1 PROVE Anchored(c, n + 1, k, h, lost, s)
    <2>1. Anchored(c, n, k, h, lost, s) /\ c.tsc_ref \in Nat /\ tsc_ratio \in Nat \ {0}
      BY <1>4, PartsAre DEF Tracked
    <2> DEFINE next == (k + 1) * tsc_ratio
    <2>2. next \in Nat
      BY <1>1, <2>1
    <2>3. c.tsc_approx_ovf = 0 /\ ~lost => n + 1 <= next
      <3>1. n = next => Tick(n) = k + 1 /\ n % tsc_ratio = 0
        BY <1>1, <1>2
      <3>2. n = next => lost
        BY <1>1, <3>1
      <3>3. c.tsc_approx_ovf = 0 /\ ~lost => n <= next
        BY <2>1 DEF Anchored
      <3> HIDE DEF next
      <3> QED BY <1>1, <2>2, <3>2, <3>3
    <2>4. c.tsc_ref <= n + 1
      BY <1>1, <2>1 DEF Anchored
    <2> QED BY <2>1, <2>3, <2>4 DEF Anchored
  <1>5. c.tsc_approx_en = 1 => Counted(c, Edge(g, n + 1), h)
    BY <1>1, CountedEdge DEF Tracked
  <1>6. Runs(n + 1, Edge(g, n + 1), h) /\ Edge(g, n + 1).told = g.told
        /\ Edge(g, n + 1).cbr = g.cbr
    BY <1>1, EdgeRuns
  <1> QED BY <1>3, <1>4, <1>5, <1>6 DEF Tracked

\* Losing packets promises less.
LEMMA LoseStep ==
  ASSUME NEW c, NEW n, NEW k, NEW g, NEW h, NEW lost, NEW s, Tracked(c, n, k, g, h, lost, s),
         NEW lost2 \in BOOLEAN, lost2
  PROVE  Tracked(c, n, k, g, h, lost2, s)
  BY DEF Tracked, Sender, Anchored

\* A change of the ratio makes the span of the cycles wider.
Wider(n, g, h, g2, h2) ==
  /\ Runs(n, g2, h2) /\ g2.edge = g.edge /\ g2.pending = g.pending
  /\ h2.from = h.from /\ h2.short <= h.short /\ h.long <= h2.long

\* What is true of the cycles is true of the wider span.
LEMMA WiderCounted ==
  ASSUME NEW c, GoodClock(c), NEW n, NEW k \in Nat, NEW g, NEW h, Runs(n, g, h), NEW lost, NEW s,
         NEW g2, NEW h2, Wider(n, g, h, g2, h2), Anchored(c, n, k, h, lost, s), Counted(c, g, h)
  PROVE  Anchored(c, n, k, h2, lost, s) /\ Counted(c, g2, h2)
  <1> DEFINE x == c.tsc_approx_cyc + g.pending
  <1>1. /\ c.tsc_approx_cyc \in Nat /\ c.tsc_approx_ovf \in Nat /\ c.tsc_ref \in Nat
        /\ tsc_ratio \in Nat \ {0} /\ g.pending \in Nat /\ g.edge \in Nat
        /\ h.from \in Nat /\ h.short \in Nat /\ h.long \in Nat
    BY PartsAre, CoreIs
  <1>2. h2.short \in Nat /\ h2.long \in Nat /\ h2.short <= h.short /\ h.long <= h2.long
        /\ h2.from = h.from
    BY CoreIs DEF Wider
  <1>3. Anchored(c, n, k, h2, lost, s)
    <2>1. \A t \in Int : Starts(h, t) => Starts(h2, t)
      BY <1>1, <1>2 DEF Starts
    <2>2. BeforeMtc(c, k, h, s) => BeforeMtc(c, k, h2, s)
      BY <1>1, <2>1 DEF BeforeMtc
    <2>3. AfterMtc(c, k, h, s) => AfterMtc(c, k, h2, s)
      <3>1. k * tsc_ratio \in Int
        BY <1>1
      <3>2. Starts(h, k * tsc_ratio) => Starts(h2, k * tsc_ratio)
        BY <2>1, <3>1
      <3> QED BY <3>2 DEF AfterMtc
    <2> QED BY <2>2, <2>3 DEF Anchored
  <1>4. x \in Nat
    BY <1>1
  <1>5. /\ x * h.short <= g.edge - h.from
        /\ c.tsc_approx_ovf = 0 => g.edge - h.from <= x * h.long
    BY DEF Counted
  <1>6. g2.edge = g.edge /\ c.tsc_approx_cyc + g2.pending = x
    BY DEF Wider
  <1> HIDE DEF x
  <1>7. /\ x * h2.short <= x * h.short /\ x * h.long <= x * h2.long
        /\ x * h2.short \in Nat /\ x * h.short \in Nat /\ x * h.long \in Nat /\ x * h2.long \in Nat
    BY <1>1, <1>2, <1>4, MoreCycles, ProductNat
  <1>8. /\ x * h2.short <= g2.edge - h2.from
        /\ c.tsc_approx_ovf = 0 => g2.edge - h2.from <= x * h2.long
    BY <1>1, <1>2, <1>5, <1>6, <1>7
  <1> QED BY <1>3, <1>6, <1>8 DEF Counted

\* A change that no CBR tells.
LEMMA LostRateStep ==
  ASSUME NEW c, NEW n, NEW k, NEW g, NEW h, NEW lost, NEW s, Tracked(c, n, k, g, h, lost, s),
         NEW g2, NEW h2, Wider(n, g, h, g2, h2), ~g2.told
  PROVE  Tracked(c, n, k, g2, h2, lost, s)
  <1>1. GoodClock(c) /\ Runs(n, g, h) /\ Runs(n, g2, h2) /\ k \in Nat
    BY DEF Tracked, Wider, Sender
  <1>2. c.tsc_approx_en = 1 => Anchored(c, n, k, h2, lost, s) /\ Counted(c, g2, h2)
    BY <1>1, WiderCounted DEF Tracked
  <1> QED BY <1>1, <1>2 DEF Tracked

\* Where the ratio was even and is, it is the same.
LEMMA EvenSame ==
  ASSUME NEW n, NEW g, NEW h, Runs(n, g, h), NEW g2, NEW h2, Wider(n, g, h, g2, h2),
         Even(g, h), Even(g2, h2)
  PROVE  CycTime(g2.cbr) = CycTime(g.cbr)
  <1>1. Runs(n, g2, h2)
    BY DEF Wider
  <1>2. /\ CycTime(g.cbr) \in Nat /\ h.short \in Nat /\ h.long \in Nat
        /\ CycTime(g2.cbr) \in Nat /\ h2.short \in Nat /\ h2.long \in Nat
    BY <1>1, CoreIs
  <1> QED BY <1>1, <1>2 DEF Runs, Wider, Even

\* CBR: from here on there is an estimate, and it counts by this ratio.
LEMMA CbrStep ==
  ASSUME NEW c, NEW n, NEW k, NEW g, NEW h, NEW lost, NEW s, Tracked(c, n, k, g, h, lost, s),
         NEW g2, NEW h2, Wider(n, g, h, g2, h2), NEW d, d = pkt_CBR(c, g2.cbr)
  PROVE  Tracked(d, n, k, g2, h2, lost, s) /\ Forward(c, g, h, d, g2, h2)
  <1> DEFINE f == g2.cbr * bus_hz
             b == [c EXCEPT !.cbr_factor = f]
  <1>1. /\ Runs(n, g, h) /\ Runs(n, g2, h2) /\ g.cbr \in Cbrs /\ g2.cbr \in Cbrs
        /\ CycTime(g.cbr) \in Nat \ {0} /\ k \in Nat
    BY CoreIs DEF Tracked, Wider, Sender
  <1>2. GoodClock(c) /\ GoodClock(d)
    BY <1>1, CbrGood DEF Tracked, GoodAndUntimed
  <1>3. f \in Nat
    BY <1>1, RateIs
  <1> HIDE DEF f
  <1>4. GoodClock(b) /\ b.cyc_cnt_ref = c.cyc_cnt_ref
    BY <1>2, <1>3 DEF GoodClock, ClockFields
  <1>5. d = record_intel_pt_pkt(b, "CBR", g2.cbr, b.cyc_cnt_ref)
    BY <1>4 DEF pkt_CBR, f
  <1>6. Recordable(b, "CBR", g2.cbr, b.cyc_cnt_ref)
    BY <1>4, CountRecordable
  <1>7. /\ b.tsc_approx_en = c.tsc_approx_en /\ b.tsc_approx_cyc = c.tsc_approx_cyc
        /\ b.tsc_ref_cyc_cnt = c.tsc_ref_cyc_cnt /\ b.tsc_approx_ovf = c.tsc_approx_ovf
        /\ b.tsc_ref = c.tsc_ref /\ b.tsc_ref_ctc = c.tsc_ref_ctc
        /\ b.cbr_factor = f /\ b.tsc_mtc_error = c.tsc_mtc_error
        /\ b.tsc_approx_ctc = c.tsc_approx_ctc /\ b.tsc_ref_ctc_ovf = c.tsc_ref_ctc_ovf
        /\ b.ctc_prev = c.ctc_prev
    BY <1>2 DEF GoodClock, ClockFields
  <1> HIDE DEF b
  <1>8. /\ Kept(b, d) /\ SameTicks(b, d) /\ d.tsc_approx_en = b.tsc_approx_en
        /\ d.tsc_ref_cyc_cnt = b.tsc_ref_cyc_cnt
        /\ d.tsc_approx_cyc = b.tsc_approx_cyc /\ d.tsc_approx_ovf = b.tsc_approx_ovf
    BY <1>5, <1>6, QuietDo
  <1>9. ASSUME c.tsc_approx_en = 1
        PROVE  Anchored(d, n, k, h2, lost, s) /\ Counted(d, g2, h2)
    <2>1. Anchored(c, n, k, h2, lost, s) /\ Counted(c, g2, h2)
      BY <1>1, <1>2, <1>9, WiderCounted DEF Tracked
    <2>2. BeforeMtc(c, k, h2, s) => BeforeMtc(d, k, h2, s)
      BY <1>7, <1>8 DEF BeforeMtc, Kept, SameTicks
    <2>3. \A extra : Turns(c, k, extra) => Turns(d, k, extra)
      BY <1>7, <1>8 DEF Turns, Ticks, Kept, SameTicks
    <2>4. AfterMtc(c, k, h2, s) => AfterMtc(d, k, h2, s)
      BY <1>7, <1>8, <2>3 DEF AfterMtc, SameTicks
    <2>5. Anchored(d, n, k, h2, lost, s)
      BY <1>4, <1>7, <1>8, <2>1, <2>2, <2>4 DEF Anchored, Kept
    <2> QED BY <1>7, <1>8, <2>1, <2>5 DEF Counted
  <1>10. Forward(c, g, h, d, g2, h2)
    <2> SUFFICES ASSUME c.tsc_approx_en = 1, Even(g, h), Even(g2, h2)
                 PROVE  d.tsc_approx_ref > c.tsc_approx_ref - CycTime(g.cbr)
      BY DEF Forward
    <2>1. c.tsc_approx_ref = Estimate(c) /\ d.tsc_approx_ref = Estimate(d)
      BY <1>8 DEF Tracked, Kept
    <2>2. c.cbr_factor = g.cbr * bus_hz /\ d.cbr_factor = g2.cbr * bus_hz
          /\ d.tsc_approx_en = 1
      BY <1>7, <1>8 DEF Tracked, Kept, Even, f
    <2>3. Estimate(c) = c.tsc_ref + c.tsc_approx_ctc + c.tsc_approx_cyc * CycTime(g.cbr)
      BY <1>1, <1>2, <2>2, EstimateIs
    <2>4. Estimate(d) = d.tsc_ref + d.tsc_approx_ctc + d.tsc_approx_cyc * CycTime(g2.cbr)
      BY <1>1, <1>2, <2>2, EstimateIs
    <2>5. CycTime(g2.cbr) = CycTime(g.cbr)
      BY <1>1, EvenSame
    <2>6. /\ d.tsc_ref = c.tsc_ref /\ d.tsc_approx_ctc = c.tsc_approx_ctc
          /\ d.tsc_approx_cyc = c.tsc_approx_cyc
      BY <1>7, <1>8 DEF Kept, SameTicks
    <2>7. c.tsc_approx_ref \in Nat
      BY <1>2, PartsAre
    <2>8. d.tsc_approx_ref = c.tsc_approx_ref
      BY <2>1, <2>3, <2>4, <2>5, <2>6
    <2> QED BY <1>1, <2>7, <2>8
  <1> QED BY <1>1, <1>2, <1>7, <1>8, <1>9, <1>10 DEF Tracked, Kept, f


\* What the ticks since the reference are worth: up to the last one told, or a
\* turn more.
LEMMA TurnsTime ==
  ASSUME NEW c, GoodClock(c), NEW k \in Nat, NEW extra \in {0, 1}, Turns(c, k, extra)
  PROVE  c.tsc_ref + c.tsc_approx_ctc =
           (c.tsc_ref - Tick(c.tsc_ref) * tsc_ratio) + k * tsc_ratio
             + (IF extra = 1 THEN CtcRange * tsc_ratio ELSE 0)
  <1> DEFINE k0 == Tick(c.tsc_ref)
  <1>1. /\ c.tsc_ref \in Nat /\ k0 \in Nat /\ c.tsc_approx_ctc \in Nat
        /\ tsc_ratio \in Nat \ {0} /\ CtcRange \in Nat \ {0, 1}
    BY PartsAre
  <1>2. c.tsc_approx_ctc = (k - k0 + extra * CtcRange) * tsc_ratio
    BY DEF Turns, Ticks
  <1> HIDE DEF k0
  <1>3. extra * CtcRange = IF extra = 1 THEN CtcRange ELSE 0
    BY <1>1
  <1>4. /\ (k - k0 + CtcRange) * tsc_ratio = k * tsc_ratio - k0 * tsc_ratio + CtcRange * tsc_ratio
        /\ (k - k0 + 0) * tsc_ratio = k * tsc_ratio - k0 * tsc_ratio
    BY <1>1
  <1>5. k * tsc_ratio \in Nat /\ k0 * tsc_ratio \in Nat /\ CtcRange * tsc_ratio \in Nat
    BY <1>1, ProductNat
  <1>6. c.tsc_approx_ctc = k * tsc_ratio - k0 * tsc_ratio
                             + (IF extra = 1 THEN CtcRange * tsc_ratio ELSE 0)
    BY <1>2, <1>3, <1>4, <1>5
  <1> QED BY <1>1, <1>5, <1>6 DEF k0

\* The turns the decoder counts when it sees an MTC, with k told before it.
TurnsCounted(c, n, k, h, s) ==
  \E extra \in {0, 1} :
    /\ extra = 1 => s = "ovf"
    /\ BeforeMtc(c, k, h, s) \/ (AfterMtc(c, k, h, s) /\ Turns(c, k, extra))
    /\ c.tsc_ref_ctc_ovf + (IF Passed(c, Tick(n) % CtcRange) THEN 1 ELSE 0)
         = Quot(Ticks(c, Tick(n)), CtcRange) + extra

\* They are those up to the new tick, and one more if there was one more before or
\* an overflow came before the first MTC.
LEMMA TurnsGo ==
  ASSUME NEW c, GoodClock(c), NEW n, NEW k, NEW h, NEW s, Sender(n, k, FALSE, s),
         Anchored(c, n, k, h, FALSE, s), n % tsc_ratio = 0, k < Tick(n)
  PROVE  TurnsCounted(c, n, k, h, s)
  <1> DEFINE k0  == Tick(c.tsc_ref)
             k2  == Tick(n)
             j   == k2 - k
             p   == IF Passed(c, k2 % CtcRange) THEN 1 ELSE 0
  <1>1. /\ k0 \in Nat /\ tsc_ratio \in Nat \ {0} /\ CtcRange \in Nat \ {0, 1}
        /\ c.tsc_approx_ovf \in Nat /\ c.tsc_ref_ctc_ovf \in Nat
    BY PartsAre
  <1>2. /\ n \in Nat /\ k \in Nat /\ k2 \in Nat /\ n = k2 * tsc_ratio
        /\ j \in 1 .. CtcRange - 1 /\ k2 = k + j
    <2>1. n \in Nat /\ k \in Nat /\ k2 - k < CtcRange /\ k < k2
      BY DEF Sender
    <2>2. k2 \in Nat /\ n = k2 * tsc_ratio
      BY <2>1, TickIs
    <2> HIDE DEF k2
    <2> QED BY <1>1, <2>1, <2>2
  <1>3. k0 <= k /\ c.tsc_ref_ctc = k0 % CtcRange
    BY DEF Anchored
  <1>4. c.tsc_approx_ovf = 0 => j = 1
    <2>1. k2 <= k + 1 <=> k2 * tsc_ratio <= (k + 1) * tsc_ratio
      BY <1>1, <1>2, Products
    <2>2. c.tsc_approx_ovf = 0 => n <= (k + 1) * tsc_ratio
      BY DEF Anchored
    <2>3. c.tsc_approx_ovf = 0 => k2 <= k + 1
      BY <1>2, <2>1, <2>2
    <2> HIDE DEF k2, j
    <2> QED BY <1>2, <2>3
  <1>5. p \in {0, 1} /\ Ticks(c, k2) = (k - k0) + j /\ Ticks(c, k) = k - k0
    <2>1. Ticks(c, k2) = k2 - k0 /\ Ticks(c, k) = k - k0
      BY DEF Ticks
    <2> HIDE DEF k0, k2, j
    <2> QED BY <1>1, <1>2, <2>1 DEF p
  <1> HIDE DEF k0, j
  <1>6. Rem(j, CtcRange) = j /\ Quot(j, CtcRange) = 0
    BY <1>1, <1>2, DivisionBelow
  <1>7. CASE BeforeMtc(c, k, h, s)
    <2>1. k0 = k /\ c.tsc_ref_ctc_ovf = 0 /\ s \in {"tma", "ovf"}
          /\ (s = "tma" => c.tsc_approx_ovf = 0)
      BY <1>7 DEF BeforeMtc, k0
    <2>2. (k - k0) + j = j
      BY <1>1, <1>2, <2>1
    <2>3. ASSUME s = "tma" PROVE p = 0
      <3>1. c.tsc_approx_ovf = 0 /\ j = 1
        BY <1>4, <2>1, <2>3
      <3>2. Passed(c, k2 % CtcRange) <=> k2 % CtcRange = k % CtcRange
        <4>1. \A x : Passed(c, x) <=> x = c.tsc_ref_ctc
          BY <3>1 DEF Passed
        <4> QED BY <1>3, <2>1, <4>1
      <3>3. Adds(CtcRange, k, 1) /\ Rem(1, CtcRange) = 1 /\ Rem(k, CtcRange) \in 0 .. CtcRange - 1
        <4>1. CtcRange \in Nat \ {0} /\ k \in Nat /\ k \in Int /\ 1 \in Nat
          BY <1>1, <1>2
        <4> QED BY <1>6, <3>1, <4>1, DivisionAdds, Division
      <3>4. Rem(k + 1, CtcRange) # Rem(k, CtcRange)
        BY <1>1, <3>3 DEF Adds
      <3>5. k2 % CtcRange # k % CtcRange
        BY <1>2, <3>1, <3>4 DEF Rem
      <3> QED BY <3>2, <3>5
    <2> HIDE DEF k2, p
    <2>4. (p = 1 => s = "ovf") /\ c.tsc_ref_ctc_ovf + p = Quot(Ticks(c, k2), CtcRange) + p
      <3>1. p = 1 => s = "ovf"
        BY <2>1, <2>3
      <3>2. Quot(Ticks(c, k2), CtcRange) = 0
        BY <1>5, <1>6, <2>2
      <3> QED BY <1>5, <2>1, <3>1, <3>2
    <2> QED BY <1>5, <1>7, <2>4 DEF p, k2, TurnsCounted
  <1>8. CASE AfterMtc(c, k, h, s)
    <2>1. PICK extra \in {0, 1} : (extra = 1 => s = "ovf") /\ Turns(c, k, extra)
      BY <1>8 DEF AfterMtc
    <2>2. p = IF Rem(k - k0, CtcRange) + j >= CtcRange THEN 1 ELSE 0
      <3>1. c.ctc_prev = k % CtcRange
        BY <1>8 DEF AfterMtc
      <3> HIDE DEF k2
      <3>2. Passed(c, (k + j) % CtcRange) <=> Rem(k - k0, CtcRange) + j >= CtcRange
        BY <1>1, <1>2, <1>3, <1>4, <3>1, PassedRight
      <3> QED BY <1>2, <3>2
    <2>3. k - k0 \in Nat /\ Quot(k - k0, CtcRange) \in Int /\ Rem(k - k0, CtcRange) \in 0 .. CtcRange - 1
      <3>1. k - k0 \in Nat /\ CtcRange \in Nat \ {0}
        BY <1>1, <1>2, <1>3
      <3> QED BY <3>1, Division
    <2>4. Adds(CtcRange, k - k0, j)
      BY <1>1, <1>2, <2>3, DivisionAdds
    <2>5. Quot((k - k0) + j, CtcRange) = Quot(k - k0, CtcRange) + p
      BY <1>1, <1>2, <1>6, <2>2, <2>3, <2>4 DEF Adds
    <2>6. c.tsc_ref_ctc_ovf = Quot(k - k0, CtcRange) + extra
      BY <1>5, <2>1 DEF Turns
    <2> HIDE DEF k2, p
    <2>7. c.tsc_ref_ctc_ovf + p = Quot(Ticks(c, k2), CtcRange) + extra
      BY <1>5, <2>3, <2>5, <2>6
    <2> QED BY <1>8, <2>1, <2>7 DEF p, k2, TurnsCounted
  <1> QED BY <1>7, <1>8 DEF Anchored

\* A tick that is told when all cycles are sent starts a new span of them.
LEMMA SpanStarts ==
  ASSUME NEW n \in Nat, NEW g, NEW h, Runs(n, g, h), g.pending = 0
  PROVE  /\ Runs(n, g, SpanFrom(g)) /\ Starts(SpanFrom(g), n)
         /\ \A d : d.tsc_approx_cyc = 0 => Counted(d, g, SpanFrom(g))
  <1> DEFINE t  == CycTime(g.cbr)
             h2 == SpanFrom(g)
  <1>1. g.edge \in Nat /\ t \in Nat \ {0} /\ g.edge <= n /\ n < g.edge + t /\ g \in CoreFields
    BY CoreIs DEF Runs
  <1>2. h2 = [from |-> g.edge, short |-> t, long |-> t]
    BY DEF SpanFrom
  <1> HIDE DEF t, h2
  <1>3. h2 \in [from : Nat, short : Nat, long : Nat] /\ h2.from = g.edge /\ h2.short = t /\ h2.long = t
    BY <1>1, <1>2
  <1>4. Runs(n, g, h2) /\ Starts(h2, n)
    BY <1>1, <1>3 DEF Runs, Starts, t
  <1>5. \A d : d.tsc_approx_cyc = 0 => Counted(d, g, h2)
    <2>1. (0 + g.pending) * h2.short = 0 /\ (0 + g.pending) * h2.long = 0 /\ g.edge - h2.from = 0
      BY <1>1, <1>3
    <2> QED BY <2>1 DEF Counted
  <1> QED BY <1>4, <1>5 DEF h2

\* MTC: the tick it tells becomes the last, and the cycles start from it.
LEMMA MtcStep ==
  ASSUME NEW c, NEW n, NEW k, NEW g, NEW h, NEW s, Tracked(c, n, k, g, h, FALSE, s),
         n % tsc_ratio = 0, k < Tick(n), g.pending = 0,
         NEW d, d = pkt_MTC(c, Tick(n) % CtcRange), NEW s2, s2 = IF s = "tma" THEN "mtc" ELSE s
  PROVE  Tracked(d, n, Tick(n), g, SpanFrom(g), FALSE, s2) /\ Forward(c, g, h, d, g, SpanFrom(g))
  <1> DEFINE k2  == Tick(n)
             ctc == k2 % CtcRange
             k0  == Tick(c.tsc_ref)
             h2  == SpanFrom(g)
  <1>1. GoodClock(c) /\ Sender(n, k, FALSE, s) /\ Runs(n, g, h)
    BY DEF Tracked
  <1>2. /\ tsc_ratio \in Nat \ {0} /\ CtcRange \in Nat \ {0, 1} /\ k0 \in Nat
        /\ c.tsc_ref \in Nat /\ c.tsc_approx_ovf \in Nat /\ c.tsc_approx_cyc \in Nat
        /\ c.tsc_approx_ctc \in Nat
    BY <1>1, PartsAre
  <1>3. n \in Nat /\ k \in Nat /\ k2 \in Nat /\ k < k2 /\ n = k2 * tsc_ratio
    BY <1>1, TickIs DEF Sender
  <1>4. ctc \in 0 .. CtcRange - 1
    BY <1>3, Remainder
  <1>5. GoodClock(d)
    BY <1>1, <1>4, MtcPacketGood DEF GoodAndUntimed
  <1>6. Recordable(c, "MTC", ctc, c.cyc_cnt_ref)
    BY <1>1, <1>4, CountRecordable
  <1>7. d = record_intel_pt_pkt(c, "MTC", ctc, c.cyc_cnt_ref)
    BY DEF pkt_MTC
  <1>8. /\ Kept(c, d) /\ d.tsc_approx_en = c.tsc_approx_en
        /\ c.tsc_approx_en = 1 =>
             /\ d.tsc_ref_ctc_ovf = c.tsc_ref_ctc_ovf + (IF Passed(c, ctc) THEN 1 ELSE 0)
             /\ d.tsc_approx_ctc =
                  (((ctc - c.tsc_ref_ctc) % CtcRange) + d.tsc_ref_ctc_ovf * CtcRange) * tsc_ratio
             /\ d.tsc_approx_cyc = 0 /\ d.tsc_approx_ovf = 0
             /\ d.tsc_ref_cyc_cnt = c.cyc_cnt_ref /\ d.ctc_prev = ctc
    BY <1>6, <1>7, MtcDoes
  <1>13. /\ Runs(n, g, h2) /\ Starts(h2, n)
         /\ d.tsc_approx_cyc = 0 => Counted(d, g, h2)
    BY <1>1, <1>3, SpanStarts
  <1>14. /\ g.edge \in Nat /\ g.edge <= n /\ h.from \in Nat /\ h.from <= g.edge
         /\ h.long \in Nat /\ h.short \in Nat
    BY <1>1, CoreIs DEF Runs
  <1> HIDE DEF h2
  <1>9. Sender(n, k2, FALSE, s2)
    BY <1>1, <1>2, <1>3 DEF Sender
  <1>10. c.tsc_approx_ref = Estimate(c) /\ d.tsc_approx_ref = Estimate(d) /\ ~c.tsc_mtc_error
    BY <1>8 DEF Tracked, Kept
  <1>11. ASSUME c.tsc_approx_en = 1
         PROVE  /\ Anchored(d, n, k2, h2, FALSE, s2) /\ Counted(d, g, h2) /\ d.tsc_approx_cyc = 0
                /\ c.tsc_ref + d.tsc_approx_ctc \in Nat
                /\ c.tsc_ref + c.tsc_approx_ctc + (n - h.from)
                     < c.tsc_ref + d.tsc_approx_ctc + h.long
    <2>1. Anchored(c, n, k, h, FALSE, s)
      BY <1>11 DEF Tracked
    <2>2. /\ k0 <= k /\ c.tsc_ref_ctc = k0 % CtcRange /\ c.tsc_ref <= n
          /\ d.tsc_ref = c.tsc_ref /\ d.tsc_ref_ctc = c.tsc_ref_ctc
          /\ d.tsc_ref_cyc_cnt = d.cyc_cnt_ref /\ Ticks(d, k2) = Ticks(c, k2)
          /\ d.tsc_approx_ovf = 0 /\ d.tsc_approx_cyc = 0
      BY <1>8, <1>11, <2>1 DEF Anchored, Kept, Ticks
    <2>3. PICK extra \in {0, 1} :
            /\ extra = 1 => s = "ovf"
            /\ BeforeMtc(c, k, h, s) \/ (AfterMtc(c, k, h, s) /\ Turns(c, k, extra))
            /\ c.tsc_ref_ctc_ovf + (IF Passed(c, ctc) THEN 1 ELSE 0) =
                 Quot(Ticks(c, k2), CtcRange) + extra
      <3>1. TurnsCounted(c, n, k, h, s)
        BY <1>1, <2>1, TurnsGo
      <3> QED BY <3>1 DEF TurnsCounted
    <2>4. Turns(d, k2, extra)
      <3> DEFINE x == k2 - k0
      <3>1. x \in Nat /\ Ticks(c, k2) = x /\ k2 = k0 + x
        <4>1. Ticks(c, k2) = x
          BY DEF Ticks
        <4> HIDE DEF k2, k0
        <4> QED BY <1>2, <1>3, <2>2, <4>1
      <3>2. (ctc - c.tsc_ref_ctc) % CtcRange = Rem(x, CtcRange)
        <4>1. CtcRange \in Nat \ {0}
          BY <1>2
        <4> HIDE DEF x, k0
        <4>2. Rem(Rem(k0 + x, CtcRange) - Rem(k0, CtcRange), CtcRange) = Rem(x, CtcRange)
          BY <1>2, <3>1, <4>1, DifferenceOf
        <4> QED BY <2>2, <3>1, <4>2 DEF Rem
      <3>3. Quot(x, CtcRange) \in Int /\ x = Quot(x, CtcRange) * CtcRange + Rem(x, CtcRange)
            /\ Rem(x, CtcRange) \in Int
        <4>1. CtcRange \in Nat \ {0} /\ x \in Int
          BY <1>2, <3>1
        <4> HIDE DEF x
        <4> QED BY <4>1, Division
      <3>4. d.tsc_ref_ctc_ovf = Quot(x, CtcRange) + extra
        BY <1>8, <1>11, <2>3, <3>1
      <3>5. d.tsc_approx_ctc =
              (Rem(x, CtcRange) + (Quot(x, CtcRange) + extra) * CtcRange) * tsc_ratio
        BY <1>8, <1>11, <3>2, <3>4
      <3> HIDE DEF x
      <3>6. Rem(x, CtcRange) + (Quot(x, CtcRange) + extra) * CtcRange = x + extra * CtcRange
        <4>1. (Quot(x, CtcRange) + extra) * CtcRange
                = Quot(x, CtcRange) * CtcRange + extra * CtcRange
          BY <1>2, <3>3
        <4>2. Quot(x, CtcRange) * CtcRange \in Int /\ extra * CtcRange \in Int
          BY <1>2, <3>3
        <4> QED BY <3>1, <3>3, <4>1, <4>2
      <3> QED BY <2>2, <3>1, <3>4, <3>5, <3>6 DEF Turns
    <2>5. extra = 1 => s2 = "ovf"
      BY <2>3
    <2>6. AfterMtc(d, k2, h2, s2)
      <3>1. s2 \in {"mtc", "ovf"}
        BY <1>1 DEF Sender
      <3>2. d.ctc_prev = k2 % CtcRange
        BY <1>8, <1>11
      <3>3. Starts(h2, k2 * tsc_ratio)
        BY <1>3, <1>13
      <3> QED BY <1>3, <2>4, <2>5, <3>1, <3>2, <3>3 DEF AfterMtc
    <2>7. Anchored(d, n, k2, h2, FALSE, s2)
      <3>1. k0 <= k2 /\ n <= (k2 + 1) * tsc_ratio
        <4>1. (k2 + 1) * tsc_ratio = k2 * tsc_ratio + tsc_ratio
          BY <1>2, <1>3
        <4> HIDE DEF k2, k0
        <4> QED BY <1>2, <1>3, <2>2, <4>1
      <3> QED BY <2>2, <2>6, <3>1 DEF Anchored
    <2> DEFINE est  == c.tsc_ref + c.tsc_approx_ctc
               est2 == c.tsc_ref + d.tsc_approx_ctc
               rest == c.tsc_ref - k0 * tsc_ratio
               more == IF extra = 1 THEN CtcRange * tsc_ratio ELSE 0
    <2>8. est2 = rest + n + more
      <3>1. d.tsc_ref + d.tsc_approx_ctc =
              (d.tsc_ref - Tick(d.tsc_ref) * tsc_ratio) + k2 * tsc_ratio + more
        BY <1>3, <1>5, <2>4, TurnsTime
      <3>2. d.tsc_ref + d.tsc_approx_ctc = est2 /\ d.tsc_ref - Tick(d.tsc_ref) * tsc_ratio = rest
        BY <2>2
      <3> HIDE DEF est2, rest, more, k2
      <3> QED BY <1>3, <3>1, <3>2
    <2>9. rest \in Nat /\ more \in Nat
      <3>1. k0 * tsc_ratio \in Nat /\ k0 * tsc_ratio <= c.tsc_ref
        <4>1. k0 * tsc_ratio <= c.tsc_ref
          BY <1>2, TickIs
        <4> HIDE DEF k0
        <4> QED BY <1>2, <4>1, ProductNat
      <3>2. CtcRange * tsc_ratio \in Nat
        BY <1>2, ProductNat
      <3> HIDE DEF k0
      <3> QED BY <1>2, <3>1, <3>2
    <2>10. est + (n - h.from) < est2 + h.long
      <3>1. CASE BeforeMtc(c, k, h, s)
        <4>1. c.tsc_approx_ctc = 0 /\ h.from <= c.tsc_ref /\ c.tsc_ref < h.from + h.long
          BY <3>1 DEF BeforeMtc, Starts
        <4>2. est = c.tsc_ref
          BY <1>2, <4>1
        <4> HIDE DEF est, est2, rest, more
        <4> QED BY <1>2, <1>3, <1>14, <2>8, <2>9, <4>1, <4>2
      <3>2. CASE AfterMtc(c, k, h, s) /\ Turns(c, k, extra)
        <4> DEFINE told == k * tsc_ratio
        <4>1. est = rest + told + more
          BY <1>1, <1>3, <3>2, TurnsTime
        <4>2. told < h.from + h.long /\ told \in Nat
          BY <1>2, <1>3, <3>2 DEF AfterMtc, Starts
        <4> HIDE DEF est, est2, rest, more, told
        <4> QED BY <1>2, <1>3, <1>14, <2>8, <2>9, <4>1, <4>2
      <3> QED BY <2>3, <3>1, <3>2
    <2>11. est2 \in Nat
      <3> HIDE DEF rest, more, est2
      <3> QED BY <1>3, <2>8, <2>9
    <2> QED BY <1>13, <2>2, <2>7, <2>10, <2>11
  <1>12. Forward(c, g, h, d, g, h2)
    <2> SUFFICES ASSUME c.tsc_approx_en = 1, Even(g, h)
                 PROVE  d.tsc_approx_ref > c.tsc_approx_ref - CycTime(g.cbr)
      BY DEF Forward
    <2> DEFINE t    == CycTime(g.cbr)
               x    == c.tsc_approx_cyc
               est  == c.tsc_ref + c.tsc_approx_ctc
               est2 == c.tsc_ref + d.tsc_approx_ctc
    <2>1. /\ c.cbr_factor = g.cbr * bus_hz /\ d.cbr_factor = g.cbr * bus_hz
          /\ d.tsc_approx_en = 1 /\ d.tsc_ref = c.tsc_ref /\ d.tsc_approx_cyc = 0
          /\ g.cbr \in Cbrs /\ t \in Nat \ {0}
      BY <1>1, <1>8, CoreIs DEF Tracked, Kept, Even
    <2>2. h.short = t /\ h.long = t
      BY <1>14, <2>1 DEF Even, Tracked, Runs
    <2>3. Estimate(c) = est + x * t /\ x * t \in Nat
      BY <1>1, <2>1, EstimateIs
    <2>4. Estimate(d) = est2 + 0
      <3>1. Estimate(d) = d.tsc_ref + d.tsc_approx_ctc + d.tsc_approx_cyc * CycTime(g.cbr)
        BY <1>5, <2>1, EstimateIs
      <3>2. 0 * CycTime(g.cbr) = 0
        BY <2>1
      <3> QED BY <2>1, <3>1, <3>2
    <2>5. x * t <= n - h.from
      <3>1. (x + g.pending) * h.short <= g.edge - h.from
        BY DEF Tracked, Counted
      <3>2. x + g.pending = x
        BY <1>2
      <3> HIDE DEF x, t
      <3>3. x * t <= g.edge - h.from
        BY <2>2, <3>1, <3>2
      <3> QED BY <1>3, <1>14, <2>3, <3>3
    <2>6. est2 \in Nat /\ est + (n - h.from) < est2 + t /\ est \in Nat
      BY <1>2, <1>11, <2>2
    <2> HIDE DEF est, est2, t, x
    <2>7. est2 > est + x * t - t
      BY <1>3, <1>14, <2>1, <2>3, <2>5, <2>6
    <2>8. est2 + 0 = est2
      BY <2>6
    <2>9. c.tsc_approx_ref = est + x * t /\ d.tsc_approx_ref = est2
      BY <1>10, <2>3, <2>4, <2>8
    <2>10. d.tsc_approx_ref > c.tsc_approx_ref - t
      BY <2>1, <2>3, <2>6, <2>7, <2>9
    <2> QED BY <2>10 DEF t
  <1> QED BY <1>5, <1>8, <1>9, <1>10, <1>11, <1>12, <1>13 DEF Tracked, Kept, h2

\* TSC: from here to the TMA there is no estimate.
LEMMA TscStep ==
  ASSUME NEW c, NEW n, NEW k, NEW g, NEW h, NEW lost, NEW s, Tracked(c, n, k, g, h, lost, s),
         NEW d, d = pkt_TSC(c, n)
  PROVE  Tracked(d, n, k, g, h, lost, s) /\ d.tsc = [val |-> n, cyc_cnt |-> d.cyc_cnt_ref]
  <1> DEFINE b == Reference(c, n, 0, c.cyc_cnt_ref)
             p == record_intel_pt_pkt(b, "TSC", n, c.cyc_cnt_ref)
  <1>1. GoodClock(c) /\ n \in Nat
    BY DEF Tracked, Sender
  <1>2. GoodClock(d)
    BY <1>1, TscGood DEF GoodAndUntimed
  <1>3. c.cyc_cnt_ref \in Nat /\ c.cyc_cnt_ref <= c.cyc_cnt_ref /\ 0 \in 0 .. CtcRange - 1
    BY <1>1, ClockAssumption DEF GoodClock, ClockFields
  <1>4. GoodClock(b) /\ b.cyc_cnt_ref = c.cyc_cnt_ref
    BY <1>1, <1>3, ReferenceGood
  <1>5. b.tsc_mtc_error = c.tsc_mtc_error /\ b.cbr_factor = c.cbr_factor
    BY <1>1 DEF Reference, GoodClock, ClockFields
  <1> HIDE DEF b
  <1>6. Recordable(b, "TSC", n, c.cyc_cnt_ref)
    BY <1>4, CountRecordable
  <1>7. Kept(b, p) /\ p.tsc_approx_en = 0
    BY <1>6, ReferenceDoes
  <1>8. p \in ClockFields
    BY <1>4, RecordNow DEF GoodAndUntimed, GoodClock
  <1>9. d = [p EXCEPT !.tsc = [val |-> n, cyc_cnt |-> c.cyc_cnt_ref]]
    BY DEF pkt_TSC, b
  <1> HIDE DEF p
  <1>10. /\ d.tsc = [val |-> n, cyc_cnt |-> c.cyc_cnt_ref] /\ d.cyc_cnt_ref = p.cyc_cnt_ref
         /\ d.tsc_approx_en = 0 /\ d.tsc_approx_ref = p.tsc_approx_ref
         /\ d.tsc_mtc_error = p.tsc_mtc_error /\ d.cbr_factor = p.cbr_factor
    BY <1>7, <1>8, <1>9 DEF ClockFields
  <1>11. d.tsc_approx_ref = Estimate(d)
    BY <1>7, <1>10 DEF Kept, Estimate
  <1> QED BY <1>2, <1>4, <1>5, <1>7, <1>10, <1>11 DEF Tracked, Kept

\* TMA: it is taken with its own TSC, and the estimate starts there.
LEMMA TmaStep ==
  ASSUME NEW c, NEW n, NEW k, NEW g, NEW h, NEW s, Tracked(c, n, k, g, h, FALSE, s), g.pending = 0,
         c.tsc = [val |-> n, cyc_cnt |-> c.cyc_cnt_ref],
         NEW d, d = pkt_TSC_MTC(c, Tick(n))
  PROVE  Tracked(d, n, Tick(n), g, SpanFrom(g), FALSE, "tma")
  <1> DEFINE ctc == Tick(n) % CtcRange
             b   == Reference(c, n, ctc, c.cyc_cnt_ref)
             h2  == SpanFrom(g)
  <1>1. GoodClock(c) /\ n \in Nat /\ Untimed(c) /\ Runs(n, g, h)
    BY DEF Tracked, Sender, Untimed, Estimate
  <1>2. /\ Tick(n) \in Nat /\ n < (Tick(n) + 1) * tsc_ratio
        /\ tsc_ratio \in Nat \ {0} /\ CtcRange \in Nat \ {0, 1}
    BY <1>1, TickIs, PartsAre
  <1>3. GoodClock(d)
    BY <1>1, <1>2, TmaGood DEF GoodAndUntimed
  <1>4. c.cyc_cnt_ref \in Nat /\ c.cyc_cnt_ref <= c.cyc_cnt_ref /\ ctc \in 0 .. CtcRange - 1
    <2>1. ctc \in 0 .. CtcRange - 1
      <3>1. Tick(n) \in Int
        BY <1>2
      <3> QED BY <3>1, Remainder
    <2> QED BY <1>1, <2>1 DEF GoodClock, ClockFields
  <1>5. GoodClock(b) /\ b.cyc_cnt_ref = c.cyc_cnt_ref /\ b.tsc_ref_cyc_cnt = c.cyc_cnt_ref
    <2> HIDE DEF ctc
    <2> QED BY <1>1, <1>4, ReferenceGood
  <1>6. /\ b.tsc_mtc_error = c.tsc_mtc_error /\ b.tsc_ref = n /\ b.tsc_ref_ctc = ctc
        /\ b.tsc_ref_ctc_ovf = 0 /\ b.cbr_factor = c.cbr_factor
    BY <1>1 DEF Reference, GoodClock, ClockFields
  <1>7. d = record_intel_pt_pkt(b, "TSC_MTC", ctc, c.cyc_cnt_ref)
    <2>1. c.tsc.val = n /\ c.tsc.cyc_cnt = c.cyc_cnt_ref
      OBVIOUS
    <2>2. ~(c.tsc.val \div tsc_ratio # Tick(n))
      BY <2>1 DEF Tick
    <2> QED BY <2>1, <2>2 DEF pkt_TSC_MTC
  <1> HIDE DEF b, ctc
  <1>8. Recordable(b, "TSC_MTC", ctc, c.cyc_cnt_ref)
    BY <1>5, CountRecordable
  <1>9. /\ Kept(b, d) /\ d.tsc_approx_en = 1
        /\ d.tsc_approx_ctc = 0 /\ d.tsc_approx_cyc = 0 /\ d.tsc_approx_ovf = 0
        /\ d.tsc_ref_ctc_ovf = 0 /\ d.tsc_ref_cyc_cnt = c.cyc_cnt_ref
    BY <1>5, <1>6, <1>7, <1>8, ReferenceDoes
  <1>10. d.tsc_ref = n /\ d.tsc_ref_ctc = Tick(n) % CtcRange
    BY <1>6, <1>9 DEF Kept, ctc
  <1>14. Runs(n, g, h2) /\ Starts(h2, n) /\ Counted(d, g, h2)
    BY <1>1, <1>9, SpanStarts
  <1> HIDE DEF h2
  <1>11. BeforeMtc(d, Tick(n), h2, "tma")
    BY <1>9, <1>10, <1>14 DEF BeforeMtc
  <1>12. Anchored(d, n, Tick(n), h2, FALSE, "tma")
    <2>1. (Tick(n) + 1) * tsc_ratio \in Nat
      BY <1>2, ProductNat
    <2>2. n <= n /\ Tick(n) <= Tick(n) /\ n <= (Tick(n) + 1) * tsc_ratio
      BY <1>1, <1>2, <2>1
    <2>3. d.tsc_ref_cyc_cnt = d.cyc_cnt_ref
      BY <1>5, <1>9 DEF Kept
    <2> QED BY <1>10, <1>11, <2>2, <2>3 DEF Anchored
  <1>13. Sender(n, Tick(n), FALSE, "tma")
    BY <1>1, <1>2 DEF Sender
  <1> QED BY <1>3, <1>6, <1>9, <1>12, <1>13, <1>14 DEF Tracked, Kept, h2

-----------------------------------------------------------------------------
(* The time of packets.                                                    *)

\* It starts without an estimate.
LEMMA TimeInvInit == ClockInit => TimeInv
  <1> SUFFICES ASSUME ClockInit PROVE TimeInv
    OBVIOUS
  <1>1. GoodClock(clk) /\ clk = Clock0
    BY ClockInvInit DEF ClockInv, GoodAndUntimed, ClockInit
  <1>2. Tick(0) = 0 /\ CtcRange \in Nat \ {0, 1}
    <2>1. tsc_ratio \in Nat \ {0} /\ 0 \in 0 .. tsc_ratio - 1
      BY ClockAssumption
    <2>2. Quot(0, tsc_ratio) = 0
      BY <2>1, DivisionBelow
    <2>3. \A t \in Int : Tick(t) = Quot(t, tsc_ratio)
      BY DEF Quot, Tick
    <2> QED BY <2>2, <2>3, ClockAssumption
  <1>3. Sender(now, ticked, overflowing, since)
    <2>1. now = 0 /\ ticked = 0 /\ since = "tma" /\ overflowing \in BOOLEAN
      BY DEF ClockInit
    <2>2. Tick(now) = 0
      BY <1>2, <2>1
    <2>3. ticked <= Tick(now) /\ Tick(now) - ticked < CtcRange
      BY <1>2, <2>1, <2>2
    <2> QED BY <2>1, <2>3 DEF Sender
  <1>4. /\ clk.tsc_approx_ref = Estimate(clk) /\ ~clk.tsc_mtc_error /\ clk.tsc_approx_en = 0
    BY <1>1 DEF Clock0, Estimate
  <1>5. ~MtcDue
    BY <1>2 DEF ClockInit, MtcDue
  <1>6. Runs(now, core, span) /\ core.pending = 0 /\ ~core.told
    <2>1. PICK cbr \in Cbrs : core = [cbr |-> cbr, told |-> FALSE, edge |-> 0, pending |-> 0]
      BY DEF ClockInit
    <2>2. /\ core \in CoreFields /\ core.edge = 0 /\ core.pending = 0 /\ ~core.told
          /\ core.cbr \in Cbrs
      BY <2>1 DEF CoreFields
    <2> DEFINE t == CycTime(core.cbr)
    <2>3. t \in Nat \ {0}
      BY <2>2, RateIs
    <2>4. span = [from |-> core.edge, short |-> t, long |-> t] /\ now = 0
      BY DEF ClockInit, SpanFrom
    <2> HIDE DEF t
    <2>5. /\ span \in [from : Nat, short : Nat, long : Nat]
          /\ span.from = 0 /\ span.short = t /\ span.long = t
      BY <2>2, <2>3, <2>4
    <2> QED BY <2>2, <2>3, <2>4, <2>5 DEF Runs, t
  <1> QED BY <1>1, <1>3, <1>4, <1>5, <1>6 DEF ClockInit, TimeInv, Tracked

\* While a PSB+ is sent no MTC is due, before or after a step that leaves the times.
LEMMA DueKept == ASSUME now' = now, ticked' = ticked PROVE MtcDue' = MtcDue
  BY DEF MtcDue, Tick

\* A step that only the packets of a TSC and a TMA take without going forward.
Goes == psb_plus # "TSC" /\ psb_plus # "TMA" =>
          Forward(clk, core, span, clk', core', span')

\* No change of the clock goes nowhere.
LEMMA StaysForward ==
  ASSUME NEW c, GoodClock(c), NEW n, NEW g, NEW h, Runs(n, g, h), NEW g2, NEW h2
  PROVE  Forward(c, g, h, c, g2, h2)
  <1>1. c.tsc_approx_ref \in Nat /\ CycTime(g.cbr) \in Nat \ {0}
    BY PartsAre, CoreIs
  <1> QED BY <1>1 DEF Forward

LEMMA MinMaxOfTwo ==
  ASSUME NEW x \in Nat, NEW y \in Nat
  PROVE  /\ Min({x, y}) \in Nat /\ Min({x, y}) <= x /\ Min({x, y}) <= y
         /\ Max({x, y}) \in Nat /\ x <= Max({x, y}) /\ y <= Max({x, y})
  <1>1. \E m \in {x, y} : \A z \in {x, y} : m <= z
    OBVIOUS
  <1>2. Min({x, y}) \in {x, y} /\ \A z \in {x, y} : Min({x, y}) <= z
    BY <1>1 DEF Min
  <1>3. \E m \in {x, y} : \A z \in {x, y} : m >= z
    OBVIOUS
  <1>4. Max({x, y}) \in {x, y} /\ \A z \in {x, y} : Max({x, y}) >= z
    BY <1>3 DEF Max
  <1> QED BY <1>2, <1>4

\* A ratio that changes at an edge widens the span.
LEMMA ChangeWidens ==
  ASSUME NEW n \in Nat, NEW g, NEW h, Runs(n, g, h), g.edge = n,
         NEW g2 \in CoreFields, g2.edge = g.edge, g2.pending = g.pending,
         NEW h2 \in [from : Nat, short : Nat, long : Nat], h2.from = h.from,
         h2.short = Min({h.short, CycTime(g2.cbr)}), h2.long = Max({h.long, CycTime(g2.cbr)})
  PROVE  Wider(n, g, h, g2, h2)
  <1> DEFINE t == CycTime(g2.cbr)
  <1>1. h.from \in Nat /\ h.short \in Nat /\ h.long \in Nat /\ h.from <= n
    BY DEF Runs
  <1>2. t \in Nat \ {0}
    BY RateIs DEF CoreFields
  <1>3. h2.short <= h.short /\ h2.short <= t /\ h.long <= h2.long /\ t <= h2.long
    BY <1>1, <1>2, MinMaxOfTwo
  <1> HIDE DEF t
  <1>4. n < n + t
    BY <1>2
  <1>5. Runs(n, g2, h2)
    BY <1>1, <1>2, <1>3, <1>4 DEF Runs, t
  <1> QED BY <1>3, <1>5 DEF Wider

\* Packets that leave the reference and the ticks, and the changes of the ratio.
LEMMA TimeInvPackets ==
  ASSUME TimeInv, SendIp \/ SendPsb \/ SendCyc \/ EndOverflow \/ SendCbr \/ ChangeRate
  PROVE  TimeInv' /\ Goes
  <1> USE DEF Goes
  <1>1. Tracked(clk, now, ticked, core, span, overflowing, since)
    BY DEF TimeInv
  <1>2. now \in Nat /\ overflowing \in BOOLEAN /\ Runs(now, core, span) /\ GoodClock(clk)
    BY <1>1 DEF Tracked, Sender
  <1>3. CASE SendIp
    <2>1. psb_plus = "none" /\ psb_plus' = "none" /\ clk' = pkt_Other(clk, "TIP")
          /\ now' = now /\ ticked' = ticked /\ core' = core /\ overflowing' = overflowing
          /\ since' = since /\ span' = span
      BY <1>3 DEF SendIp, CanSend, cpuVars
    <2>2. Tracked(pkt_Other(clk, "TIP"), now, ticked, core, span, overflowing, since)
          /\ Forward(clk, core, span, pkt_Other(clk, "TIP"), core, span)
      BY <1>1, <1>2, OtherStep
    <2> QED BY <2>1, <2>2 DEF TimeInv
  <1>4. CASE SendPsb
    <2>1. psb_plus = "PSB" /\ psb_plus' = "TSC" /\ clk' = pkt_Other(clk, "PSB")
          /\ now' = now /\ ticked' = ticked /\ core' = core /\ overflowing' = overflowing
          /\ since' = since /\ span' = span
      BY <1>4 DEF SendPsb
    <2>2. Tracked(pkt_Other(clk, "PSB"), now, ticked, core, span, overflowing, since)
          /\ Forward(clk, core, span, pkt_Other(clk, "PSB"), core, span)
      BY <1>1, <1>2, OtherStep
    <2>3. MtcDue' = MtcDue
      BY <2>1, DueKept
    <2> QED BY <2>1, <2>2, <2>3 DEF TimeInv
  <1>5. CASE SendCyc
    <2> DEFINE g2 == [core EXCEPT !.pending = 0]
    <2>1. psb_plus = "none" /\ psb_plus' = "none" /\ clk' = pkt_CYC(clk, core.pending)
          /\ now' = now /\ ticked' = ticked /\ core' = g2 /\ overflowing = FALSE
          /\ overflowing' = FALSE /\ since' = since /\ span' = span
      BY <1>2, <1>5 DEF SendCyc, CanSend
    <2>2. g2 = [core EXCEPT !.pending = 0]
      OBVIOUS
    <2> HIDE DEF g2
    <2>3. Tracked(pkt_CYC(clk, core.pending), now, ticked, g2, span, FALSE, since)
          /\ Forward(clk, core, span, pkt_CYC(clk, core.pending), g2, span)
      BY <1>1, <2>1, <2>2, CycStep
    <2> QED BY <2>1, <2>3 DEF TimeInv
  <1>6. CASE EndOverflow
    <2> DEFINE s2 == IF since = "tma" THEN "ovf" ELSE since
               g2 == [core EXCEPT !.pending = 0]
    <2>1. /\ overflowing = TRUE /\ overflowing' = FALSE /\ clk' = pkt_Other(clk, "OVF")
          /\ now' = now /\ ticked' = ticked /\ core' = g2 /\ psb_plus' = psb_plus
          /\ since' = s2 /\ span' = span
      BY <1>2, <1>6 DEF EndOverflow
    <2>2. s2 = IF since = "tma" THEN "ovf" ELSE since
      OBVIOUS
    <2>3. g2 = [core EXCEPT !.pending = 0]
      OBVIOUS
    <2> HIDE DEF s2, g2
    <2>4. Tracked(pkt_Other(clk, "OVF"), now, ticked, g2, span, overflowing', s2)
          /\ Forward(clk, core, span, pkt_Other(clk, "OVF"), g2, span)
      <3>1. /\ overflowing' \in BOOLEAN /\ "OVF" \in {"TIP", "OVF", "PSB"}
            /\ "OVF" # "OVF" => g2 = core /\ overflowing' = overflowing /\ s2 = since
        BY <2>1
      <3> QED BY <1>1, <1>2, <2>2, <2>3, <3>1, OtherStep
    <2>5. psb_plus = "none"
      BY <2>1 DEF TimeInv
    <2> QED BY <2>1, <2>4, <2>5 DEF TimeInv
  <1>7. CASE SendCbr
    <2> DEFINE g2 == [core EXCEPT !.told = TRUE]
    <2>1. psb_plus' = "none" /\ clk' = pkt_CBR(clk, core.cbr)
          /\ now' = now /\ ticked' = ticked /\ core' = g2 /\ overflowing' = overflowing
          /\ since' = since /\ span' = span
      BY <1>7 DEF SendCbr
    <2>2. /\ g2 \in CoreFields /\ g2.cbr = core.cbr /\ g2.edge = core.edge
          /\ g2.pending = core.pending
      BY <1>2 DEF Runs, CoreFields
    <2> HIDE DEF g2
    <2>3. Wider(now, core, span, g2, span)
      <3>1. span.short \in Nat /\ span.long \in Nat
        BY <1>2, CoreIs
      <3> QED BY <1>2, <2>2, <3>1 DEF Wider, Runs
    <2>4. Tracked(pkt_CBR(clk, core.cbr), now, ticked, g2, span, overflowing, since)
          /\ Forward(clk, core, span, pkt_CBR(clk, core.cbr), g2, span)
      BY <1>1, <2>2, <2>3, CbrStep
    <2> QED BY <2>1, <2>4 DEF TimeInv
  <1>8. CASE ChangeRate
    <2>1. PICK cbr \in Cbrs :
            /\ clk' = IF overflowing THEN clk ELSE pkt_CBR(clk, cbr)
            /\ core' = [core EXCEPT !.cbr = cbr, !.told = ~overflowing]
            /\ span' = [span EXCEPT !.short = Min({@, CycTime(cbr)}),
                                    !.long = Max({@, CycTime(cbr)})]
      BY <1>8 DEF ChangeRate
    <2>2. /\ psb_plus = "none" /\ psb_plus' = "none" /\ core.edge = now
          /\ now' = now /\ ticked' = ticked /\ overflowing' = overflowing /\ since' = since
      BY <1>8 DEF ChangeRate
    <2>3. Wider(now, core, span, core', span') /\ core'.cbr = cbr /\ core'.told = ~overflowing
      <3>1. /\ now \in Nat /\ Runs(now, core, span) /\ core.edge = now
            /\ core \in CoreFields /\ span \in [from : Nat, short : Nat, long : Nat]
        BY <1>2, <2>2 DEF Runs
      <3>2. /\ core' \in CoreFields /\ core'.cbr = cbr /\ core'.told = ~overflowing
            /\ core'.edge = core.edge /\ core'.pending = core.pending
        BY <1>2, <2>1, <3>1 DEF CoreFields
      <3> DEFINE short == Min({span.short, CycTime(cbr)})
                 long  == Max({span.long, CycTime(cbr)})
      <3>3. span' = [span EXCEPT !.short = short, !.long = long]
        BY <2>1
      <3>4. short \in Nat /\ long \in Nat
        <4>1. CycTime(cbr) \in Nat
          BY RateIs
        <4> QED BY <3>1, <4>1, MinMaxOfTwo
      <3> HIDE DEF short, long
      <3>5. /\ span' \in [from : Nat, short : Nat, long : Nat] /\ span'.from = span.from
            /\ span'.short = short /\ span'.long = long
        BY <3>1, <3>3, <3>4
      <3>6. Wider(now, core, span, core', span')
        BY <3>1, <3>2, <3>5, ChangeWidens DEF short, long
      <3> QED BY <3>2, <3>6
    <2>4. CASE ~overflowing
      <3>1. clk' = pkt_CBR(clk, core'.cbr)
        BY <2>1, <2>3, <2>4
      <3>2. Tracked(clk', now, ticked, core', span', overflowing, since)
            /\ Forward(clk, core, span, clk', core', span')
        BY <1>1, <2>3, <3>1, CbrStep
      <3> QED BY <2>2, <3>2 DEF TimeInv
    <2>5. CASE overflowing
      <3>1. clk' = clk /\ ~core'.told
        BY <1>2, <2>1, <2>3, <2>5
      <3>2. Tracked(clk, now, ticked, core', span', overflowing, since)
        BY <1>1, <2>3, <3>1, LostRateStep
      <3>3. Forward(clk, core, span, clk, core', span')
        BY <1>2, StaysForward
      <3> QED BY <2>2, <3>1, <3>2, <3>3 DEF TimeInv
    <2> QED BY <2>4, <2>5
  <1> QED BY <1>3, <1>4, <1>5, <1>6, <1>7, <1>8

\* MTC, TSC and TMA.
LEMMA TimeInvReferences ==
  ASSUME TimeInv, SendMtc \/ SendTsc \/ SendTma PROVE TimeInv' /\ Goes
  <1> USE DEF Goes
  <1>1. Tracked(clk, now, ticked, core, span, overflowing, since)
    BY DEF TimeInv
  <1>2. CASE SendMtc
    <2>1. psb_plus = "none" /\ psb_plus' = "none" /\ clk' = pkt_MTC(clk, Tick(now) % CtcRange)
          /\ now' = now /\ ticked' = Tick(now) /\ core' = core /\ span' = SpanFrom(core)
          /\ core.pending = 0 /\ overflowing = FALSE /\ overflowing' = FALSE
          /\ since' = IF since = "tma" THEN "mtc" ELSE since
      BY <1>1, <1>2 DEF SendMtc, CanSend, Tracked, Sender
    <2>2. now % tsc_ratio = 0 /\ ticked < Tick(now)
      BY <1>2 DEF SendMtc, MtcDue
    <2>3. Tracked(pkt_MTC(clk, Tick(now) % CtcRange), now, Tick(now), core, SpanFrom(core), FALSE,
                  IF since = "tma" THEN "mtc" ELSE since)
          /\ Forward(clk, core, span, pkt_MTC(clk, Tick(now) % CtcRange), core, SpanFrom(core))
      BY <1>1, <2>1, <2>2, MtcStep
    <2> QED BY <2>1, <2>3 DEF TimeInv
  <1>3. CASE SendTsc
    <2>1. psb_plus = "TSC" /\ psb_plus' = "TMA" /\ clk' = pkt_TSC(clk, now)
          /\ now' = now /\ ticked' = ticked /\ core' = core /\ overflowing' = overflowing
          /\ since' = since /\ span' = span
      BY <1>3 DEF SendTsc
    <2>2. Tracked(pkt_TSC(clk, now), now, ticked, core, span, overflowing, since)
          /\ pkt_TSC(clk, now).tsc = [val |-> now, cyc_cnt |-> pkt_TSC(clk, now).cyc_cnt_ref]
      BY <1>1, TscStep
    <2>3. MtcDue' = MtcDue
      BY <2>1, DueKept
    <2> QED BY <2>1, <2>2, <2>3 DEF TimeInv
  <1>4. CASE SendTma
    <2>1. psb_plus = "TMA" /\ psb_plus' = "CBR" /\ clk' = pkt_TSC_MTC(clk, Tick(now))
          /\ now' = now /\ ticked' = Tick(now) /\ core' = core /\ overflowing' = overflowing
          /\ since' = "tma" /\ span' = SpanFrom(core)
      BY <1>4 DEF SendTma
    <2>2. overflowing = FALSE /\ core.pending = 0
          /\ clk.tsc = [val |-> now, cyc_cnt |-> clk.cyc_cnt_ref]
      BY <1>1, <2>1 DEF TimeInv, Tracked, Sender
    <2>3. Tracked(pkt_TSC_MTC(clk, Tick(now)), now, Tick(now), core, SpanFrom(core), FALSE, "tma")
      BY <1>1, <2>2, TmaStep
    <2>4. ~MtcDue'
      <3>1. MtcDue' => Tick(now) < Tick(now)
        BY <2>1 DEF MtcDue, Tick
      <3>2. Tick(now) \in Nat
        BY <1>1, TickNat DEF Tracked, Sender
      <3> QED BY <3>1, <3>2
    <2> QED BY <2>1, <2>2, <2>3, <2>4 DEF TimeInv
  <1> QED BY <1>2, <1>3, <1>4

\* What goes on at the processor between the packets.
LEMMA TimeInvSilent ==
  ASSUME TimeInv, TimePasses \/ StartOverflow \/ StartPsb \/ UNCHANGED valueVars
  PROVE  TimeInv' /\ Goes
  <1> USE DEF Goes
  <1>1. Tracked(clk, now, ticked, core, span, overflowing, since)
    BY DEF TimeInv
  <1>2. clk' = clk /\ Forward(clk, core, span, clk, core', span')
    BY <1>1, StaysForward
       DEF Tracked, TimePasses, StartOverflow, StartPsb, valueVars, clockVars
  <1>3. CASE TimePasses
    <2>1. psb_plus = "none" /\ psb_plus' = "none" /\ now' = now + 1
          /\ ticked' = ticked /\ overflowing' = overflowing
          /\ since' = since /\ span' = span /\ core' = Edge(core, now + 1)
      BY <1>3 DEF TimePasses, Edge
    <2>2. (now % tsc_ratio = 0 /\ ticked < Tick(now) => overflowing)
          /\ Tick(now + 1) - ticked < CtcRange
      BY <1>3, <2>1 DEF TimePasses, MtcDue
    <2>3. Tracked(clk, now + 1, ticked, Edge(core, now + 1), span, overflowing, since)
      BY <1>1, <2>2, TimeStep
    <2> QED BY <1>2, <2>1, <2>3 DEF TimeInv
  <1>4. CASE StartOverflow
    <2>1. psb_plus' = "none" /\ now' = now /\ ticked' = ticked /\ core' = core
          /\ overflowing' = TRUE /\ since' = since /\ span' = span
      BY <1>4 DEF StartOverflow
    <2>2. Tracked(clk, now, ticked, core, span, overflowing', since)
      BY <1>1, <2>1, LoseStep
    <2> QED BY <1>2, <2>1, <2>2 DEF TimeInv
  <1>5. CASE StartPsb
    <2>1. psb_plus' = "PSB" /\ now' = now /\ ticked' = ticked /\ core' = core
          /\ overflowing' = overflowing /\ since' = since /\ span' = span
          /\ ~overflowing /\ ~MtcDue /\ core.pending = 0
      BY <1>5 DEF StartPsb, CanSend
    <2>2. MtcDue' = MtcDue
      BY <2>1, DueKept
    <2> QED BY <1>1, <1>2, <2>1, <2>2 DEF TimeInv
  <1>6. CASE UNCHANGED valueVars
    <2>1. psb_plus' = psb_plus /\ now' = now /\ ticked' = ticked /\ core' = core
          /\ overflowing' = overflowing /\ since' = since /\ span' = span
      BY <1>6 DEF valueVars, clockVars, cpuVars
    <2>2. MtcDue' = MtcDue
      BY <2>1, DueKept
    <2> QED BY <1>2, <2>1, <2>2 DEF TimeInv
  <1> QED BY <1>3, <1>4, <1>5, <1>6

\* Every step of the processor and the decoder keeps the invariant, and only a new
\* reference, or a ratio that changed, takes an estimate back.
LEMMA TimeInvStep == ASSUME TimeInv, [ValuesNext]_valueVars PROVE TimeInv' /\ Goes
  <1>1. \/ SendIp \/ SendPsb \/ SendCyc \/ EndOverflow \/ SendCbr \/ ChangeRate
        \/ SendMtc \/ SendTsc \/ SendTma
        \/ TimePasses \/ StartOverflow \/ StartPsb \/ UNCHANGED valueVars
    BY DEF ValuesNext, ClockNext
  <1> QED BY <1>1, TimeInvPackets, TimeInvReferences, TimeInvSilent

\* Where the reference and the ticks put the time, and where the cycles on top of
\* it start.
LEMMA CrystalAt ==
  ASSUME NEW c, GoodClock(c), NEW n, NEW k \in Nat, NEW h, h.from \in Nat, h.long \in Nat,
         NEW lost, NEW s, Anchored(c, n, k, h, lost, s)
  PROVE  LET crystal == c.tsc_ref + c.tsc_approx_ctc
             told    == k * tsc_ratio
             most    == tsc_ratio + (IF s = "ovf" THEN CtcRange * tsc_ratio ELSE 0)
         IN  /\ told \in Nat /\ most \in Nat
             /\ told <= crystal /\ crystal < told + most
             /\ h.from <= crystal /\ crystal < h.from + h.long + most
  <1> DEFINE crystal == c.tsc_ref + c.tsc_approx_ctc
             told    == k * tsc_ratio
             turn    == CtcRange * tsc_ratio
             most    == tsc_ratio + (IF s = "ovf" THEN turn ELSE 0)
             k0      == Tick(c.tsc_ref)
             rest    == c.tsc_ref - k0 * tsc_ratio
  <1>1. /\ c.tsc_ref \in Nat /\ c.tsc_approx_ctc \in Nat /\ k0 \in Nat
        /\ tsc_ratio \in Nat \ {0} /\ CtcRange \in Nat \ {0, 1}
    BY PartsAre
  <1>2. told \in Nat /\ turn \in Nat
    BY <1>1, ProductNat
  <1>3. rest \in Nat /\ rest < tsc_ratio
    <2>1. k0 * tsc_ratio <= c.tsc_ref /\ c.tsc_ref < (k0 + 1) * tsc_ratio
      BY <1>1, TickIs
    <2> HIDE DEF k0
    <2>2. (k0 + 1) * tsc_ratio = k0 * tsc_ratio + tsc_ratio /\ k0 * tsc_ratio \in Nat
      BY <1>1, OneMore
    <2> QED BY <1>1, <2>1, <2>2
  <1>4. CASE BeforeMtc(c, k, h, s)
    <2>1. /\ c.tsc_approx_ctc = 0 /\ k = k0
          /\ h.from <= c.tsc_ref /\ c.tsc_ref < h.from + h.long
      BY <1>4 DEF BeforeMtc, Starts
    <2>2. crystal = c.tsc_ref /\ rest = c.tsc_ref - told
      BY <1>1, <2>1
    <2> HIDE DEF crystal, told, turn, rest, k0
    <2> QED BY <1>1, <1>2, <1>3, <2>1, <2>2 DEF crystal, told, turn
  <1>5. CASE AfterMtc(c, k, h, s)
    <2>1. PICK extra \in {0, 1} : (extra = 1 => s = "ovf") /\ Turns(c, k, extra)
      BY <1>5 DEF AfterMtc
    <2> DEFINE more == IF extra = 1 THEN turn ELSE 0
    <2>2. crystal = rest + told + more
      BY <2>1, TurnsTime
    <2>3. h.from <= told /\ told < h.from + h.long
      BY <1>5 DEF AfterMtc, Starts
    <2>4. more \in Nat /\ more <= IF s = "ovf" THEN turn ELSE 0
      BY <1>2, <2>1
    <2> HIDE DEF crystal, told, turn, rest, k0, more
    <2> QED BY <1>1, <1>2, <1>3, <2>2, <2>3, <2>4 DEF crystal, told, turn
  <1> QED BY <1>4, <1>5 DEF Anchored

\* Where the parts of the estimate put the time.
LEMMA TracksFrom == ASSUME TimeInv PROVE TimeTracks
  <1> DEFINE crystal == clk.tsc_ref + clk.tsc_approx_ctc
             told    == ticked * tsc_ratio
             most    == tsc_ratio + (IF since = "ovf" THEN CtcRange * tsc_ratio ELSE 0)
             ran     == core.edge - span.from
             cyc     == clk.tsc_approx_cyc
             pending == core.pending
             cycle   == CycTime(core.cbr)
             est     == clk.tsc_approx_ref
  <1>1. /\ GoodClock(clk) /\ Runs(now, core, span) /\ ticked \in Nat
        /\ ~clk.tsc_mtc_error
        /\ core.told => clk.cbr_factor = core.cbr * bus_hz
    BY DEF TimeInv, Tracked, Sender
  <1>2. /\ core.cbr \in Cbrs /\ core.edge \in Nat /\ pending \in Nat
        /\ span.from \in Nat /\ span.short \in Nat /\ span.long \in Nat
        /\ cycle \in Nat \ {0} /\ cyc \in Nat /\ est \in Nat
        /\ clk.tsc_ref \in Nat /\ clk.tsc_approx_ctc \in Nat
        /\ span.short <= cycle /\ cycle <= span.long /\ span.from <= core.edge
    <2>1. span.short <= cycle /\ cycle <= span.long /\ span.from <= core.edge
      BY <1>1 DEF Runs
    <2> QED BY <1>1, <2>1, CoreIs, PartsAre
  <1> SUFFICES ASSUME Timed
               PROVE  /\ crystal >= told /\ crystal < told + most
                      /\ cyc * span.short <= ran
                      /\ clk.tsc_approx_ovf = 0 => ran <= (cyc + pending) * span.long
                      /\ Steady =>
                           /\ est - core.edge < most + cycle
                           /\ clk.tsc_approx_ovf = 0 => est - core.edge >= -(pending * cycle)
    BY <1>1 DEF TimeTracks
  <1>3. /\ Anchored(clk, now, ticked, span, overflowing, since) /\ Counted(clk, core, span)
        /\ est = Estimate(clk)
    BY DEF TimeInv, Tracked, Timed
  <1>4. /\ told \in Nat /\ most \in Nat
        /\ told <= crystal /\ crystal < told + most
        /\ span.from <= crystal /\ crystal < span.from + span.long + most
    BY <1>1, <1>2, <1>3, CrystalAt
  <1>5. /\ (cyc + pending) * span.short <= ran
        /\ clk.tsc_approx_ovf = 0 => ran <= (cyc + pending) * span.long
    BY <1>3 DEF Counted
  <1>6. cyc * span.short <= ran
    <2> DEFINE all == cyc + pending
    <2>1. all \in Nat /\ cyc <= all /\ ran \in Int
      BY <1>2
    <2>2. all * span.short <= ran
      BY <1>5
    <2> HIDE DEF all, cyc, ran
    <2>3. cyc * span.short <= all * span.short /\ cyc * span.short \in Nat /\ all * span.short \in Nat
      BY <1>2, <2>1, MoreCycles
    <2> QED BY <2>1, <2>2, <2>3
  <1>7. ASSUME Steady
        PROVE  /\ est - core.edge < most + cycle
               /\ clk.tsc_approx_ovf = 0 => est - core.edge >= -(pending * cycle)
    <2>1. core.told /\ span.short = cycle /\ span.long = cycle
      BY <1>2, <1>7 DEF Steady
    <2>2. est = crystal + cyc * cycle /\ cyc * cycle \in Nat
      BY <1>1, <1>2, <1>3, <2>1, EstimateIs DEF Timed
    <2>3. (cyc + pending) * cycle = cyc * cycle + pending * cycle /\ pending * cycle \in Nat
      <3> HIDE DEF cyc, pending, cycle
      <3>1. pending * cycle \in Nat
        BY <1>2, ProductNat
      <3> QED BY <1>2, <3>1
    <2>4. /\ cyc * cycle <= ran
          /\ clk.tsc_approx_ovf = 0 => ran <= cyc * cycle + pending * cycle
      BY <1>5, <1>6, <2>1, <2>3
    <2>5. crystal \in Nat
      BY <1>2
    <2> HIDE DEF crystal, most, cyc, pending, cycle, est, told
    <2> QED BY <1>2, <1>4, <2>1, <2>2, <2>3, <2>4, <2>5
  <1> QED BY <1>4, <1>5, <1>6, <1>7

\* Every TMA is taken with its own TSC.  The ticks counted are the last one told and
\* less than a tick, and a turn more after some overflows; the cycles counted are
\* those that ran since, but for those an overflow cost; and while the ratio is
\* steady both add up to the true time, within a tick and a cycle.
THEOREM TimeTracksHolds == ValuesSpec => []TimeTracks
  <1>1. ValuesInit => TimeInv
    BY TimeInvInit DEF ValuesInit
  <1>2. TimeInv /\ [ValuesNext]_valueVars => TimeInv'
    BY TimeInvStep
  <1>3. TimeInv => TimeTracks
    BY TracksFrom
  <1> QED BY <1>1, <1>2, <1>3, PTL DEF ValuesSpec

\* From one reference to the next, while the ratio is steady, the time of packets
\* goes back by less than a cycle.
THEOREM NeverBackHolds == ValuesSpec => NeverBack
  <1>1. ValuesInit => TimeInv
    BY TimeInvInit DEF ValuesInit
  <1>2. TimeInv /\ [ValuesNext]_valueVars => TimeInv'
    BY TimeInvStep
  <1>3. TimeInv /\ [ValuesNext]_valueVars =>
          [Timed /\ Steady /\ Steady' /\ psb_plus # "TSC" /\ psb_plus # "TMA" =>
             clk'.tsc_approx_ref > clk.tsc_approx_ref - CycTime(core.cbr)]_valueVars
    BY TimeInvStep DEF Goes, Forward, Even, Timed, Steady
  <1> QED BY <1>1, <1>2, <1>3, PTL DEF ValuesSpec, NeverBack
=============================================================================
