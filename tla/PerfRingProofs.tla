--------------------------- MODULE PerfRingProofs ---------------------------
(***************************************************************************)
(* Theorems about PerfRing: for every size of the two rings, every         *)
(* alignment of the copy and every order of the steps of the kernel, the   *)
(* thread and the signal handlers, what is handed to intel_pt_decode is a  *)
(* prefix of the trace, and the thread finds a header where it looks for   *)
(* one.                                                                    *)
(*                                                                         *)
(* The argument is a chain: between the tail and the head of the data ring *)
(* lies one whole record behind the other, and a function g from where     *)
(* each starts to the offset its first byte would have if nothing is lost. *)
(* A step of the kernel makes the chain longer, a turn of the thread takes *)
(* its first record off; the bytes the records tell of are in the AUX ring *)
(* because aux_tail never passes the end of out.                           *)
(***************************************************************************)
EXTENDS PerfRing, TLAPS

-----------------------------------------------------------------------------
(* Positions modulo the size of a ring.                                    *)

\* A position modulo the size of a ring is one of its slots.
LEMMA ModRange ==
  ASSUME NEW N \in Nat \ {0}, NEW x \in Int
  PROVE  x % N \in 0 .. N - 1
  OBVIOUS

\* What \div and % say of each other.
LEMMA DivMod ==
  ASSUME NEW N \in Nat \ {0}, NEW x \in Int
  PROVE  x \div N \in Int /\ x = N * (x \div N) + (x % N)
  OBVIOUS

\* The only multiple of N between -N and N is 0.
LEMMA MultipleBelow ==
  ASSUME NEW N \in Nat \ {0}, NEW q \in Int, -N < N * q, N * q < N
  PROVE  q = 0
  <1>1. CASE q >= 1
    <2>1. N * q >= N
      BY <1>1
    <2> QED BY <2>1
  <1>2. CASE q <= -1
    <2>1. N * q <= -N
      BY <1>2
    <2> QED BY <2>1
  <1> QED BY <1>1, <1>2

\* A number has one remainder.
LEMMA ModUnique ==
  ASSUME NEW N \in Nat \ {0}, NEW q \in Int, NEW r \in 0 .. N - 1, NEW x \in Int, x = N * q + r
  PROVE  x % N = r
  <1>1. x = N * (x \div N) + (x % N) /\ x \div N \in Int /\ x % N \in 0 .. N - 1
    BY DivMod, ModRange
  <1> DEFINE k == x \div N
  <1>2. N * (k - q) = r - (x % N)
    BY <1>1
  <1>3. k - q = 0
    <2>1. -N < N * (k - q) /\ N * (k - q) < N
      BY <1>1, <1>2
    <2> QED BY <1>1, <2>1, MultipleBelow
  <1>4. k = q
    BY <1>1, <1>3
  <1> QED BY <1>1, <1>4

\* Stated for the solver, which does not multiply out by itself.
LEMMA Distributes ==
  ASSUME NEW n \in Int, NEW a \in Int, NEW b \in Int
  PROVE  n * (a - b) = n * a - n * b
  OBVIOUS

\* A position may be taken modulo the size before or after a difference.
LEMMA Congruent ==
  ASSUME NEW N \in Nat \ {0}, NEW a \in Int, NEW x \in Int, x - a \in 0 .. N - 1
  PROVE  ((x % N) - (a % N)) % N = x - a /\ ((x % N) - a) % N = x - a
  <1>0. PICK r \in 0 .. N - 1 : r = x - a
    OBVIOUS
  <1> DEFINE qx == x \div N
             qa == a \div N
  <1>1. /\ qx \in Int /\ x = N * qx + (x % N) /\ x % N \in 0 .. N - 1
        /\ qa \in Int /\ a = N * qa + (a % N) /\ a % N \in 0 .. N - 1
    BY DivMod, ModRange
  <1> HIDE DEF qx, qa
  <1> DEFINE mx == x % N
             ma == a % N
  <1>2. /\ N \in Int /\ N * qx \in Int /\ N * qa \in Int /\ mx \in Int /\ ma \in Int
        /\ x = N * qx + mx /\ a = N * qa + ma /\ x = a + r
    BY <1>0, <1>1
  <1> HIDE DEF mx, ma
  <1>3. mx - ma = N * (qa - qx) + r
    <2>1. N * (qa - qx) = N * qa - N * qx
      BY <1>1, <1>2, Distributes
    <2> QED BY <1>2, <2>1
  <1>4. mx - a = N * (0 - qx) + r
    <2>1. N * (0 - qx) = N * 0 - N * qx
      BY <1>1, <1>2, Distributes
    <2> QED BY <1>2, <2>1
  <1>5. qa - qx \in Int /\ 0 - qx \in Int /\ mx - ma \in Int /\ mx - a \in Int
    BY <1>1, <1>2
  <1>6. \A q, y \in Int : y = N * q + r => y % N = r
    BY ModUnique
  <1>7. (mx - ma) % N = r /\ (mx - a) % N = r
    BY <1>3, <1>4, <1>5, <1>6
  <1> QED BY <1>0, <1>7 DEF mx, ma

\* How far behind a position another one lies in the ring: for the positions put
\* there, and for the ones before that the ring still holds.
LEMMA SlotThere ==
  ASSUME NEW N \in Nat \ {0}, NEW at \in Nat, NEW k \in 1 .. N
  PROVE  (((at + k - 1) % N) - at) % N = k - 1
  <1> DEFINE x == at + k - 1
  <1>1. x - at = k - 1 /\ k - 1 \in 0 .. N - 1 /\ x \in Int /\ at \in Int
    OBVIOUS
  <1>2. ((x % N) - at) % N = k - 1
    <2> HIDE DEF x
    <2> QED BY <1>1, Congruent
  <1> QED BY <1>2

\* The slot of an older position is behind those that are put.
LEMMA SlotElsewhere ==
  ASSUME NEW N \in Nat \ {0}, NEW at \in Nat, NEW n \in Nat, NEW x \in Nat, at + n - N <= x, x < at
  PROVE  ((x % N) - at) % N \in n .. N - 1
  <1> DEFINE r == x - at + N
  <1>1. r \in 0 .. N - 1 /\ r \in n .. N - 1 /\ x \in Int /\ at - N \in Int /\ x - (at - N) = r
    OBVIOUS
  <1>2. ((x % N) - (at - N)) % N = r
    BY <1>1, Congruent
  <1> HIDE DEF r
  <1> DEFINE d == (x % N) - at
  <1>3. d \in Int /\ d = (x % N) - (at - N) - N
    BY <1>1, ModRange
  <1>4. d % N = r
    <2>1. (x % N) - (at - N) \in Int
      BY <1>3
    <2>2. PICK q \in Int : (x % N) - (at - N) = N * q + r
      BY <2>1, <1>2, DivMod
    <2>3. N * (q - 1) = N * q - N * 1
      BY Distributes
    <2>4. d = N * (q - 1) + r /\ q - 1 \in Int
      BY <2>2, <2>3, <1>1, <1>3
    <2>5. \A k, y \in Int : y = N * k + r => y % N = r
      BY <1>1, ModUnique
    <2> HIDE DEF d
    <2> QED BY <2>4, <2>5, <1>3
  <1> QED BY <1>1, <1>4

\* A ring into which numbers are put is a ring of numbers.
LEMMA PutType ==
  ASSUME NEW N \in Nat \ {0}, NEW ring \in [0 .. N - 1 -> Nat], NEW at \in Nat, NEW ws \in Seq(Nat)
  PROVE  Put(ring, N, at, ws) \in [0 .. N - 1 -> Nat]
  BY DEF Put

-----------------------------------------------------------------------------
(* The copy into aux_buffer.                                               *)

\* Within a block nothing wraps: the offset of a byte in it can be added afterwards.
LEMMA ModPlus ==
  ASSUME NEW N \in Nat \ {0}, NEW x \in Int, NEW j \in Nat, (x % N) + j < N
  PROVE  (x + j) % N = (x % N) + j
  <1>1. x \div N \in Int /\ x = N * (x \div N) + (x % N) /\ x % N \in 0 .. N - 1
    BY DivMod, ModRange
  <1> DEFINE q == x \div N
             r == (x % N) + j
             y == x + j
  <1>2. q \in Int /\ r \in 0 .. N - 1 /\ y \in Int /\ y = N * q + r
    BY <1>1
  <1> HIDE DEF q, r, y
  <1>3. y % N = r
    BY <1>2, ModUnique
  <1> QED BY <1>3 DEF r, y

\* The bytes of the trace from the first to the last of a stretch are in the ring.
Holds(first, last) == \A x \in first .. last : perf_aux_buffer[x % AuxSize] = x

\* Block by block, across the end of the ring and for the remainder: the copy
\* takes each byte from where a byte-wise copy would.
LEMMA CopyIsByteWise ==
  ASSUME NEW offset \in Nat, NEW size \in Nat, Holds(offset, offset + size - 1)
  PROVE  AuxBytes(offset, size) = [k \in 1 .. size |-> offset + k - 1]
  <1>1. AuxSize \in Nat \ {0} /\ AUX_ALIGNMENT \in Nat \ {0}
    BY KernelAssumption, AlignmentAssumption
  <1>2. ASSUME NEW j \in 0 .. size - 1 PROVE perf_aux_buffer[(j + offset) % AuxSize] = offset + j
    <2>1. j + offset \in offset .. offset + size - 1 /\ j + offset = offset + j
      OBVIOUS
    <2> QED BY <2>1 DEF Holds
  <1>3. CASE Wraps(offset, size)
    <2> DEFINE at(j) == (AUX_ALIGNMENT * (j \div AUX_ALIGNMENT)) + offset
    <2>1. ASSUME NEW j \in 0 .. size - 1, (at(j) % AuxSize) + AUX_ALIGNMENT < AuxSize
          PROVE  perf_aux_buffer[(at(j) % AuxSize) + (j % AUX_ALIGNMENT)] = offset + j
      <3>1. /\ j \div AUX_ALIGNMENT \in Int /\ j % AUX_ALIGNMENT \in 0 .. AUX_ALIGNMENT - 1
            /\ j = AUX_ALIGNMENT * (j \div AUX_ALIGNMENT) + (j % AUX_ALIGNMENT)
        BY <1>1, DivMod, ModRange
      <3> DEFINE m == j % AUX_ALIGNMENT
                 x == at(j)
      <3>2. x \in Int /\ m \in Nat /\ x + m = j + offset /\ m < AUX_ALIGNMENT
        BY <3>1, <1>1
      <3>3. (x % AuxSize) + AUX_ALIGNMENT < AuxSize
        BY <2>1
      <3> HIDE DEF m, x
      <3>4. (x % AuxSize) + m < AuxSize
        BY <3>2, <3>3, <1>1, ModRange
      <3>5. (x + m) % AuxSize = (x % AuxSize) + m
        BY <3>2, <3>4, <1>1, ModPlus
      <3>6. perf_aux_buffer[(x % AuxSize) + m] = offset + j
        BY <3>2, <3>5, <1>2
      <3> QED BY <3>6 DEF m, x
    <2> DEFINE byte(j) ==
                 IF j < AUX_ALIGNMENT * (size \div AUX_ALIGNMENT) /\ (at(j) % AuxSize) + AUX_ALIGNMENT < AuxSize
                   THEN perf_aux_buffer[(at(j) % AuxSize) + (j % AUX_ALIGNMENT)]
                   ELSE perf_aux_buffer[(j + offset) % AuxSize]
    <2>2. \A j \in 0 .. size - 1 : byte(j) = offset + j
      BY <1>2, <2>1
    <2>3. Linear(offset, size) = [j \in 0 .. size - 1 |-> byte(j)]
      BY DEF Linear
    <2> HIDE DEF byte
    <2>4. AuxBytes(offset, size) = [k \in 1 .. size |-> Linear(offset, size)[k - 1]]
      BY <1>3 DEF AuxBytes
    <2>5. \A k \in 1 .. size : k - 1 \in 0 .. size - 1 /\ offset + (k - 1) = offset + k - 1
      OBVIOUS
    <2>6. \A k \in 1 .. size : Linear(offset, size)[k - 1] = offset + k - 1
      BY <2>2, <2>3, <2>5
    <2> QED BY <2>4, <2>6
  <1>4. CASE ~Wraps(offset, size)
    <2>1. ASSUME NEW j \in 0 .. size - 1 PROVE perf_aux_buffer[(offset % AuxSize) + j] = offset + j
      <3>1. (offset % AuxSize) + j < AuxSize /\ offset \in Int /\ j \in Nat /\ offset + j = j + offset
        BY <1>1, <1>4, ModRange DEF Wraps
      <3>2. (offset + j) % AuxSize = (offset % AuxSize) + j
        BY <1>1, <3>1, ModPlus
      <3> QED BY <3>1, <3>2, <1>2
    <2>2. AuxBytes(offset, size) = [k \in 1 .. size |-> Straight(offset, size)[k - 1]]
      BY <1>4 DEF AuxBytes
    <2>3. \A k \in 1 .. size : k - 1 \in 0 .. size - 1 /\ offset + (k - 1) = offset + k - 1
      OBVIOUS
    <2>4. \A k \in 1 .. size : Straight(offset, size)[k - 1] = offset + k - 1
      BY <2>1, <2>3 DEF Straight
    <2> QED BY <2>2, <2>4
  <1> QED BY <1>3, <1>4

-----------------------------------------------------------------------------
(* The records in the data ring.                                           *)

W(p) == perf_data_buffer[p % DataSize]

IsAux(p) == W(p) = PERF_RECORD_AUX
End(p)   == p + W(p + 1)

\* What perf_event_open puts there, one of its two kinds.
Record(p) ==
  \/ W(p) = PERF_RECORD_MMAP2 /\ W(p + 1) = 3
  \/ /\ IsAux(p) /\ W(p + 1) = 5
     /\ W(p + 2) \in Nat /\ W(p + 3) \in Nat \ {0} /\ W(p + 4) \in AuxFlags
     /\ W(p + 2) <= perf_metadata.aux_head /\ W(p + 2) + W(p + 3) <= reported

\* A stretch starts where the ones before it ended.
Follows(g, p) ==
  IF IsAux(p) THEN W(p + 2) = g[p] /\ W(p + 4) = 0 /\ g[End(p)] = g[p] + W(p + 3)
              ELSE g[End(p)] = g[p]

\* From position "from" to the head there is one record behind the other.  The
\* domain of g is where they start, g how much of the trace the ones before
\* each of them tell of, if none was lost.
Chain(g, from) ==
  LET head == perf_metadata.data_head
  IN  /\ DOMAIN g \subseteq from .. head /\ from \in DOMAIN g /\ head \in DOMAIN g
      /\ \A p \in DOMAIN g \ {head} :
           /\ Record(p) /\ End(p) \in DOMAIN g
           /\ \A q \in DOMAIN g : q > p => q >= End(p)
      /\ gaps = {} => /\ g[head] = reported
                      /\ \A p \in DOMAIN g \ {head} : Follows(g, p)

Metadata == [data_head : Nat, data_tail : Nat, aux_head : Nat, aux_tail : Nat]

KernelTypes ==
  /\ perf_metadata \in Metadata
  /\ perf_data_buffer \in [0 .. DataSize - 1 -> Nat]
  /\ written \in Nat /\ reported \in Nat

\* Every word of the data ring is a number.
LEMMA WordNat == ASSUME KernelTypes, NEW p \in Nat PROVE W(p) \in Nat
  <1>1. p % DataSize \in 0 .. DataSize - 1
    BY KernelAssumption, ModRange
  <1> QED BY <1>1 DEF W, KernelTypes

\* A record that is not put over stays what it is.
LEMMA RecordStays ==
  ASSUME KernelTypes, NEW g, NEW p \in Nat, Record(p),
         \A x \in p .. End(p) - 1 : W(x)' = W(x),
         perf_metadata'.aux_head \in Nat, perf_metadata'.aux_head >= perf_metadata.aux_head,
         reported' \in Nat, reported' >= reported
  PROVE  /\ Record(p)' /\ End(p)' = End(p) /\ (IsAux(p)' <=> IsAux(p))
         /\ Follows(g, p) => Follows(g, p)'
  <1>1. perf_metadata.aux_head \in Nat /\ reported \in Nat
    BY DEF KernelTypes, Metadata
  <1>2. W(p + 1) \in {3, 5} /\ (IsAux(p) => W(p + 1) = 5)
    BY DEF Record, IsAux, PERF_RECORD_AUX, PERF_RECORD_MMAP2
  <1>3. End(p) = p + W(p + 1)
    BY DEF End
  <1>4. W(p)' = W(p) /\ W(p + 1)' = W(p + 1)
    BY <1>2, <1>3
  <1>5. IsAux(p) => W(p + 2)' = W(p + 2) /\ W(p + 3)' = W(p + 3) /\ W(p + 4)' = W(p + 4)
    BY <1>2, <1>3
  <1>6. Record(p)'
    <2>1. CASE IsAux(p)
      <3>1. /\ W(p + 2) \in Nat /\ W(p + 3) \in Nat /\ W(p + 3) # 0 /\ W(p + 4) \in AuxFlags
            /\ W(p + 2) <= perf_metadata.aux_head /\ W(p + 2) + W(p + 3) <= reported
        BY <2>1, <1>2 DEF Record
      <3>2. W(p + 2) <= perf_metadata'.aux_head /\ W(p + 2) + W(p + 3) <= reported'
        BY <3>1, <1>1
      <3> QED BY <2>1, <3>1, <3>2, <1>2, <1>4, <1>5 DEF Record, IsAux
    <2>2. CASE ~IsAux(p)
      BY <2>2, <1>4 DEF Record, IsAux
    <2> QED BY <2>1, <2>2
  <1>7. End(p)' = End(p)
    BY <1>4 DEF End
  <1> QED BY <1>4, <1>5, <1>6, <1>7 DEF Follows, IsAux

\* A chain stays one while nothing is put over it.
LEMMA ChainStays ==
  ASSUME KernelTypes, NEW g, NEW from \in Nat, Chain(g, from),
         perf_metadata'.data_head = perf_metadata.data_head,
         \A x \in from .. perf_metadata.data_head - 1 : W(x)' = W(x),
         perf_metadata'.aux_head \in Nat, perf_metadata'.aux_head >= perf_metadata.aux_head,
         reported' \in Nat, reported' >= reported,
         gaps' = {} => gaps = {} /\ reported' = reported
  PROVE  Chain(g, from)'
  <1> DEFINE head == perf_metadata.data_head
  <1>1. head \in Nat
    BY DEF KernelTypes, Metadata
  <1>2. ASSUME NEW p \in DOMAIN g \ {head}
        PROVE  /\ Record(p)' /\ End(p)' = End(p) /\ (Follows(g, p) => Follows(g, p)')
    <2>1. p \in Nat /\ from <= p /\ Record(p) /\ End(p) \in from .. head
      BY <1>1 DEF Chain
    <2>2. \A x \in p .. End(p) - 1 : W(x)' = W(x)
      BY <1>1, <2>1
    <2> QED BY <2>1, <2>2, RecordStays
  <1> QED BY <1>2 DEF Chain

\* The chain with one more record behind it.
Longer(g, head, r) == [x \in DOMAIN g \cup {head} |-> IF x = head THEN r ELSE g[x]]

\* A whole record put at the head is the next of the chain.
LEMMA ChainGrows ==
  ASSUME KernelTypes, NEW g, NEW from \in Nat, Chain(g, from), NEW n \in Nat \ {0},
         NEW head, head = perf_metadata.data_head, perf_metadata'.data_head = head + n,
         \A x \in from .. head - 1 : W(x)' = W(x),
         perf_metadata'.aux_head \in Nat, perf_metadata'.aux_head >= perf_metadata.aux_head,
         reported' \in Nat, reported' >= reported,
         Record(head)', W(head + 1)' = n,
         gaps' = {} => /\ gaps = {}
                       /\ IF W(head)' = PERF_RECORD_AUX
                            THEN /\ W(head + 2)' = reported /\ W(head + 4)' = 0
                                 /\ reported' = reported + W(head + 3)'
                            ELSE reported' = reported,
         NEW h, h = Longer(g, head + n, reported')
  PROVE  Chain(h, from)'
  <1>1. head \in Nat /\ head \in DOMAIN g /\ DOMAIN g \subseteq from .. head /\ from \in DOMAIN g
    BY DEF KernelTypes, Metadata, Chain
  <1>2. /\ DOMAIN h = DOMAIN g \cup {head + n} /\ h[head + n] = reported'
        /\ \A x \in DOMAIN g : h[x] = g[x]
    BY <1>1 DEF Longer
  <1>3. ASSUME NEW p \in DOMAIN g \ {head}
        PROVE  /\ Record(p)' /\ End(p)' \in DOMAIN h
               /\ \A q \in DOMAIN h : q > p => q >= End(p)'
               /\ gaps' = {} => Follows(h, p)'
    <2>1. /\ p \in Nat /\ from <= p /\ p < head /\ Record(p) /\ End(p) \in DOMAIN g /\ End(p) \in from .. head
          /\ \A q \in DOMAIN g : q > p => q >= End(p)
          /\ gaps = {} => Follows(g, p)
      BY <1>1 DEF Chain
    <2>2. \A x \in p .. End(p) - 1 : W(x)' = W(x)
      BY <1>1, <2>1
    <2>3. Record(p)' /\ End(p)' = End(p) /\ (Follows(g, p) => Follows(g, p)')
      BY <2>1, <2>2, RecordStays
    <2>4. Follows(g, p)' => Follows(h, p)'
      BY <1>2, <2>1, <2>3 DEF Follows
    <2> QED BY <1>1, <1>2, <2>1, <2>3, <2>4
  <1>4. /\ Record(head)' /\ End(head)' = head + n
        /\ \A q \in DOMAIN h : q > head => q >= End(head)'
        /\ gaps' = {} => Follows(h, head)'
    <2>1. Record(head)' /\ End(head)' = head + n
      BY DEF End
    <2>2. \A q \in DOMAIN h : q > head => q >= End(head)'
      BY <1>1, <1>2, <2>1
    <2>3. ASSUME gaps' = {} PROVE Follows(h, head)'
      <3>1. h[head] = reported /\ h[End(head)'] = reported'
        BY <1>1, <1>2, <2>1, <2>3 DEF Chain
      <3> QED BY <2>3, <3>1 DEF Follows, IsAux
    <2> QED BY <2>1, <2>2, <2>3
  <1>5. /\ DOMAIN h \subseteq from .. head + n /\ from \in DOMAIN h /\ head + n \in DOMAIN h
        /\ \A p \in DOMAIN h \ {head + n} : p \in DOMAIN g \ {head} \/ p = head
    BY <1>1, <1>2
  <1> QED BY <1>2, <1>3, <1>4, <1>5 DEF Chain

\* What the kernel puts into the data ring is read there, and the records that
\* are not released are as they were.
PutKept(ws, head, tail) ==
  /\ perf_metadata' = [perf_metadata EXCEPT !.data_head = head + Len(ws)]
  /\ perf_data_buffer' \in [0 .. DataSize - 1 -> Nat]
  /\ \A x \in tail .. head - 1 : W(x)' = W(x)
  /\ \A k \in 1 .. Len(ws) : W(head + k - 1)' = ws[k]

\* What is put at the head of the data ring leaves what lies between the tails and the head.
LEMMA PutKeeps ==
  ASSUME KernelTypes, NEW ws \in Seq(Nat), Room(ws), PutRecord(ws),
         NEW head, head = perf_metadata.data_head,
         NEW tail, tail = perf_metadata.data_tail, tail <= head
  PROVE  PutKept(ws, head, tail)
  <1>1. head \in Nat /\ tail \in Nat /\ Len(ws) \in Nat /\ DataSize \in Nat \ {0}
    BY KernelAssumption DEF KernelTypes, Metadata
  <1>2. head + Len(ws) - tail <= DataSize
    BY DEF Room
  <1>3. Len(ws) <= DataSize
    BY <1>1, <1>2
  <1>4. perf_data_buffer' = Put(perf_data_buffer, DataSize, head, ws)
    BY DEF PutRecord
  <1>5. perf_data_buffer' \in [0 .. DataSize - 1 -> Nat]
    BY <1>1, <1>4, PutType DEF KernelTypes
  <1>6. ASSUME NEW x \in tail .. head - 1 PROVE W(x)' = W(x)
    <2>1. x \in Nat /\ x \in Int /\ head + Len(ws) - DataSize <= x /\ x < head
      BY <1>1, <1>2
    <2>2. ((x % DataSize) - head) % DataSize \in Len(ws) .. DataSize - 1
      BY <1>1, <2>1, SlotElsewhere
    <2>3. x % DataSize \in 0 .. DataSize - 1
      BY <1>1, <2>1, ModRange
    <2>4. (((x % DataSize) - head) % DataSize) + 1 \notin DOMAIN ws
      BY <1>1, <2>2
    <2>5. perf_data_buffer'[x % DataSize] = perf_data_buffer[x % DataSize]
      BY <1>4, <2>3, <2>4, Zenon DEF Put
    <2> QED BY <2>5 DEF W
  <1>7. ASSUME NEW k \in 1 .. Len(ws) PROVE W(head + k - 1)' = ws[k]
    <2>1. k \in 1 .. DataSize /\ head + k - 1 \in Int /\ (k - 1) + 1 = k
      BY <1>1, <1>3
    <2>2. (((head + k - 1) % DataSize) - head) % DataSize = k - 1
      BY <1>1, <2>1, SlotThere
    <2>3. (head + k - 1) % DataSize \in 0 .. DataSize - 1
      BY <1>1, <2>1, ModRange
    <2>4. ((((head + k - 1) % DataSize) - head) % DataSize) + 1 = k /\ k \in DOMAIN ws
      BY <2>1, <2>2
    <2>5. perf_data_buffer'[(head + k - 1) % DataSize] = ws[k]
      BY <1>4, <2>3, <2>4, Zenon DEF Put
    <2> QED BY <2>5 DEF W
  <1>8. perf_metadata' = [perf_metadata EXCEPT !.data_head = head + Len(ws)]
    BY DEF PutRecord
  <1> QED BY <1>5, <1>6, <1>7, <1>8 DEF PutKept

\* The rest of a chain after its first record.
Rest(g, from) == [x \in DOMAIN g \ {from} |-> g[x]]

\* Behind its first record a chain goes on as before.
LEMMA ChainRest ==
  ASSUME KernelTypes, NEW g, NEW from \in Nat, Chain(g, from), from # perf_metadata.data_head
  PROVE  /\ Chain(Rest(g, from), End(from)) /\ Record(from)
         /\ End(from) \in from + 2 .. perf_metadata.data_head
         /\ gaps = {} => Follows(g, from) /\ Rest(g, from)[End(from)] = g[End(from)]
  <1> DEFINE head == perf_metadata.data_head
             h == Rest(g, from)
  <1>1. head \in Nat /\ from \in DOMAIN g \ {head}
    BY DEF KernelTypes, Metadata, Chain
  <1>2. Record(from) /\ End(from) \in DOMAIN g /\ End(from) \in Nat
    BY <1>1 DEF Chain
  <1>3. W(from + 1) \in {3, 5} /\ End(from) = from + W(from + 1)
    BY <1>2 DEF Record, End
  <1>4. End(from) \in from + 2 .. head /\ End(from) # from
    BY <1>1, <1>2, <1>3 DEF Chain
  <1>5. DOMAIN h = DOMAIN g \ {from} /\ \A x \in DOMAIN h : h[x] = g[x]
    BY DEF Rest
  <1>6. DOMAIN h \subseteq End(from) .. head
    BY <1>1, <1>2, <1>4, <1>5 DEF Chain
  <1>7. ASSUME NEW p \in DOMAIN h \ {head}
        PROVE  /\ Record(p) /\ End(p) \in DOMAIN h
               /\ (\A q \in DOMAIN h : q > p => q >= End(p))
               /\ (gaps = {} => Follows(h, p))
    <2>1. /\ p \in DOMAIN g \ {head} /\ p \in Nat /\ p > from /\ p # from
          /\ Record(p) /\ End(p) \in DOMAIN g /\ \A q \in DOMAIN g : q > p => q >= End(p)
      BY <1>1, <1>5 DEF Chain
    <2>2. W(p + 1) \in {3, 5} /\ End(p) = p + W(p + 1)
      BY <2>1 DEF Record, End
    <2>3. End(p) # from
      BY <2>1, <2>2
    <2>4. gaps = {} => Follows(g, p)
      BY <2>1 DEF Chain
    <2> QED BY <1>5, <2>1, <2>3, <2>4 DEF Follows
  <1>8. Chain(h, End(from))
    <2>1. End(from) \in DOMAIN h /\ head \in DOMAIN h
      BY <1>1, <1>2, <1>4, <1>5 DEF Chain
    <2>2. gaps = {} => h[head] = reported
      BY <2>1, <1>5 DEF Chain
    <2> HIDE DEF h
    <2> QED BY <1>6, <1>7, <2>1, <2>2 DEF Chain
  <1>9. gaps = {} => Follows(g, from)
    BY <1>1 DEF Chain
  <1> QED BY <1>2, <1>4, <1>5, <1>8, <1>9

-----------------------------------------------------------------------------
(* The invariant.                                                          *)

\* Where the first record starts that the thread has not copied, and how much of
\* the trace the records before it tell of.
InHand ==
  \/ pc \in {"aux", "decode", "consume", "flags"}
  \/ pc = "release" /\ perf_header[1] = PERF_RECORD_AUX

First == IF pc = "body" THEN data_tail - perf_header_sz ELSE data_tail
Due   == IF InHand THEN rc_aux_offset + rc_aux_size ELSE Len(out)

ThreadTypes ==
  /\ perfing_is_running \in 0 .. 2 /\ pc \in Labels
  /\ data_tail \in Nat /\ data_head \in Nat
  /\ perf_header \in Seq(Nat) /\ Len(perf_header) = perf_header_sz
  /\ perf_record \in Seq(Nat) /\ aux_util \in Int /\ out \in Seq(Nat)
  /\ fatal \in {"none", "util error", "tail error", "aux_buffer error"}

\* The data ring: what is not copied is not released, and what is copied is whole.
DataTail ==
  LET m == perf_metadata
  IN  /\ First \in Nat /\ m.data_tail <= First /\ m.data_head - m.data_tail <= DataSize
      /\ pc = "start" => data_tail = m.data_tail
      /\ pc = "body" => /\ First < m.data_head
                        /\ perf_header[1] = W(First) /\ perf_header[2] = W(First + 1)
      /\ pc = "release" /\ perf_header[1] # PERF_RECORD_AUX =>
           perf_header[1] = PERF_RECORD_MMAP2 /\ Len(perf_record) = 1

\* The AUX ring: the bytes that are not handed on are there.
AuxTail ==
  LET m == perf_metadata
  IN  /\ m.aux_tail <= Len(out) /\ Len(out) <= reported /\ reported <= written
      /\ written - m.aux_tail <= AuxSize /\ m.aux_head <= reported
      /\ Holds(m.aux_tail, written - 1)
      /\ pc # "consume" \/ ~Ok => m.aux_tail = Len(out)

\* The stretch of the record in hand.
Stretch ==
  /\ InHand =>
       /\ Len(perf_record) = 3
       /\ rc_aux_offset \in Nat /\ rc_aux_size \in Nat \ {0} /\ rc_aux_flags \in AuxFlags
       /\ rc_aux_offset <= perf_metadata.aux_head /\ rc_aux_offset + rc_aux_size <= reported
       /\ gaps = {} => rc_aux_flags = 0 /\ rc_aux_offset = perf_metadata.aux_tail
  /\ pc = "flags" => rc_aux_flags # 0
  /\ pc \in {"decode", "consume"} /\ Ok => rc_aux_offset = perf_metadata.aux_tail
  /\ pc = "consume" /\ Ok => Len(out) = rc_aux_offset + rc_aux_size

\* The sanity checks.
Checks ==
  /\ Ok => aux_util \in 0 .. AuxSize
  /\ fatal # "util error"
  /\ fatal = "tail error" => gaps # {}
  /\ fatal = "aux_buffer error" => AuxSize > AUX_BUFFER_SIZE

AheadOf(g) ==
  /\ Chain(g, First)
  /\ pc = "header" => data_head \in DOMAIN g /\ First < data_head
  /\ gaps = {} => g[First] = Due

RecordsAhead == \E g : AheadOf(g)

Inv == KernelTypes /\ ThreadTypes /\ DataTail /\ AuxTail /\ Stretch /\ Checks /\ RecordsAhead

\* The invariant holds at the start: the chain is empty.
LEMMA InvInit == RingInit => Inv
  <1> SUFFICES ASSUME RingInit PROVE Inv
    OBVIOUS
  <1> USE DEF RingInit, KernelInit, Ok, InHand
  <1>1. KernelTypes
    BY KernelAssumption DEF KernelTypes, Metadata
  <1>2. ThreadTypes
    BY DEF ThreadTypes, Labels, perf_header_sz
  <1>3. First = 0 /\ Due = 0
    BY DEF First, Due
  <1>4. DataTail
    BY <1>3, KernelAssumption DEF DataTail
  <1>5. AuxTail
    BY KernelAssumption DEF AuxTail, Holds
  <1>6. Stretch
    BY DEF Stretch
  <1>7. Checks
    BY KernelAssumption DEF Checks
  <1>8. RecordsAhead
    <2> DEFINE g == [x \in {0} |-> 0]
    <2>1. Chain(g, 0)
      BY DEF Chain
    <2>2. AheadOf(g)
      BY <1>3, <2>1 DEF AheadOf
    <2> QED BY <2>2 DEF RecordsAhead
  <1> QED BY <1>1, <1>2, <1>4, <1>5, <1>6, <1>7, <1>8 DEF Inv

\* What the invariant gives of the record that is next.
LEMMA NextRecord ==
  ASSUME KernelTypes, NEW g, NEW from \in Nat, Chain(g, from), from < perf_metadata.data_head
  PROVE  /\ W(from) \in {PERF_RECORD_AUX, PERF_RECORD_MMAP2}
         /\ W(from + 1) = (IF IsAux(from) THEN 5 ELSE 3)
         /\ from + W(from + 1) <= perf_metadata.data_head
  <1>1. Record(from) /\ End(from) \in from + 2 .. perf_metadata.data_head
    BY ChainRest DEF KernelTypes, Metadata
  <1> QED BY <1>1 DEF Record, End, IsAux, PERF_RECORD_AUX, PERF_RECORD_MMAP2

\* No record of the chain starts beyond the head.
LEMMA AtMostHead ==
  ASSUME KernelTypes, NEW g, NEW from \in Nat, Chain(g, from)
  PROVE  from <= perf_metadata.data_head /\ \A x \in DOMAIN g : x <= perf_metadata.data_head
  BY DEF KernelTypes, Metadata, Chain

\* The invariant says what the properties say.
LEMMA InvImplies == Inv => RingTypeOK /\ TailsFollow /\ InStep
  <1> SUFFICES ASSUME Inv PROVE RingTypeOK /\ TailsFollow /\ InStep
    OBVIOUS
  <1> USE DEF Inv
  <1>1. PICK g : AheadOf(g)
    BY DEF RecordsAhead
  <1>2. First \in Nat /\ Chain(g, First) /\ First <= perf_metadata.data_head
    BY <1>1, AtMostHead DEF AheadOf, DataTail
  <1>3. RingTypeOK
    BY DEF RingTypeOK, ThreadTypes, Stretch, DataTail, InHand
  <1>4. TailsFollow
    <2>1. perf_metadata.data_tail <= data_tail /\ data_tail <= perf_metadata.data_head
      <3>1. CASE pc = "body"
        <4>1. W(First + 1) \in {3, 5} /\ First + W(First + 1) <= perf_metadata.data_head
          BY <1>2, <3>1, NextRecord DEF DataTail
        <4>2. data_tail = First + 2
          <5>1. data_tail \in Nat
            BY DEF ThreadTypes
          <5>2. First = data_tail - 2
            BY <3>1 DEF First, perf_header_sz
          <5> QED BY <5>1, <5>2
        <4>3. perf_metadata.data_tail <= First /\ perf_metadata.data_tail \in Nat /\ perf_metadata.data_head \in Nat
          BY DEF DataTail, KernelTypes, Metadata
        <4> QED BY <4>1, <4>2, <4>3, <1>2
      <3>2. CASE pc # "body"
        BY <3>2, <1>2 DEF DataTail, First
      <3> QED BY <3>1, <3>2
    <2> QED BY <2>1 DEF TailsFollow, DataTail, AuxTail
  <1>5. InStep
    <2>1. ASSUME pc = "poll", data_tail < perf_metadata.data_head
          PROVE  perf_data_buffer[data_tail % DataSize] \in {PERF_RECORD_AUX, PERF_RECORD_MMAP2}
      BY <1>2, <2>1, NextRecord DEF First, W
    <2>2. ASSUME pc \in {"body", "release"}
          PROVE  perf_header[1] \in {PERF_RECORD_AUX, PERF_RECORD_MMAP2}
      BY <1>2, <2>2, NextRecord DEF DataTail
    <2>3. ASSUME pc = "header"
          PROVE  data_tail + perf_data_buffer[(data_tail + 1) % DataSize] <= data_head
      <3>1. /\ First = data_tail /\ data_head \in DOMAIN g /\ First < data_head
            /\ data_head <= perf_metadata.data_head
        BY <1>1, <1>2, <2>3, AtMostHead DEF AheadOf, First
      <3>2. First \in DOMAIN g \ {perf_metadata.data_head}
        BY <1>2, <3>1 DEF Chain, KernelTypes, Metadata
      <3>3. data_head >= End(First)
        BY <1>2, <3>1, <3>2 DEF Chain
      <3>4. W(First + 1) \in Nat
        BY <1>2, WordNat
      <3> QED BY <3>1, <3>3, <3>4 DEF End, W, ThreadTypes
    <2> QED BY <2>1, <2>2, <2>3 DEF InStep
  <1> QED BY <1>3, <1>4, <1>5

-----------------------------------------------------------------------------
(* The kernel's steps.                                                     *)

\* The bytes put into the AUX ring join those that are there.
LEMMA PutAuxHolds ==
  ASSUME NEW at \in Nat, NEW n \in Nat \ {0}, NEW tail \in Nat, tail <= at,
         at + n - tail <= AuxSize, Holds(tail, at - 1),
         perf_aux_buffer' = Put(perf_aux_buffer, AuxSize, at, [k \in 1 .. n |-> at + k - 1])
  PROVE  \A x \in tail .. at + n - 1 : perf_aux_buffer'[x % AuxSize] = x
  <1> SUFFICES ASSUME NEW x \in tail .. at + n - 1 PROVE perf_aux_buffer'[x % AuxSize] = x
    OBVIOUS
  <1> DEFINE ws == [k \in 1 .. n |-> at + k - 1]
  <1>1. AuxSize \in Nat \ {0} /\ x \in Nat /\ x \in Int /\ x % AuxSize \in 0 .. AuxSize - 1
    <2>1. AuxSize \in Nat \ {0} /\ x \in Nat /\ x \in Int
      BY KernelAssumption
    <2> QED BY <2>1, ModRange
  <1>2. DOMAIN ws = 1 .. n
    OBVIOUS
  <1>3. CASE x < at
    <2>1. ((x % AuxSize) - at) % AuxSize \in n .. AuxSize - 1
      <3>1. n \in Nat /\ at + n - AuxSize <= x
        BY <1>1
      <3> QED BY <1>1, <1>3, <3>1, SlotElsewhere
    <2>2. (((x % AuxSize) - at) % AuxSize) + 1 \notin DOMAIN ws
      BY <1>1, <1>2, <2>1
    <2> HIDE DEF ws
    <2>3. perf_aux_buffer'[x % AuxSize] = perf_aux_buffer[x % AuxSize]
      BY <1>1, <2>2, Zenon DEF Put, ws
    <2>4. x \in tail .. at - 1
      BY <1>3
    <2> QED BY <2>3, <2>4 DEF Holds
  <1>4. CASE x >= at
    <2>1. PICK k \in 1 .. n : x = at + k - 1
      <3>1. x - at + 1 \in 1 .. n /\ x = at + (x - at + 1) - 1
        BY <1>4
      <3> QED BY <3>1
    <2>2. k \in 1 .. AuxSize
      BY <1>1
    <2>3. (((at + k - 1) % AuxSize) - at) % AuxSize = k - 1
      BY <1>1, <2>2, SlotThere
    <2>4. (((x % AuxSize) - at) % AuxSize) + 1 = k /\ k \in DOMAIN ws /\ ws[k] = x
      BY <2>1, <2>3
    <2> HIDE DEF ws
    <2>5. perf_aux_buffer'[x % AuxSize] = ws[k]
      BY <1>1, <2>4, Zenon DEF Put, ws
    <2> QED BY <2>4, <2>5
  <1> QED BY <1>1, <1>3, <1>4

\* The types the arithmetic of the steps needs.
LEMMA Numbers ==
  ASSUME Inv
  PROVE  /\ perf_metadata \in Metadata
         /\ perf_metadata.data_head \in Nat /\ perf_metadata.data_tail \in Nat
         /\ perf_metadata.aux_head \in Nat /\ perf_metadata.aux_tail \in Nat
         /\ written \in Nat /\ reported \in Nat /\ First \in Nat
         /\ out \in Seq(Nat) /\ Len(out) \in Nat
  <1>1. perf_metadata \in Metadata /\ written \in Nat /\ reported \in Nat /\ First \in Nat
    BY DEF Inv, KernelTypes, DataTail
  <1>2. out \in Seq(Nat)
    BY DEF Inv, ThreadTypes
  <1> QED BY <1>1, <1>2 DEF Metadata

\* Bytes are traced behind those the ring holds.
LEMMA TraceBytesInv == ASSUME Inv, TraceBytes, UNCHANGED threadVars PROVE Inv'
  <1> USE DEF Inv, Ok
  <1>1. PICK n \in Stretches :
          /\ written + n - perf_metadata.aux_tail <= AuxSize
          /\ perf_aux_buffer' = Put(perf_aux_buffer, AuxSize, written, [k \in 1 .. n |-> written + k - 1])
          /\ written' = written + n
    BY DEF TraceBytes
  <1>2. /\ UNCHANGED <<perf_data_buffer, perf_metadata, reported, gaps>>
        /\ UNCHANGED <<perfing_is_running, pc, data_tail, data_head, perf_header, perf_record,
                       aux_util, out, fatal>>
    BY DEF TraceBytes, threadVars
  <1>3. /\ n \in Nat \ {0} /\ written \in Nat /\ perf_metadata.aux_tail \in Nat
        /\ Len(out) \in Nat /\ reported \in Nat
    BY KernelAssumption, Numbers
  <1>4. KernelTypes'
    BY <1>1, <1>2, <1>3 DEF KernelTypes
  <1>5. ThreadTypes' /\ First' = First /\ Due' = Due /\ InHand' = InHand
    BY <1>2 DEF ThreadTypes, First, Due, InHand, rc_aux_offset, rc_aux_size
  <1>6. DataTail'
    BY <1>2, <1>5 DEF DataTail, W
  <1>7. AuxTail'
    <2>1. perf_metadata.aux_tail <= written /\ reported <= written /\ Holds(perf_metadata.aux_tail, written - 1)
      BY <1>3 DEF AuxTail
    <2>2. \A x \in perf_metadata.aux_tail .. written + n - 1 : perf_aux_buffer'[x % AuxSize] = x
      BY <1>1, <1>3, <2>1, PutAuxHolds
    <2>3. Holds(perf_metadata.aux_tail, written - 1)'
      BY <1>1, <1>2, <1>3, <2>2 DEF Holds
    <2>4. reported <= written' /\ written' - perf_metadata.aux_tail <= AuxSize
      BY <1>1, <1>3, <2>1
    <2> QED BY <1>2, <2>3, <2>4 DEF AuxTail
  <1>8. Stretch' /\ Checks'
    BY <1>2, <1>5 DEF Stretch, Checks, rc_aux_offset, rc_aux_size, rc_aux_flags
  <1>9. RecordsAhead'
    BY <1>2, <1>5 DEF RecordsAhead, AheadOf, Chain, Record, End, Follows, IsAux, W
  <1> QED BY <1>4, <1>5, <1>6, <1>7, <1>8, <1>9

\* aux_head moves over what was reported: no stretch in hand passes it.
LEMMA MoveAuxHeadInv == ASSUME Inv, MoveAuxHead, UNCHANGED threadVars PROVE Inv'
  <1> USE DEF Inv, Ok
  <1>1. /\ UNCHANGED <<perf_data_buffer, perf_aux_buffer, written, reported, gaps>>
        /\ UNCHANGED <<perfing_is_running, pc, data_tail, data_head, perf_header, perf_record,
                       aux_util, out, fatal>>
    BY DEF MoveAuxHead, threadVars
  <1>2. /\ perf_metadata' \in Metadata
        /\ perf_metadata'.aux_head = reported /\ perf_metadata'.aux_tail = perf_metadata.aux_tail
        /\ perf_metadata'.data_head = perf_metadata.data_head
        /\ perf_metadata'.data_tail = perf_metadata.data_tail
    BY Numbers DEF Metadata, MoveAuxHead
  <1>3. perf_metadata.aux_head <= reported /\ perf_metadata.aux_head \in Nat /\ reported \in Nat
    BY Numbers DEF AuxTail
  <1>4. KernelTypes'
    BY <1>1, <1>2 DEF KernelTypes
  <1>5. ThreadTypes' /\ First' = First /\ Due' = Due /\ InHand' = InHand
    BY <1>1 DEF ThreadTypes, First, Due, InHand, rc_aux_offset, rc_aux_size
  <1>6. DataTail'
    BY <1>1, <1>2, <1>5 DEF DataTail, W
  <1>7. AuxTail'
    BY <1>1, <1>2, <1>3 DEF AuxTail, Holds
  <1>8. Stretch' /\ Checks'
    <2>1. InHand => rc_aux_offset <= perf_metadata'.aux_head
      BY <1>2, <1>3 DEF Stretch
    <2> QED BY <1>1, <1>2, <1>5, <2>1 DEF Stretch, Checks, rc_aux_offset, rc_aux_size, rc_aux_flags
  <1>9. RecordsAhead'
    <2>1. PICK g : AheadOf(g)
      BY DEF RecordsAhead
    <2> SUFFICES ASSUME NEW from, from = First PROVE RecordsAhead'
      OBVIOUS
    <2>2. from \in Nat /\ Chain(g, from)
      BY <2>1, Numbers DEF AheadOf
    <2>3. Chain(g, from)'
      BY <1>1, <1>2, <1>3, <2>2, ChainStays DEF W
    <2> QED BY <1>1, <1>5, <2>1, <2>3 DEF AheadOf, RecordsAhead
  <1> QED BY <1>4, <1>5, <1>6, <1>7, <1>8, <1>9

\* A record of another type makes the chain longer, or is lost.
LEMMA OtherRecordInv == ASSUME Inv, OtherRecord, UNCHANGED threadVars PROVE Inv'
  <1> USE DEF Inv, Ok
  <1> SUFFICES ASSUME NEW ws, ws = <<PERF_RECORD_MMAP2, 3, 0>> PROVE Inv'
    OBVIOUS
  <1>1. /\ PutRecord(ws) /\ UNCHANGED <<perf_aux_buffer, written, reported, gaps>>
        /\ UNCHANGED <<perfing_is_running, pc, data_tail, data_head, perf_header, perf_record,
                       aux_util, out, fatal>>
    BY DEF OtherRecord, threadVars
  <1>2. ThreadTypes' /\ First' = First /\ Due' = Due /\ InHand' = InHand
    BY <1>1 DEF ThreadTypes, First, Due, InHand, rc_aux_offset, rc_aux_size
  <1>3. PICK g : AheadOf(g)
    BY DEF RecordsAhead
  <1> SUFFICES ASSUME NEW from, from = First, NEW head, head = perf_metadata.data_head,
                      NEW tail, tail = perf_metadata.data_tail
               PROVE  Inv'
    OBVIOUS
  <1>4. /\ from \in Nat /\ head \in Nat /\ tail \in Nat /\ tail <= from /\ from <= head /\ tail <= head
        /\ Chain(g, from) /\ reported \in Nat
        /\ perf_metadata.aux_head \in Nat
    BY <1>3, Numbers, AtMostHead DEF AheadOf, DataTail
  <1>5. CASE Room(ws)
    <2>1. ws \in Seq(Nat) /\ Len(ws) = 3 /\ ws[1] = PERF_RECORD_MMAP2 /\ ws[2] = 3
      BY DEF PERF_RECORD_MMAP2
    <2>2. /\ perf_metadata' = [perf_metadata EXCEPT !.data_head = head + Len(ws)]
          /\ perf_data_buffer' \in [0 .. DataSize - 1 -> Nat]
          /\ \A x \in tail .. head - 1 : W(x)' = W(x)
          /\ \A k \in 1 .. Len(ws) : W(head + k - 1)' = ws[k]
      <3>1. KernelTypes /\ PutRecord(ws) /\ ws \in Seq(Nat)
        BY <1>1, <2>1
      <3>2. PutKept(ws, head, tail)
        BY <1>4, <1>5, <3>1, PutKeeps
      <3> QED BY <3>2 DEF PutKept
    <2>3. /\ perf_metadata' \in Metadata /\ perf_metadata'.data_head = head + 3
          /\ perf_metadata'.data_tail = tail
          /\ perf_metadata'.aux_head = perf_metadata.aux_head
          /\ perf_metadata'.aux_tail = perf_metadata.aux_tail
      <3>1. perf_metadata' = [perf_metadata EXCEPT !.data_head = head + 3] /\ head + 3 \in Nat
        BY <1>4, <2>1, <2>2
      <3> QED BY <3>1, Numbers DEF Metadata
    <2>4. W(head)' = PERF_RECORD_MMAP2 /\ W(head + 1)' = 3
      <3>1. W(head + 1 - 1)' = ws[1] /\ W(head + 2 - 1)' = ws[2]
        <4>1. 1 \in 1 .. Len(ws) /\ 2 \in 1 .. Len(ws)
          BY <2>1
        <4> QED BY <2>2, <4>1
      <3>2. head + 1 - 1 = head /\ head + 2 - 1 = head + 1
        BY <1>4
      <3> QED BY <2>1, <3>1, <3>2
    <2>5. KernelTypes'
      BY <1>1, <2>2, <2>3 DEF KernelTypes
    <2>6. DataTail'
      <3>1. head + 3 - tail <= DataSize
        BY <1>5, <2>1 DEF Room
      <3>2. ASSUME pc = "body"
            PROVE  W(from)' = W(from) /\ W(from + 1)' = W(from + 1) /\ from < head
        <4>1. from < head
          BY <3>2 DEF DataTail
        <4>2. W(from + 1) \in {3, 5} /\ from + W(from + 1) <= head
          BY <1>4, <4>1, NextRecord
        <4>3. from \in tail .. head - 1 /\ from + 1 \in tail .. head - 1
          BY <1>4, <4>1, <4>2
        <4> QED BY <2>2, <4>1, <4>3
      <3>3. pc = "body" => from < head + 3 /\ perf_header[1] = W(from)' /\ perf_header[2] = W(from + 1)'
        BY <1>4, <3>2 DEF DataTail
      <3>4. from <= head + 3 /\ First' = from
        BY <1>2, <1>4
      <3> QED BY <1>1, <1>4, <2>3, <3>1, <3>3, <3>4 DEF DataTail
    <2>7. AuxTail'
      BY <1>1, <2>3 DEF AuxTail, Holds
    <2>8. Stretch' /\ Checks'
      BY <1>1, <1>2, <2>3 DEF Stretch, Checks, rc_aux_offset, rc_aux_size, rc_aux_flags
    <2>9. RecordsAhead'
      <3> SUFFICES ASSUME NEW h, h = Longer(g, head + 3, reported) PROVE RecordsAhead'
        OBVIOUS
      <3>1. \A x \in from .. head - 1 : W(x)' = W(x)
        BY <1>4, <2>2
      <3>2. Record(head)'
        BY <2>4 DEF Record
      <3>3. Chain(h, from)'
        BY <1>1, <1>4, <2>3, <2>4, <3>1, <3>2, ChainGrows DEF PERF_RECORD_AUX, PERF_RECORD_MMAP2
      <3>4. DOMAIN h = DOMAIN g \cup {head + 3} /\ \A x \in DOMAIN g : x <= head => h[x] = g[x]
        BY <1>4 DEF Longer
      <3>5. from \in DOMAIN g
        BY <1>4 DEF Chain
      <3>6. AheadOf(h)'
        BY <1>1, <1>2, <1>3, <1>4, <3>3, <3>4, <3>5 DEF AheadOf
      <3> QED BY <3>6 DEF RecordsAhead
    <2> QED BY <1>2, <2>5, <2>6, <2>7, <2>8, <2>9
  <1>6. CASE ~Room(ws)
    <2>1. UNCHANGED <<perf_data_buffer, perf_metadata>>
      BY <1>1, <1>6 DEF PutRecord
    <2>2. KernelTypes' /\ DataTail' /\ AuxTail'
      BY <1>1, <1>2, <2>1 DEF KernelTypes, DataTail, AuxTail, Holds, W
    <2>3. Stretch' /\ Checks'
      BY <1>1, <1>2, <2>1 DEF Stretch, Checks, rc_aux_offset, rc_aux_size, rc_aux_flags
    <2>4. RecordsAhead'
      BY <1>1, <1>2, <2>1 DEF RecordsAhead, AheadOf, Chain, Record, End, Follows, IsAux, W
    <2> QED BY <1>2, <2>2, <2>3, <2>4
  <1> QED BY <1>5, <1>6

\* A PERF_RECORD_AUX makes the chain longer, or is lost and leaves a gap.
LEMMA ReportBytesInv == ASSUME Inv, ReportBytes, UNCHANGED threadVars PROVE Inv'
  <1> USE DEF Inv, Ok
  <1>0. reported \in Nat /\ written \in Nat /\ AuxFlags \subseteq Nat
    BY Numbers, KernelAssumption
  <1> DEFINE Made(ws) ==
               /\ PutRecord(ws) /\ Len(ws) = 5 /\ ws[1] = PERF_RECORD_AUX /\ ws[2] = 5
               /\ ws[3] = reported /\ ws[4] = written - reported /\ ws[5] \in AuxFlags
               /\ gaps' = {} => gaps = {} /\ Room(ws) /\ ws[5] = 0
  <1>1. PICK ws \in Seq(Nat) : Made(ws)
    <2>1. PICK flags \in AuxFlags :
            LET ws == <<PERF_RECORD_AUX, 5, reported, written - reported, flags>>
            IN  /\ PutRecord(ws)
                /\ gaps' = IF Room(ws) /\ flags = 0 THEN gaps ELSE gaps \cup {reported}
      BY DEF ReportBytes
    <2> DEFINE ws == <<PERF_RECORD_AUX, 5, reported, written - reported, flags>>
    <2>2. reported < written
      BY DEF ReportBytes
    <2>3. written - reported \in Nat /\ flags \in Nat /\ PERF_RECORD_AUX \in Nat
      BY <1>0, <2>2 DEF PERF_RECORD_AUX
    <2>4. /\ ws \in Seq(Nat) /\ Len(ws) = 5 /\ ws[1] = PERF_RECORD_AUX /\ ws[2] = 5
          /\ ws[3] = reported /\ ws[4] = written - reported /\ ws[5] = flags
      BY <1>0, <2>3
    <2>5. PutRecord(ws) /\ (gaps' = {} => gaps = {} /\ Room(ws) /\ flags = 0)
      BY <2>1
    <2> HIDE DEF ws
    <2>6. Made(ws)
      BY <2>4, <2>5
    <2> QED BY <2>4, <2>6
  <1>2. /\ UNCHANGED <<perf_aux_buffer, written>>
        /\ UNCHANGED <<perfing_is_running, pc, data_tail, data_head, perf_header, perf_record,
                       aux_util, out, fatal>>
        /\ reported < written /\ reported' = written /\ perf_metadata.aux_head = reported
    BY DEF ReportBytes, threadVars
  <1>3. ThreadTypes' /\ First' = First /\ Due' = Due /\ InHand' = InHand
    BY <1>2 DEF ThreadTypes, First, Due, InHand, rc_aux_offset, rc_aux_size
  <1>4. PICK g : AheadOf(g)
    BY DEF RecordsAhead
  <1> SUFFICES ASSUME NEW from, from = First, NEW head, head = perf_metadata.data_head,
                      NEW tail, tail = perf_metadata.data_tail,
                      NEW start, start = reported, NEW size, size = written - reported,
                      NEW flags, flags = ws[5]
               PROVE  Inv'
    OBVIOUS
  <1>5. /\ from \in Nat /\ head \in Nat /\ tail \in Nat /\ tail <= from /\ from <= head /\ tail <= head
        /\ Chain(g, from) /\ start \in Nat /\ size \in Nat \ {0}
        /\ flags \in AuxFlags /\ Len(out) \in Nat /\ written = start + size /\ written \in Nat
    <2>1. from \in Nat /\ Chain(g, from)
      BY <1>4, Numbers DEF AheadOf
    <2>2. head \in Nat /\ tail \in Nat /\ tail <= from /\ from <= head
      BY <2>1, Numbers, AtMostHead DEF DataTail
    <2>3. start \in Nat /\ size \in Nat \ {0} /\ written = start + size
      BY <1>0, <1>2
    <2> QED BY <1>0, <1>1, <2>1, <2>2, <2>3, Numbers
  <1> HIDE DEF Made
  <1>6. gaps' = {} => gaps = {} /\ Room(ws) /\ flags = 0
    BY <1>1 DEF Made
  <1>7. perf_metadata'.aux_head = perf_metadata.aux_head
        /\ perf_metadata'.aux_tail = perf_metadata.aux_tail => AuxTail' /\ Stretch' /\ Checks'
    <2> SUFFICES ASSUME perf_metadata'.aux_head = perf_metadata.aux_head,
                        perf_metadata'.aux_tail = perf_metadata.aux_tail
                 PROVE  AuxTail' /\ Stretch' /\ Checks'
      OBVIOUS
    <2>1. Len(out) <= written /\ perf_metadata.aux_head <= written /\ written <= written
      BY <1>0, <1>2, <1>5 DEF AuxTail
    <2>2. AuxTail'
      <3>1. Holds(perf_metadata.aux_tail, written - 1)'
        BY <1>2 DEF AuxTail, Holds
      <3> QED BY <1>2, <2>1, <3>1 DEF AuxTail
    <2>3. InHand => rc_aux_offset + rc_aux_size <= written
      BY <1>2, <1>5 DEF Stretch
    <2>4. Stretch'
      BY <1>2, <1>3, <1>6, <2>3 DEF Stretch, rc_aux_offset, rc_aux_size, rc_aux_flags
    <2>5. Checks'
      BY <1>2, <1>6 DEF Checks
    <2> QED BY <2>2, <2>4, <2>5
  <1>8. CASE Room(ws)
    <2>1. /\ ws \in Seq(Nat) /\ Len(ws) = 5 /\ ws[1] = PERF_RECORD_AUX /\ ws[2] = 5
          /\ ws[3] = start /\ ws[4] = size /\ ws[5] = flags
      BY <1>1 DEF Made
    <2>2. /\ perf_metadata' = [perf_metadata EXCEPT !.data_head = head + Len(ws)]
          /\ perf_data_buffer' \in [0 .. DataSize - 1 -> Nat]
          /\ \A x \in tail .. head - 1 : W(x)' = W(x)
          /\ \A k \in 1 .. Len(ws) : W(head + k - 1)' = ws[k]
      <3>1. KernelTypes /\ PutRecord(ws) /\ ws \in Seq(Nat)
        BY <1>1 DEF Made
      <3>2. PutKept(ws, head, tail)
        BY <1>5, <1>8, <3>1, PutKeeps
      <3> QED BY <3>2 DEF PutKept
    <2>3. /\ perf_metadata' \in Metadata /\ perf_metadata'.data_head = head + 5
          /\ perf_metadata'.data_tail = tail
          /\ perf_metadata'.aux_head = perf_metadata.aux_head
          /\ perf_metadata'.aux_tail = perf_metadata.aux_tail
      <3>1. head + Len(ws) = head + 5 /\ head + 5 \in Nat
        BY <1>5, <2>1
      <3>2. perf_metadata' = [perf_metadata EXCEPT !.data_head = head + 5]
        BY <2>2, <3>1, Zenon
      <3> QED BY <3>1, <3>2, Numbers DEF Metadata
    <2>4. /\ W(head)' = PERF_RECORD_AUX /\ W(head + 1)' = 5 /\ W(head + 2)' = start
          /\ W(head + 3)' = size /\ W(head + 4)' = flags
      <3>1. \A k \in 1 .. 5 : W(head + k - 1)' = ws[k]
        BY <2>1, <2>2
      <3>2. /\ head + 1 - 1 = head /\ head + 2 - 1 = head + 1 /\ head + 3 - 1 = head + 2
            /\ head + 4 - 1 = head + 3 /\ head + 5 - 1 = head + 4
        BY <1>5
      <3>3. 1 \in 1 .. 5 /\ 2 \in 1 .. 5 /\ 3 \in 1 .. 5 /\ 4 \in 1 .. 5 /\ 5 \in 1 .. 5
        OBVIOUS
      <3>4. /\ W(head + 1 - 1)' = ws[1] /\ W(head + 2 - 1)' = ws[2] /\ W(head + 3 - 1)' = ws[3]
            /\ W(head + 4 - 1)' = ws[4] /\ W(head + 5 - 1)' = ws[5]
        BY <3>1, <3>3
      <3> QED BY <2>1, <3>2, <3>4
    <2>5. KernelTypes'
      BY <1>2, <1>5, <2>2, <2>3 DEF KernelTypes
    <2>6. DataTail'
      <3>1. head + 5 - tail <= DataSize
        BY <1>8, <2>1 DEF Room
      <3>2. ASSUME pc = "body"
            PROVE  W(from)' = W(from) /\ W(from + 1)' = W(from + 1) /\ from < head
        <4>1. from < head
          BY <3>2 DEF DataTail
        <4>2. W(from + 1) \in {3, 5} /\ from + W(from + 1) <= head
          BY <1>5, <4>1, NextRecord
        <4>3. from \in tail .. head - 1 /\ from + 1 \in tail .. head - 1
          <5>1. from + 3 <= head \/ from + 5 <= head
            BY <4>2
          <5> QED BY <1>5, <5>1
        <4> QED BY <2>2, <4>1, <4>3
      <3>3. pc = "body" => from < head + 5 /\ perf_header[1] = W(from)' /\ perf_header[2] = W(from + 1)'
        BY <1>5, <3>2 DEF DataTail
      <3>4. from <= head + 5 /\ First' = from
        BY <1>3, <1>5
      <3>5. perf_metadata'.data_tail <= First' /\ First' \in Nat
        BY <1>5, <2>3, <3>4
      <3>6. pc' = pc /\ perf_header' = perf_header /\ perf_record' = perf_record
        BY <1>2
      <3>7. pc' = "body" => /\ First' < perf_metadata'.data_head
                            /\ perf_header'[1] = W(First)' /\ perf_header'[2] = W(First + 1)'
        BY <2>3, <3>3, <3>4, <3>6
      <3>8. perf_metadata'.data_head - perf_metadata'.data_tail <= DataSize
        <4>1. perf_metadata'.data_head = head + 5 /\ perf_metadata'.data_tail = tail
          BY <2>3
        <4>2. DataSize \in Nat /\ head \in Nat /\ tail \in Nat
          BY <1>5, KernelAssumption
        <4> QED BY <3>1, <4>1, <4>2
      <3>9. pc = "release" /\ perf_header[1] # PERF_RECORD_AUX =>
              perf_header[1] = PERF_RECORD_MMAP2 /\ Len(perf_record) = 1
        BY DEF DataTail
      <3>10. pc' = "start" => data_tail' = perf_metadata'.data_tail
        BY <1>2, <2>3 DEF DataTail
      <3> QED BY <3>5, <3>6, <3>7, <3>8, <3>9, <3>10 DEF DataTail
    <2>7. RecordsAhead'
      <3> SUFFICES ASSUME NEW h, h = Longer(g, head + 5, reported') PROVE RecordsAhead'
        OBVIOUS
      <3>1. \A x \in from .. head - 1 : W(x)' = W(x)
        <4> SUFFICES ASSUME NEW x \in from .. head - 1 PROVE W(x)' = W(x)
          OBVIOUS
        <4>1. x \in tail .. head - 1
          BY <1>5
        <4> QED BY <2>2, <4>1
      <3>2. Record(head)'
        <4>1. /\ start \in Nat /\ size \in Nat \ {0} /\ flags \in AuxFlags
              /\ start <= perf_metadata'.aux_head /\ start + size <= reported'
          <5>1. perf_metadata'.aux_head = start /\ reported' = start + size
            BY <1>2, <1>5, <2>3
          <5> QED BY <1>5, <5>1
        <4> QED BY <2>4, <4>1 DEF Record, IsAux
      <3>3. Chain(h, from)'
        <4>1. /\ perf_metadata'.aux_head \in Nat /\ perf_metadata'.aux_head >= perf_metadata.aux_head
              /\ reported' \in Nat /\ reported' >= reported /\ reported' = reported + size
          <5>1. perf_metadata'.aux_head = start /\ perf_metadata.aux_head = start /\ reported' = start + size
            BY <1>2, <1>5, <2>3
          <5> QED BY <1>5, <5>1
        <4>2. gaps' = {} =>
                /\ gaps = {}
                /\ IF W(head)' = PERF_RECORD_AUX
                     THEN /\ W(head + 2)' = reported /\ W(head + 4)' = 0
                          /\ reported' = reported + W(head + 3)'
                     ELSE reported' = reported
          BY <1>6, <2>4, <4>1
        <4>3. 5 \in Nat \ {0} /\ perf_metadata'.data_head = head + 5 /\ W(head + 1)' = 5
          BY <2>3, <2>4
        <4> QED BY <1>5, <3>1, <3>2, <4>1, <4>2, <4>3, ChainGrows
      <3>4. DOMAIN h = DOMAIN g \cup {head + 5} /\ \A x \in DOMAIN g : x <= head => h[x] = g[x]
        BY <1>5 DEF Longer
      <3>5. from \in DOMAIN g
        BY <1>5 DEF Chain
      <3>6. AheadOf(h)'
        BY <1>2, <1>3, <1>4, <1>5, <1>6, <3>3, <3>4, <3>5 DEF AheadOf
      <3> QED BY <3>6 DEF RecordsAhead
    <2> QED BY <1>3, <1>7, <2>3, <2>5, <2>6, <2>7
  <1>9. CASE ~Room(ws)
    <2>1. UNCHANGED <<perf_data_buffer, perf_metadata>>
      <3>1. PutRecord(ws)
        BY <1>1 DEF Made
      <3> QED BY <1>9, <3>1 DEF PutRecord
    <2>2. gaps' # {}
      BY <1>6, <1>9
    <2>3. KernelTypes' /\ DataTail'
      BY <1>2, <1>3, <1>5, <2>1 DEF KernelTypes, DataTail, W
    <2>4. RecordsAhead'
      <3>1. Chain(g, from)'
        <4>1. /\ perf_metadata'.data_head = perf_metadata.data_head
              /\ \A x \in from .. perf_metadata.data_head - 1 : W(x)' = W(x)
              /\ perf_metadata'.aux_head \in Nat /\ perf_metadata'.aux_head >= perf_metadata.aux_head
              /\ reported' \in Nat /\ reported' >= reported
          BY <1>2, <1>5, <2>1, Numbers DEF W
        <4> QED BY <1>5, <2>2, <4>1, ChainStays
      <3>2. AheadOf(g)'
        BY <1>2, <1>3, <1>4, <1>5, <2>2, <3>1 DEF AheadOf
      <3> QED BY <3>2 DEF RecordsAhead
    <2> QED BY <1>3, <1>7, <2>1, <2>3, <2>4
  <1> QED BY <1>8, <1>9

-----------------------------------------------------------------------------
(* The thread's steps.                                                     *)

\* Where the thread neither looks at a record nor has one in hand.
Between == {"start", "poll", "test", "test disabled", "clear", "unmap", "disable", "done"}

\* Steps that only say what is next, or make something of perfing_is_running.
LEMMA QuietInv ==
  ASSUME Inv, UNCHANGED <<perf_data_buffer, perf_aux_buffer, perf_metadata, written, reported, gaps>>,
         UNCHANGED <<data_tail, data_head, perf_header, perf_record, aux_util, out, fatal>>,
         perfing_is_running' \in 0 .. 2,
         pc' = pc \/ (pc \in Between /\ pc' \in Between \ {"start"})
  PROVE  Inv'
  <1> USE DEF Inv, Ok
  <1>1. First' = First /\ InHand' = InHand /\ (pc' = "header" <=> pc = "header")
        /\ (pc' \in Labels)
    BY DEF First, InHand, Between, Labels, ThreadTypes
  <1>2. Due' = Due
    BY <1>1 DEF Due, rc_aux_offset, rc_aux_size
  <1>3. KernelTypes'
    BY DEF KernelTypes
  <1>4. ThreadTypes'
    BY <1>1 DEF ThreadTypes
  <1>5. DataTail'
    BY <1>1 DEF DataTail, W, Between
  <1>6. AuxTail'
    BY DEF AuxTail, Holds, Between
  <1>7. Stretch'
    BY <1>1 DEF Stretch, rc_aux_offset, rc_aux_size, rc_aux_flags, Between
  <1>8. Checks'
    BY DEF Checks
  <1>9. RecordsAhead'
    BY <1>1, <1>2 DEF RecordsAhead, AheadOf, Chain, Record, End, Follows, IsAux, W
  <1> QED BY <1>3, <1>4, <1>5, <1>6, <1>7, <1>8, <1>9

\* The head that is read is the end of a record.
LEMMA PollInv == ASSUME Inv, Poll PROVE Inv'
  <1> USE DEF Inv, Ok
  <1>1. /\ UNCHANGED <<perf_data_buffer, perf_aux_buffer, perf_metadata, written, reported, gaps>>
        /\ UNCHANGED <<perfing_is_running, data_tail, perf_header, perf_record, aux_util, out, fatal>>
        /\ pc = "poll" /\ data_head' = perf_metadata.data_head
        /\ pc' \in {"header", "test"} /\ (pc' = "header" => data_tail + 2 <= data_head')
    BY DEF Poll, At, kernelVars, perf_header_sz
  <1>2. First' = First /\ First = data_tail /\ ~InHand /\ ~InHand'
    BY <1>1 DEF First, InHand
  <1>3. Due' = Due
    BY <1>1, <1>2 DEF Due
  <1>4. KernelTypes'
    BY <1>1 DEF KernelTypes
  <1>5. ThreadTypes'
    BY <1>1, Numbers DEF ThreadTypes, Labels
  <1>6. DataTail'
    BY <1>1, <1>2 DEF DataTail, W
  <1>7. AuxTail'
    BY <1>1 DEF AuxTail, Holds
  <1>8. Stretch' /\ Checks'
    BY <1>1, <1>2 DEF Stretch, Checks
  <1>9. RecordsAhead'
    <2>1. PICK g : AheadOf(g)
      BY DEF RecordsAhead
    <2>2. Chain(g, First)'
      BY <1>1, <1>2, <2>1 DEF AheadOf, Chain, Record, End, Follows, IsAux, W
    <2>3. data_head' \in DOMAIN g
      BY <1>1, <2>1 DEF AheadOf, Chain
    <2>4. pc' = "header" => First' < data_head'
      BY <1>1, <1>2, Numbers
    <2>5. AheadOf(g)'
      BY <1>1, <1>2, <1>3, <2>1, <2>2, <2>3, <2>4 DEF AheadOf
    <2> QED BY <2>5 DEF RecordsAhead
  <1> QED BY <1>4, <1>5, <1>6, <1>7, <1>8, <1>9

\* A function on the first n numbers is a sequence of length n.
LEMMA WordsAreSeq ==
  ASSUME NEW n \in Nat, NEW f \in [1 .. n -> Nat] PROVE f \in Seq(Nat) /\ Len(f) = n
  OBVIOUS

\* The body of a header that is copied is there.
LEMMA CopyHeaderInv == ASSUME Inv, CopyHeader PROVE Inv'
  <1> USE DEF Inv, Ok
  <1>1. PICK g : AheadOf(g)
    BY DEF RecordsAhead
  <1> SUFFICES ASSUME NEW from, from = data_tail PROVE Inv'
    OBVIOUS
  <1>2. /\ UNCHANGED <<perf_data_buffer, perf_aux_buffer, perf_metadata, written, reported, gaps>>
        /\ UNCHANGED <<perfing_is_running, data_head, perf_record, aux_util, out, fatal>>
        /\ pc = "header" /\ perf_header' = DataWords(from, 2) /\ data_tail' = from + 2
        /\ pc' = IF data_tail' + perf_header'[2] - 2 <= data_head THEN "body" ELSE "test"
    <2>1. perf_record_sz' = perf_header'[2] - 2
      BY DEF perf_record_sz, perf_header_sz
    <2>2. data_tail' + (perf_header'[2] - 2) <= data_head <=> data_tail' + perf_header'[2] - 2 <= data_head
      <3>1. data_tail \in Nat /\ data_head \in Nat /\ data_tail' = data_tail + 2
        BY DEF ThreadTypes, CopyHeader, perf_header_sz
      <3>2. perf_header'[2] \in Nat
        <4>1. data_tail \in Nat /\ (data_tail + 2 - 1) = data_tail + 1
          BY <3>1
        <4>2. perf_header'[2] = W(data_tail + 1)
          BY <4>1 DEF CopyHeader, DataWords, perf_header_sz, W
        <4> QED BY <4>1, <4>2, WordNat
      <3> QED BY <3>1, <3>2
    <2> QED BY <2>1, <2>2 DEF CopyHeader, At, kernelVars, perf_header_sz
  <1>3. First = from /\ from \in Nat /\ Chain(g, from) /\ data_head \in DOMAIN g /\ from < data_head
    BY <1>1, <1>2 DEF First, AheadOf, ThreadTypes
  <1>4. /\ data_head <= perf_metadata.data_head /\ perf_metadata.data_head \in Nat
        /\ data_head \in Nat
    BY <1>3, AtMostHead, Numbers DEF ThreadTypes
  <1>5. from < perf_metadata.data_head
    BY <1>3, <1>4
  <1>6. W(from) \in Nat /\ W(from + 1) \in {3, 5} /\ from + W(from + 1) <= data_head
    <2>1. from \in DOMAIN g \ {perf_metadata.data_head}
      BY <1>3, <1>5 DEF Chain
    <2>2. data_head >= End(from)
      BY <1>3, <2>1 DEF Chain
    <2> QED BY <1>3, <1>5, <2>2, NextRecord, WordNat DEF End
  <1>7. /\ perf_header' \in Seq(Nat) /\ Len(perf_header') = 2
        /\ perf_header'[1] = W(from) /\ perf_header'[2] = W(from + 1)
    <2>1. from + 1 - 1 = from /\ from + 2 - 1 = from + 1
      BY <1>3
    <2>2. DataWords(from, 2) = [k \in 1 .. 2 |-> W(from + k - 1)]
      BY DEF DataWords, W
    <2>3. \A k \in 1 .. 2 : W(from + k - 1) \in Nat
      BY <1>3, WordNat
    <2>4. [k \in 1 .. 2 |-> W(from + k - 1)] \in [1 .. 2 -> Nat]
      BY <2>3
    <2>5. DataWords(from, 2) \in Seq(Nat) /\ Len(DataWords(from, 2)) = 2
      BY <2>2, <2>4, WordsAreSeq
    <2>6. DataWords(from, 2)[1] = W(from) /\ DataWords(from, 2)[2] = W(from + 1)
      BY <2>1, <2>2
    <2> QED BY <1>2, <2>5, <2>6
  <1>8. pc' = "body"
    BY <1>2, <1>3, <1>4, <1>6, <1>7
  <1>9. First' = from /\ ~InHand /\ ~InHand'
    BY <1>2, <1>3, <1>8 DEF First, InHand, perf_header_sz
  <1>10. Due' = Due
    BY <1>2, <1>9 DEF Due
  <1>11. KernelTypes'
    BY <1>2 DEF KernelTypes
  <1>12. ThreadTypes'
    <2>1. data_tail' \in Nat /\ pc' \in Labels
      BY <1>2, <1>3, <1>8 DEF Labels
    <2>2. UNCHANGED <<perfing_is_running, data_head, perf_record, aux_util, out, fatal>>
      BY <1>2
    <2> QED BY <1>7, <2>1, <2>2 DEF ThreadTypes, perf_header_sz
  <1>13. DataTail'
    <2>1. perf_metadata.data_tail <= from /\ perf_metadata.data_head - perf_metadata.data_tail <= DataSize
      BY <1>3 DEF DataTail
    <2>2. W(First)' = W(from) /\ W(First + 1)' = W(from + 1)
      BY <1>2, <1>9 DEF W
    <2> QED BY <1>2, <1>3, <1>5, <1>7, <1>8, <1>9, <2>1, <2>2 DEF DataTail
  <1>14. AuxTail'
    BY <1>2, <1>8 DEF AuxTail, Holds
  <1>15. Stretch' /\ Checks'
    BY <1>2, <1>8, <1>9 DEF Stretch, Checks
  <1>16. RecordsAhead'
    <2>1. Chain(g, First)'
      BY <1>2, <1>3, <1>9 DEF Chain, Record, End, Follows, IsAux, W
    <2>2. AheadOf(g)'
      BY <1>1, <1>2, <1>3, <1>8, <1>9, <1>10, <2>1 DEF AheadOf
    <2> QED BY <2>2 DEF RecordsAhead
  <1> QED BY <1>11, <1>12, <1>13, <1>14, <1>15, <1>16

\* The first record leaves the chain; its stretch is the one that is due.
LEMMA CopyBodyInv == ASSUME Inv, CopyBody PROVE Inv'
  <1> USE DEF Inv, Ok
  <1>1. PICK g : AheadOf(g)
    BY DEF RecordsAhead
  <1> SUFFICES ASSUME NEW from, from = First, NEW n, n = perf_header[2] - 2 PROVE Inv'
    OBVIOUS
  <1>2. /\ UNCHANGED <<perf_data_buffer, perf_aux_buffer, perf_metadata, written, reported, gaps>>
        /\ UNCHANGED <<perfing_is_running, data_head, perf_header, aux_util, out, fatal>>
        /\ pc = "body" /\ perf_record' = DataWords(data_tail, n) /\ data_tail' = data_tail + n
        /\ pc' = "release"
    BY DEF CopyBody, At, kernelVars, perf_record_sz, perf_header_sz
  <1>3. /\ from \in Nat /\ data_tail = from + 2 /\ Chain(g, from) /\ from < perf_metadata.data_head
        /\ perf_header[1] = W(from) /\ perf_header[2] = W(from + 1)
        /\ perf_metadata.data_tail <= from
    <2>1. data_tail \in Nat /\ from = data_tail - 2
      BY <1>2 DEF First, perf_header_sz, ThreadTypes
    <2>2. from \in Nat /\ Chain(g, from)
      BY <1>1, Numbers DEF AheadOf
    <2>3. /\ from < perf_metadata.data_head /\ perf_header[1] = W(from) /\ perf_header[2] = W(from + 1)
          /\ perf_metadata.data_tail <= from
      BY <1>2 DEF DataTail
    <2> QED BY <2>1, <2>2, <2>3
  <1>4. /\ Chain(Rest(g, from), End(from)) /\ Record(from)
        /\ End(from) \in from + 2 .. perf_metadata.data_head
        /\ gaps = {} => Follows(g, from) /\ Rest(g, from)[End(from)] = g[End(from)]
    BY <1>3, ChainRest, Numbers
  <1>5. /\ W(from) \in {PERF_RECORD_AUX, PERF_RECORD_MMAP2} /\ n = (IF IsAux(from) THEN 3 ELSE 1)
        /\ data_tail' = End(from)
    BY <1>2, <1>3, NextRecord DEF End
  <1>6. /\ perf_record' \in Seq(Nat) /\ Len(perf_record') = n
        /\ \A k \in 1 .. n : perf_record'[k] = W(from + k + 1)
    <2>1. n \in Nat
      BY <1>5
    <2>2. ASSUME NEW k \in 1 .. n
          PROVE  (from + 2) + k - 1 = from + k + 1 /\ from + k + 1 \in Nat
      BY <1>3, <2>1
    <2>3. perf_record' = [k \in 1 .. n |-> W(from + k + 1)]
      BY <1>2, <1>3, <2>2, Zenon DEF DataWords, W
    <2>4. \A k \in 1 .. n : W(from + k + 1) \in Nat
      BY <2>2, WordNat
    <2>5. perf_record' \in [1 .. n -> Nat]
      BY <2>3, <2>4
    <2>6. perf_record' \in Seq(Nat) /\ Len(perf_record') = n
      BY <2>1, <2>5, WordsAreSeq
    <2> QED BY <2>3, <2>6
  <1>7. First' = End(from) /\ ~InHand /\ (InHand' <=> IsAux(from)) /\ Due = Len(out)
    BY <1>2, <1>3, <1>5 DEF First, InHand, IsAux, Due
  <1>8. IsAux(from) =>
          /\ rc_aux_offset' = W(from + 2) /\ rc_aux_size' = W(from + 3) /\ rc_aux_flags' = W(from + 4)
          /\ Len(perf_record') = 3
          /\ W(from + 2) \in Nat /\ W(from + 3) \in Nat \ {0} /\ W(from + 4) \in AuxFlags
          /\ W(from + 2) <= perf_metadata.aux_head /\ W(from + 2) + W(from + 3) <= reported
    <2> SUFFICES ASSUME IsAux(from)
                 PROVE  /\ rc_aux_offset' = W(from + 2) /\ rc_aux_size' = W(from + 3)
                        /\ rc_aux_flags' = W(from + 4) /\ Len(perf_record') = 3
                        /\ W(from + 2) \in Nat /\ W(from + 3) \in Nat \ {0} /\ W(from + 4) \in AuxFlags
                        /\ W(from + 2) <= perf_metadata.aux_head /\ W(from + 2) + W(from + 3) <= reported
      OBVIOUS
    <2>1. n = 3
      BY <1>5
    <2>4. from + 1 + 1 = from + 2 /\ from + 2 + 1 = from + 3 /\ from + 3 + 1 = from + 4
      BY <1>3
    <2>2. perf_record'[1] = W(from + 2) /\ perf_record'[2] = W(from + 3) /\ perf_record'[3] = W(from + 4)
      <3>1. 1 \in 1 .. n /\ 2 \in 1 .. n /\ 3 \in 1 .. n
        BY <2>1
      <3> QED BY <1>6, <2>4, <3>1
    <2>3. ~(W(from) = PERF_RECORD_MMAP2)
      BY DEF IsAux, PERF_RECORD_AUX, PERF_RECORD_MMAP2
    <2> QED BY <1>4, <1>6, <2>1, <2>2, <2>3 DEF Record, rc_aux_offset, rc_aux_size, rc_aux_flags
  <1>9. KernelTypes'
    BY <1>2 DEF KernelTypes
  <1>10. ThreadTypes'
    <2>1. data_tail' \in Nat
      BY <1>3, <1>4, <1>5, Numbers
    <2> QED BY <1>2, <1>6, <2>1 DEF ThreadTypes, Labels
  <1>11. DataTail'
    <2>1. First' \in Nat /\ perf_metadata.data_tail <= First'
      BY <1>3, <1>4, <1>7, Numbers
    <2>2. perf_header[1] # PERF_RECORD_AUX => perf_header[1] = PERF_RECORD_MMAP2 /\ Len(perf_record') = 1
      BY <1>3, <1>5, <1>6 DEF IsAux
    <2>3. perf_metadata.data_head - perf_metadata.data_tail <= DataSize
      BY DEF DataTail
    <2> QED BY <1>2, <2>1, <2>2, <2>3 DEF DataTail
  <1>12. AuxTail'
    BY <1>2 DEF AuxTail, Holds
  <1>13. gaps = {} /\ IsAux(from) =>
           /\ W(from + 4) = 0 /\ W(from + 2) = perf_metadata.aux_tail
           /\ g[End(from)] = W(from + 2) + W(from + 3)
    <2>1. gaps = {} => g[from] = perf_metadata.aux_tail
      BY <1>1, <1>2, <1>7 DEF AheadOf, AuxTail
    <2> QED BY <1>4, <2>1 DEF Follows
  <1>14. Stretch'
    BY <1>2, <1>7, <1>8, <1>13 DEF Stretch
  <1>15. Checks'
    BY <1>2 DEF Checks
  <1>16. RecordsAhead'
    <2>1. PICK h : h = Rest(g, from)
      OBVIOUS
    <2>2. PICK to : to = End(from)
      OBVIOUS
    <2>3. Chain(h, to)'
      BY <1>2, <1>4, <2>1, <2>2 DEF Chain, Record, End, Follows, IsAux, W
    <2>4. gaps = {} => h[to] = Due'
      <3>1. gaps = {} => h[to] = g[to]
        BY <1>4, <2>1, <2>2
      <3>2. CASE IsAux(from)
        BY <1>7, <1>8, <1>13, <2>2, <3>1, <3>2 DEF Due
      <3>3. CASE ~IsAux(from)
        <4>1. gaps = {} => g[to] = g[from] /\ g[from] = Len(out)
          BY <1>1, <1>4, <1>7, <2>2, <3>3 DEF Follows, AheadOf
        <4> QED BY <1>2, <1>7, <3>1, <3>3, <4>1 DEF Due
      <3> QED BY <3>2, <3>3
    <2>5. AheadOf(h)'
      BY <1>2, <1>7, <2>2, <2>3, <2>4 DEF AheadOf
    <2> QED BY <2>5 DEF RecordsAhead
  <1> QED BY <1>9, <1>10, <1>11, <1>12, <1>14, <1>15, <1>16

\* data_tail is stored when nothing before it is needed any more.
LEMMA ReleaseDataInv == ASSUME Inv, ReleaseData PROVE Inv'
  <1> USE DEF Inv, Ok
  <1>1. PICK g : AheadOf(g)
    BY DEF RecordsAhead
  <1> SUFFICES ASSUME NEW from, from = data_tail PROVE Inv'
    OBVIOUS
  <1>2. /\ UNCHANGED <<perf_data_buffer, perf_aux_buffer, written, reported, gaps>>
        /\ UNCHANGED <<perfing_is_running, data_tail, data_head, perf_header, perf_record,
                       aux_util, out, fatal>>
        /\ pc = "release"
        /\ pc' = IF perf_header[1] = PERF_RECORD_AUX THEN "aux" ELSE "test"
        /\ perf_metadata' = [perf_metadata EXCEPT !.data_tail = from]
    BY DEF ReleaseData, At, kernelOwn, recordVars
  <1>3. First = from /\ from \in Nat /\ Chain(g, from) /\ perf_metadata.data_tail <= from
    BY <1>1, <1>2, Numbers DEF First, AheadOf, DataTail
  <1>4. /\ perf_metadata' \in Metadata /\ perf_metadata'.data_tail = from
        /\ perf_metadata'.data_head = perf_metadata.data_head
        /\ perf_metadata'.aux_head = perf_metadata.aux_head
        /\ perf_metadata'.aux_tail = perf_metadata.aux_tail
    BY <1>2, <1>3, Numbers DEF Metadata
  <1>5. /\ First' = from /\ InHand' = InHand /\ pc' \in Labels
        /\ pc' \notin {"start", "header", "body", "release", "decode", "consume", "flags"}
    BY <1>2 DEF First, InHand, Labels
  <1>6. Due' = Due
    BY <1>2, <1>5 DEF Due, rc_aux_offset, rc_aux_size
  <1>7. KernelTypes'
    BY <1>2, <1>4 DEF KernelTypes
  <1>8. ThreadTypes'
    BY <1>2, <1>5 DEF ThreadTypes
  <1>9. DataTail'
    <2>1. perf_metadata.data_head - from <= DataSize
      BY <1>3, Numbers, KernelAssumption DEF DataTail
    <2> QED BY <1>3, <1>4, <1>5, <2>1 DEF DataTail
  <1>10. AuxTail'
    BY <1>2, <1>4, <1>5 DEF AuxTail, Holds
  <1>11. Stretch' /\ Checks'
    BY <1>2, <1>4, <1>5 DEF Stretch, Checks, rc_aux_offset, rc_aux_size, rc_aux_flags
  <1>12. RecordsAhead'
    <2>1. Chain(g, from)'
      BY <1>2, <1>3, <1>4, ChainStays, Numbers DEF W
    <2>2. AheadOf(g)'
      BY <1>1, <1>2, <1>3, <1>5, <1>6, <2>1 DEF AheadOf
    <2> QED BY <2>2 DEF RecordsAhead
  <1> QED BY <1>7, <1>8, <1>9, <1>10, <1>11, <1>12

\* What is known of the trace while a stretch is in hand.
LEMMA InTheRing ==
  ASSUME Inv, InHand, rc_aux_offset = perf_metadata.aux_tail
  PROVE  /\ rc_aux_offset \in Nat /\ rc_aux_size \in Nat \ {0} /\ rc_aux_size <= AuxSize
         /\ perf_metadata.aux_head - perf_metadata.aux_tail \in 0 .. AuxSize
         /\ rc_aux_offset + rc_aux_size <= reported
         /\ Holds(rc_aux_offset, rc_aux_offset + rc_aux_size - 1)
  <1> SUFFICES ASSUME NEW offset, offset = rc_aux_offset, NEW size, size = rc_aux_size,
                      NEW head, head = perf_metadata.aux_head
               PROVE  /\ offset \in Nat /\ size \in Nat \ {0} /\ size <= AuxSize
                      /\ head - offset \in 0 .. AuxSize
                      /\ offset + size <= reported
                      /\ Holds(offset, offset + size - 1)
    OBVIOUS
  <1>1. /\ offset \in Nat /\ size \in Nat \ {0} /\ offset <= head /\ offset + size <= reported
        /\ head <= reported /\ reported <= written /\ written - offset <= AuxSize
        /\ Holds(offset, written - 1)
    BY DEF Inv, Stretch, AuxTail
  <1>2. head \in Nat /\ reported \in Nat /\ written \in Nat /\ AuxSize \in Nat
    BY Numbers, KernelAssumption
  <1>3. \A x \in offset .. offset + size - 1 : x \in offset .. written - 1
    BY <1>1, <1>2
  <1>4. Holds(offset, offset + size - 1)
    BY <1>1, <1>3 DEF Holds
  <1>5. size <= AuxSize /\ head - offset \in 0 .. AuxSize
    BY <1>1, <1>2
  <1> QED BY <1>1, <1>4, <1>5

\* The checks fail only after a gap.
LEMMA CheckAuxInv == ASSUME Inv, CheckAux PROVE Inv'
  <1> USE DEF Inv
  <1>1. /\ UNCHANGED <<perf_data_buffer, perf_aux_buffer, perf_metadata, written, reported, gaps>>
        /\ UNCHANGED <<perfing_is_running, data_tail, data_head, perf_header, perf_record, out>>
        /\ pc = "aux" /\ fatal = "none"
        /\ pc' = IF rc_aux_flags = 0 THEN "decode" ELSE "flags"
        /\ fatal' = CASE aux_util > AuxSize \/ aux_util < 0       -> "util error"
                      [] rc_aux_offset # perf_metadata.aux_tail -> "tail error"
                      [] OTHER -> "none"
        /\ aux_util' = perf_metadata.aux_head - perf_metadata.aux_tail
    BY DEF CheckAux, At, Ok, kernelVars
  <1>2. /\ InHand /\ InHand' /\ First' = First /\ pc' \in {"decode", "flags"} /\ pc' \in Labels
        /\ rc_aux_offset' = rc_aux_offset /\ rc_aux_size' = rc_aux_size /\ rc_aux_flags' = rc_aux_flags
    BY <1>1 DEF First, InHand, Labels, rc_aux_offset, rc_aux_size, rc_aux_flags
  <1>3. Due' = Due
    BY <1>2 DEF Due
  <1>4. ~(aux_util > AuxSize \/ aux_util < 0)
    <2>1. aux_util \in 0 .. AuxSize /\ AuxSize \in Nat
      BY <1>1, KernelAssumption DEF Checks, Ok
    <2> QED BY <2>1
  <1>5. fatal' = IF rc_aux_offset # perf_metadata.aux_tail THEN "tail error" ELSE "none"
    BY <1>1, <1>4
  <1>6. fatal' = "tail error" => gaps # {}
    BY <1>2, <1>5 DEF Stretch
  <1>7. fatal' = "none" => rc_aux_offset = perf_metadata.aux_tail /\ aux_util' \in 0 .. AuxSize
    BY <1>1, <1>2, <1>5, InTheRing
  <1>8. KernelTypes'
    BY <1>1 DEF KernelTypes
  <1>9. ThreadTypes'
    <2>1. aux_util' \in Int
      <3>1. perf_metadata.aux_head \in Int /\ perf_metadata.aux_tail \in Int
        BY Numbers
      <3>2. aux_util' = perf_metadata.aux_head - perf_metadata.aux_tail
        BY <1>1
      <3> QED BY <3>1, <3>2
    <2> QED BY <1>1, <1>2, <1>5, <2>1 DEF ThreadTypes
  <1>10. DataTail'
    BY <1>1, <1>2 DEF DataTail
  <1>11. AuxTail'
    BY <1>1, <1>2 DEF AuxTail, Holds
  <1>12. Stretch'
    BY <1>1, <1>2, <1>7 DEF Stretch, Ok
  <1>13. Checks'
    BY <1>1, <1>5, <1>6, <1>7 DEF Checks, Ok
  <1>14. RecordsAhead'
    <2>1. PICK g : AheadOf(g)
      BY DEF RecordsAhead
    <2>2. Chain(g, First)'
      <3>1. \A p : W(p)' = W(p) /\ IsAux(p)' = IsAux(p) /\ End(p)' = End(p)
        BY <1>1 DEF W, IsAux, End
      <3>2. \A p : Record(p) => Record(p)'
        BY <1>1, <3>1 DEF Record
      <3>3. \A p : Follows(g, p) => Follows(g, p)'
        BY <3>1 DEF Follows
      <3> QED BY <1>1, <1>2, <2>1, <3>1, <3>2, <3>3 DEF AheadOf, Chain
    <2>3. AheadOf(g)'
      BY <1>1, <1>2, <1>3, <2>1, <2>2 DEF AheadOf
    <2> QED BY <2>3 DEF RecordsAhead
  <1> QED BY <1>8, <1>9, <1>10, <1>11, <1>12, <1>13, <1>14

\* What the thread appends is the stretch of the trace that follows what it
\* handed on before.
LEMMA DecodeAppends ==
  ASSUME Inv, Decode
  PROVE  \/ /\ rc_aux_size > AUX_BUFFER_SIZE /\ AuxSize > AUX_BUFFER_SIZE
            /\ fatal' = "aux_buffer error" /\ out' = out
         \/ /\ fatal' = fatal /\ rc_aux_offset = Len(out) /\ rc_aux_size \in Nat \ {0}
            /\ rc_aux_offset + rc_aux_size <= reported
            /\ out' = out \o [k \in 1 .. rc_aux_size |-> Len(out) + k - 1]
  <1>1. /\ pc = "decode" /\ fatal = "none" /\ InHand
        /\ rc_aux_offset = perf_metadata.aux_tail /\ perf_metadata.aux_tail = Len(out)
    BY DEF Decode, At, Ok, InHand, Inv, Stretch, AuxTail
  <1> SUFFICES ASSUME NEW offset, offset = rc_aux_offset, NEW size, size = rc_aux_size
               PROVE  \/ /\ size > AUX_BUFFER_SIZE /\ AuxSize > AUX_BUFFER_SIZE
                         /\ fatal' = "aux_buffer error" /\ out' = out
                      \/ /\ fatal' = fatal /\ offset = Len(out) /\ size \in Nat \ {0}
                         /\ offset + size <= reported
                         /\ out' = out \o [k \in 1 .. size |-> Len(out) + k - 1]
    OBVIOUS
  <1>2. /\ offset \in Nat /\ size \in Nat \ {0} /\ size <= AuxSize
        /\ offset + size <= reported /\ Holds(offset, offset + size - 1)
    BY <1>1, InTheRing
  <1>3. IF Wraps(offset, size) /\ size > AUX_BUFFER_SIZE
          THEN fatal' = "aux_buffer error" /\ out' = out
          ELSE out' = out \o AuxBytes(offset, size) /\ fatal' = fatal
    BY DEF Decode
  <1>4. CASE Wraps(offset, size) /\ size > AUX_BUFFER_SIZE
    <2>1. AuxSize > AUX_BUFFER_SIZE
      BY <1>2, <1>4, KernelAssumption, AlignmentAssumption
    <2> QED BY <1>3, <1>4, <2>1
  <1>5. CASE ~(Wraps(offset, size) /\ size > AUX_BUFFER_SIZE)
    <2>1. AuxBytes(offset, size) = [k \in 1 .. size |-> offset + k - 1]
      BY <1>2, CopyIsByteWise
    <2> QED BY <1>1, <1>2, <1>3, <1>5, <2>1
  <1> QED BY <1>4, <1>5

\* The length of what is appended to.
LEMMA Appended ==
  ASSUME NEW s \in Seq(Nat), NEW t \in Seq(Nat)
  PROVE  s \o t \in Seq(Nat) /\ Len(s \o t) = Len(s) + Len(t)
  OBVIOUS

\* The stretch in hand is handed on.
LEMMA DecodeInv == ASSUME Inv, Decode PROVE Inv'
  <1> USE DEF Inv
  <1>1. /\ UNCHANGED <<perf_data_buffer, perf_aux_buffer, perf_metadata, written, reported, gaps>>
        /\ UNCHANGED <<perfing_is_running, data_tail, data_head, perf_header, perf_record, aux_util>>
        /\ pc = "decode" /\ fatal = "none" /\ pc' = "consume"
    BY DEF Decode, At, Ok, kernelVars, recordVars
  <1>2. /\ InHand /\ InHand' /\ First' = First /\ pc' \in Labels
        /\ rc_aux_offset' = rc_aux_offset /\ rc_aux_size' = rc_aux_size /\ rc_aux_flags' = rc_aux_flags
    BY <1>1 DEF First, InHand, Labels, rc_aux_offset, rc_aux_size, rc_aux_flags
  <1>3. Due' = Due
    BY <1>2 DEF Due
  <1>4. perf_metadata.aux_tail = Len(out) /\ rc_aux_offset = perf_metadata.aux_tail
    BY <1>1 DEF AuxTail, Stretch, Ok
  <1>5. /\ out' \in Seq(Nat) /\ Len(out') >= Len(out) /\ Len(out') <= reported
        /\ fatal' \in {"none", "aux_buffer error"}
        /\ fatal' = "none" => Len(out') = rc_aux_offset + rc_aux_size
        /\ fatal' = "aux_buffer error" => out' = out /\ AuxSize > AUX_BUFFER_SIZE
    <2>1. CASE /\ AuxSize > AUX_BUFFER_SIZE
               /\ fatal' = "aux_buffer error" /\ out' = out
      <3>1. out \in Seq(Nat) /\ Len(out) \in Nat /\ Len(out) <= reported
        BY Numbers DEF AuxTail
      <3>2. out' \in Seq(Nat) /\ Len(out') >= Len(out) /\ Len(out') <= reported
        <4>1. out' = out /\ Len(out') = Len(out)
          BY <2>1
        <4>2. Len(out) >= Len(out)
          BY <3>1
        <4> QED BY <3>1, <4>1, <4>2
      <3> QED BY <2>1, <3>2
    <2> SUFFICES ASSUME NEW size \in Nat \ {0}, size = rc_aux_size, NEW old, old = Len(out),
                        fatal' = fatal, old + size <= reported,
                        out' = out \o [k \in 1 .. size |-> old + k - 1]
                 PROVE  /\ out' \in Seq(Nat) /\ Len(out') >= Len(out) /\ Len(out') <= reported
                        /\ fatal' \in {"none", "aux_buffer error"}
                        /\ Len(out') = old + size
      BY <1>1, <1>4, <2>1, DecodeAppends
    <2>2. out \in Seq(Nat) /\ old \in Nat
      BY Numbers
    <2>3. \A k \in 1 .. size : old + k - 1 \in Nat
      BY <2>2
    <2> DEFINE more == [k \in 1 .. size |-> old + k - 1]
    <2>4. more \in [1 .. size -> Nat]
      BY <2>3
    <2> HIDE DEF more
    <2>5. more \in Seq(Nat) /\ Len(more) = size
      BY <2>4, WordsAreSeq
    <2>6. out \o more \in Seq(Nat) /\ Len(out \o more) = Len(out) + size
      BY <2>2, <2>5, Appended
    <2>7. out' = out \o more
      BY DEF more
    <2> QED BY <1>1, <2>2, <2>6, <2>7
  <1>6. KernelTypes'
    BY <1>1 DEF KernelTypes
  <1>7. ThreadTypes'
    BY <1>1, <1>2, <1>5 DEF ThreadTypes
  <1>8. DataTail'
    BY <1>1, <1>2 DEF DataTail
  <1>9. AuxTail'
    <2>1. perf_metadata.aux_tail <= Len(out') /\ Len(out') <= reported
      BY <1>4, <1>5
    <2> QED BY <1>1, <1>4, <1>5, <2>1 DEF AuxTail, Holds, Ok
  <1>10. Stretch'
    BY <1>1, <1>2, <1>4, <1>5 DEF Stretch, Ok
  <1>11. Checks'
    BY <1>1, <1>5 DEF Checks, Ok
  <1>12. RecordsAhead'
    BY <1>1, <1>2, <1>3 DEF RecordsAhead, AheadOf, Chain, Record, End, Follows, IsAux, W
  <1> QED BY <1>6, <1>7, <1>8, <1>9, <1>10, <1>11, <1>12

\* aux_tail is stored when what it releases was handed on.
LEMMA ConsumeInv == ASSUME Inv, Consume PROVE Inv'
  <1> USE DEF Inv, Ok
  <1>1. PICK g : AheadOf(g)
    BY DEF RecordsAhead
  <1> SUFFICES ASSUME NEW end, end = rc_aux_offset + rc_aux_size, NEW from, from = First PROVE Inv'
    OBVIOUS
  <1>2. /\ UNCHANGED <<perf_data_buffer, perf_aux_buffer, written, reported, gaps>>
        /\ UNCHANGED <<perfing_is_running, data_tail, data_head, perf_header, perf_record,
                       aux_util, out, fatal>>
        /\ pc = "consume" /\ fatal = "none" /\ pc' = "test"
        /\ perf_metadata' = [perf_metadata EXCEPT !.aux_tail = end]
    BY DEF Consume, At, kernelOwn, recordVars
  <1>3. /\ InHand /\ ~InHand' /\ First' = from /\ pc' \in Labels
        /\ Due = end /\ Due' = Len(out) /\ Len(out) = end
    BY <1>2 DEF First, InHand, Labels, Due, Stretch
  <1>4. end \in Nat /\ from \in Nat /\ Chain(g, from)
    BY <1>1, <1>3, Numbers DEF AheadOf
  <1>5. /\ perf_metadata' \in Metadata /\ perf_metadata'.aux_tail = end
        /\ perf_metadata'.data_head = perf_metadata.data_head
        /\ perf_metadata'.data_tail = perf_metadata.data_tail
        /\ perf_metadata'.aux_head = perf_metadata.aux_head
    BY <1>2, <1>4, Numbers DEF Metadata
  <1>6. KernelTypes'
    BY <1>2, <1>5 DEF KernelTypes
  <1>7. ThreadTypes'
    BY <1>2, <1>3 DEF ThreadTypes
  <1>8. DataTail'
    BY <1>2, <1>3, <1>5 DEF DataTail
  <1>9. AuxTail'
    <2>1. /\ perf_metadata.aux_tail <= end /\ end <= reported /\ reported <= written
          /\ written - perf_metadata.aux_tail <= AuxSize
          /\ Holds(perf_metadata.aux_tail, written - 1)
      BY <1>3 DEF AuxTail
    <2>2. written - end <= AuxSize /\ \A x \in end .. written - 1 : x \in perf_metadata.aux_tail .. written - 1
      BY <1>4, <2>1, Numbers, KernelAssumption
    <2>3. Holds(end, written - 1)'
      BY <1>2, <2>1, <2>2 DEF Holds
    <2>4. perf_metadata.aux_head <= reported
      BY DEF AuxTail
    <2> QED BY <1>2, <1>3, <1>4, <1>5, <2>1, <2>2, <2>3, <2>4 DEF AuxTail, Holds
  <1>10. Stretch' /\ Checks'
    BY <1>2, <1>3 DEF Stretch, Checks
  <1>11. RecordsAhead'
    <2>1. Chain(g, from)'
      BY <1>2, <1>4, <1>5, ChainStays, Numbers DEF W
    <2>2. AheadOf(g)'
      BY <1>1, <1>2, <1>3, <2>1 DEF AheadOf
    <2> QED BY <2>2 DEF RecordsAhead
  <1> QED BY <1>6, <1>7, <1>8, <1>9, <1>10, <1>11

\* A record with flags is one of the gaps: what follows it is out of step.
LEMMA FlagsInv == ASSUME Inv, Flags PROVE Inv'
  <1> USE DEF Inv, Ok
  <1>1. /\ UNCHANGED <<perf_data_buffer, perf_aux_buffer, perf_metadata, written, reported, gaps>>
        /\ UNCHANGED <<data_tail, data_head, perf_header, perf_record, aux_util, out, fatal>>
        /\ pc = "flags" /\ perfing_is_running' = 2 /\ pc' = "test"
    BY DEF Flags, At, kernelVars, recordVars
  <1>2. InHand /\ ~InHand' /\ First' = First /\ pc' \in Labels /\ gaps # {}
    BY <1>1 DEF First, InHand, Labels, Stretch
  <1>3. KernelTypes'
    BY <1>1 DEF KernelTypes
  <1>4. ThreadTypes'
    <2>1. perfing_is_running' \in 0 .. 2
      BY <1>1
    <2>2. UNCHANGED <<data_tail, data_head, perf_header, perf_record, aux_util, out, fatal>>
      BY <1>1
    <2> QED BY <1>2, <2>1, <2>2 DEF ThreadTypes
  <1>5. DataTail' /\ AuxTail'
    BY <1>1, <1>2 DEF DataTail, AuxTail, Holds
  <1>6. Stretch' /\ Checks'
    BY <1>1, <1>2 DEF Stretch, Checks
  <1>7. RecordsAhead'
    BY <1>1, <1>2 DEF RecordsAhead, AheadOf, Chain, Record, End, Follows, IsAux, W
  <1> QED BY <1>3, <1>4, <1>5, <1>6, <1>7

-----------------------------------------------------------------------------
(* Every step keeps the invariant.                                         *)

\* Every step of the kernel and of the reader.
LEMMA InvStep == ASSUME Inv, [RingNext]_ringVars PROVE Inv'
  <1>1. ASSUME UNCHANGED <<perf_data_buffer, perf_aux_buffer, perf_metadata, written, reported, gaps>>,
               UNCHANGED <<data_tail, data_head, perf_header, perf_record, aux_util, out, fatal>>,
               perfing_is_running' \in 0 .. 2,
               pc' = pc \/ (pc \in Between /\ pc' \in Between \ {"start"})
        PROVE  Inv'
    BY <1>1, QuietInv
  <1>2. perfing_is_running \in 0 .. 2
    BY DEF Inv, ThreadTypes
  <1>3. ASSUME ThreadStep PROVE Inv'
    <2>1. CASE Start
      <3>1. data_tail = perf_metadata.data_tail
        BY <2>1 DEF Start, intel_pt_enable, At, Inv, DataTail
      <3> QED BY <2>1, <3>1, <1>1 DEF Start, intel_pt_enable, At, Between, kernelOwn
    <2>2. CASE Poll
      BY <2>2, PollInv
    <2>3. CASE CopyHeader
      BY <2>3, CopyHeaderInv
    <2>4. CASE CopyBody
      BY <2>4, CopyBodyInv
    <2>5. CASE ReleaseData
      BY <2>5, ReleaseDataInv
    <2>6. CASE CheckAux
      BY <2>6, CheckAuxInv
    <2>7. CASE Decode
      BY <2>7, DecodeInv
    <2>8. CASE Consume
      BY <2>8, ConsumeInv
    <2>9. CASE Flags
      BY <2>9, FlagsInv
    <2>10. CASE TestKilled
      BY <2>10, <1>1, <1>2 DEF TestKilled, Goto, At, Between, kernelVars, recordVars
    <2>11. CASE TestDisabled
      BY <2>11, <1>1, <1>2 DEF TestDisabled, Goto, At, Between, kernelVars, recordVars
    <2>12. CASE Clear
      BY <2>12, <1>1 DEF Clear, At, Between, kernelVars, recordVars
    <2>13. CASE Unmap
      BY <2>13, <1>1, <1>2 DEF Unmap, At, Between, kernelOwn, recordVars
    <2>14. CASE intel_pt_disable
      BY <2>14, <1>1, <1>2 DEF intel_pt_disable, At, Between, kernelOwn, recordVars
    <2> QED BY <1>3, <2>1, <2>2, <2>3, <2>4, <2>5, <2>6, <2>7, <2>8, <2>9, <2>10, <2>11,
               <2>12, <2>13, <2>14 DEF ThreadStep
  <1>4. ASSUME KernelStep, UNCHANGED threadVars PROVE Inv'
    BY <1>4, TraceBytesInv, ReportBytesInv, MoveAuxHeadInv, OtherRecordInv DEF KernelStep
  <1>5. ASSUME sig_action_SIGINT \/ sig_action_SIGRT PROVE Inv'
    BY <1>5, <1>1 DEF sig_action_SIGINT, sig_action_SIGRT, Signal, kernelVars, recordVars
  <1>6. ASSUME UNCHANGED ringVars PROVE Inv'
    BY <1>6, <1>1, <1>2 DEF ringVars, kernelVars, threadVars
  <1> QED BY <1>3, <1>4, <1>5, <1>6 DEF RingNext

\* The invariant holds always.
LEMMA InvAlways == RingSpec => []Inv
  <1>1. RingInit => Inv
    BY InvInit
  <1>2. Inv /\ [RingNext]_ringVars => Inv'
    BY InvStep
  <1> QED BY <1>1, <1>2, PTL DEF RingSpec

\* Whatever the sizes of the rings, the alignment of the copy and the flags, every
\* variable of perfing_main keeps its type, and a body is as long as its header
\* says.
THEOREM RingTypeCorrect == RingSpec => []RingTypeOK
  <1>1. Inv => RingTypeOK
    BY InvImplies
  <1> QED BY <1>1, InvAlways, PTL

\* The thread never runs ahead of the kernel, and neither tail it stores releases
\* a record it has not copied or a byte it has not handed on.
THEOREM TailsAreFollowed == RingSpec => []TailsFollow
  <1>1. Inv => TailsFollow
    BY InvImplies
  <1> QED BY <1>1, InvAlways, PTL

\* The thread finds a header wherever it looks for one, also after records were
\* lost: they are lost whole.
THEOREM StaysInStep == RingSpec => []InStep
  <1>1. Inv => InStep
    BY InvImplies
  <1> QED BY <1>1, InvAlways, PTL

\* If a stretch of the AUX ring always fits into aux_buffer, the thread spins with
\* an error only after the kernel lost a record or reported one with flags.
THEOREM SpinsOnGapsOnly ==
  ASSUME AuxSize <= AUX_BUFFER_SIZE PROVE RingSpec => []SpinsOnlyOnGaps
  <1>1. Inv => SpinsOnlyOnGaps
    <2> SUFFICES ASSUME Inv PROVE SpinsOnlyOnGaps
      OBVIOUS
    <2>1. ~(AuxSize > AUX_BUFFER_SIZE)
      BY KernelAssumption, AlignmentAssumption
    <2> QED BY <2>1 DEF Inv, ThreadTypes, Checks, SpinsOnlyOnGaps
  <1> QED BY <1>1, InvAlways, PTL

-----------------------------------------------------------------------------
(* The refinement of ByteStream.                                           *)

\* At the start nothing was sent or received.
LEMMA StreamInit == RingInit => Stream!Init
  BY DEF RingInit, KernelInit, Stream!Init

\* TraceBytes sends, Decode receives, and every other step is a stutter of ByteStream.
LEMMA StreamStep ==
  ASSUME Inv, [RingNext]_ringVars PROVE [Stream!Send \/ Stream!Receive]_<<written, out>>
  <1>1. ASSUME Decode PROVE UNCHANGED <<written, out>> \/ Stream!Receive
    <2>1. written' = written
      BY <1>1 DEF Decode, kernelVars
    <2>2. CASE out' = out
      BY <2>1, <2>2
    <2>3. CASE out' # out
      <3>1. PICK size : /\ size \in Nat \ {0} /\ rc_aux_offset = Len(out)
                        /\ rc_aux_offset + size <= reported
                        /\ out' = out \o [k \in 1 .. size |-> Len(out) + k - 1]
        BY <1>1, <2>3, DecodeAppends
      <3>2. size \in 1 .. written - Len(out)
        <4>1. /\ Len(out) + size <= reported /\ reported <= written
              /\ Len(out) \in Nat /\ reported \in Nat /\ written \in Nat
          BY <3>1, Numbers DEF Inv, AuxTail
        <4> QED BY <3>1, <4>1
      <3> QED BY <2>1, <3>1, <3>2, Zenon DEF Stream!Receive
    <2> QED BY <2>2, <2>3
  <1>2. ASSUME TraceBytes, UNCHANGED threadVars PROVE Stream!Send
    <2>1. PICK n \in Stretches : written' = written + n
      BY <1>2 DEF TraceBytes
    <2>2. n \in Nat \ {0} /\ written \in Nat
      BY Numbers, KernelAssumption
    <2>3. written' \in Nat /\ written' > written
      BY <2>1, <2>2
    <2> QED BY <1>2, <2>3 DEF Stream!Send, threadVars
  <1>3. ASSUME KernelStep, ~TraceBytes, UNCHANGED threadVars PROVE UNCHANGED <<written, out>>
    BY <1>3 DEF KernelStep, ReportBytes, MoveAuxHead, OtherRecord, threadVars
  <1>4. ASSUME ThreadStep, ~Decode PROVE UNCHANGED <<written, out>>
    BY <1>4 DEF ThreadStep, Start, intel_pt_enable, Poll, CopyHeader, CopyBody, ReleaseData, CheckAux, Consume,
       Flags, TestKilled, TestDisabled, Goto, Clear, Unmap, intel_pt_disable, kernelVars, kernelOwn
  <1>5. ASSUME sig_action_SIGINT \/ sig_action_SIGRT PROVE UNCHANGED <<written, out>>
    BY <1>5 DEF sig_action_SIGINT, sig_action_SIGRT, Signal, kernelVars
  <1>6. ASSUME UNCHANGED ringVars PROVE UNCHANGED <<written, out>>
    BY <1>6 DEF ringVars, kernelVars, threadVars
  <1> QED BY <1>1, <1>2, <1>3, <1>4, <1>5, <1>6 DEF RingNext, KernelStep

\* The thread, the rings and the kernel together implement ByteStream: what is handed
\* to intel_pt_decode is a prefix of the trace, byte for byte, and each turn adds the
\* bytes that follow.
THEOREM ImplementsByteStream == RingSpec => DeliversStream
  <1>1. RingInit => Stream!Init
    BY StreamInit
  <1>2. Inv /\ [RingNext]_ringVars => [Stream!Send \/ Stream!Receive]_<<written, out>>
    BY StreamStep
  <1> QED BY <1>1, <1>2, InvAlways, PTL DEF RingSpec, DeliversStream, Stream!Spec
=============================================================================
