------------------------- MODULE HidFraming_proofs -------------------------
(***************************************************************************)
(* For every size of packets and all answers: with at most one packet      *)
(* lost, repeated or damaged an answer is read whole or not at all, and    *)
(* without one no read fails.                                              *)
(***************************************************************************)
EXTENDS HidFraming, SequenceParts

Bytes == Nat \X Nat
Packet == [sequence : Nat, total : Nat, data : Seq(Bytes), sound : BOOLEAN]
Reader == [phase : {"idle", "reading", "failed", "timed out"}, total : Nat,
           out : Seq(Bytes), sequence : Nat]

TypeOK ==
  /\ sent \in Seq(Nat) /\ wire \in Seq(Packet) /\ reader \in Reader
  /\ returned \in Seq(Seq(Bytes)) /\ faults \in Nat /\ aligned \in BOOLEAN

(* Room in packet k, and the payload bytes before it.                      *)
Room(k) == IF k = 1 THEN FirstCapacity ELSE NextCapacity
Before(k) == IF k = 1 THEN 0 ELSE FirstCapacity + (k - 2) * NextCapacity

(* What follows byte i - 1 of an answer: the next byte, or padding.        *)
ByteAt(n, len, i) == IF i <= len THEN <<n, i>> ELSE Pad

(* Data of c bytes that follow the first b of the answer.                  *)
Carries(data, c, n, len, b) ==
  Len(data) = c /\ \A j \in 1..c : data[j] = ByteAt(n, len, b + j)

(* p is packet k of answer n among the lengths s, whether sound or not.    *)
IsPacket(p, n, k, len) ==
  /\ p.sequence = k - 1 /\ (k = 1 => p.total = len)
  /\ Carries(p.data, Room(k), n, len, Before(k))
Of(s, p, n, k) ==
  n \in 1..Len(s) /\ k \in 1..PacketCount(s[n]) /\ IsPacket(p, n, k, s[n])
Genuine(s, p) == \E n \in 1..Len(s) : \E k \in 1..PacketCount(s[n]) : Of(s, p, n, k)

(* After p, q is the next packet of the same answer if it looks like it.   *)
Fits(s, p, q) ==
  \A n, k : Of(s, p, n, k) /\ k < PacketCount(s[n]) /\ q.sequence = k => Of(s, q, n, k + 1)

(* q has the sequence number that is due after p.                          *)
Follows(s, p, q) ==
  \A n, k : Of(s, p, n, k) => /\ k < PacketCount(s[n]) => q.sequence = k
                              /\ ~(k < PacketCount(s[n])) => q.sequence = 0

Completes(s, p) == \A n, k : Of(s, p, n, k) => k = PacketCount(s[n])

(* The beginning of answer n.                                              *)
Begins(out, n) == \A j \in 1..Len(out) : out[j] = <<n, j>>

(* The reader holds the first r.sequence packets of answer n, not all.     *)
Holds(s, r, n) ==
  /\ n \in 1..Len(s) /\ r.total = s[n]
  /\ r.sequence \in 1..PacketCount(s[n]) /\ r.sequence < PacketCount(s[n])
  /\ Len(r.out) = Before(r.sequence + 1)
  /\ Begins(r.out, n)

(* Parts of the invariant, over the lengths s, packets w and reader r.     *)
WireIsGenuine(s, w) == \A i \in 1..Len(w) : Genuine(s, w[i])
WireFits(s, w) == \A i \in 1..Len(w) : i + 1 <= Len(w) => Fits(s, w[i], w[i + 1])
ReaderFits(s, w, r) ==
  r.phase = "reading" =>
    \E n \in 1..Len(s) :
      /\ Holds(s, r, n)
      /\ w # <<>> /\ w[1].sequence = r.sequence => Of(s, w[1], n, r.sequence + 1)
Unbroken(s, w) ==
  /\ \A i \in 1..Len(w) : w[i].sound
  /\ \A i \in 1..Len(w) : i + 1 <= Len(w) => Follows(s, w[i], w[i + 1])
  /\ \A i \in 1..Len(w) : ~(i + 1 <= Len(w)) => Completes(s, w[i])
IsDue(w, r) == r.phase = "reading" => w # <<>> /\ w[1].sequence = r.sequence
InStep(w, r) ==
  /\ r.phase # "failed"
  /\ r.phase # "reading" /\ w # <<>> => w[1].sequence = 0
Whole(s, answers) ==
  \A i \in 1..Len(answers) : \E n \in 1..Len(s) : answers[i] = Payload(n, s[n])

HidInv ==
  /\ TypeOK
  /\ WireIsGenuine(sent, wire)
  /\ faults <= 1 => WireFits(sent, wire) /\ ReaderFits(sent, wire, reader) /\ Whole(sent, returned)
  /\ faults = 0 => Unbroken(sent, wire) /\ IsDue(wire, reader)
  /\ aligned => faults = 0 /\ InStep(wire, reader)

-----------------------------------------------------------------------------
(* Where packets begin.                                                    *)
LEMMA RoomIs ==
  ASSUME NEW k \in Nat \ {0}
  PROVE  /\ Before(k) \in Nat /\ Room(k) \in Nat \ {0}
         /\ Before(k + 1) = Before(k) + Room(k)
         /\ Before(1) = 0
<1>1. Room(k) \in Nat \ {0} /\ Before(1) = 0
  BY CapacityAssumption DEF Room, Before
<1>2. CASE k = 1
  <2>1. (k + 1 - 2) * NextCapacity = 0
    BY <1>2, CapacityAssumption
  <2> QED
    BY <1>1, <1>2, <2>1, CapacityAssumption DEF Before, Room
<1>3. CASE k # 1
  <2> DEFINE a == (k - 2) * NextCapacity
             b == (k + 1 - 2) * NextCapacity
  <2>1. a \in Nat /\ b = a + NextCapacity
    BY <1>3, CapacityAssumption, SMT
  <2>2. Before(k) = FirstCapacity + a /\ Before(k + 1) = FirstCapacity + b
    BY <1>3 DEF Before
  <2>3. Room(k) = NextCapacity
    BY <1>3 DEF Room
  <2> HIDE DEF a, b
  <2> QED
    BY <1>1, <2>1, <2>2, <2>3, CapacityAssumption
<1> QED
  BY <1>2, <1>3

(* The quotient that rounds up.                                            *)
LEMMA CeilingIs ==
  ASSUME NEW a \in Nat, NEW b \in Nat \ {0}
  PROVE  LET q == (a + b - 1) \div b
         IN  /\ q \in Nat
             /\ \A k \in Nat : k < q <=> k * b < a
<1> DEFINE q == (a + b - 1) \div b
           m == a + b - 1
           r == m % b
<1>1. m \in Nat /\ q \in Int /\ r \in 0..(b - 1) /\ m = b * q + r
  BY SMT
<1>2. q \in Nat
  <2> HIDE DEF q, r
  <2>1. SUFFICES ASSUME q < 0 PROVE FALSE
    BY <1>1
  <2>2. b * q <= b * (0 - 1)
    BY <1>1, <2>1, SMT
  <2> QED
    BY <1>1, <2>2, SMT
<1>3. ASSUME NEW k \in Nat
      PROVE  k < q <=> k * b < a
  <2> HIDE DEF q, r
  <2>1. ASSUME k < q PROVE k * b < a
    <3>1. (k + 1) * b <= q * b
      BY <1>1, <2>1, SMT
    <3>2. (k + 1) * b = k * b + b /\ q * b = b * q
      BY <1>1, SMT
    <3> QED
      BY <1>1, <3>1, <3>2, SMT DEF m
  <2>2. ASSUME ~(k < q) PROVE ~(k * b < a)
    <3>1. q * b <= k * b
      BY <1>1, <1>2, <2>2, SMT
    <3>2. q * b = b * q
      BY <1>1, SMT
    <3> QED
      BY <1>1, <3>1, <3>2, SMT DEF m
  <2> QED
    BY <2>1, <2>2
<1> QED
  BY <1>2, <1>3

(* A packet is followed by another one if it cannot hold the rest.         *)
LEMMA CountIs ==
  ASSUME NEW len \in Nat
  PROVE  /\ PacketCount(len) \in Nat \ {0}
         /\ len = 0 => PacketCount(len) = 1
         /\ \A k \in 1..PacketCount(len) :
              /\ k < PacketCount(len) <=> Before(k + 1) < len
              /\ k # 1 => Before(k) < len
<1> DEFINE c == PacketCount(len)
<1>1. /\ c \in Nat \ {0} /\ (len = 0 => c = 1)
      /\ \A k \in Nat \ {0} : k < c <=> Before(k + 1) < len
  <2>1. CASE len <= FirstCapacity
    <3>1. c = 1
      BY <2>1 DEF PacketCount
    <3>2. ASSUME NEW k \in Nat \ {0} PROVE ~(k < c) /\ ~(Before(k + 1) < len)
      <4>1. Before(k + 1) >= FirstCapacity
        <5>1. (k + 1 - 2) * NextCapacity >= 0
          BY CapacityAssumption, SMT
        <5> QED
          BY <5>1, CapacityAssumption DEF Before
      <4>2. Before(k + 1) \in Nat
        BY RoomIs
      <4> QED
        BY <2>1, <3>1, <4>1, <4>2, CapacityAssumption
    <3> QED
      BY <3>1, <3>2
  <2>2. CASE ~(len <= FirstCapacity)
    <3> DEFINE a == len - FirstCapacity
               q == (a + NextCapacity - 1) \div NextCapacity
    <3>1. a \in Nat /\ c = 1 + q /\ len # 0
      BY <2>2, CapacityAssumption DEF PacketCount
    <3>2. q \in Nat /\ \A k \in Nat : k < q <=> k * NextCapacity < a
      <4> HIDE DEF a
      <4> QED
        BY <3>1, CeilingIs, CapacityAssumption
    <3> HIDE DEF q
    <3>3. ASSUME NEW k \in Nat \ {0} PROVE k < c <=> Before(k + 1) < len
      <4> DEFINE x == (k - 1) * NextCapacity
      <4>1. x \in Nat /\ k - 1 \in Nat
        BY CapacityAssumption, SMT
      <4>2. Before(k + 1) = FirstCapacity + x
        <5>1. k + 1 # 1 /\ k + 1 - 2 = k - 1
          OBVIOUS
        <5> QED
          BY <5>1 DEF Before
      <4>3. k - 1 < q <=> x < a
        BY <3>2, <4>1
      <4> HIDE DEF x
      <4> QED
        BY <3>1, <3>2, <4>1, <4>2, <4>3, CapacityAssumption DEF a
    <3> QED
      BY <3>1, <3>2, <3>3
  <2> QED
    BY <2>1, <2>2, CapacityAssumption
<1>2. ASSUME NEW k \in 1..c, k # 1 PROVE Before(k) < len
  <2>1. k - 1 \in Nat \ {0} /\ k - 1 < c /\ k - 1 + 1 = k
    BY <1>1, <1>2
  <2> QED
    BY <1>1, <2>1
<1> QED
  BY <1>1, <1>2

(* What wrap_apdu makes of a payload.                                      *)
LEMMA PayloadIs ==
  ASSUME NEW n \in Nat, NEW len \in Nat
  PROVE  /\ Payload(n, len) \in Seq(Bytes) /\ Len(Payload(n, len)) = len
         /\ \A j \in 1..len : Payload(n, len)[j] = <<n, j>>
<1> DEFINE f == [k \in 1..len |-> <<n, k>>]
<1>1. f \in [1..len -> Bytes]
  BY DEF Bytes
<1>2. f \in Seq(Bytes) /\ Len(f) = len
  <2> HIDE DEF f
  <2> QED
    BY <1>1, FunctionIsSeq
<1> QED
  BY <1>2 DEF Payload

(* The data of a packet of room c, after b bytes of the payload.           *)
Filled(payload, b, c) ==
  LET chunk == SubSeq(payload, b + 1, IF b + c < Len(payload) THEN b + c ELSE Len(payload))
  IN  chunk \o Padding(c - Len(chunk))

(* The data of a packet are the bytes of the payload that are due, padded. *)
LEMMA FilledIs ==
  ASSUME NEW n \in Nat, NEW len \in Nat, NEW b \in Nat, NEW c \in Nat \ {0}, b <= len
  PROVE  /\ Filled(Payload(n, len), b, c) \in Seq(Bytes)
         /\ Carries(Filled(Payload(n, len), b, c), c, n, len, b)
<1> DEFINE payload == Payload(n, len)
           m == IF b + c < Len(payload) THEN b + c ELSE Len(payload)
           chunk == SubSeq(payload, b + 1, m)
           f == [k \in 1..(c - Len(chunk)) |-> Pad]
           data == chunk \o f
<1>1. /\ payload \in Seq(Bytes) /\ Len(payload) = len
      /\ \A j \in 1..len : payload[j] = <<n, j>>
  BY PayloadIs
<1> HIDE DEF payload
<1>2. m \in Nat /\ m >= b /\ m <= len /\ m - b <= c /\ (m < len => m = b + c)
  BY <1>1
<1> HIDE DEF m
<1>3. \A i \in (b + 1)..m : payload[i] \in Bytes /\ payload[i] = <<n, i>>
  BY <1>1, <1>2 DEF Bytes
<1>4. /\ chunk \in Seq(Bytes) /\ Len(chunk) = m - b
      /\ \A i \in 1..(m - b) : chunk[i] = <<n, b + i>>
  <2>1. /\ chunk \in Seq(Bytes) /\ Len(chunk) = IF b + 1 <= m THEN m - (b + 1) + 1 ELSE 0
        /\ \A i \in 1..(m - (b + 1) + 1) : chunk[i] = payload[b + 1 + i - 1]
    BY <1>2, <1>3, SubSeqProperties
  <2> HIDE DEF chunk
  <2>2. \A i \in 1..(m - b) : b + 1 + i - 1 \in (b + 1)..m /\ b + 1 + i - 1 = b + i
                            /\ i \in 1..(m - (b + 1) + 1)
    BY <1>2
  <2> QED
    BY <1>2, <1>3, <2>1, <2>2
<1> HIDE DEF chunk
<1>5. f \in Seq(Bytes) /\ Len(f) = c - (m - b) /\ \A i \in 1..Len(f) : f[i] = Pad
  <2>1. Len(chunk) = m - b /\ c - (m - b) \in Nat
    BY <1>2, <1>4
  <2>2. f \in [1..(c - (m - b)) -> Bytes]
    BY <2>1 DEF Pad, Bytes
  <2>3. f \in Seq(Bytes) /\ Len(f) = c - (m - b)
    <3> HIDE DEF f
    <3> QED
      BY <2>1, <2>2, FunctionIsSeq
  <2> QED
    BY <2>1, <2>3
<1>6. f = Padding(c - Len(chunk))
  BY DEF Padding
<1> HIDE DEF f
<1>7. /\ data \in Seq(Bytes) /\ Len(data) = (m - b) + (c - (m - b))
      /\ \A i \in 1..(m - b) : data[i] = chunk[i]
      /\ \A i \in 1..Len(f) : data[(m - b) + i] = f[i]
  BY <1>4, <1>5, ConcatIs
<1> HIDE DEF data
<1>8. ASSUME NEW j \in 1..c
      PROVE  data[j] = ByteAt(n, len, b + j)
  <2>1. CASE j <= m - b
    <3>1. j \in 1..(m - b) /\ b + j <= len
      BY <1>2, <2>1
    <3>2. data[j] = <<n, b + j>>
      BY <1>4, <1>7, <3>1
    <3> QED
      BY <3>1, <3>2 DEF ByteAt
  <2>2. CASE ~(j <= m - b)
    <3>1. j - (m - b) \in 1..Len(f) /\ (m - b) + (j - (m - b)) = j /\ ~(b + j <= len)
      BY <1>2, <1>5, <2>2
    <3>2. data[j] = Pad
      BY <1>5, <1>7, <3>1
    <3> QED
      BY <3>1, <3>2 DEF ByteAt
  <2> QED
    BY <2>1, <2>2
<1>9. data \in Seq(Bytes) /\ Len(data) = c
  BY <1>2, <1>7
<1>10. Filled(Payload(n, len), b, c) = data
  BY <1>6 DEF Filled, data, chunk, m, payload
<1> QED
  BY <1>8, <1>9, <1>10 DEF Carries

(* wrap_apdu yields the packets of the answer, in order and sound.         *)
LEMMA WrapIs ==
  ASSUME NEW n \in Nat, NEW len \in Nat
  PROVE  LET w == wrap_apdu(Payload(n, len))
         IN  /\ w \in Seq(Packet) /\ Len(w) = PacketCount(len)
             /\ \A k \in 1..PacketCount(len) : w[k].sound /\ IsPacket(w[k], n, k, len)
<1> DEFINE payload == Payload(n, len)
           count == PacketCount(len)
           data(k) == Filled(payload, Before(k), Room(k))
           packet(k) == [sequence |-> k - 1, total |-> IF k = 1 THEN Len(payload) ELSE 0,
                         data |-> data(k), sound |-> TRUE]
           f == [k \in 1..count |-> packet(k)]
<1>1. Len(payload) = len
  BY PayloadIs
<1>2. wrap_apdu(payload) = f
  BY <1>1 DEF wrap_apdu, Filled, Room, Before
<1>3. ASSUME NEW k \in 1..count
      PROVE  data(k) \in Seq(Bytes) /\ Carries(data(k), Room(k), n, len, Before(k))
  <2>1. PacketCount(len) \in Nat \ {0} /\ (k = 1 \/ Before(k) < len)
    BY CountIs
  <2>2. k \in Nat \ {0}
    BY <2>1
  <2>3. Before(k) \in Nat /\ Room(k) \in Nat \ {0} /\ Before(1) = 0
    BY <2>2, RoomIs
  <2>4. Before(k) <= len
    BY <2>1, <2>3
  <2> QED
    BY <2>3, <2>4, FilledIs
<1> HIDE DEF data
<1>4. ASSUME NEW k \in 1..count
      PROVE  packet(k) \in Packet /\ packet(k).sound /\ IsPacket(packet(k), n, k, len)
  <2>1. k \in Nat /\ k - 1 \in Nat
    BY CountIs
  <2>2. packet(k) \in Packet
    BY <1>1, <1>3, <2>1 DEF Packet
  <2> QED
    BY <1>1, <1>3, <2>2 DEF IsPacket
<1> HIDE DEF packet
<1>5. count \in Nat /\ f \in [1..count -> Packet]
  BY <1>4, CountIs
<1>6. f \in Seq(Packet) /\ Len(f) = count
  <2> HIDE DEF f, count
  <2> QED
    BY <1>5, FunctionIsSeq
<1> QED
  BY <1>2, <1>4, <1>6

-----------------------------------------------------------------------------
(* A packet tells which one it is, save for those of empty answers.        *)
LEMMA PacketIsOne ==
  ASSUME NEW s \in Seq(Nat), NEW p, NEW n, NEW k, NEW m, NEW j, Of(s, p, n, k), Of(s, p, m, j)
  PROVE  j = k /\ (n = m \/ (k = 1 /\ PacketCount(s[n]) = 1 /\ PacketCount(s[m]) = 1))
<1>1. /\ n \in 1..Len(s) /\ m \in 1..Len(s) /\ s[n] \in Nat /\ s[m] \in Nat
      /\ Len(s) \in Nat
  BY DEF Of
<1>2. k \in Nat \ {0} /\ j \in Nat \ {0}
  <2>1. PacketCount(s[n]) \in Nat /\ PacketCount(s[m]) \in Nat
    BY <1>1, CountIs
  <2>2. k \in 1..PacketCount(s[n]) /\ j \in 1..PacketCount(s[m])
    BY DEF Of
  <2> QED
    BY <2>1, <2>2
<1>3. j = k
  BY <1>2 DEF Of, IsPacket
<1>4. ASSUME NEW a \in 1..Len(s), NEW b \in 1..Len(s), Of(s, p, a, k), Of(s, p, b, k),
             Before(k) < s[a]
      PROVE  a = b
  <2>1. Before(k) \in Nat /\ Room(k) \in Nat \ {0}
    BY <1>2, RoomIs
  <2>2. 1 \in 1..Room(k) /\ Before(k) + 1 <= s[a]
    <3>1. s[a] \in Nat
      OBVIOUS
    <3> QED
      BY <1>4, <2>1, <3>1
  <2>3. p.data[1] = <<a, Before(k) + 1>>
    BY <1>4, <2>2 DEF Of, IsPacket, Carries, ByteAt
  <2>4. p.data[1] = <<b, Before(k) + 1>> \/ p.data[1] = Pad
    BY <1>4, <2>2 DEF Of, IsPacket, Carries, ByteAt
  <2> QED
    BY <1>1, <2>3, <2>4 DEF Pad
<1>5. CASE Before(k) < s[n] \/ Before(k) < s[m]
  BY <1>1, <1>3, <1>4, <1>5
<1>6. CASE ~(Before(k) < s[n] \/ Before(k) < s[m])
  <2>1. k = 1
    BY <1>1, <1>3, <1>6, CountIs DEF Of
  <2>2. Before(k) = 0
    BY <2>1, RoomIs
  <2>3. s[n] = 0 /\ s[m] = 0
    BY <1>1, <1>6, <2>2
  <2> QED
    BY <1>1, <1>3, <2>1, <2>3, CountIs
<1> QED
  BY <1>5, <1>6

(* One more answer: the packets of the others are what they were, and what *)
(* looks like one of the new answer is a packet of an empty answer.        *)
LEMMA OfNext ==
  ASSUME NEW s \in Seq(Nat), NEW len \in Nat, NEW p
  PROVE  /\ \A n, k : Of(s, p, n, k) => Of(Append(s, len), p, n, k)
         /\ \A n, k : Of(Append(s, len), p, n, k) => Of(s, p, n, k) \/ n = Len(s) + 1
         /\ \A n \in 1..Len(s) : n \in 1..Len(Append(s, len)) /\ Append(s, len)[n] = s[n]
         /\ Append(s, len) \in Seq(Nat) /\ Append(s, len)[Len(s) + 1] = len
         /\ Len(Append(s, len)) = Len(s) + 1 /\ Len(s) \in Nat
         /\ Len(s) + 1 \notin 1..Len(s)
<1> DEFINE t == Append(s, len)
<1>1. /\ t \in Seq(Nat) /\ Len(t) = Len(s) + 1 /\ Len(s) \in Nat /\ t[Len(s) + 1] = len
      /\ \A n \in 1..Len(s) : n \in 1..Len(t) /\ t[n] = s[n]
      /\ \A n \in 1..Len(t) : n \in 1..Len(s) \/ n = Len(s) + 1
  OBVIOUS
<1> HIDE DEF t
<1>2. \A n, k : Of(s, p, n, k) => Of(t, p, n, k)
  BY <1>1 DEF Of
<1>3. \A n, k : Of(t, p, n, k) => Of(s, p, n, k) \/ n = Len(s) + 1
  BY <1>1 DEF Of
<1> QED
  BY <1>1, <1>2, <1>3 DEF t

-----------------------------------------------------------------------------
(* What the process has after k packets of an answer: all of it, or its    *)
(* beginning and the need for more.                                        *)
LEMMA TakenIs ==
  ASSUME NEW s \in Seq(Nat), NEW n \in 1..Len(s), NEW k \in 1..PacketCount(s[n]),
         NEW out \in Seq(Bytes), Carries(out, Before(k + 1), n, s[n], 0)
  PROVE  /\ k \in Nat /\ s[n] \in Nat
         /\ MoreToRead(out, s[n]) <=> k < PacketCount(s[n])
         /\ MoreToRead(out, s[n]) =>
              Holds(s, [phase |-> "reading", total |-> s[n], out |-> out, sequence |-> k], n)
         /\ ~MoreToRead(out, s[n]) => SubSeq(out, 1, s[n]) = Payload(n, s[n])
<1>1. s[n] \in Nat /\ Len(out) \in Nat /\ Len(out) = Before(k + 1) /\ n \in Nat
  BY LenProperties DEF Carries
<1>2. PacketCount(s[n]) \in Nat \ {0} /\ k \in Nat \ {0}
      /\ (k < PacketCount(s[n]) <=> Before(k + 1) < s[n])
  <2>1. PacketCount(s[n]) \in Nat \ {0}
        /\ (k < PacketCount(s[n]) <=> Before(k + 1) < s[n])
    BY <1>1, CountIs
  <2> QED
    BY <2>1
<1>3. MoreToRead(out, s[n]) <=> k < PacketCount(s[n])
  BY <1>1, <1>2 DEF MoreToRead
<1>4. \A j \in 1..Len(out) : out[j] = ByteAt(n, s[n], j)
  <2>1. \A j \in 1..Len(out) : 0 + j = j
    BY <1>1
  <2> QED
    BY <1>1, <2>1 DEF Carries
<1>5. \A j \in 1..Len(out) : j <= s[n] => out[j] = <<n, j>>
  BY <1>4 DEF ByteAt
<1>6. ASSUME MoreToRead(out, s[n])
      PROVE  Holds(s, [phase |-> "reading", total |-> s[n], out |-> out, sequence |-> k], n)
  <2> DEFINE r == [phase |-> "reading", total |-> s[n], out |-> out, sequence |-> k]
  <2>1. r.total = s[n] /\ r.sequence = k /\ r.out = out
    OBVIOUS
  <2> HIDE DEF r
  <2>2. \A j \in 1..Len(out) : j <= s[n]
    BY <1>1, <1>6 DEF MoreToRead
  <2> QED
    BY <1>1, <1>3, <1>5, <1>6, <2>1, <2>2 DEF Holds, Begins
<1>7. ASSUME ~MoreToRead(out, s[n])
      PROVE  SubSeq(out, 1, s[n]) = Payload(n, s[n])
  <2> DEFINE part == Payload(n, s[n])
  <2>1. part \in Seq(Bytes) /\ Len(part) = s[n] /\ \A j \in 1..s[n] : part[j] = <<n, j>>
    BY <1>1, PayloadIs
  <2>2. s[n] <= Len(out)
    BY <1>1, <1>7 DEF MoreToRead
  <2>3. \A j \in 1..Len(part) : out[0 + j] = part[j]
    <3>1. \A j \in 1..s[n] : 0 + j = j /\ j \in 1..Len(out) /\ j <= s[n]
      BY <1>1, <2>2
    <3> QED
      BY <1>5, <2>1, <3>1
  <2> HIDE DEF part
  <2>4. 0 + Len(part) <= Len(out)
    BY <1>1, <2>1, <2>2
  <2>5. SubSeq(out, 0 + 1, 0 + Len(part)) = part
    BY <2>1, <2>3, <2>4, PartIs
  <2>6. 0 + 1 = 1 /\ 0 + Len(part) = s[n]
    BY <1>1, <2>1
  <2> QED
    BY <2>5, <2>6 DEF part
<1> QED
  BY <1>1, <1>2, <1>3, <1>6, <1>7

(* The first packet, and one more.                                         *)
LEMMA FirstTaken ==
  ASSUME NEW s \in Seq(Nat), NEW p \in Packet, NEW n, Of(s, p, n, 1)
  PROVE  /\ p.data \in Seq(Bytes) /\ p.total = s[n] /\ n \in 1..Len(s)
         /\ 1 \in 1..PacketCount(s[n])
         /\ Carries(p.data, Before(1 + 1), n, s[n], 0)
<1>1. Before(1) = 0 /\ Before(1 + 1) = Before(1) + Room(1) /\ Room(1) \in Nat
  BY RoomIs
<1>2. Before(1 + 1) = Room(1)
  BY <1>1
<1> QED
  BY <1>1, <1>2 DEF Of, IsPacket, Packet

(* The beginning of an answer and the data that follow it.                 *)
LEMMA CarriesMore ==
  ASSUME NEW u \in Seq(Bytes), NEW v \in Seq(Bytes), NEW n, NEW len \in Nat,
         NEW c \in Nat \ {0}, Len(u) < len, Begins(u, n), Carries(v, c, n, len, Len(u))
  PROVE  u \o v \in Seq(Bytes) /\ Carries(u \o v, Len(u) + c, n, len, 0)
<1> DEFINE out == u \o v
<1>1. /\ out \in Seq(Bytes) /\ Len(out) = Len(u) + Len(v) /\ Len(u) \in Nat
      /\ \A j \in 1..Len(u) : out[j] = u[j]
      /\ \A j \in 1..Len(v) : out[Len(u) + j] = v[j]
  BY ConcatIs
<1> HIDE DEF out
<1>2. Len(v) = c /\ \A j \in 1..c : v[j] = ByteAt(n, len, Len(u) + j)
  BY DEF Carries
<1>3. ASSUME NEW j \in 1..(Len(u) + c)
      PROVE  out[j] = ByteAt(n, len, 0 + j)
  <2>1. 0 + j = j
    BY <1>1
  <2>2. CASE j <= Len(u)
    <3>1. j \in 1..Len(u) /\ j <= len
      BY <1>1, <2>2
    <3>2. out[j] = <<n, j>>
      BY <1>1, <3>1 DEF Begins
    <3> QED
      BY <2>1, <3>1, <3>2 DEF ByteAt
  <2>3. CASE ~(j <= Len(u))
    <3> DEFINE i == j - Len(u)
    <3>1. i \in 1..c /\ Len(u) + i = j
      BY <1>1, <2>3
    <3> HIDE DEF i
    <3>2. out[Len(u) + i] = v[i]
      BY <1>1, <1>2, <3>1
    <3>3. v[i] = ByteAt(n, len, Len(u) + i)
      BY <1>2, <3>1
    <3> QED
      BY <2>1, <3>1, <3>2, <3>3
  <2> QED
    BY <2>2, <2>3
<1> QED
  BY <1>1, <1>2, <1>3 DEF Carries, out

(* The reader with the data of the packet that is due.                     *)
LEMMA NextTaken ==
  ASSUME NEW s \in Seq(Nat), NEW r \in Reader, NEW p \in Packet, NEW n,
         Holds(s, r, n), Of(s, p, n, r.sequence + 1)
  PROVE  /\ r.out \o p.data \in Seq(Bytes) /\ r.total = s[n] /\ n \in 1..Len(s)
         /\ r.sequence + 1 \in 1..PacketCount(s[n])
         /\ Carries(r.out \o p.data, Before(r.sequence + 1 + 1), n, s[n], 0)
<1> DEFINE k == r.sequence
           b == Before(k + 1)
           c == Room(k + 1)
<1>1. /\ n \in 1..Len(s) /\ r.total = s[n] /\ Len(r.out) = b /\ k \in Nat
      /\ Begins(r.out, n)
      /\ k + 1 \in 1..PacketCount(s[n]) /\ r.out \in Seq(Bytes) /\ p.data \in Seq(Bytes)
      /\ Carries(p.data, c, n, s[n], b) /\ k + 1 \in Nat \ {0} /\ k + 1 # 1
  <2>1. k \in 1..PacketCount(s[n]) /\ s[n] \in Nat /\ n \in 1..Len(s)
    BY DEF Holds
  <2>2. PacketCount(s[n]) \in Nat
    BY <2>1, CountIs
  <2>3. k \in Nat \ {0}
    BY <2>1, <2>2
  <2>4. k + 1 \in Nat \ {0} /\ k + 1 # 1
    BY <2>3
  <2>5. r.total = s[n] /\ Len(r.out) = b /\ Begins(r.out, n)
    BY DEF Holds
  <2>6. k + 1 \in 1..PacketCount(s[n]) /\ Carries(p.data, c, n, s[n], b)
    BY DEF Of, IsPacket
  <2>7. r.out \in Seq(Bytes) /\ p.data \in Seq(Bytes)
    BY DEF Reader, Packet
  <2> QED
    BY <2>1, <2>3, <2>4, <2>5, <2>6, <2>7
<1>2. b \in Nat /\ c \in Nat \ {0} /\ Before(k + 1 + 1) = b + c
  BY <1>1, RoomIs
<1>3. b < s[n] /\ s[n] \in Nat
  <2> DEFINE x == k + 1
  <2>1. s[n] \in Nat /\ x \in 1..PacketCount(s[n]) /\ x # 1
    BY <1>1
  <2> HIDE DEF x
  <2>2. Before(x) < s[n]
    BY <2>1, CountIs
  <2> QED
    BY <2>1, <2>2 DEF x
<1> HIDE DEF k, b, c
<1>4. r.out \o p.data \in Seq(Bytes) /\ Carries(r.out \o p.data, b + c, n, s[n], 0)
  <2>1. Len(r.out) < s[n] /\ Carries(p.data, c, n, s[n], Len(r.out))
    BY <1>1, <1>3
  <2>2. r.out \o p.data \in Seq(Bytes) /\ Carries(r.out \o p.data, Len(r.out) + c, n, s[n], 0)
    BY <1>1, <1>2, <1>3, <2>1, CarriesMore
  <2> QED
    BY <1>1, <2>2
<1> QED
  BY <1>1, <1>2, <1>4 DEF k

-----------------------------------------------------------------------------
(* A packet of an answer has a number from one on.                         *)
LEMMA OfType ==
  ASSUME NEW s \in Seq(Nat), NEW p, NEW n, NEW k, Of(s, p, n, k)
  PROVE  /\ n \in 1..Len(s) /\ s[n] \in Nat /\ PacketCount(s[n]) \in Nat \ {0}
         /\ k \in 1..PacketCount(s[n]) /\ k \in Nat \ {0} /\ p.sequence = k - 1
<1>1. n \in 1..Len(s) /\ s[n] \in Nat /\ k \in 1..PacketCount(s[n]) /\ p.sequence = k - 1
  BY DEF Of, IsPacket
<1>2. PacketCount(s[n]) \in Nat \ {0}
  BY <1>1, CountIs
<1> QED
  BY <1>1, <1>2

(* What holds of the packets on the wire holds of the last ones.           *)
LEMMA SuffixKeeps ==
  ASSUME NEW s, NEW w \in Seq(Packet), NEW v \in Seq(Packet), NEW d \in Nat,
         d <= Len(w), Len(v) = Len(w) - d, \A i \in 1..Len(v) : v[i] = w[d + i]
  PROVE  /\ WireIsGenuine(s, w) => WireIsGenuine(s, v)
         /\ WireFits(s, w) => WireFits(s, v)
         /\ Unbroken(s, w) => Unbroken(s, v)
<1>1. \A i \in 1..Len(v) :
        /\ d + i \in 1..Len(w) /\ d + (i + 1) = d + i + 1
        /\ (i + 1 <= Len(v) <=> d + i + 1 <= Len(w))
        /\ (i + 1 <= Len(v) => i + 1 \in 1..Len(v))
  BY LenProperties
<1>2. ASSUME WireIsGenuine(s, w) PROVE WireIsGenuine(s, v)
  BY <1>1, <1>2 DEF WireIsGenuine
<1>3. ASSUME WireFits(s, w) PROVE WireFits(s, v)
  <2> SUFFICES ASSUME NEW i \in 1..Len(v), i + 1 <= Len(v) PROVE Fits(s, v[i], v[i + 1])
    BY DEF WireFits
  <2>1. Fits(s, w[d + i], w[d + i + 1])
    BY <1>1, <1>3 DEF WireFits
  <2>2. i + 1 \in 1..Len(v) /\ d + (i + 1) = d + i + 1
    BY <1>1
  <2>3. v[i] = w[d + i] /\ v[i + 1] = w[d + (i + 1)]
    BY <2>2
  <2> QED
    BY <2>1, <2>2, <2>3
<1>4. ASSUME Unbroken(s, w) PROVE Unbroken(s, v)
  <2>1. \A i \in 1..Len(v) : v[i].sound
    BY <1>1, <1>4 DEF Unbroken
  <2>2. \A i \in 1..Len(v) : i + 1 <= Len(v) => Follows(s, v[i], v[i + 1])
    BY <1>1, <1>4 DEF Unbroken
  <2>3. \A i \in 1..Len(v) : ~(i + 1 <= Len(v)) => Completes(s, v[i])
    BY <1>1, <1>4 DEF Unbroken
  <2> QED
    BY <2>1, <2>2, <2>3 DEF Unbroken
<1> QED
  BY <1>2, <1>3, <1>4

(* The packets that are left when the first one is read.                   *)
LEMMA TailIs ==
  ASSUME NEW w \in Seq(Packet), w # <<>>
  PROVE  /\ Head(w) = w[1] /\ w[1] \in Packet /\ Tail(w) \in Seq(Packet)
         /\ Len(w) \in Nat \ {0} /\ Len(Tail(w)) = Len(w) - 1
         /\ \A i \in 1..Len(Tail(w)) : Tail(w)[i] = w[1 + i]
         /\ Tail(w) # <<>> => 1 + 1 <= Len(w) /\ Tail(w)[1] = w[1 + 1]
         /\ Tail(w) = <<>> => Len(w) = 1
<1>1. Len(w) \in Nat \ {0} /\ Head(w) = w[1] /\ w[1] \in Packet
  BY EmptySeq, LenProperties, HeadTailProperties, ElementOfSeq
<1>2. /\ Tail(w) \in Seq(Packet) /\ Len(Tail(w)) = Len(w) - 1
      /\ \A i \in 1..Len(Tail(w)) : Tail(w)[i] = w[i + 1]
  BY HeadTailProperties
<1>3. \A i \in 1..Len(Tail(w)) : Tail(w)[i] = w[1 + i]
  <2>1. \A i \in 1..Len(Tail(w)) : i + 1 = 1 + i
    BY <1>1, <1>2
  <2> QED
    BY <1>2, <2>1
<1>4. ASSUME Tail(w) # <<>> PROVE 1 + 1 <= Len(w) /\ Tail(w)[1] = w[1 + 1]
  <2>1. Len(Tail(w)) # 0
    BY <1>2, <1>4, EmptySeq
  <2>2. 1 \in 1..Len(Tail(w)) /\ 1 + 1 <= Len(w)
    BY <1>1, <1>2, <2>1
  <2> QED
    BY <1>3, <2>2
<1>5. ASSUME Tail(w) = <<>> PROVE Len(w) = 1
  <2> DEFINE l == Len(w)
             t == Len(Tail(w))
  <2>1. t = 0 /\ l \in Nat /\ t = l - 1
    BY <1>1, <1>2, <1>5, EmptySeq
  <2> HIDE DEF l, t
  <2>2. l = 1
    BY <2>1
  <2> QED
    BY <2>2 DEF l
<1> QED
  BY <1>1, <1>2, <1>3, <1>4, <1>5

(* Nothing is said of the wire once two packets did not arrive as sent.    *)
LEMMA ManyFaults ==
  ASSUME HidInv, ~(faults <= 1), TypeOK', WireIsGenuine(sent', wire'),
         faults' = faults, aligned' = aligned
  PROVE  HidInv'
<1>1. faults \in Nat /\ faults # 0 /\ ~aligned
  BY DEF HidInv, TypeOK
<1> QED
  BY <1>1 DEF HidInv

(* The wire loses its first packet.                                        *)
LEMMA TailKeeps ==
  ASSUME HidInv, wire # <<>>
  PROVE  /\ Tail(wire) \in Seq(Packet) /\ WireIsGenuine(sent, Tail(wire))
         /\ faults <= 1 => WireFits(sent, Tail(wire))
         /\ faults = 0 => Unbroken(sent, Tail(wire))
<1>1. wire \in Seq(Packet) /\ WireIsGenuine(sent, wire)
      /\ (faults <= 1 => WireFits(sent, wire)) /\ (faults = 0 => Unbroken(sent, wire))
  BY DEF HidInv, TypeOK
<1> DEFINE v == Tail(wire)
<1>2. /\ v \in Seq(Packet) /\ 1 <= Len(wire) /\ Len(v) = Len(wire) - 1
      /\ \A i \in 1..Len(v) : v[i] = wire[1 + i]
  BY <1>1, TailIs
<1> HIDE DEF v
<1>3. /\ WireIsGenuine(sent, wire) => WireIsGenuine(sent, v)
      /\ WireFits(sent, wire) => WireFits(sent, v)
      /\ Unbroken(sent, wire) => Unbroken(sent, v)
  BY <1>1, <1>2, SuffixKeeps
<1> QED
  BY <1>1, <1>2, <1>3 DEF v

(* A packet is taken in: what the process holds is again the beginning of  *)
(* an answer, or a whole one.                                              *)
LEMMA TookType ==
  ASSUME TypeOK, NEW out \in Seq(Bytes), NEW total \in Nat, NEW k \in Nat,
         Took(out, total, k)
  PROVE  reader' \in Reader /\ returned' \in Seq(Seq(Bytes))
<1>1. returned \in Seq(Seq(Bytes)) /\ Len(out) \in Nat
  BY LenProperties DEF TypeOK
<1>2. CASE MoreToRead(out, total)
  <2>1. returned' = returned
        /\ reader' = [phase |-> "reading", total |-> total, out |-> out, sequence |-> k]
    BY <1>2 DEF Took
  <2>2. reader' \in Reader
    BY <2>1 DEF Reader
  <2> QED
    BY <1>1, <2>1, <2>2
<1>3. CASE ~MoreToRead(out, total)
  <2>1. SubSeq(out, 1, total) \in Seq(Bytes)
    <3>1. \A i \in 1..total : out[i] \in Bytes
      <4>1. total <= Len(out)
        BY <1>1, <1>3 DEF MoreToRead
      <4> QED
        BY <1>1, <4>1, ElementOfSeq
    <3> QED
      BY <3>1, SubSeqProperties
  <2>2. reader' = Idle /\ returned' = Append(returned, SubSeq(out, 1, total))
    BY <1>3 DEF Took
  <2>3. Idle \in Reader
    BY EmptySeq DEF Idle, Reader
  <2> HIDE DEF Idle
  <2> QED
    BY <1>1, <2>1, <2>2, <2>3, AppendProperties
<1> QED
  BY <1>2, <1>3

(* Taking in the packet that is due, the last one of its answer or not.    *)
LEMMA TookKeeps ==
  ASSUME HidInv, faults <= 1, wire # <<>>, NEW n \in 1..Len(sent),
         NEW k \in 1..PacketCount(sent[n]), NEW out \in Seq(Bytes),
         Carries(out, Before(k + 1), n, sent[n], 0), Of(sent, wire[1], n, k),
         Took(out, sent[n], k), wire' = Tail(wire), UNCHANGED <<sent, faults, aligned>>
  PROVE  HidInv'
<1> DEFINE count == PacketCount(sent[n])
           more == MoreToRead(out, sent[n])
<1>1. /\ TypeOK /\ sent \in Seq(Nat) /\ wire \in Seq(Packet) /\ faults \in Nat
      /\ WireFits(sent, wire) /\ Whole(sent, returned) /\ WireIsGenuine(sent, wire)
      /\ (faults = 0 => Unbroken(sent, wire)) /\ (aligned => faults = 0)
  BY DEF HidInv, TypeOK
<1>2. /\ k \in Nat \ {0} /\ sent[n] \in Nat /\ count \in Nat \ {0}
  BY <1>1, OfType
<1>3. /\ more <=> k < count
      /\ more => Holds(sent, [phase |-> "reading", total |-> sent[n], out |-> out,
                              sequence |-> k], n)
      /\ ~more => SubSeq(out, 1, sent[n]) = Payload(n, sent[n])
  BY <1>1, TakenIs
<1>4. /\ wire' \in Seq(Packet) /\ WireIsGenuine(sent, wire') /\ WireFits(sent, wire')
      /\ faults = 0 => Unbroken(sent, wire')
  BY TailKeeps
<1>5. /\ Len(wire) \in Nat \ {0} /\ 1 \in 1..Len(wire)
      /\ wire' # <<>> => 1 + 1 <= Len(wire) /\ wire'[1] = wire[1 + 1]
      /\ wire' = <<>> => ~(1 + 1 <= Len(wire))
  <2>1. /\ Len(wire) \in Nat \ {0}
        /\ wire' # <<>> => 1 + 1 <= Len(wire) /\ wire'[1] = wire[1 + 1]
    BY <1>1, TailIs
  <2>2. ASSUME wire' = <<>> PROVE ~(1 + 1 <= Len(wire))
    <3>1. Len(wire) = 1
      BY <1>1, <2>2, TailIs
    <3> QED
      BY <2>1, <3>1
  <2> QED
    BY <2>1, <2>2
<1>6. reader' \in Reader /\ returned' \in Seq(Seq(Bytes))
  BY <1>1, <1>2, TookType
<1>7. TypeOK'
  BY <1>1, <1>4, <1>6 DEF TypeOK
<1> HIDE DEF count, more
<1>8. CASE more
  <2>1. /\ reader' = [phase |-> "reading", total |-> sent[n], out |-> out, sequence |-> k]
        /\ returned' = returned
    BY <1>8 DEF Took, more
  <2>2. reader'.phase = "reading" /\ reader'.sequence = k /\ Holds(sent, reader', n)
    BY <1>3, <1>8, <2>1
  <2>3. ReaderFits(sent, wire', reader')
    <3>1. ASSUME wire' # <<>>, wire'[1].sequence = k PROVE Of(sent, wire'[1], n, k + 1)
      <4>1. Fits(sent, wire[1], wire[1 + 1]) /\ wire'[1] = wire[1 + 1]
        BY <1>1, <1>5, <3>1 DEF WireFits
      <4> QED
        BY <1>3, <1>8, <3>1, <4>1 DEF Fits, count
    <3> QED
      BY <2>2, <3>1 DEF ReaderFits
  <2>4. ASSUME faults = 0 PROVE IsDue(wire', reader')
    <3>1. wire' # <<>>
      <4>1. ASSUME wire' = <<>> PROVE FALSE
        <5>1. Completes(sent, wire[1])
          BY <1>1, <1>5, <2>4, <4>1 DEF Unbroken
        <5>2. k = count
          BY <5>1 DEF Completes, count
        <5> QED
          BY <1>2, <1>3, <1>8, <5>2
      <4> QED
        BY <4>1
    <3>2. Follows(sent, wire[1], wire[1 + 1]) /\ wire'[1] = wire[1 + 1]
      BY <1>1, <1>5, <2>4, <3>1 DEF Unbroken
    <3>3. wire'[1].sequence = k
      BY <1>3, <1>8, <3>2 DEF Follows, count
    <3> QED
      BY <2>2, <3>1, <3>3 DEF IsDue
  <2>5. InStep(wire', reader')
    BY <2>2 DEF InStep
  <2> QED
    BY <1>1, <1>4, <1>7, <2>1, <2>3, <2>4, <2>5 DEF HidInv
<1>9. CASE ~more
  <2>1. reader' = Idle /\ returned' = Append(returned, SubSeq(out, 1, sent[n]))
    BY <1>9 DEF Took, more
  <2>2. reader'.phase = "idle"
    BY <2>1 DEF Idle
  <2>3. ReaderFits(sent, wire', reader') /\ IsDue(wire', reader')
    BY <2>2 DEF ReaderFits, IsDue
  <2>4. Whole(sent, returned')
    <3> DEFINE x == Payload(n, sent[n])
    <3>1. returned' = Append(returned, x) /\ returned \in Seq(Seq(Bytes))
      BY <1>1, <1>3, <1>9, <2>1 DEF TypeOK
    <3>2. x \in Seq(Bytes)
      BY <1>2, PayloadIs
    <3> HIDE DEF x
    <3>3. /\ Len(returned) \in Nat /\ Len(returned') = Len(returned) + 1
          /\ returned'[Len(returned) + 1] = x
          /\ \A i \in 1..Len(returned) : returned'[i] = returned[i]
      BY <3>1, <3>2, AppendProperties, LenProperties
    <3>4. \A i \in 1..Len(returned') : i \in 1..Len(returned) \/ i = Len(returned) + 1
      BY <3>3
    <3> QED
      BY <1>1, <3>3, <3>4 DEF Whole, x
  <2>5. ASSUME aligned PROVE InStep(wire', reader')
    <3>1. ASSUME wire' # <<>> PROVE wire'[1].sequence = 0
      <4>1. Follows(sent, wire[1], wire[1 + 1]) /\ wire'[1] = wire[1 + 1]
        BY <1>1, <1>5, <2>5, <3>1 DEF Unbroken
      <4> QED
        BY <1>3, <1>9, <4>1 DEF Follows, count
    <3> QED
      BY <2>2, <3>1 DEF InStep
  <2> QED
    BY <1>1, <1>4, <1>7, <2>3, <2>4, <2>5 DEF HidInv
<1> QED
  BY <1>8, <1>9

-----------------------------------------------------------------------------
(* One lemma per action.                                                   *)
LEMMA InitHidInv == Init => HidInv
<1> SUFFICES ASSUME Init PROVE HidInv
  OBVIOUS
<1>1. sent = <<>> /\ wire = <<>> /\ returned = <<>> /\ reader = Idle /\ faults = 0
  BY DEF Init
<1>2. /\ Idle \in Reader /\ Idle.phase = "idle" /\ Len(wire) = 0 /\ Len(returned) = 0
  BY <1>1, EmptySeq DEF Idle, Reader
<1>3. TypeOK
  BY <1>1, <1>2, EmptySeq DEF TypeOK, Init
<1>4. WireIsGenuine(sent, wire) /\ WireFits(sent, wire) /\ Unbroken(sent, wire)
  BY <1>2 DEF WireIsGenuine, WireFits, Unbroken
<1>5. ReaderFits(sent, wire, reader) /\ IsDue(wire, reader) /\ InStep(wire, reader)
  BY <1>1, <1>2 DEF ReaderFits, IsDue, InStep
<1>6. Whole(sent, returned)
  BY <1>2 DEF Whole
<1> QED
  BY <1>1, <1>3, <1>4, <1>5, <1>6 DEF HidInv

(* The first packet an idle reader accepts is the first one of an answer.  *)
LEMMA ReadFirstKeeps == HidInv /\ ReadFirst => HidInv'
<1> SUFFICES ASSUME HidInv, ReadFirst PROVE HidInv'
  OBVIOUS
<1> DEFINE p == wire[1]
<1>1. /\ TypeOK /\ sent \in Seq(Nat) /\ wire \in Seq(Packet) /\ wire # <<>>
      /\ WireIsGenuine(sent, wire) /\ wire' = Tail(wire) /\ UNCHANGED <<sent, faults, aligned>>
  BY DEF HidInv, TypeOK, ReadFirst
<1>2. Head(wire) = p /\ p \in Packet /\ 1 \in 1..Len(wire)
  BY <1>1, TailIs
<1>3. p.sequence = 0 /\ Took(p.data, p.total, 1)
  BY <1>2 DEF ReadFirst, ValidHeader
<1>4. PICK n \in 1..Len(sent) : Of(sent, p, n, 1)
  <2>1. PICK n, k : Of(sent, p, n, k)
    BY <1>1, <1>2 DEF WireIsGenuine, Genuine
  <2>2. k - 1 = 0 /\ k \in Nat
    BY <1>1, <1>3, <2>1, OfType
  <2>3. k = 1
    BY <2>2
  <2> QED
    BY <2>1, <2>3 DEF Of
<1> HIDE DEF p
<1>5. /\ p.data \in Seq(Bytes) /\ p.total = sent[n] /\ 1 \in 1..PacketCount(sent[n])
      /\ Carries(p.data, Before(1 + 1), n, sent[n], 0)
  BY <1>1, <1>2, <1>4, FirstTaken
<1>6. CASE faults <= 1
  BY <1>1, <1>3, <1>4, <1>5, <1>6, TookKeeps DEF p
<1>7. CASE ~(faults <= 1)
  <2>1. reader' \in Reader /\ returned' \in Seq(Seq(Bytes))
    BY <1>1, <1>3, <1>5, TookType
  <2>2. wire' \in Seq(Packet) /\ WireIsGenuine(sent', wire')
    BY <1>1, TailKeeps
  <2>3. TypeOK'
    BY <1>1, <2>1, <2>2 DEF TypeOK
  <2> QED
    BY <1>1, <1>7, <2>2, <2>3, ManyFaults
<1> QED
  BY <1>6, <1>7

(* The packet a reader accepts is the one after those it holds.            *)
LEMMA ReadContinuationKeeps == HidInv /\ ReadContinuation => HidInv'
<1> SUFFICES ASSUME HidInv, ReadContinuation PROVE HidInv'
  OBVIOUS
<1> DEFINE p == wire[1]
           out == reader.out \o p.data
           k == reader.sequence + 1
<1>1. /\ TypeOK /\ sent \in Seq(Nat) /\ wire \in Seq(Packet) /\ wire # <<>> /\ reader \in Reader
      /\ wire' = Tail(wire) /\ UNCHANGED <<sent, faults, aligned>>
      /\ reader.phase = "reading"
  BY DEF HidInv, TypeOK, ReadContinuation
<1>2. Head(wire) = p /\ p \in Packet
  BY <1>1, TailIs
<1>3. p.sequence = reader.sequence /\ Took(out, reader.total, k)
  BY <1>2 DEF ReadContinuation, ValidHeader
<1> HIDE DEF out, k
<1>4. CASE faults <= 1
  <2>1. PICK n \in 1..Len(sent) : Holds(sent, reader, n) /\ Of(sent, p, n, k)
    <3>1. ReaderFits(sent, wire, reader)
      BY <1>4 DEF HidInv
    <3> QED
      BY <1>1, <1>3, <3>1 DEF ReaderFits, k
  <2>2. /\ out \in Seq(Bytes) /\ reader.total = sent[n] /\ k \in 1..PacketCount(sent[n])
        /\ Carries(out, Before(k + 1), n, sent[n], 0)
    BY <1>1, <1>2, <2>1, NextTaken DEF out, k
  <2> QED
    BY <1>1, <1>3, <1>4, <2>1, <2>2, TookKeeps
<1>5. CASE ~(faults <= 1)
  <2>1. out \in Seq(Bytes) /\ reader.total \in Nat /\ k \in Nat
    <3>1. reader.out \in Seq(Bytes) /\ p.data \in Seq(Bytes)
      BY <1>1, <1>2 DEF Reader, Packet
    <3>2. reader.out \o p.data \in Seq(Bytes)
      BY <3>1, ConcatProperties
    <3>3. reader.total \in Nat /\ reader.sequence \in Nat
      BY <1>1 DEF Reader
    <3>4. k \in Nat
      BY <3>3 DEF k
    <3> QED
      BY <3>2, <3>3, <3>4 DEF out
  <2>2. reader' \in Reader /\ returned' \in Seq(Seq(Bytes))
    BY <1>1, <1>3, <2>1, TookType
  <2>3. wire' \in Seq(Packet) /\ WireIsGenuine(sent', wire')
    BY <1>1, TailKeeps
  <2>4. TypeOK'
    BY <1>1, <2>2, <2>3 DEF TypeOK
  <2> QED
    BY <1>1, <1>5, <2>3, <2>4, ManyFaults
<1> QED
  BY <1>4, <1>5

(* A read fails only after a fault or between the packets of an answer.    *)
LEMMA ReadFailsKeeps == HidInv /\ ReadFails => HidInv'
<1> SUFFICES ASSUME HidInv, ReadFails PROVE HidInv'
  OBVIOUS
<1>1. /\ TypeOK /\ wire \in Seq(Packet) /\ wire # <<>> /\ wire' = Tail(wire)
      /\ reader' = Ended("failed") /\ UNCHANGED <<sent, returned, faults, aligned>>
  BY DEF HidInv, TypeOK, ReadFails
<1>2. reader' \in Reader /\ reader'.phase = "failed"
  BY <1>1, EmptySeq DEF Ended, Idle, Reader
<1>3. /\ wire' \in Seq(Packet) /\ WireIsGenuine(sent, wire')
      /\ faults <= 1 => WireFits(sent, wire')
      /\ faults = 0 => Unbroken(sent, wire')
  BY <1>1, TailKeeps
<1>4. ReaderFits(sent, wire', reader') /\ IsDue(wire', reader')
  BY <1>2 DEF ReaderFits, IsDue
<1>5. ~aligned
  <2> SUFFICES ASSUME aligned PROVE FALSE
    OBVIOUS
  <2>1. InStep(wire, reader) /\ Unbroken(sent, wire) /\ IsDue(wire, reader)
    BY DEF HidInv
  <2>2. Head(wire) = wire[1] /\ 1 \in 1..Len(wire)
    BY <1>1, TailIs
  <2>3. wire[1].sound
    BY <2>1, <2>2 DEF Unbroken
  <2>4. CASE reader.phase = "idle"
    BY <1>1, <2>1, <2>2, <2>3, <2>4 DEF InStep, ReadFails, ValidHeader
  <2>5. CASE reader.phase = "reading"
    BY <1>1, <2>1, <2>2, <2>3, <2>5 DEF IsDue, ReadFails, ValidHeader
  <2> QED
    BY <2>4, <2>5 DEF ReadFails
<1>6. TypeOK'
  BY <1>1, <1>2, <1>3 DEF TypeOK
<1> QED
  BY <1>1, <1>3, <1>4, <1>5, <1>6 DEF HidInv

(* A reader that gives up holds nothing.                                   *)
LEMMA ReadTimesOutKeeps == HidInv /\ ReadTimesOut => HidInv'
<1> SUFFICES ASSUME HidInv, ReadTimesOut PROVE HidInv'
  OBVIOUS
<1>1. /\ TypeOK /\ wire = <<>> /\ reader' = Ended("timed out")
      /\ UNCHANGED <<sent, wire, returned, faults, aligned>>
  BY DEF HidInv, ReadTimesOut
<1>2. reader' \in Reader /\ reader'.phase = "timed out"
  BY <1>1, EmptySeq DEF Ended, Idle, Reader
<1>3. ReaderFits(sent, wire', reader') /\ IsDue(wire', reader') /\ InStep(wire', reader')
  BY <1>1, <1>2 DEF ReaderFits, IsDue, InStep
<1>4. TypeOK'
  BY <1>1, <1>2 DEF TypeOK
<1> QED
  BY <1>1, <1>3, <1>4 DEF HidInv

(* What a process finds that opens the device is the end of what was on    *)
(* the way.                                                                *)
LEMMA OpenKeeps == HidInv /\ Open => HidInv'
<1> SUFFICES ASSUME HidInv, Open PROVE HidInv'
  OBVIOUS
<1>1. /\ TypeOK /\ sent \in Seq(Nat) /\ wire \in Seq(Packet) /\ reader' = Idle
      /\ Len(wire) \in Nat /\ UNCHANGED <<sent, returned, faults>>
  BY LenProperties DEF HidInv, TypeOK, Open
<1>2. PICK d \in 0..Len(wire) :
        /\ wire' = SubSeq(wire, d + 1, Len(wire))
        /\ aligned' = (aligned /\ (wire' # <<>> => Head(wire').sequence = 0))
  BY DEF Open
<1>3. /\ wire' \in Seq(Packet) /\ Len(wire') = Len(wire) - d
      /\ \A i \in 1..Len(wire') : wire'[i] = wire[d + i]
  <2> DEFINE v == SubSeq(wire, d + 1, Len(wire))
  <2>1. \A i \in (d + 1)..Len(wire) : wire[i] \in Packet
    BY <1>1, ElementOfSeq
  <2>2. /\ v \in Seq(Packet)
        /\ Len(v) = IF d + 1 <= Len(wire) THEN Len(wire) - (d + 1) + 1 ELSE 0
        /\ \A i \in 1..(Len(wire) - (d + 1) + 1) : v[i] = wire[d + 1 + i - 1]
    BY <1>1, <2>1, SubSeqProperties
  <2> HIDE DEF v
  <2>3. Len(v) = Len(wire) - d /\ Len(wire) - (d + 1) + 1 = Len(wire) - d
    BY <1>1, <2>2
  <2>4. \A i \in 1..Len(v) : d + 1 + i - 1 = d + i
    BY <1>1, <2>3
  <2> QED
    BY <1>2, <2>2, <2>3, <2>4 DEF v
<1>4. /\ WireIsGenuine(sent, wire) => WireIsGenuine(sent, wire')
      /\ WireFits(sent, wire) => WireFits(sent, wire')
      /\ Unbroken(sent, wire) => Unbroken(sent, wire')
  <2> DEFINE v == wire'
  <2>1. d \in Nat /\ d <= Len(wire)
    BY <1>1
  <2>3. /\ v \in Seq(Packet) /\ Len(v) = Len(wire) - d
        /\ \A i \in 1..Len(v) : v[i] = wire[d + i]
    BY <1>3, Zenon
  <2> HIDE DEF v
  <2>2. /\ WireIsGenuine(sent, wire) => WireIsGenuine(sent, v)
        /\ WireFits(sent, wire) => WireFits(sent, v)
        /\ Unbroken(sent, wire) => Unbroken(sent, v)
    BY <1>1, <2>1, <2>3, SuffixKeeps
  <2> QED
    BY <2>2 DEF v
<1>5. Idle \in Reader /\ Idle.phase = "idle"
  BY EmptySeq DEF Idle, Reader
<1>6. ReaderFits(sent, wire', reader') /\ IsDue(wire', reader')
  BY <1>1, <1>5 DEF ReaderFits, IsDue
<1>7. ASSUME aligned' PROVE aligned /\ InStep(wire', reader')
  <2>1. wire' # <<>> => Head(wire') = wire'[1]
    BY <1>3, HeadTailProperties
  <2> QED
    BY <1>1, <1>2, <1>5, <1>7, <2>1 DEF InStep
<1>8. TypeOK'
  BY <1>1, <1>2, <1>3, <1>5 DEF TypeOK
<1> QED
  BY <1>1, <1>4, <1>6, <1>7, <1>8 DEF HidInv

(* The packets of a new answer follow one another and nothing else.        *)
LEMMA NewPackets ==
  ASSUME NEW s \in Seq(Nat), NEW n \in 1..Len(s), NEW w \in Seq(Packet),
         w = wrap_apdu(Payload(n, s[n]))
  PROVE  /\ Len(w) \in Nat \ {0} /\ w[1].sequence = 0
         /\ WireIsGenuine(s, w) /\ WireFits(s, w) /\ Unbroken(s, w)
<1> DEFINE count == PacketCount(s[n])
<1>1. s[n] \in Nat /\ n \in Nat /\ count \in Nat \ {0}
  <2>1. s[n] \in Nat /\ n \in Nat
    OBVIOUS
  <2> QED
    BY <2>1, CountIs
<1>2. /\ Len(w) = count
      /\ \A i \in 1..count : w[i].sound /\ IsPacket(w[i], n, i, s[n])
  BY <1>1, WrapIs
<1>3. \A i \in 1..Len(w) : Of(s, w[i], n, i) /\ w[i].sequence = i - 1
  BY <1>2 DEF Of, IsPacket
<1> HIDE DEF count
<1>4. \A i \in 1..Len(w) : i \in Nat \ {0} /\ (i + 1 <= Len(w) => i + 1 \in 1..Len(w) /\ i + 1 - 1 = i)
                          /\ (i + 1 <= Len(w) <=> i < count) /\ (~(i + 1 <= Len(w)) => i = count)
  BY <1>1, <1>2
<1>5. Len(w) \in Nat \ {0} /\ w[1].sequence = 0
  <2>1. 1 \in 1..Len(w) /\ 1 - 1 = 0
    BY <1>1, <1>2
  <2> QED
    BY <1>1, <1>2, <1>3, <2>1
<1>6. ASSUME NEW i \in 1..Len(w), NEW m, NEW k, Of(s, w[i], m, k)
      PROVE  k = i /\ (m = n \/ (i = 1 /\ PacketCount(s[m]) = 1 /\ count = 1))
  <2>1. Of(s, w[i], n, i)
    BY <1>3
  <2>2. k = i /\ (n = m \/ (i = 1 /\ PacketCount(s[n]) = 1 /\ PacketCount(s[m]) = 1))
    BY <1>6, <2>1, PacketIsOne
  <2> QED
    BY <2>2 DEF count
<1>7. WireIsGenuine(s, w)
  BY <1>3 DEF WireIsGenuine, Genuine, Of
<1>8. ASSUME NEW i \in 1..Len(w), i + 1 <= Len(w)
      PROVE  Fits(s, w[i], w[i + 1]) /\ Follows(s, w[i], w[i + 1])
  <2>1. i < count /\ i \in Nat \ {0} /\ i + 1 \in 1..Len(w) /\ i + 1 - 1 = i
    BY <1>4, <1>8
  <2>2. w[i + 1].sequence = i /\ Of(s, w[i + 1], n, i + 1)
    BY <1>3, <2>1
  <2>3. ASSUME NEW m, NEW k, Of(s, w[i], m, k) PROVE k = i /\ m = n
    <3>1. k = i /\ (m = n \/ (i = 1 /\ count = 1))
      BY <1>6, <2>3
    <3> QED
      BY <1>1, <2>1, <3>1
  <2> QED
    BY <2>1, <2>2, <2>3 DEF Fits, Follows, count
<1>9. ASSUME NEW i \in 1..Len(w), ~(i + 1 <= Len(w)) PROVE Completes(s, w[i])
  <2>1. i = count
    BY <1>4, <1>9
  <2>2. ASSUME NEW m, NEW k, Of(s, w[i], m, k) PROVE k = PacketCount(s[m])
    <3>1. k = i /\ (m = n \/ (i = 1 /\ PacketCount(s[m]) = 1))
      BY <1>6, <2>2
    <3> QED
      BY <2>1, <3>1 DEF count
  <2> QED
    BY <2>2 DEF Completes
<1> QED
  BY <1>2, <1>5, <1>7, <1>8, <1>9 DEF WireFits, Unbroken

(* The lengths t are s and one more.                                       *)
OneMore(s, t) == \E len \in Nat : t = Append(s, len)

(* Another answer changes nothing about the packets of the earlier ones.   *)
LEMMA OldPackets ==
  ASSUME NEW s \in Seq(Nat), NEW t, OneMore(s, t), NEW p, Genuine(s, p), NEW q
  PROVE  /\ Genuine(t, p)
         /\ Genuine(s, q) /\ Fits(s, p, q) => Fits(t, p, q)
         /\ Follows(s, p, q) => Follows(t, p, q)
         /\ Completes(s, p) => Completes(t, p)
<1>1. PICK m, j : Of(s, p, m, j)
  BY DEF Genuine
<1>2. /\ t \in Seq(Nat) /\ Len(s) \in Nat /\ Len(t) = Len(s) + 1 /\ Len(s) + 1 \notin 1..Len(s)
      /\ \A n \in 1..Len(s) : n \in 1..Len(t) /\ t[n] = s[n]
  BY OfNext DEF OneMore
<1>3. \A n, k : (Of(s, p, n, k) => Of(t, p, n, k)) /\ (Of(s, q, n, k) => Of(t, q, n, k))
  BY OfNext DEF OneMore
<1>4. Of(t, p, m, j) /\ m \in 1..Len(s) /\ t[m] = s[m]
  BY <1>1, <1>2, <1>3 DEF Of
<1>5. ASSUME NEW n, NEW k, Of(t, p, n, k)
      PROVE  \/ Of(s, p, n, k) /\ t[n] = s[n]
             \/ /\ k = j /\ k = 1 /\ PacketCount(t[n]) = 1 /\ PacketCount(s[m]) = 1
  <2>1. CASE Of(s, p, n, k)
    BY <1>2, <2>1 DEF Of
  <2>2. CASE ~Of(s, p, n, k)
    <3>1. n = Len(s) + 1
      BY <1>5, <2>2, OfNext DEF OneMore
    <3>2. n # m
      BY <1>2, <1>4, <3>1
    <3>3. k = j /\ (m = n \/ (j = 1 /\ PacketCount(t[m]) = 1 /\ PacketCount(t[n]) = 1))
      <4>1. t \in Seq(Nat) /\ Of(t, p, m, j) /\ Of(t, p, n, k)
        BY <1>2, <1>4, <1>5
      <4> QED
        BY <4>1, PacketIsOne
    <3>4. k = j /\ j = 1 /\ PacketCount(t[m]) = 1 /\ PacketCount(t[n]) = 1
      BY <3>2, <3>3
    <3>5. t[m] = s[m]
      BY <1>4
    <3>6. PacketCount(s[m]) = 1
      BY <3>4, <3>5
    <3>7. k = j /\ k = 1 /\ PacketCount(t[n]) = 1
      BY <3>4
    <3> QED
      BY <3>6, <3>7
  <2> QED
    BY <2>1, <2>2
<1>6. Genuine(t, p)
  BY <1>4 DEF Genuine, Of
<1>7. ASSUME Fits(s, p, q) PROVE Fits(t, p, q)
  <2>1. ASSUME NEW n, NEW k, Of(t, p, n, k), k < PacketCount(t[n]), q.sequence = k
        PROVE  Of(t, q, n, k + 1)
    <3>1. CASE Of(s, p, n, k) /\ t[n] = s[n]
      BY <1>3, <1>7, <2>1, <3>1 DEF Fits
    <3>2. CASE k = 1 /\ PacketCount(t[n]) = 1
      <4>1. FALSE
        BY <2>1, <3>2
      <4> QED
        BY <4>1
    <3> QED
      BY <1>5, <2>1, <3>1, <3>2
  <2> QED
    BY <2>1 DEF Fits
<1>8. ASSUME Follows(s, p, q) PROVE Follows(t, p, q)
  <2>1. ASSUME NEW n, NEW k, Of(t, p, n, k)
        PROVE  /\ k < PacketCount(t[n]) => q.sequence = k
               /\ ~(k < PacketCount(t[n])) => q.sequence = 0
    <3>1. CASE Of(s, p, n, k) /\ t[n] = s[n]
      BY <1>8, <3>1 DEF Follows
    <3>2. CASE k = j /\ k = 1 /\ PacketCount(t[n]) = 1 /\ PacketCount(s[m]) = 1
      <4>1. ~(1 < 1)
        OBVIOUS
      <4>2. ~(j < PacketCount(s[m])) => q.sequence = 0
        BY <1>1, <1>8 DEF Follows
      <4> QED
        BY <3>2, <4>1, <4>2
    <3> QED
      BY <1>5, <2>1, <3>1, <3>2
  <2> QED
    BY <2>1 DEF Follows
<1>9. ASSUME Completes(s, p) PROVE Completes(t, p)
  <2>1. ASSUME NEW n, NEW k, Of(t, p, n, k) PROVE k = PacketCount(t[n])
    BY <1>5, <1>9, <2>1 DEF Completes
  <2> QED
    BY <2>1 DEF Completes
<1> QED
  BY <1>6, <1>7, <1>8, <1>9

(* The packets of one more answer, after those on the wire.                *)
LEMMA JoinKeeps ==
  ASSUME NEW s \in Seq(Nat), NEW t \in Seq(Nat), OneMore(s, t),
         NEW w \in Seq(Packet), NEW x \in Seq(Packet), NEW v \in Seq(Packet),
         Len(v) = Len(w) + Len(x),
         \A i \in 1..Len(w) : v[i] = w[i], \A i \in 1..Len(x) : v[Len(w) + i] = x[i],
         WireIsGenuine(s, w), WireIsGenuine(t, x), WireFits(t, x), Unbroken(t, x),
         x[1].sequence = 0, Len(x) # 0
  PROVE  /\ WireIsGenuine(t, v)
         /\ WireFits(s, w) => WireFits(t, v)
         /\ Unbroken(s, w) => Unbroken(t, v)
<1> DEFINE l == Len(w)
<1>1. l \in Nat /\ Len(x) \in Nat
  BY LenProperties
<1>2. ASSUME NEW i \in 1..Len(v)
      PROVE  \/ /\ i \in 1..Len(w) /\ v[i] = w[i] /\ i + 1 <= Len(v)
                /\ i + 1 <= Len(w) => i + 1 \in 1..Len(w) /\ v[i + 1] = w[i + 1]
                /\ ~(i + 1 <= Len(w)) => v[i + 1] = x[1]
             \/ \E j \in 1..Len(x) :
                  /\ v[i] = x[j] /\ (i + 1 <= Len(v) <=> j + 1 <= Len(x))
                  /\ i + 1 <= Len(v) => v[i + 1] = x[j + 1]
  <2>1. CASE i + 1 <= Len(w)
    BY <1>1, <2>1
  <2>2. CASE i = Len(w)
    <3>1. 1 \in 1..Len(x) /\ Len(w) + 1 = i + 1 /\ i \in 1..Len(w) /\ i + 1 <= Len(v)
      BY <1>1, <2>2
    <3>2. v[Len(w) + 1] = x[1]
      BY <3>1
    <3>3. v[i] = w[i] /\ v[i + 1] = x[1] /\ ~(i + 1 <= Len(w))
      BY <1>1, <2>2, <3>1, <3>2
    <3> QED
      BY <3>1, <3>3
  <2>3. CASE i > Len(w)
    <3> DEFINE j == i - Len(w)
    <3>1. /\ j \in 1..Len(x) /\ Len(w) + j = i /\ Len(w) + (j + 1) = i + 1
          /\ (i + 1 <= Len(v) <=> j + 1 <= Len(x))
          /\ (j + 1 <= Len(x) => j + 1 \in 1..Len(x))
      <4> DEFINE a == Len(w)
                 b == Len(x)
                 c == Len(v)
      <4>1. a \in Nat /\ b \in Nat /\ c = a + b /\ i \in 1..c /\ i > a
        BY <1>1, <2>3
      <4> HIDE DEF a, b, c
      <4>2. /\ j \in 1..b /\ a + j = i /\ a + (j + 1) = i + 1
            /\ (i + 1 <= c <=> j + 1 <= b) /\ (j + 1 <= b => j + 1 \in 1..b)
        <5>1. j = i - a
          BY DEF a
        <5> HIDE DEF j
        <5> QED
          BY <4>1, <5>1
      <4> QED
        BY <4>2 DEF a, b, c
    <3> HIDE DEF j
    <3>2. v[i] = x[j] /\ (i + 1 <= Len(v) => v[i + 1] = x[j + 1])
      BY <3>1
    <3> QED
      BY <3>1, <3>2
  <2> QED
    BY <1>1, <2>1, <2>2, <2>3
<1>3. \A i \in 1..Len(w) : Genuine(s, w[i])
  BY DEF WireIsGenuine
<1>4. WireIsGenuine(t, v)
  <2>1. \A i \in 1..Len(w) : Genuine(t, w[i])
    BY <1>3, OldPackets
  <2>2. \A i \in 1..Len(x) : Genuine(t, x[i])
    BY DEF WireIsGenuine
  <2> QED
    BY <1>2, <2>1, <2>2 DEF WireIsGenuine
<1>5. ASSUME WireFits(s, w) PROVE WireFits(t, v)
  <2>1. ASSUME NEW i \in 1..Len(w), i + 1 <= Len(w), i + 1 \in 1..Len(w)
        PROVE  Fits(t, w[i], w[i + 1])
    <3>1. Fits(s, w[i], w[i + 1])
      BY <1>5, <2>1 DEF WireFits
    <3> QED
      BY <1>3, <2>1, <3>1, OldPackets
  <2>2. ASSUME NEW p PROVE Fits(t, p, x[1])
    <3>1. \A n, k : Of(t, p, n, k) => k # 0
      BY OfType
    <3> QED
      BY <3>1 DEF Fits
  <2>3. \A j \in 1..Len(x) : j + 1 <= Len(x) => Fits(t, x[j], x[j + 1])
    BY DEF WireFits
  <2>4. ASSUME NEW i \in 1..Len(v), i + 1 <= Len(v) PROVE Fits(t, v[i], v[i + 1])
    BY <1>2, <2>1, <2>2, <2>3, <2>4
  <2> QED
    BY <2>4 DEF WireFits
<1>6. ASSUME Unbroken(s, w) PROVE Unbroken(t, v)
  <2>1. \A i \in 1..Len(w) : w[i].sound
    BY <1>6 DEF Unbroken
  <2>2. \A i \in 1..Len(x) : x[i].sound
    BY DEF Unbroken
  <2>3. ASSUME NEW i \in 1..Len(w), i + 1 <= Len(w) PROVE Follows(t, w[i], w[i + 1])
    <3>1. Follows(s, w[i], w[i + 1])
      BY <1>6, <2>3 DEF Unbroken
    <3> QED
      BY <1>3, <3>1, OldPackets
  <2>4. ASSUME NEW i \in 1..Len(w), ~(i + 1 <= Len(w)) PROVE Follows(t, w[i], x[1])
    <3>1. Completes(s, w[i])
      BY <1>6, <2>4 DEF Unbroken
    <3>2. Completes(t, w[i])
      BY <1>3, <3>1, OldPackets
    <3>3. \A n, k : Of(t, w[i], n, k) => ~(k < PacketCount(t[n]))
      <4>1. \A n, k : Of(t, w[i], n, k) => k = PacketCount(t[n]) /\ k \in Nat
        BY <3>2, OfType DEF Completes
      <4> QED
        BY <4>1
    <3> QED
      BY <3>3 DEF Follows
  <2>5. \A j \in 1..Len(x) : /\ j + 1 <= Len(x) => Follows(t, x[j], x[j + 1])
                            /\ ~(j + 1 <= Len(x)) => Completes(t, x[j])
    BY DEF Unbroken
  <2>6. \A i \in 1..Len(v) : v[i].sound
    BY <1>2, <2>1, <2>2
  <2>7. ASSUME NEW i \in 1..Len(v), i + 1 <= Len(v) PROVE Follows(t, v[i], v[i + 1])
    <3>1. CASE i \in 1..Len(w) /\ v[i] = w[i] /\ i + 1 <= Len(w) /\ v[i + 1] = w[i + 1]
      BY <2>3, <3>1
    <3>2. CASE i \in 1..Len(w) /\ v[i] = w[i] /\ ~(i + 1 <= Len(w)) /\ v[i + 1] = x[1]
      BY <2>4, <3>2
    <3>3. CASE \E j \in 1..Len(x) : v[i] = x[j] /\ j + 1 <= Len(x) /\ v[i + 1] = x[j + 1]
      <4>1. PICK j \in 1..Len(x) : v[i] = x[j] /\ j + 1 <= Len(x) /\ v[i + 1] = x[j + 1]
        BY <3>3
      <4>2. Follows(t, x[j], x[j + 1])
        <5>1. j + 1 <= Len(x)
          BY <4>1
        <5> QED
          BY <5>1 DEF Unbroken
      <4> QED
        BY <4>1, <4>2
    <3> QED
      BY <1>2, <2>7, <3>1, <3>2, <3>3
  <2>8. ASSUME NEW i \in 1..Len(v), ~(i + 1 <= Len(v)) PROVE Completes(t, v[i])
    BY <1>2, <2>5, <2>8
  <2> QED
    BY <2>6, <2>7, <2>8 DEF Unbroken
<1> QED
  BY <1>4, <1>5, <1>6

(* The packets of another answer come after those on the way.              *)
LEMMA TransmitKeeps == HidInv /\ Transmit => HidInv'
<1> SUFFICES ASSUME HidInv, Transmit PROVE HidInv'
  OBVIOUS
<1>1. /\ TypeOK /\ sent \in Seq(Nat) /\ wire \in Seq(Packet) /\ reader \in Reader
      /\ WireIsGenuine(sent, wire) /\ UNCHANGED <<reader, returned, faults, aligned>>
  BY DEF HidInv, TypeOK, Transmit
<1>2. PICK len \in Lengths : /\ sent' = Append(sent, len)
                             /\ wire' = wire \o wrap_apdu(Payload(Len(sent) + 1, len))
  BY DEF Transmit
<1> DEFINE n == Len(sent) + 1
           x == wrap_apdu(Payload(n, len))
<1>3. /\ len \in Nat /\ sent' \in Seq(Nat) /\ OneMore(sent, sent')
      /\ n \in 1..Len(sent') /\ sent'[n] = len /\ n \in Nat
      /\ \A i \in 1..Len(sent) : i \in 1..Len(sent') /\ sent'[i] = sent[i]
  <2>1. len \in Nat
    BY CapacityAssumption
  <2>2. /\ sent' \in Seq(Nat) /\ sent'[Len(sent) + 1] = len /\ Len(sent') = Len(sent) + 1
        /\ \A i \in 1..Len(sent) : i \in 1..Len(sent') /\ sent'[i] = sent[i]
    BY <1>1, <1>2, <2>1, OfNext
  <2>3. n \in Nat /\ n \in 1..Len(sent')
    BY <1>1, <2>2, LenProperties
  <2> QED
    BY <1>2, <2>1, <2>2, <2>3 DEF OneMore
<1>4. /\ x \in Seq(Packet) /\ Len(x) \in Nat \ {0} /\ x[1].sequence = 0
      /\ WireIsGenuine(sent', x) /\ WireFits(sent', x) /\ Unbroken(sent', x)
  <2>1. x \in Seq(Packet)
    BY <1>3, WrapIs
  <2>2. x = wrap_apdu(Payload(n, sent'[n]))
    BY <1>3
  <2> HIDE DEF x
  <2> QED
    BY <1>3, <2>1, <2>2, NewPackets
<1>5. wire' = wire \o x
  BY <1>2
<1> HIDE DEF x, n
<1>6. /\ wire' \in Seq(Packet) /\ Len(wire') = Len(wire) + Len(x)
      /\ \A i \in 1..Len(wire) : wire'[i] = wire[i]
      /\ \A i \in 1..Len(x) : wire'[Len(wire) + i] = x[i]
  BY <1>1, <1>4, <1>5, ConcatIs
<1>7. /\ WireIsGenuine(sent', wire')
      /\ WireFits(sent, wire) => WireFits(sent', wire')
      /\ Unbroken(sent, wire) => Unbroken(sent', wire')
  BY <1>1, <1>3, <1>4, <1>6, JoinKeeps
<1>8. /\ wire # <<>> => wire'[1] = wire[1] /\ wire' # <<>>
      /\ wire = <<>> => wire'[1].sequence = 0
  <2>1. CASE wire = <<>>
    <3>1. Len(wire) = 0 /\ 1 \in 1..Len(x) /\ Len(wire) + 1 = 1
      BY <1>4, <2>1, EmptySeq
    <3>2. wire'[Len(wire) + 1] = x[1]
      BY <1>6, <3>1
    <3> QED
      BY <1>4, <2>1, <3>1, <3>2
  <2>2. CASE wire # <<>>
    <3>1. 1 \in 1..Len(wire) /\ Len(wire') # 0
      BY <1>1, <1>4, <1>6, <2>2, TailIs
    <3>2. wire'[1] = wire[1]
      BY <1>6, <3>1
    <3> QED
      BY <1>6, <2>2, <3>1, <3>2, EmptySeq
  <2> QED
    BY <2>1, <2>2
<1>9. ASSUME faults <= 1 PROVE ReaderFits(sent', wire', reader')
  <2>1. ReaderFits(sent, wire, reader)
    BY <1>9 DEF HidInv
  <2> SUFFICES ASSUME reader.phase = "reading" PROVE ReaderFits(sent', wire', reader)
    BY <1>1 DEF ReaderFits
  <2>2. PICK m \in 1..Len(sent) :
          /\ Holds(sent, reader, m)
          /\ wire # <<>> /\ wire[1].sequence = reader.sequence
               => Of(sent, wire[1], m, reader.sequence + 1)
    BY <2>1 DEF ReaderFits
  <2>3. Holds(sent', reader, m) /\ m \in 1..Len(sent')
    BY <1>3, <2>2 DEF Holds
  <2>4. reader.sequence # 0
    <3>1. sent[m] \in Nat
      BY <1>1
    <3>2. PacketCount(sent[m]) \in Nat
      BY <3>1, CountIs
    <3>3. reader.sequence \in 1..PacketCount(sent[m])
      BY <2>2 DEF Holds
    <3> QED
      BY <3>2, <3>3
  <2>5. ASSUME wire'[1].sequence = reader.sequence
        PROVE  Of(sent', wire'[1], m, reader.sequence + 1)
    <3>1. wire # <<>> /\ wire'[1] = wire[1]
      BY <1>8, <2>4, <2>5
    <3> QED
      BY <1>2, <1>3, <1>1, <2>2, <2>5, <3>1, OfNext
  <2> QED
    BY <2>3, <2>5 DEF ReaderFits
<1>10. IsDue(wire, reader) => IsDue(wire', reader')
  BY <1>1, <1>8 DEF IsDue
<1>11. InStep(wire, reader) => InStep(wire', reader')
  BY <1>1, <1>8 DEF InStep
<1>12. Whole(sent, returned) => Whole(sent', returned')
  BY <1>1, <1>3 DEF Whole
<1>13. TypeOK'
  BY <1>1, <1>3, <1>6 DEF TypeOK
<1> QED
  BY <1>1, <1>7, <1>9, <1>10, <1>11, <1>12, <1>13 DEF HidInv

(* The packets v are those of w but for packet d.                          *)
WithoutOne(w, d, v) ==
  /\ v \in Seq(Packet) /\ Len(v) = Len(w) - 1
  /\ \A i \in 1..Len(v) : i < d => v[i] = w[i]
  /\ \A i \in 1..Len(v) : ~(i < d) => v[i] = w[i + 1]

(* Packet d is left out.                                                   *)
LEMMA LossIs ==
  ASSUME NEW w \in Seq(Packet), NEW d \in 1..Len(w)
  PROVE  WithoutOne(w, d, RemoveAt(w, d))
<1> DEFINE front == SubSeq(w, 1, d - 1)
           back == SubSeq(w, d + 1, Len(w))
           v == front \o back
<1>1. Len(w) \in Nat /\ d \in Nat /\ 1 <= d /\ d <= Len(w) /\ \A i \in 1..Len(w) : w[i] \in Packet
  BY LenProperties, ElementOfSeq
<1>2. /\ front \in Seq(Packet) /\ Len(front) = d - 1
      /\ \A i \in 1..(d - 1) : front[i] = w[i]
  <2>1. /\ front \in Seq(Packet)
        /\ Len(front) = IF 1 <= d - 1 THEN d - 1 - 1 + 1 ELSE 0
        /\ \A i \in 1..(d - 1 - 1 + 1) : front[i] = w[1 + i - 1]
    BY <1>1, SubSeqProperties
  <2> HIDE DEF front
  <2>2. Len(front) = d - 1 /\ d - 1 - 1 + 1 = d - 1 /\ \A i \in 1..(d - 1) : 1 + i - 1 = i
    BY <1>1, <2>1
  <2> QED
    BY <2>1, <2>2
<1>3. /\ back \in Seq(Packet) /\ Len(back) = Len(w) - d
      /\ \A i \in 1..(Len(w) - d) : back[i] = w[d + i]
  <2>1. /\ back \in Seq(Packet)
        /\ Len(back) = IF d + 1 <= Len(w) THEN Len(w) - (d + 1) + 1 ELSE 0
        /\ \A i \in 1..(Len(w) - (d + 1) + 1) : back[i] = w[d + 1 + i - 1]
    BY <1>1, SubSeqProperties
  <2> HIDE DEF back
  <2>2. /\ Len(back) = Len(w) - d /\ Len(w) - (d + 1) + 1 = Len(w) - d
        /\ \A i \in 1..(Len(w) - d) : d + 1 + i - 1 = d + i
    BY <1>1, <2>1
  <2> QED
    BY <2>1, <2>2
<1>4. RemoveAt(w, d) = v /\ front \in Seq(Packet) /\ back \in Seq(Packet)
  BY <1>2, <1>3 DEF RemoveAt
<1> HIDE DEF front, back
<1>5. /\ v \in Seq(Packet) /\ Len(v) = Len(front) + Len(back)
      /\ \A i \in 1..Len(front) : v[i] = front[i]
      /\ \A i \in 1..Len(back) : v[Len(front) + i] = back[i]
  BY <1>4, ConcatIs
<1> HIDE DEF v
<1>6. Len(v) = Len(w) - 1
  BY <1>1, <1>2, <1>3, <1>5
<1>7. ASSUME NEW i \in 1..Len(v), i < d PROVE v[i] = w[i]
  <2>1. i \in 1..(d - 1)
    BY <1>1, <1>7
  <2> QED
    BY <1>2, <1>5, <2>1
<1>8. ASSUME NEW i \in 1..Len(v), ~(i < d) PROVE v[i] = w[i + 1]
  <2> DEFINE j == i - (d - 1)
  <2>1. j \in 1..(Len(w) - d) /\ (d - 1) + j = i /\ d + j = i + 1
    BY <1>1, <1>6, <1>8
  <2> HIDE DEF j
  <2>2. v[(d - 1) + j] = back[j] /\ back[j] = w[d + j]
    BY <1>2, <1>3, <1>5, <2>1
  <2> QED
    BY <2>1, <2>2
<1>9. WithoutOne(w, d, v)
  BY <1>5, <1>6, <1>7, <1>8 DEF WithoutOne
<1> QED
  BY <1>4, <1>9

(* The packets v are those of w with packet d twice.                       *)
WithOneMore(w, d, v) ==
  /\ v \in Seq(Packet) /\ Len(v) = Len(w) + 1
  /\ \A i \in 1..Len(v) : i <= d => v[i] = w[i]
  /\ \A i \in 1..Len(v) : ~(i <= d) => v[i] = w[i - 1]

(* Packet d and its copy behind it.                                        *)
LEMMA RepeatIs ==
  ASSUME NEW w \in Seq(Packet), NEW d \in 1..Len(w)
  PROVE  WithOneMore(w, d, InsertAt(w, d, w[d]))
<1> DEFINE front == SubSeq(w, 1, d - 1)
           back == SubSeq(w, d, Len(w))
           one == <<w[d]>>
           both == front \o one
           v == both \o back
<1>1. Len(w) \in Nat /\ d \in Nat /\ 1 <= d /\ d <= Len(w) /\ \A i \in 1..Len(w) : w[i] \in Packet
  BY LenProperties, ElementOfSeq
<1>2. /\ front \in Seq(Packet) /\ Len(front) = d - 1
      /\ \A i \in 1..(d - 1) : front[i] = w[i]
  <2>1. /\ front \in Seq(Packet)
        /\ Len(front) = IF 1 <= d - 1 THEN d - 1 - 1 + 1 ELSE 0
        /\ \A i \in 1..(d - 1 - 1 + 1) : front[i] = w[1 + i - 1]
    BY <1>1, SubSeqProperties
  <2> HIDE DEF front
  <2>2. Len(front) = d - 1 /\ d - 1 - 1 + 1 = d - 1 /\ \A i \in 1..(d - 1) : 1 + i - 1 = i
    BY <1>1, <2>1
  <2> QED
    BY <2>1, <2>2
<1>3. /\ back \in Seq(Packet) /\ Len(back) = Len(w) - d + 1
      /\ \A i \in 1..(Len(w) - d + 1) : back[i] = w[d + i - 1]
  <2>1. /\ back \in Seq(Packet)
        /\ Len(back) = IF d <= Len(w) THEN Len(w) - d + 1 ELSE 0
        /\ \A i \in 1..(Len(w) - d + 1) : back[i] = w[d + i - 1]
    BY <1>1, SubSeqProperties
  <2> QED
    BY <1>1, <2>1
<1>4. one \in Seq(Packet) /\ Len(one) = 1 /\ one[1] = w[d]
  BY <1>1
<1>5. /\ InsertAt(w, d, w[d]) = v
      /\ front \in Seq(Packet) /\ one \in Seq(Packet) /\ back \in Seq(Packet)
  BY <1>2, <1>3, <1>4 DEF InsertAt
<1> HIDE DEF front, back, one
<1>6. /\ both \in Seq(Packet) /\ Len(both) = Len(front) + Len(one)
      /\ \A i \in 1..Len(front) : both[i] = front[i]
      /\ \A i \in 1..Len(one) : both[Len(front) + i] = one[i]
  BY <1>5, ConcatIs
<1>12. both \in Seq(Packet)
  BY <1>6
<1> HIDE DEF both
<1>7. /\ v \in Seq(Packet) /\ Len(v) = Len(both) + Len(back)
      /\ \A i \in 1..Len(both) : v[i] = both[i]
      /\ \A i \in 1..Len(back) : v[Len(both) + i] = back[i]
  BY <1>5, <1>12, ConcatIs
<1> HIDE DEF v
<1>8. Len(both) = d
  BY <1>1, <1>2, <1>4, <1>6
<1>9. Len(v) = Len(w) + 1
  BY <1>1, <1>3, <1>7, <1>8
<1>10. ASSUME NEW i \in 1..Len(v), i <= d PROVE i \in 1..Len(w) /\ v[i] = w[i]
  <2>1. i \in 1..Len(w) /\ i \in 1..Len(both) /\ (i = d \/ i \in 1..(d - 1))
    BY <1>1, <1>8, <1>10
  <2>2. CASE i = d
    <3>1. 1 \in 1..Len(one) /\ Len(front) + 1 = d
      BY <1>1, <1>2, <1>4
    <3>2. both[Len(front) + 1] = one[1]
      BY <1>6, <3>1
    <3> QED
      BY <1>4, <1>7, <2>1, <2>2, <3>1, <3>2
  <2>3. CASE i \in 1..(d - 1)
    BY <1>2, <1>6, <1>7, <2>1, <2>3
  <2> QED
    BY <2>1, <2>2, <2>3
<1>11. ASSUME NEW i \in 1..Len(v), ~(i <= d) PROVE i - 1 \in 1..Len(w) /\ v[i] = w[i - 1]
  <2> DEFINE j == i - d
  <2>1. /\ j \in 1..(Len(w) - d + 1) /\ d + j = i /\ d + j - 1 = i - 1
        /\ i - 1 \in 1..Len(w)
    BY <1>1, <1>9, <1>11
  <2> HIDE DEF j
  <2>2. v[d + j] = back[j] /\ back[j] = w[d + j - 1]
    BY <1>3, <1>7, <1>8, <2>1
  <2> QED
    BY <2>1, <2>2
<1>13. WithOneMore(w, d, v)
  BY <1>7, <1>9, <1>10, <1>11 DEF WithOneMore
<1> QED
  BY <1>5, <1>13

(* After a packet of an answer comes one with another number, once the     *)
(* packet between the two is gone, or when it is repeated.                 *)
LEMMA GapFits ==
  ASSUME NEW s \in Seq(Nat), NEW p, NEW q, NEW r, Fits(s, p, q), Follows(s, p, q), Follows(s, q, r)
  PROVE  Fits(s, p, r)
<1> SUFFICES ASSUME NEW n, NEW k, Of(s, p, n, k), k < PacketCount(s[n]), r.sequence = k
             PROVE  FALSE
  BY DEF Fits
<1>1. k \in Nat \ {0}
  BY OfType
<1>2. Of(s, q, n, k + 1)
  BY DEF Fits, Follows
<1>3. r.sequence = k + 1 \/ r.sequence = 0
  BY <1>2 DEF Follows
<1> QED
  BY <1>1, <1>3

(* A packet does not look like the one that follows it.                    *)
LEMMA AgainFits ==
  ASSUME NEW s \in Seq(Nat), NEW p
  PROVE  Fits(s, p, p)
<1>1. \A n, k : Of(s, p, n, k) => k \in Nat \ {0} /\ p.sequence = k - 1
  BY OfType
<1>2. \A k \in Nat \ {0} : k - 1 # k
  OBVIOUS
<1> QED
  BY <1>1, <1>2 DEF Fits

(* One packet fewer, where there was no fault.                             *)
LEMMA LossKeeps ==
  ASSUME NEW s \in Seq(Nat), NEW w \in Seq(Packet), NEW d \in 1..Len(w), NEW r,
         WireIsGenuine(s, w), NEW v \in Seq(Packet), Len(v) = Len(w) - 1,
         \A i \in 1..Len(v) : i < d => v[i] = w[i],
         \A i \in 1..Len(v) : ~(i < d) => v[i] = w[i + 1]
  PROVE  /\ WireIsGenuine(s, v)
         /\ WireFits(s, w) /\ Unbroken(s, w) => WireFits(s, v)
         /\ Unbroken(s, w) /\ IsDue(w, r) /\ ReaderFits(s, w, r) => ReaderFits(s, v, r)
<1>1. Len(w) \in Nat /\ Len(v) \in Nat /\ d \in Nat \ {0}
  BY LenProperties
<1>2. \A i \in 1..Len(v) : i \in 1..Len(w) /\ i + 1 \in 1..Len(w) /\ i + 1 <= Len(w)
                         /\ (i + 1 <= Len(v) => i + 1 \in 1..Len(v) /\ i + 1 + 1 <= Len(w))
                         /\ (i < d /\ ~(i + 1 < d) => i + 1 = d)
  BY <1>1
<1>3. WireIsGenuine(s, v)
  BY <1>1, <1>2 DEF WireIsGenuine
<1>4. ASSUME WireFits(s, w), Unbroken(s, w) PROVE WireFits(s, v)
  <2> SUFFICES ASSUME NEW i \in 1..Len(v), i + 1 <= Len(v) PROVE Fits(s, v[i], v[i + 1])
    BY DEF WireFits
  <2>1. /\ Fits(s, w[i], w[i + 1]) /\ Follows(s, w[i], w[i + 1])
        /\ Fits(s, w[i + 1], w[i + 1 + 1]) /\ Follows(s, w[i + 1], w[i + 1 + 1])
    BY <1>2, <1>4 DEF WireFits, Unbroken
  <2>2. CASE i + 1 < d
    <3>1. i < d
      BY <1>1, <2>2
    <3>2. v[i] = w[i] /\ v[i + 1] = w[i + 1]
      BY <1>1, <1>2, <2>2, <3>1
    <3> QED
      BY <2>1, <3>2
  <2>3. CASE i < d /\ ~(i + 1 < d)
    <3>1. v[i] = w[i] /\ v[i + 1] = w[i + 1 + 1]
      BY <1>1, <1>2, <2>3
    <3> QED
      BY <2>1, <3>1, GapFits
  <2>4. CASE ~(i < d)
    <3>1. ~(i + 1 < d)
      BY <1>1, <2>4
    <3>2. v[i] = w[i + 1] /\ v[i + 1] = w[i + 1 + 1]
      BY <1>1, <1>2, <2>4, <3>1
    <3> QED
      BY <2>1, <3>2
  <2> QED
    BY <2>2, <2>3, <2>4
<1>5. ASSUME Unbroken(s, w), IsDue(w, r), ReaderFits(s, w, r), r.phase = "reading"
      PROVE  ReaderFits(s, v, r)
  <2>1. PICK n \in 1..Len(s) :
          Holds(s, r, n) /\ Of(s, w[1], n, r.sequence + 1)
    BY <1>5 DEF IsDue, ReaderFits
  <2>2. r.sequence \in Nat \ {0}
    <3>1. s[n] \in Nat
      OBVIOUS
    <3>2. PacketCount(s[n]) \in Nat
      BY <3>1, CountIs
    <3>3. r.sequence \in 1..PacketCount(s[n])
      BY <2>1 DEF Holds
    <3> QED
      BY <3>2, <3>3
  <2>3. ASSUME v # <<>>, v[1].sequence = r.sequence PROVE Of(s, v[1], n, r.sequence + 1)
    <3>1. 1 \in 1..Len(v)
      BY <1>1, <2>3, EmptySeq
    <3>2. CASE 1 < d
      <4>1. v[1] = w[1]
        BY <1>1, <3>1, <3>2
      <4> QED
        BY <2>1, <4>1
    <3>3. CASE ~(1 < d)
      <4>1. v[1] = w[1 + 1] /\ Follows(s, w[1], w[1 + 1])
        BY <1>1, <1>2, <1>5, <3>1, <3>3 DEF Unbroken
      <4>2. v[1].sequence = r.sequence + 1 \/ v[1].sequence = 0
        BY <2>1, <4>1 DEF Follows
      <4> QED
        BY <2>2, <2>3, <4>2
    <3> QED
      BY <3>2, <3>3
  <2> QED
    BY <2>1, <2>3 DEF ReaderFits
<1>6. ASSUME r.phase # "reading" PROVE ReaderFits(s, v, r)
  BY <1>6 DEF ReaderFits
<1> QED
  BY <1>3, <1>4, <1>5, <1>6

(* One packet twice.                                                       *)
LEMMA RepeatKeeps ==
  ASSUME NEW s \in Seq(Nat), NEW w \in Seq(Packet), NEW d \in 1..Len(w), NEW r,
         WireIsGenuine(s, w), NEW v \in Seq(Packet), Len(v) = Len(w) + 1,
         \A i \in 1..Len(v) : i <= d => v[i] = w[i],
         \A i \in 1..Len(v) : ~(i <= d) => v[i] = w[i - 1]
  PROVE  /\ WireIsGenuine(s, v)
         /\ WireFits(s, w) => WireFits(s, v)
         /\ ReaderFits(s, w, r) => ReaderFits(s, v, r)
<1>1. Len(w) \in Nat /\ Len(v) \in Nat /\ d \in Nat \ {0}
      /\ \A i \in 1..Len(v) : (i <= d => i \in 1..Len(w)) /\ (~(i <= d) => i - 1 \in 1..Len(w))
  BY LenProperties
<1>2. WireIsGenuine(s, v)
  BY <1>1 DEF WireIsGenuine
<1>3. ASSUME WireFits(s, w) PROVE WireFits(s, v)
  <2> SUFFICES ASSUME NEW i \in 1..Len(v), i + 1 <= Len(v) PROVE Fits(s, v[i], v[i + 1])
    BY DEF WireFits
  <2>1. i + 1 \in 1..Len(v)
    BY <1>1
  <2>2. CASE i + 1 <= d
    <3>1. i <= d /\ i \in 1..Len(w) /\ i + 1 <= Len(w)
      BY <1>1, <2>2
    <3>2. v[i] = w[i] /\ v[i + 1] = w[i + 1]
      BY <1>1, <2>1, <2>2, <3>1
    <3> QED
      BY <1>3, <3>1, <3>2 DEF WireFits
  <2>3. CASE i <= d /\ ~(i + 1 <= d)
    <3>1. i + 1 - 1 = i
      BY <1>1
    <3>2. v[i] = w[i] /\ v[i + 1] = w[i]
      BY <1>1, <2>1, <2>3, <3>1
    <3> QED
      BY <3>2, AgainFits
  <2>4. CASE ~(i <= d)
    <3> DEFINE j == i - 1
    <3>1. ~(i + 1 <= d) /\ i + 1 - 1 = j + 1 /\ j \in 1..Len(w) /\ j + 1 <= Len(w)
      <4> DEFINE l == Len(w)
                 m == Len(v)
      <4>1. l \in Nat /\ m = l + 1 /\ i \in 1..m /\ i + 1 <= m /\ ~(i <= d)
        BY <1>1, <2>4
      <4> HIDE DEF l, m
      <4>2. ~(i + 1 <= d) /\ i + 1 - 1 = j + 1 /\ j \in 1..l /\ j + 1 <= l
        BY <1>1, <4>1
      <4> QED
        BY <4>2 DEF l
    <3>2. v[i] = w[j] /\ v[i + 1] = w[j + 1]
      BY <1>1, <2>1, <2>4, <3>1
    <3> HIDE DEF j
    <3> QED
      BY <1>3, <3>1, <3>2 DEF WireFits
  <2> QED
    BY <2>2, <2>3, <2>4
<1>4. w # <<>> /\ v[1] = w[1]
  <2>1. 1 \in 1..Len(v) /\ 1 <= d /\ Len(w) # 0
    BY <1>1
  <2> QED
    BY <1>1, <2>1, EmptySeq
<1>5. ASSUME ReaderFits(s, w, r) PROVE ReaderFits(s, v, r)
  BY <1>4, <1>5 DEF ReaderFits
<1> QED
  BY <1>2, <1>3, <1>5

(* A damaged packet is the same one to everything but the reader.          *)
Alike(p, q) == p.sequence = q.sequence /\ p.total = q.total /\ p.data = q.data

(* The two are the same packet of the same answer.                         *)
LEMMA AlikeIs ==
  ASSUME NEW s, NEW p, NEW q, Alike(p, q)
  PROVE  /\ p.sequence = q.sequence
         /\ \A n, k : Of(s, p, n, k) <=> Of(s, q, n, k)
BY DEF Alike, Of, IsPacket

(* Packets that differ only in being sound or not.                         *)
LEMMA DamageKeeps ==
  ASSUME NEW s, NEW w \in Seq(Packet), NEW v \in Seq(Packet), NEW r, Len(v) = Len(w),
         \A i \in 1..Len(w) : Alike(v[i], w[i]), WireIsGenuine(s, w)
  PROVE  /\ WireIsGenuine(s, v)
         /\ WireFits(s, w) => WireFits(s, v)
         /\ ReaderFits(s, w, r) => ReaderFits(s, v, r)
<1>1. ASSUME NEW i \in 1..Len(w)
      PROVE  v[i].sequence = w[i].sequence /\ \A n, k : Of(s, v[i], n, k) <=> Of(s, w[i], n, k)
  BY AlikeIs
<1>2. WireIsGenuine(s, v)
  BY <1>1 DEF WireIsGenuine, Genuine
<1>3. ASSUME WireFits(s, w) PROVE WireFits(s, v)
  <2> SUFFICES ASSUME NEW i \in 1..Len(v), i + 1 <= Len(v) PROVE Fits(s, v[i], v[i + 1])
    BY DEF WireFits
  <2>1. i \in 1..Len(w) /\ i + 1 \in 1..Len(w)
    BY LenProperties
  <2>2. Fits(s, w[i], w[i + 1])
    BY <1>3, <2>1 DEF WireFits
  <2> QED
    BY <1>1, <2>1, <2>2 DEF Fits
<1>4. ASSUME ReaderFits(s, w, r) PROVE ReaderFits(s, v, r)
  <2>1. v # <<>> => w # <<>> /\ 1 \in 1..Len(w)
    BY EmptySeq, LenProperties
  <2> QED
    BY <1>1, <1>4, <2>1 DEF ReaderFits
<1> QED
  BY <1>2, <1>3, <1>4

(* The first fault keeps what is said of one fault, any later one makes    *)
(* that void.                                                              *)
LEMMA FaultKeeps == HidInv /\ Fault => HidInv'
<1> SUFFICES ASSUME HidInv, Fault PROVE HidInv'
  OBVIOUS
<1>1. /\ TypeOK /\ sent \in Seq(Nat) /\ wire \in Seq(Packet) /\ WireIsGenuine(sent, wire)
      /\ faults \in Nat /\ faults' = faults + 1 /\ ~aligned' /\ aligned' \in BOOLEAN
      /\ UNCHANGED <<sent, reader, returned>>
  BY DEF HidInv, TypeOK, Fault
<1>2. PICK d \in 1..Len(wire) :
        \/ wire' = RemoveAt(wire, d)
        \/ wire' = InsertAt(wire, d, wire[d])
        \/ wire' = [wire EXCEPT ![d].sound = FALSE]
  BY DEF Fault
<1> DEFINE Kept == /\ wire' \in Seq(Packet) /\ WireIsGenuine(sent, wire')
                   /\ (faults = 0 => WireFits(sent, wire') /\ ReaderFits(sent, wire', reader))
<1>3. faults = 0 => /\ WireFits(sent, wire) /\ ReaderFits(sent, wire, reader)
                    /\ Unbroken(sent, wire) /\ IsDue(wire, reader) /\ Whole(sent, returned)
  BY DEF HidInv
<1>4. ASSUME wire' = RemoveAt(wire, d) PROVE Kept
  <2>1. WithoutOne(wire, d, wire')
    BY <1>1, <1>4, LossIs
  <2>2. /\ wire' \in Seq(Packet) /\ Len(wire') = Len(wire) - 1
        /\ \A i \in 1..Len(wire') : i < d => wire'[i] = wire[i]
        /\ \A i \in 1..Len(wire') : ~(i < d) => wire'[i] = wire[i + 1]
    BY <2>1 DEF WithoutOne
  <2>3. /\ WireIsGenuine(sent, wire')
        /\ WireFits(sent, wire) /\ Unbroken(sent, wire) => WireFits(sent, wire')
        /\ Unbroken(sent, wire) /\ IsDue(wire, reader) /\ ReaderFits(sent, wire, reader)
             => ReaderFits(sent, wire', reader)
    BY <1>1, <2>2, LossKeeps
  <2> QED
    BY <1>3, <2>2, <2>3
<1>5. ASSUME wire' = InsertAt(wire, d, wire[d]) PROVE Kept
  <2>1. WithOneMore(wire, d, wire')
    BY <1>1, <1>5, RepeatIs
  <2>2. /\ wire' \in Seq(Packet) /\ Len(wire') = Len(wire) + 1
        /\ \A i \in 1..Len(wire') : i <= d => wire'[i] = wire[i]
        /\ \A i \in 1..Len(wire') : ~(i <= d) => wire'[i] = wire[i - 1]
    BY <2>1 DEF WithOneMore
  <2>3. /\ WireIsGenuine(sent, wire')
        /\ WireFits(sent, wire) => WireFits(sent, wire')
        /\ ReaderFits(sent, wire, reader) => ReaderFits(sent, wire', reader)
    BY <1>1, <2>2, RepeatKeeps
  <2> QED
    BY <1>3, <2>2, <2>3
<1>6. ASSUME wire' = [wire EXCEPT ![d].sound = FALSE] PROVE Kept
  <2>1. \A i \in 1..Len(wire) : wire[i] \in Packet
    BY <1>1, ElementOfSeq
  <2>2. wire' = [wire EXCEPT ![d] = [wire[d] EXCEPT !.sound = FALSE]]
    BY <1>6
  <2>3. [wire[d] EXCEPT !.sound = FALSE] \in Packet /\ Alike([wire[d] EXCEPT !.sound = FALSE], wire[d])
    BY <2>1 DEF Packet, Alike
  <2>4. wire' \in Seq(Packet) /\ Len(wire') = Len(wire)
    BY <1>1, <2>2, <2>3, ExceptSeq
  <2>5. \A i \in 1..Len(wire) : Alike(wire'[i], wire[i])
    <3>1. \A i \in 1..Len(wire) : wire'[i] = IF i = d THEN [wire[d] EXCEPT !.sound = FALSE] ELSE wire[i]
      BY <1>1, <2>2
    <3>2. \A i \in 1..Len(wire) : Alike(wire[i], wire[i])
      BY DEF Alike
    <3> QED
      BY <2>3, <3>1, <3>2
  <2>6. /\ WireIsGenuine(sent, wire')
        /\ WireFits(sent, wire) => WireFits(sent, wire')
        /\ ReaderFits(sent, wire, reader) => ReaderFits(sent, wire', reader)
    BY <1>1, <2>4, <2>5, DamageKeeps
  <2> QED
    BY <1>3, <2>4, <2>6
<1>7. Kept
  BY <1>2, <1>4, <1>5, <1>6
<1>8. faults' <= 1 => faults = 0
  BY <1>1
<1>9. faults' # 0 /\ faults' \in Nat
  BY <1>1
<1>10. TypeOK'
  BY <1>1, <1>7, <1>9 DEF TypeOK
<1> QED
  BY <1>1, <1>3, <1>7, <1>8, <1>9, <1>10 DEF HidInv

(* Nothing happens.                                                        *)
LEMMA StutterKeeps == HidInv /\ UNCHANGED vars => HidInv'
BY DEF HidInv, TypeOK, vars

-----------------------------------------------------------------------------
(* The invariant holds in every state.                                     *)
THEOREM HidInvariance == Spec => []HidInv
<1>1. HidInv /\ [Next]_vars => HidInv'
  BY TransmitKeeps, ReadFirstKeeps, ReadContinuationKeeps, ReadFailsKeeps,
     ReadTimesOutKeeps, OpenKeeps, FaultKeeps, StutterKeeps DEF Next
<1> QED
  BY <1>1, InitHidInv, PTL DEF Spec

(* With at most one packet lost, repeated or damaged, every answer that    *)
(* unwrap_response returns is one the device sent, from its first to its   *)
(* last byte: for all lengths and sizes of packets, any number of answers, *)
(* and processes that open the device at any moment.                       *)
THEOREM AnswersAreReadWhole == Spec => []AnswersAreWhole
<1>1. HidInv => AnswersAreWhole
  BY DEF HidInv, Whole, AnswersAreWhole
<1> QED
  BY <1>1, HidInvariance, PTL

(* While every packet arrives and each process hears answers from their    *)
(* start, no read fails for what it finds.                                 *)
THEOREM ReadsFailOnlyForFaults == Spec => []NoFailureWithoutFault
<1>1. HidInv => NoFailureWithoutFault
  BY DEF HidInv, InStep, NoFailureWithoutFault
<1> QED
  BY <1>1, HidInvariance, PTL
=============================================================================
