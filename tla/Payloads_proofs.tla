-------------------------- MODULE Payloads_proofs --------------------------
(***************************************************************************)
(* For every chunk size, every limit and every content: the device reads   *)
(* what the tool was asked to send, or refuses.                            *)
(***************************************************************************)
EXTENDS Payloads, SequenceParts

(* The paths that parse_derivation_path returns.                           *)
IsPath(segments) ==
  /\ segments \in Seq(Segment) /\ Len(segments) \in 2..5
  /\ segments[1] = Hardened(44) /\ segments[2] = Hardened(501)

(* Every text that is accepted gives such a path.                          *)
LEMMA ParsedIsPath ==
  ASSUME NEW text, parse_derivation_path(text) # NotAPath
  PROVE  IsPath(parse_derivation_path(text))
<1> DEFINE n == Len(Parts(text))
           segments == Parsed(text)
<1>1. /\ ReadableText(text)
      /\ parse_derivation_path(text) = segments
      /\ Len(segments) >= 2
      /\ segments[1] = Hardened(44) /\ segments[2] = Hardened(501)
  BY DEF parse_derivation_path
<1>2. n \in 1..5
  BY <1>1 DEF ReadableText
<1>3. \A k \in 1..n : [hardened |-> Parts(text)[k].tick = "'",
                        value |-> Parts(text)[k].value] \in Segment
  BY <1>1, SMT DEF ReadableText, Segment
<1>4. segments \in [1..n -> Segment]
  BY <1>3 DEF Parsed
<1>5. segments \in Seq(Segment) /\ Len(segments) = n
  <2> HIDE DEF segments
  <2>1. segments \in Seq(Segment)
    BY <1>2, <1>4
  <2>2. Len(segments) = n
    BY <1>2, <1>4, <2>1, LenProperties
  <2> QED
    BY <2>1, <2>2
<1> QED
  BY <1>1, <1>2, <1>5 DEF IsPath

-----------------------------------------------------------------------------
(* Numbers and their bytes.  Ranges with literal bounds are kept out of    *)
(* the solver: these two facts stand for them.                             *)
LEMMA ByteIs ==
  ASSUME NEW b
  PROVE  b \in Byte <=> b \in Nat /\ b < 256
<1> DEFINE m == 255
<1>1. m \in Nat /\ \A n \in Nat : n <= m <=> n < 256
  BY SMT DEF m
<1> HIDE DEF m
<1>2. b \in 0..m <=> b \in Nat /\ b <= m
  BY <1>1, SMT
<1> QED
  BY <1>1, <1>2, Zenon DEF Byte, m

(* The values of a segment, in the same way.                               *)
LEMMA MaxValueIs ==
  ASSUME NEW v
  PROVE  v \in 0..MaxValue <=> v \in Nat /\ v <= MaxValue
<1>1. MaxValue \in Nat
  BY SMT DEF MaxValue
<1> QED
  BY <1>1, SMT

(* A shift by one byte loses the last byte only.                           *)
LEMMA SplitByte ==
  ASSUME NEW v \in Nat
  PROVE  /\ Shifted(v) \in Nat
         /\ v % 256 \in Nat /\ v % 256 < 256
         /\ Shifted(v) * 256 + (v % 256) = v
BY SMT DEF Shifted

(* Three shifts leave seven bits.                                          *)
LEMMA TopValue ==
  ASSUME NEW v \in Nat, v <= MaxValue
  PROVE  Shifted(Shifted(Shifted(v))) \in Nat /\ Shifted(Shifted(Shifted(v))) < 128
<1>1. Shifted(v) \in Nat /\ Shifted(v) < 8388608
  BY SMT DEF Shifted, MaxValue
<1>2. \A w \in Nat : w < 8388608 => Shifted(w) \in Nat /\ Shifted(w) < 32768
  BY SMT DEF Shifted
<1>3. \A w \in Nat : w < 32768 => Shifted(w) \in Nat /\ Shifted(w) < 128
  BY SMT DEF Shifted
<1> QED
  BY <1>1, <1>2, <1>3, SMT

(* The tick and the seven bits share a byte.                               *)
LEMMA TopByteIs ==
  ASSUME NEW h \in BOOLEAN, NEW v \in Nat, v < 128
  PROVE  LET b == (IF h THEN 128 ELSE 0) + v
         IN  b \in Nat /\ b < 256 /\ (b >= 128) = h /\ b % 128 = v
BY SMT

(* A number is put together from its four bytes.                           *)
LEMMA FourDigits ==
  ASSUME NEW v4 \in Nat, NEW v3 \in Nat, NEW v2 \in Nat, NEW v1 \in Nat,
         NEW r3 \in Nat, NEW r2 \in Nat, NEW r1 \in Nat,
         v4 * 256 + r3 = v3, v3 * 256 + r2 = v2, v2 * 256 + r1 = v1
  PROVE  ((v4 * 256 + r3) * 256 + r2) * 256 + r1 = v1
OBVIOUS

(* The parts of a segment.                                                 *)
LEMMA SegmentParts ==
  ASSUME NEW segment \in Segment
  PROVE  /\ segment.hardened \in BOOLEAN
         /\ segment.value \in Nat /\ segment.value <= MaxValue
         /\ segment = [hardened |-> segment.hardened, value |-> segment.value]
<1>1. /\ segment.hardened \in BOOLEAN /\ segment.value \in 0..MaxValue
      /\ segment = [hardened |-> segment.hardened, value |-> segment.value]
  BY Zenon DEF Segment
<1> QED
  BY <1>1, MaxValueIs

(* The four bytes of a segment are bytes.                                  *)
LEMMA SegmentBytesType ==
  ASSUME NEW segment \in Segment, NEW i \in 1..4
  PROVE  SegmentByte(segment, i) \in Byte
<1> DEFINE v1 == segment.value
           v2 == Shifted(v1)
           v3 == Shifted(v2)
<1>1. v1 \in Nat /\ v2 \in Nat /\ v3 \in Nat
  BY SegmentParts, SplitByte
<1>2. TopByte(segment) \in Nat /\ TopByte(segment) < 256
  BY SegmentParts, TopValue, TopByteIs DEF TopByte
<1> HIDE DEF v1, v2, v3
<1>3. \A v \in {v1, v2, v3} : v % 256 \in Nat /\ v % 256 < 256
  BY <1>1, SplitByte
<1>4. SegmentByte(segment, i) \in {TopByte(segment), v3 % 256, v2 % 256, v1 % 256}
  BY SMT DEF SegmentByte, v1, v2, v3
<1> QED
  BY <1>2, <1>3, <1>4, ByteIs

(* Every segment is read as it was written.                                *)
LEMMA SegmentRoundTrip ==
  ASSUME NEW segment \in Segment
  PROVE  SegmentOf(SegmentByte(segment, 1), SegmentByte(segment, 2),
                   SegmentByte(segment, 3), SegmentByte(segment, 4)) = segment
<1> DEFINE v1 == segment.value
           v2 == Shifted(v1)
           v3 == Shifted(v2)
           v4 == Shifted(v3)
           b1 == TopByte(segment)
<1>1. /\ v1 \in Nat /\ v2 \in Nat /\ v3 \in Nat
      /\ v2 * 256 + (v1 % 256) = v1
      /\ v3 * 256 + (v2 % 256) = v2
      /\ v4 * 256 + (v3 % 256) = v3
  <2>1. v1 \in Nat
    BY SegmentParts
  <2>2. v2 \in Nat
    BY <2>1, SplitByte
  <2>3. v3 \in Nat
    BY <2>2, SplitByte
  <2>4. v2 * 256 + (v1 % 256) = v1
    BY <2>1, SplitByte
  <2>5. v3 * 256 + (v2 % 256) = v2
    BY <2>2, SplitByte
  <2>6. v4 * 256 + (v3 % 256) = v3
    BY <2>3, SplitByte
  <2> QED
    BY <2>1, <2>2, <2>3, <2>4, <2>5, <2>6, Zenon
<1>2. v4 \in Nat /\ v4 < 128 /\ segment.hardened \in BOOLEAN
  BY SegmentParts, TopValue
<1>3. (b1 >= 128) = segment.hardened /\ b1 % 128 = v4
  BY <1>2, TopByteIs DEF TopByte
<1>4. /\ SegmentByte(segment, 1) = b1 /\ SegmentByte(segment, 2) = v3 % 256
      /\ SegmentByte(segment, 3) = v2 % 256 /\ SegmentByte(segment, 4) = v1 % 256
  BY SMT DEF SegmentByte
<1> HIDE DEF v1, v2, v3, v4, b1
<1>5. ((v4 * 256 + (v3 % 256)) * 256 + (v2 % 256)) * 256 + (v1 % 256) = v1
  <2>1. v1 % 256 \in Nat /\ v2 % 256 \in Nat /\ v3 % 256 \in Nat
    BY <1>1, SplitByte
  <2> QED
    BY <1>1, <1>2, <2>1, FourDigits
<1>6. (((b1 % 128) * 256 + (v3 % 256)) * 256 + (v2 % 256)) * 256 + (v1 % 256) = v1
  BY <1>3, <1>5, Zenon
<1> QED
  BY <1>3, <1>4, <1>5, SegmentParts DEF SegmentOf, v1

(* Every length is read as it was written.                                 *)
LEMMA U16RoundTrip ==
  ASSUME NEW n \in Nat, FitsU16(n)
  PROVE  /\ U16Bytes(n) \in Seq(Byte) /\ Len(U16Bytes(n)) = 2
         /\ U16Of(U16Bytes(n)[1], U16Bytes(n)[2]) = n
<1>1. /\ n \div 256 \in Nat /\ n \div 256 < 256
      /\ n % 256 \in Nat /\ n % 256 < 256
      /\ (n \div 256) * 256 + (n % 256) = n
  BY SMT DEF FitsU16
<1>2. n \div 256 \in Byte /\ n % 256 \in Byte
  BY <1>1, ByteIs
<1> QED
  BY <1>1, <1>2 DEF U16Bytes, U16Of

(* Blocks of s bytes, one after the other.                                 *)
LEMMA BlockIndex ==
  ASSUME NEW n \in Nat, NEW s \in Nat \ {0}
  PROVE  /\ \A k \in 1..n, j \in 1..s :
              LET i == (k - 1) * s + j
              IN  i \in 1..(n * s) /\ 1 + ((i - 1) \div s) = k /\ 1 + ((i - 1) % s) = j
         /\ \A i \in 1..(n * s) :
              1 + ((i - 1) \div s) \in 1..n /\ 1 + ((i - 1) % s) \in 1..s
         /\ n * s \in Nat
<1>1. ASSUME NEW k \in 1..n, NEW j \in 1..s
      PROVE  LET i == (k - 1) * s + j
             IN  i \in 1..(n * s) /\ 1 + ((i - 1) \div s) = k /\ 1 + ((i - 1) % s) = j
  <2>1. k - 1 \in Nat /\ k * s <= n * s
    BY SMT
  <2>2. (k - 1) * s + j >= 1 /\ (k - 1) * s + j <= k * s
    BY <2>1, SMT
  <2>3. \A q, r \in Nat : r < s => (q * s + r) \div s = q /\ (q * s + r) % s = r
    BY SMT
  <2>4. (k - 1) * s + j - 1 = (k - 1) * s + (j - 1) /\ j - 1 \in Nat /\ j - 1 < s
    BY <2>1, SMT
  <2> QED
    BY <2>1, <2>2, <2>3, <2>4, SMT
<1>2. ASSUME NEW i \in 1..(n * s)
      PROVE  1 + ((i - 1) \div s) \in 1..n /\ 1 + ((i - 1) % s) \in 1..s
  <2> DEFINE q == (i - 1) \div s
             r == (i - 1) % s
  <2>1. q \in Nat /\ r \in Nat /\ r < s /\ q * s + r = i - 1 /\ i - 1 < n * s
    BY SMT
  <2> HIDE DEF q, r
  <2>2. q < n
    BY <2>1, SMT
  <2> QED
    BY <2>1, <2>2, SMT DEF q, r
<1> QED
  BY <1>1, <1>2, SMT

-----------------------------------------------------------------------------
(* What the device makes of a path, whatever follows it.                   *)
LEMMA SegmentBytesAre ==
  ASSUME NEW segments \in Seq(Segment)
  PROVE  /\ SegmentBytes(segments) \in Seq(Byte)
         /\ Len(SegmentBytes(segments)) = 4 * Len(segments)
         /\ \A k \in 1..Len(segments), j \in 1..4 :
              /\ 4 * (k - 1) + j \in 1..(4 * Len(segments))
              /\ SegmentBytes(segments)[4 * (k - 1) + j] = SegmentByte(segments[k], j)
<1> DEFINE n == Len(segments)
           bytes == SegmentBytes(segments)
<1>1. n \in Nat /\ \A k \in 1..n : segments[k] \in Segment
  BY LenProperties
<1>2. /\ \A k \in 1..n, j \in 1..4 :
            LET i == 4 * (k - 1) + j
            IN  i \in 1..(4 * n) /\ 1 + ((i - 1) \div 4) = k /\ 1 + ((i - 1) % 4) = j
      /\ \A i \in 1..(4 * n) : 1 + ((i - 1) \div 4) \in 1..n /\ 1 + ((i - 1) % 4) \in 1..4
      /\ 4 * n \in Nat
  <2> HIDE DEF n
  <2> QED
    BY <1>1, BlockIndex
<1>3. bytes = [i \in 1..(4 * n) |->
                 SegmentByte(segments[1 + ((i - 1) \div 4)], 1 + ((i - 1) % 4))]
  BY DEF SegmentBytes
<1> HIDE DEF n, bytes
<1>4. bytes \in [1..(4 * n) -> Byte]
  <2>1. ASSUME NEW i \in 1..(4 * n)
        PROVE  SegmentByte(segments[1 + ((i - 1) \div 4)], 1 + ((i - 1) % 4)) \in Byte
    BY <1>1, <1>2, SegmentBytesType
  <2> QED
    BY <1>3, <2>1
<1>5. bytes \in Seq(Byte) /\ Len(bytes) = 4 * n
  <2> DEFINE c == 4 * n
  <2>1. c \in Nat /\ bytes \in [1..c -> Byte]
    BY <1>2, <1>4
  <2> HIDE DEF c
  <2>2. bytes \in Seq(Byte) /\ Len(bytes) = c
    BY <2>1, FunctionIsSeq
  <2> QED
    BY <2>2 DEF c
<1>6. \A k \in 1..n, j \in 1..4 :
        bytes[4 * (k - 1) + j] = SegmentByte(segments[k], j)
  BY <1>2, <1>3
<1> QED
  BY <1>2, <1>5, <1>6 DEF n, bytes

(* A path is read as it was written, and so is what follows it.            *)
LEMMA AddressRoundTrip ==
  ASSUME NEW segments, IsPath(segments), NEW rest \in Seq(Byte),
         NEW data, data = serialize_derivation_path(segments) \o rest
  PROVE  /\ data \in Seq(Byte)
         /\ Len(data) = 1 + 4 * Len(segments) + Len(rest)
         /\ device_parse_path(data) =
              [sw |-> "Ok", path |-> segments, consumed |-> 1 + 4 * Len(segments)]
         /\ SubSeq(data, 2 + 4 * Len(segments), Len(data)) = rest
<1> DEFINE n == Len(segments)
           m == 4 * n
           bytes == SegmentBytes(segments)
           front == <<n>> \o bytes
<1>1. /\ segments \in Seq(Segment) /\ n \in 2..5
      /\ segments[1] = Hardened(44) /\ segments[2] = Hardened(501)
  BY DEF IsPath
<1>2. segments = [k \in 1..n |-> segments[k]] /\ \A k \in 1..n : segments[k] \in Segment
  BY <1>1, LenProperties, ElementOfSeq
<1>3. /\ bytes \in Seq(Byte) /\ Len(bytes) = m
      /\ \A k \in 1..n, j \in 1..4 :
           /\ 4 * (k - 1) + j \in 1..m
           /\ bytes[4 * (k - 1) + j] = SegmentByte(segments[k], j)
  BY <1>1, SegmentBytesAre
<1>4. data = front \o rest
  BY DEF serialize_derivation_path
<1> HIDE DEF n, bytes
<1>5. <<n>> \in Seq(Byte) /\ Len(<<n>>) = 1 /\ <<n>>[1] = n /\ m \in Nat
  <2>1. n \in Nat /\ n < 256
    BY <1>1
  <2>2. n \in Byte
    BY <2>1, ByteIs, Zenon
  <2> QED
    BY <1>1, <2>2
<1> HIDE DEF m
<1>6. /\ front \in Seq(Byte) /\ Len(front) = 1 + m
      /\ front[1] = n
      /\ \A i \in 1..m : front[1 + i] = bytes[i]
  <2> HIDE DEF front
  <2>1. /\ front \in Seq(Byte) /\ Len(front) = Len(<<n>>) + Len(bytes)
        /\ \A i \in 1..Len(<<n>>) : front[i] = <<n>>[i]
        /\ \A i \in 1..Len(bytes) : front[Len(<<n>>) + i] = bytes[i]
    BY <1>3, <1>5, ConcatIs DEF front
  <2> QED
    BY <1>3, <1>5, <2>1
<1> HIDE DEF front
<1>7. /\ data \in Seq(Byte) /\ Len(data) = 1 + m + Len(rest) /\ Len(rest) \in Nat
      /\ \A i \in 1..(1 + m) : data[i] = front[i]
      /\ \A i \in 1..Len(rest) : data[1 + m + i] = rest[i]
  <2>1. /\ data \in Seq(Byte) /\ Len(data) = Len(front) + Len(rest) /\ Len(rest) \in Nat
        /\ \A i \in 1..Len(front) : data[i] = front[i]
        /\ \A i \in 1..Len(rest) : data[Len(front) + i] = rest[i]
    <3>1. front \in Seq(Byte) /\ rest \in Seq(Byte)
      BY <1>6
    <3>2. /\ front \o rest \in Seq(Byte) /\ Len(rest) \in Nat
          /\ Len(front \o rest) = Len(front) + Len(rest)
          /\ \A i \in 1..Len(front) : (front \o rest)[i] = front[i]
          /\ \A i \in 1..Len(rest) : (front \o rest)[Len(front) + i] = rest[i]
      BY <3>1, ConcatIs
    <3> QED
      BY <1>4, <3>2, Zenon
  <2> QED
    BY <1>6, <2>1
<1>8. ASSUME NEW k \in 1..n
      PROVE  SegmentOf(data[4 * k - 2], data[4 * k - 1], data[4 * k], data[4 * k + 1])
               = segments[k]
  <2>1. ASSUME NEW j \in 1..4
        PROVE  data[1 + (4 * (k - 1) + j)] = SegmentByte(segments[k], j)
    <3> DEFINE i == 4 * (k - 1) + j
    <3>1. i \in 1..m /\ bytes[i] = SegmentByte(segments[k], j)
      BY <1>3
    <3> HIDE DEF i
    <3>2. 1 + i \in 1..(1 + m)
      BY <1>5, <3>1
    <3> QED
      BY <1>6, <1>7, <3>1, <3>2 DEF i
  <2>2. /\ 1 + (4 * (k - 1) + 1) = 4 * k - 2 /\ 1 + (4 * (k - 1) + 2) = 4 * k - 1
        /\ 1 + (4 * (k - 1) + 3) = 4 * k /\ 1 + (4 * (k - 1) + 4) = 4 * k + 1
        /\ 1 \in 1..4 /\ 2 \in 1..4 /\ 3 \in 1..4 /\ 4 \in 1..4
    BY <1>1
  <2>3. /\ data[4 * k - 2] = SegmentByte(segments[k], 1)
        /\ data[4 * k - 1] = SegmentByte(segments[k], 2)
        /\ data[4 * k] = SegmentByte(segments[k], 3)
        /\ data[4 * k + 1] = SegmentByte(segments[k], 4)
    BY <2>1, <2>2, Zenon
  <2> QED
    BY <1>2, <2>3, SegmentRoundTrip, Zenon
<1>9. data[1] = n /\ data # <<>> /\ n \in 2..10 /\ ~(Len(data) < 1 + 4 * n)
  <2>1. 1 \in 1..(1 + m) /\ Len(data) >= 1 + m /\ Len(data) > 0
    BY <1>5, <1>7
  <2>2. data[1] = n /\ n \in 2..10
    BY <1>1, <1>6, <1>7, <2>1
  <2>3. data # <<>>
    BY <2>1, EmptySeq
  <2> QED
    BY <1>1, <2>1, <2>2, <2>3 DEF m
<1>10. device_parse_path(data) = [sw |-> "Ok", path |-> segments, consumed |-> 1 + 4 * n]
  <2>1. DevicePath(data) = segments
    BY <1>2, <1>8, <1>9, Zenon DEF DevicePath
  <2>2. ~(data[1] \notin 2..10)
    BY <1>9
  <2>3. ~(Len(data) < 1 + 4 * data[1]) /\ data # <<>> /\ 1 + 4 * data[1] = 1 + 4 * n
    BY <1>9
  <2>4. ~(DevicePath(data)[1] # Hardened(44) \/ DevicePath(data)[2] # Hardened(501))
    BY <1>1, <2>1
  <2>5. device_parse_path(data) =
          [sw |-> "Ok", path |-> DevicePath(data), consumed |-> 1 + 4 * data[1]]
    BY <2>2, <2>3, <2>4 DEF device_parse_path
  <2> QED
    BY <2>1, <2>3, <2>5, Zenon
<1>11. SubSeq(data, 2 + 4 * n, Len(data)) = rest
  <2>1. SubSeq(data, (1 + m) + 1, (1 + m) + Len(rest)) = rest
    BY <1>5, <1>7, PartIs
  <2>2. (1 + m) + 1 = 2 + 4 * n /\ (1 + m) + Len(rest) = Len(data)
    BY <1>1, <1>5, <1>7 DEF m
  <2> QED
    BY <2>1, <2>2, Zenon
<1> QED
  BY <1>7, <1>10, <1>11 DEF n, m

-----------------------------------------------------------------------------
(* The device takes the payload of sign-message apart as it was made.      *)
LEMMA SignRoundTrip ==
  ASSUME NEW segments, IsPath(segments), NEW message \in Seq(Byte), message # <<>>
  PROVE  /\ sign_payload(segments, message) \in Seq(Byte)
         /\ sign_payload(segments, message) # <<>>
         /\ parse_sign_payload(sign_payload(segments, message)) =
              [sw |-> "Ok", path |-> segments, message |-> message]
<1> DEFINE data == serialize_derivation_path(segments) \o message
           whole == <<1>> \o data
           consumed == 1 + 4 * Len(segments)
<1>1. /\ data \in Seq(Byte) /\ Len(data) = consumed + Len(message)
      /\ device_parse_path(data) = [sw |-> "Ok", path |-> segments, consumed |-> consumed]
      /\ SubSeq(data, 2 + 4 * Len(segments), Len(data)) = message
  BY AddressRoundTrip
<1>2. whole = sign_payload(segments, message)
  BY DEF sign_payload
<1>3. consumed \in Nat /\ Len(message) \in Nat /\ Len(message) > 0
      /\ 2 + 4 * Len(segments) = consumed + 1
  BY EmptySeq DEF IsPath
<1>4. <<1>> \in Seq(Byte) /\ Len(<<1>>) = 1 /\ <<1>>[1] = 1
  <2>1. 1 \in Byte
    BY ByteIs
  <2> QED
    BY <2>1
<1> HIDE DEF data, whole, consumed
<1>5. /\ whole \in Seq(Byte) /\ Len(whole) = 1 + Len(data) /\ Len(data) \in Nat
      /\ whole[1] = 1 /\ \A i \in 1..Len(data) : whole[1 + i] = data[i]
  <2>1. /\ whole \in Seq(Byte) /\ Len(whole) = Len(<<1>>) + Len(data) /\ Len(data) \in Nat
        /\ \A i \in 1..Len(<<1>>) : whole[i] = <<1>>[i]
        /\ \A i \in 1..Len(data) : whole[Len(<<1>>) + i] = data[i]
    <3>1. data \in Seq(Byte) /\ <<1>> \in Seq(Byte)
      BY <1>1, <1>4
    <3> QED
      BY <3>1, ConcatIs DEF whole
  <2> QED
    BY <1>4, <2>1
<1>6. SubSeq(whole, 2, Len(whole)) = data
  <2>1. SubSeq(whole, 1 + 1, 1 + Len(data)) = data
    BY <1>1, <1>5, PartIs
  <2> QED
    BY <1>5, <2>1
<1>7. whole # <<>> /\ ~(consumed = Len(data))
  BY <1>1, <1>3, <1>5
<1>8. parse_sign_payload(whole) = [sw |-> "Ok", path |-> segments, message |-> message]
  <2>1. /\ device_parse_path(data).sw = "Ok" /\ device_parse_path(data).path = segments
        /\ device_parse_path(data).consumed = consumed
    BY <1>1
  <2>2. SubSeq(data, consumed + 1, Len(data)) = message
    BY <1>1, <1>3
  <2> QED
    BY <1>5, <1>6, <1>7, <2>1, <2>2, Zenon DEF parse_sign_payload
<1> QED
  BY <1>2, <1>5, <1>7, <1>8

-----------------------------------------------------------------------------
(* The device takes the payload of load-idl apart as it was made.          *)
LEMMA AttestationSizes ==
  /\ KeyLength \in Nat \ {0} /\ SignatureLength \in Nat \ {0}
  /\ AttestationSize \in Nat \ {0}
  /\ AttestationSize = KeyLength + SignatureLength
BY PayloadAssumption DEF AttestationSize

(* An attestation is a key and a signature.                                *)
LEMMA AttestationParts ==
  ASSUME NEW attestation \in Attestation
  PROVE  /\ \A i \in 1..KeyLength : attestation.signer[i] \in Byte
         /\ \A i \in 1..SignatureLength : attestation.signature[i] \in Byte
         /\ attestation =
              [signer    |-> [i \in 1..KeyLength |-> attestation.signer[i]],
               signature |-> [i \in 1..SignatureLength |-> attestation.signature[i]]]
<1>1. /\ attestation.signer \in [1..KeyLength -> Byte]
      /\ attestation.signature \in [1..SignatureLength -> Byte]
      /\ attestation = [signer |-> attestation.signer, signature |-> attestation.signature]
  BY Zenon DEF Attestation, Key
<1> QED
  BY <1>1, Zenon

(* The attestations of a payload, one after the other.                     *)
LEMMA AttestationBytesAre ==
  ASSUME NEW attestations \in Seq(Attestation)
  PROVE  /\ AttestationBytes(attestations) \in Seq(Byte)
         /\ Len(AttestationBytes(attestations)) = Len(attestations) * AttestationSize
         /\ \A k \in 1..Len(attestations), j \in 1..AttestationSize :
              LET i == (k - 1) * AttestationSize + j
              IN  /\ i \in 1..(Len(attestations) * AttestationSize)
                  /\ AttestationBytes(attestations)[i] = AttestationByte(attestations[k], j)
<1> DEFINE n == Len(attestations)
           s == AttestationSize
           bytes == AttestationBytes(attestations)
<1>1. n \in Nat /\ \A k \in 1..n : attestations[k] \in Attestation
  BY LenProperties
<1>2. bytes = [i \in 1..(n * s) |->
                 AttestationByte(attestations[1 + ((i - 1) \div s)], 1 + ((i - 1) % s))]
  BY DEF AttestationBytes
<1>3. s \in Nat \ {0}
  BY AttestationSizes
<1> HIDE DEF n, s, bytes
<1>4. /\ \A k \in 1..n, j \in 1..s :
            LET i == (k - 1) * s + j
            IN  i \in 1..(n * s) /\ 1 + ((i - 1) \div s) = k /\ 1 + ((i - 1) % s) = j
      /\ \A i \in 1..(n * s) : 1 + ((i - 1) \div s) \in 1..n /\ 1 + ((i - 1) % s) \in 1..s
      /\ n * s \in Nat
  BY <1>1, <1>3, BlockIndex
<1>5. \A a \in Attestation, j \in 1..s : AttestationByte(a, j) \in Byte
  <2> SUFFICES ASSUME NEW a \in Attestation, NEW j \in 1..s
               PROVE  AttestationByte(a, j) \in Byte
    OBVIOUS
  <2>1. CASE j <= KeyLength
    <3>1. j \in 1..KeyLength
      BY <1>3, <2>1, AttestationSizes
    <3> QED
      BY <2>1, <3>1, AttestationParts, Zenon DEF AttestationByte
  <2>2. CASE ~(j <= KeyLength)
    <3>1. j - KeyLength \in 1..SignatureLength
      BY <2>2, AttestationSizes DEF s
    <3> QED
      BY <2>2, <3>1, AttestationParts, Zenon DEF AttestationByte
  <2> QED
    BY <2>1, <2>2
<1>6. bytes \in [1..(n * s) -> Byte]
  <2>1. ASSUME NEW i \in 1..(n * s)
        PROVE  AttestationByte(attestations[1 + ((i - 1) \div s)], 1 + ((i - 1) % s)) \in Byte
    BY <1>1, <1>4, <1>5, Zenon
  <2> QED
    BY <1>2, <2>1, Zenon
<1>7. bytes \in Seq(Byte) /\ Len(bytes) = n * s
  BY <1>4, <1>6, FunctionIsSeq
<1>8. ASSUME NEW k \in 1..n, NEW j \in 1..s
      PROVE  LET i == (k - 1) * s + j
             IN  i \in 1..(n * s) /\ bytes[i] = AttestationByte(attestations[k], j)
  <2> DEFINE i == (k - 1) * s + j
  <2>1. i \in 1..(n * s) /\ 1 + ((i - 1) \div s) = k /\ 1 + ((i - 1) % s) = j
    BY <1>4
  <2> HIDE DEF i
  <2>2. i \in 1..(n * s) /\ bytes[i] = AttestationByte(attestations[k], j)
    BY <1>2, <2>1, Zenon
  <2> QED
    BY <2>2 DEF i
<1> QED
  BY <1>7, <1>8 DEF n, s, bytes

(* Where the parts of an import payload are.                               *)
LEMMA ImportLayout ==
  ASSUME NEW idl \in Seq(Byte), FitsU16(Len(idl)),
         NEW attestations \in Seq(Attestation), Len(attestations) < 256
  PROVE  LET sent == import_payload(idl, attestations)
             start    == 4 + Len(attestations) * AttestationSize
         IN  /\ sent \in Seq(Byte) /\ Len(sent) = start + Len(idl) /\ start \in Nat
             /\ start >= 4 /\ Len(idl) \in Nat /\ Len(attestations) \in Nat
             /\ sent[1] = 1 /\ sent[2] = Len(attestations)
             /\ U16Of(sent[3], sent[4]) = Len(idl)
             /\ \A i \in 1..Len(AttestationBytes(attestations)) :
                  sent[4 + i] = AttestationBytes(attestations)[i]
             /\ \A i \in 1..Len(idl) : sent[start + i] = idl[i]
<1> DEFINE n == Len(attestations)
           m == n * AttestationSize
           bytes == AttestationBytes(attestations)
           size == U16Bytes(Len(idl))
           front == <<1, n>> \o size
           back == bytes \o idl
           whole == front \o back
<1>1. n \in Nat /\ n < 256 /\ Len(idl) \in Nat
  BY LenProperties
<1>2. size \in Seq(Byte) /\ Len(size) = 2 /\ U16Of(size[1], size[2]) = Len(idl)
  BY <1>1, U16RoundTrip
<1>3. bytes \in Seq(Byte) /\ Len(bytes) = m
  BY AttestationBytesAre
<1>4. whole = import_payload(idl, attestations)
  BY DEF import_payload
<1> HIDE DEF n, bytes, size
<1>5. /\ <<1, n>> \in Seq(Byte) /\ Len(<<1, n>>) = 2
      /\ <<1, n>>[1] = 1 /\ <<1, n>>[2] = n
  <2>1. n \in Byte
    BY <1>1, ByteIs, Zenon
  <2>2. 1 \in Byte
    BY ByteIs
  <2> QED
    BY <2>1, <2>2
<1>6. m \in Nat
  <2>1. \A a, b \in Nat : a * b \in Nat
    OBVIOUS
  <2> QED
    BY <1>1, <2>1, AttestationSizes
<1> HIDE DEF m
<1>7. /\ front \in Seq(Byte) /\ Len(front) = 4
      /\ front[1] = 1 /\ front[2] = n /\ front[3] = size[1] /\ front[4] = size[2]
  <2>1. /\ front \in Seq(Byte) /\ Len(front) = Len(<<1, n>>) + Len(size)
        /\ \A i \in 1..Len(<<1, n>>) : front[i] = <<1, n>>[i]
        /\ \A i \in 1..Len(size) : front[Len(<<1, n>>) + i] = size[i]
    <3>1. <<1, n>> \in Seq(Byte) /\ size \in Seq(Byte)
      BY <1>2, <1>5
    <3> QED
      BY <3>1, ConcatIs DEF front
  <2> HIDE DEF front
  <2>2. Len(front) = 4 /\ 1 \in 1..2 /\ 2 \in 1..2 /\ 2 + 1 = 3 /\ 2 + 2 = 4
    BY <1>2, <1>5, <2>1
  <2> QED
    BY <1>2, <1>5, <2>1, <2>2
<1> HIDE DEF front
<1>8. /\ back \in Seq(Byte) /\ Len(back) = m + Len(idl)
      /\ \A i \in 1..m : back[i] = bytes[i]
      /\ \A i \in 1..Len(idl) : back[m + i] = idl[i]
  <2>1. /\ bytes \o idl \in Seq(Byte) /\ Len(bytes \o idl) = Len(bytes) + Len(idl)
        /\ \A i \in 1..Len(bytes) : (bytes \o idl)[i] = bytes[i]
        /\ \A i \in 1..Len(idl) : (bytes \o idl)[Len(bytes) + i] = idl[i]
    <3>1. bytes \in Seq(Byte) /\ idl \in Seq(Byte)
      BY <1>3
    <3> QED
      BY <3>1, ConcatIs
  <2> QED
    BY <1>3, <2>1, Zenon
<1> HIDE DEF back
<1>9. /\ whole \in Seq(Byte) /\ Len(whole) = 4 + Len(back)
      /\ \A i \in 1..4 : whole[i] = front[i]
      /\ \A i \in 1..Len(back) : whole[4 + i] = back[i]
  <2>1. /\ front \o back \in Seq(Byte) /\ Len(front \o back) = Len(front) + Len(back)
        /\ \A i \in 1..Len(front) : (front \o back)[i] = front[i]
        /\ \A i \in 1..Len(back) : (front \o back)[Len(front) + i] = back[i]
    <3>1. front \in Seq(Byte) /\ back \in Seq(Byte)
      BY <1>7, <1>8
    <3> QED
      BY <3>1, ConcatIs
  <2> QED
    BY <1>7, <2>1, Zenon
<1> HIDE DEF whole
<1>10. \A i \in 1..m : whole[4 + i] = bytes[i]
  <2>1. \A i \in 1..m : i \in 1..Len(back)
    BY <1>1, <1>6, <1>8
  <2> QED
    BY <1>8, <1>9, <2>1, Zenon
<1>11. \A i \in 1..Len(idl) : whole[(4 + m) + i] = idl[i]
  <2>1. \A i \in 1..Len(idl) : m + i \in 1..Len(back) /\ 4 + (m + i) = (4 + m) + i
    BY <1>1, <1>6, <1>8
  <2> QED
    BY <1>8, <1>9, <2>1, Zenon
<1>12. Len(whole) = (4 + m) + Len(idl) /\ 4 + m \in Nat /\ 4 + m >= 4
  BY <1>1, <1>6, <1>8, <1>9
<1>13. whole[1] = 1 /\ whole[2] = n /\ whole[3] = size[1] /\ whole[4] = size[2]
  BY <1>7, <1>9
<1>14. U16Of(whole[3], whole[4]) = Len(idl)
  BY <1>2, <1>13, Zenon
<1>15. \A i \in 1..Len(bytes) : whole[4 + i] = bytes[i]
  BY <1>3, <1>10, Zenon
<1> QED
  BY <1>1, <1>4, <1>9, <1>11, <1>12, <1>13, <1>14, <1>15, Zenon DEF n, m, bytes

(* The device reads what fits its limits, and refuses the rest.            *)
LEMMA ImportRoundTrip ==
  ASSUME NEW idl \in Seq(Byte), FitsU16(Len(idl)),
         NEW attestations \in Seq(Attestation), Len(attestations) < 256
  PROVE  LET sent == import_payload(idl, attestations)
             parsed   == parse_import_payload(sent)
             fits     == Len(attestations) \in 1..MaxAttestations /\ Len(idl) \in 1..MaxImportedIdl
         IN  /\ sent \in Seq(Byte) /\ sent # <<>>
             /\ Len(sent) = 4 + Len(attestations) * AttestationSize + Len(idl)
             /\ (parsed.sw = "Ok") <=> fits
             /\ fits => parsed = [sw |-> "Ok", attestations |-> attestations, idl |-> idl]
<1> DEFINE n == Len(attestations)
           s == AttestationSize
           start == 4 + n * s
           bytes == AttestationBytes(attestations)
           whole == import_payload(idl, attestations)
           fits == n \in 1..MaxAttestations /\ Len(idl) \in 1..MaxImportedIdl
<1>1. /\ whole \in Seq(Byte) /\ Len(whole) = start + Len(idl) /\ start \in Nat
      /\ start >= 4 /\ Len(idl) \in Nat /\ n \in Nat
      /\ whole[1] = 1 /\ whole[2] = n
      /\ U16Of(whole[3], whole[4]) = Len(idl)
      /\ \A i \in 1..Len(bytes) : whole[4 + i] = bytes[i]
      /\ \A i \in 1..Len(idl) : whole[start + i] = idl[i]
  BY ImportLayout
<1>2. /\ Len(bytes) = n * s
      /\ \A k \in 1..n, j \in 1..s :
           LET i == (k - 1) * s + j
           IN  i \in 1..(n * s) /\ bytes[i] = AttestationByte(attestations[k], j)
  BY AttestationBytesAre
<1>3. s \in Nat \ {0} /\ s = KeyLength + SignatureLength
      /\ KeyLength \in Nat \ {0} /\ SignatureLength \in Nat \ {0}
  BY AttestationSizes
<1>4. attestations = [k \in 1..n |-> attestations[k]] /\ \A k \in 1..n : attestations[k] \in Attestation
  BY LenProperties, ElementOfSeq
<1> HIDE DEF whole, bytes, s, n
<1>5. ASSUME NEW k \in 1..n
      PROVE  AttestationAt(whole, k) = attestations[k]
  <2> DEFINE a == attestations[k]
             base == (k - 1) * s
  <2>1. ASSUME NEW j \in 1..s
        PROVE  whole[4 + (base + j)] = AttestationByte(a, j)
    BY <1>1, <1>2
  <2>2. base \in Nat
    <3>1. \A p, q \in Nat : p * q \in Nat
      OBVIOUS
    <3>2. k - 1 \in Nat /\ s \in Nat
      BY <1>1, <1>3
    <3> QED
      BY <3>1, <3>2
  <2> HIDE DEF base
  <2>3. ASSUME NEW i \in 1..KeyLength
        PROVE  whole[4 + base + i] = a.signer[i]
    <3>1. i \in 1..s /\ 4 + (base + i) = 4 + base + i /\ i <= KeyLength
      BY <1>3, <2>2
    <3> QED
      BY <2>1, <3>1, Zenon DEF AttestationByte
  <2>4. ASSUME NEW i \in 1..SignatureLength
        PROVE  whole[4 + base + KeyLength + i] = a.signature[i]
    <3>1. /\ KeyLength + i \in 1..s /\ 4 + (base + (KeyLength + i)) = 4 + base + KeyLength + i
          /\ ~(KeyLength + i <= KeyLength) /\ (KeyLength + i) - KeyLength = i
      BY <1>3, <2>2
    <3>2. AttestationByte(a, KeyLength + i) = a.signature[i]
      BY <3>1, Zenon DEF AttestationByte
    <3>3. whole[4 + (base + (KeyLength + i))] = AttestationByte(a, KeyLength + i)
      BY <2>1, <3>1, Zenon
    <3> QED
      BY <3>1, <3>2, <3>3, Zenon
  <2>5. a = [signer    |-> [i \in 1..KeyLength |-> a.signer[i]],
             signature |-> [i \in 1..SignatureLength |-> a.signature[i]]]
    BY <1>4, AttestationParts
  <2>6. AttestationAt(whole, k) =
          [signer    |-> [i \in 1..KeyLength |-> whole[4 + base + i]],
           signature |-> [i \in 1..SignatureLength |-> whole[4 + base + KeyLength + i]]]
    BY Zenon DEF AttestationAt, base, s
  <2> HIDE DEF a
  <2>7. /\ [i \in 1..KeyLength |-> whole[4 + base + i]] = [i \in 1..KeyLength |-> a.signer[i]]
        /\ [i \in 1..SignatureLength |-> whole[4 + base + KeyLength + i]]
             = [i \in 1..SignatureLength |-> a.signature[i]]
    BY <2>3, <2>4, Zenon
  <2> QED
    BY <2>5, <2>6, <2>7, Zenon DEF a
<1>6. [k \in 1..n |-> AttestationAt(whole, k)] = attestations
  BY <1>4, <1>5, Zenon
<1>7. SubSeq(whole, start + 1, Len(whole)) = idl
  <2> HIDE DEF start
  <2>1. SubSeq(whole, start + 1, start + Len(idl)) = idl
    BY <1>1, PartIs
  <2> QED
    BY <1>1, <2>1, Zenon
<1>8. ~(Len(whole) < 4) /\ ~(whole[1] # 1) /\ ~(Len(whole) # start + Len(idl)) /\ whole # <<>>
  BY <1>1
<1>9. ASSUME fits
      PROVE  parse_import_payload(whole) = [sw |-> "Ok", attestations |-> attestations, idl |-> idl]
  <2>1. ~(whole[2] \notin 1..MaxAttestations)
        /\ ~(U16Of(whole[3], whole[4]) \notin 1..MaxImportedIdl)
    BY <1>1, <1>9
  <2>2. /\ ~(Len(whole) # (4 + whole[2] * s) + U16Of(whole[3], whole[4]))
        /\ [k \in 1..whole[2] |-> AttestationAt(whole, k)] = attestations
        /\ SubSeq(whole, (4 + whole[2] * s) + 1, Len(whole)) = idl
    BY <1>1, <1>6, <1>7, Zenon
  <2> QED
    BY <1>8, <2>1, <2>2, ZenonT(60) DEF parse_import_payload, s
<1>10. ASSUME ~fits
       PROVE  parse_import_payload(whole).sw # "Ok"
  <2>1. whole[2] \notin 1..MaxAttestations \/ U16Of(whole[3], whole[4]) \notin 1..MaxImportedIdl
    BY <1>1, <1>10
  <2> QED
    BY <1>8, <2>1 DEF parse_import_payload, NoImport
<1>11. whole \in Seq(Byte) /\ Len(whole) = 4 + n * s + Len(idl)
  BY <1>1
<1>12. (parse_import_payload(whole).sw = "Ok") <=> fits
  BY <1>9, <1>10
<1> HIDE DEF fits
<1> QED
  BY <1>8, <1>9, <1>11, <1>12, Zenon DEF whole, s, n, fits

(* Only an IDL is accepted, and what is accepted is what was sent.         *)
LEMMA PrepareRoundTrip ==
  ASSUME NEW idl \in Seq(Byte), FitsU16(Len(idl)),
         NEW attestations \in Seq(Attestation), Len(attestations) < 256
  PROVE  LET prepared == prepare_idl_import(import_payload(idl, attestations))
             fits     == /\ Len(attestations) \in 1..MaxAttestations
                         /\ Len(idl) \in 1..MaxImportedIdl
                         /\ idl \in DOMAIN ProgramIdOf
         IN  /\ (prepared.sw = "Ok") <=> fits
             /\ fits => prepared = [sw |-> "Ok", attestations |-> attestations, idl |-> idl]
<1> DEFINE parsed == parse_import_payload(import_payload(idl, attestations))
           small == Len(attestations) \in 1..MaxAttestations /\ Len(idl) \in 1..MaxImportedIdl
           whole == [sw |-> "Ok", attestations |-> attestations, idl |-> idl]
<1>1. /\ (parsed.sw = "Ok") <=> small
      /\ small => parsed = whole
  BY ImportRoundTrip
<1> HIDE DEF parsed
<1>2. prepare_idl_import(import_payload(idl, attestations)) =
        IF parsed.sw = "Ok" /\ parsed.idl \notin DOMAIN ProgramIdOf
        THEN NoImport("InvalidData") ELSE parsed
  BY DEF prepare_idl_import, parsed
<1>3. NoImport("InvalidData").sw # "Ok" /\ whole.idl = idl /\ whole.sw = "Ok"
  BY DEF NoImport
<1> HIDE DEF small, whole
<1>4. CASE small
  BY <1>1, <1>2, <1>3, <1>4 DEF small, whole
<1>5. CASE ~small
  BY <1>1, <1>2, <1>5 DEF small
<1> QED
  BY <1>4, <1>5

-----------------------------------------------------------------------------
(* What is stored is loaded again, and what is answered is read.           *)
LEMMA ProgramIdIs ==
  ASSUME NEW idl \in DOMAIN ProgramIdOf
  PROVE  ProgramIdOf[idl] \in Seq(Byte) /\ Len(ProgramIdOf[idl]) = KeyLength
<1>1. ProgramIdOf[idl] \in [1..KeyLength -> Byte] /\ KeyLength \in Nat
  <2>1. ProgramIdOf \in [DOMAIN ProgramIdOf -> Key]
    BY PayloadAssumption
  <2> QED
    BY <2>1, AttestationSizes DEF Key
<1> QED
  BY <1>1, FunctionIsSeq

(* The slot is loaded as it was stored, whatever was in it before.         *)
LEMMA SlotRoundTrip ==
  ASSUME NEW idl \in DOMAIN ProgramIdOf, idl \in Seq(Byte), Len(idl) \in 1..MaxImportedIdl
  PROVE  load_imported_idl(store_imported_idl(idl, ProgramIdOf[idl]))
           = [program_id |-> ProgramIdOf[idl], idl |-> idl]
<1> DEFINE key == ProgramIdOf[idl]
           size == U16Bytes(Len(idl))
           front == <<1>> \o size
           header == front \o key
           image == store_imported_idl(idl, key)
           h == HeaderSize
<1>1. key \in Seq(Byte) /\ Len(key) = KeyLength
  BY ProgramIdIs
<1>2. /\ Len(idl) \in Nat /\ Len(idl) >= 1 /\ Len(idl) <= MaxImportedIdl /\ MaxImportedIdl \in Nat
      /\ FitsU16(Len(idl)) /\ KeyLength \in Nat
  BY PayloadAssumption, LenProperties, SMT DEF FitsU16
<1>3. size \in Seq(Byte) /\ Len(size) = 2 /\ U16Of(size[1], size[2]) = Len(idl)
  BY <1>2, U16RoundTrip
<1>4. h \in Nat /\ h = 3 + KeyLength /\ SlotSize = h + MaxImportedIdl
  BY <1>2 DEF HeaderSize, SlotSize
<1> HIDE DEF key, size, h
<1>5. <<1>> \in Seq(Byte) /\ Len(<<1>>) = 1 /\ <<1>>[1] = 1 /\ 0 \in Byte
  <2>1. 1 \in Byte /\ 0 \in Byte
    BY ByteIs
  <2> QED
    BY <2>1
<1>6. /\ front \in Seq(Byte) /\ Len(front) = 3
      /\ front[1] = 1 /\ front[2] = size[1] /\ front[3] = size[2]
  <2>1. /\ <<1>> \o size \in Seq(Byte) /\ Len(<<1>> \o size) = Len(<<1>>) + Len(size)
        /\ \A i \in 1..Len(<<1>>) : (<<1>> \o size)[i] = <<1>>[i]
        /\ \A i \in 1..Len(size) : (<<1>> \o size)[Len(<<1>>) + i] = size[i]
    <3>1. <<1>> \in Seq(Byte) /\ size \in Seq(Byte)
      BY <1>3, <1>5
    <3> QED
      BY <3>1, ConcatIs
  <2>2. 1 \in 1..1 /\ 1 \in 1..2 /\ 2 \in 1..2 /\ 1 + 1 = 2 /\ 1 + 2 = 3
    OBVIOUS
  <2> QED
    BY <1>3, <1>5, <2>1, <2>2
<1> HIDE DEF front
<1>7. /\ header \in Seq(Byte) /\ Len(header) = h
      /\ header[1] = 1 /\ header[2] = size[1] /\ header[3] = size[2]
      /\ \A i \in 1..KeyLength : header[3 + i] = key[i]
  <2>1. /\ front \o key \in Seq(Byte) /\ Len(front \o key) = Len(front) + Len(key)
        /\ \A i \in 1..Len(front) : (front \o key)[i] = front[i]
        /\ \A i \in 1..Len(key) : (front \o key)[Len(front) + i] = key[i]
    <3>1. front \in Seq(Byte) /\ key \in Seq(Byte)
      BY <1>1, <1>6
    <3> QED
      BY <3>1, ConcatIs
  <2>2. 1 \in 1..3 /\ 2 \in 1..3 /\ 3 \in 1..3
    OBVIOUS
  <2> HIDE DEF header
  <2> QED
    BY <1>1, <1>4, <1>6, <2>1, <2>2, Zenon DEF header
<1>8. image = [i \in 1..(h + MaxImportedIdl) |->
                 IF i <= h THEN header[i]
                 ELSE IF i <= h + Len(idl) THEN idl[i - h] ELSE 0]
  BY <1>4, Zenon DEF store_imported_idl, front, size, h
<1> HIDE DEF header, image
<1>9. image \in Seq(Byte) /\ Len(image) = h + MaxImportedIdl
  <2>1. ASSUME NEW i \in 1..(h + MaxImportedIdl)
        PROVE  (IF i <= h THEN header[i]
                ELSE IF i <= h + Len(idl) THEN idl[i - h] ELSE 0) \in Byte
    <3>1. i \in Nat /\ i >= 1
      BY <1>2, <1>4
    <3>2. CASE i <= h
      BY <1>4, <1>7, <3>1, <3>2, ElementOfSeq
    <3>3. CASE ~(i <= h) /\ i <= h + Len(idl)
      <4>1. i - h \in 1..Len(idl)
        BY <1>2, <1>4, <3>1, <3>3
      <4>2. idl[i - h] \in Byte
        BY <4>1, ElementOfSeq
      <4> QED
        BY <3>3, <4>2
    <3>4. CASE ~(i <= h) /\ ~(i <= h + Len(idl))
      BY <1>5, <3>4
    <3> QED
      BY <3>2, <3>3, <3>4
  <2>2. image \in [1..(h + MaxImportedIdl) -> Byte]
    BY <1>8, <2>1, Zenon
  <2>3. h + MaxImportedIdl \in Nat
    BY <1>2, <1>4
  <2> QED
    BY <2>2, <2>3, FunctionIsSeq
<1>10. \A i \in 1..h : image[i] = header[i]
  <2>1. \A i \in 1..h : i \in 1..(h + MaxImportedIdl) /\ i <= h
    BY <1>2, <1>4
  <2> QED
    BY <1>8, <2>1, Zenon
<1>11. \A i \in 1..Len(idl) : image[h + i] = idl[i]
  <2>1. \A i \in 1..Len(idl) :
          /\ h + i \in 1..(h + MaxImportedIdl) /\ ~(h + i <= h) /\ h + i <= h + Len(idl)
          /\ (h + i) - h = i
    BY <1>2, <1>4
  <2> QED
    BY <1>8, <2>1, Zenon
<1>12. SubSeq(image, h + 1, h + Len(idl)) = idl
  <2>1. h + Len(idl) <= Len(image)
    BY <1>2, <1>4, <1>9
  <2> QED
    BY <1>4, <1>9, <1>11, <2>1, PartIs
<1>13. SubSeq(image, 4, h) = key
  <2>1. ASSUME NEW i \in 1..Len(key)
        PROVE  image[3 + i] = key[i]
    <3>1. i \in 1..KeyLength /\ 3 + i \in 1..h
      BY <1>1, <1>2, <1>4
    <3> QED
      BY <1>7, <1>10, <3>1, Zenon
  <2>2. 3 + Len(key) <= Len(image) /\ 3 + 1 = 4 /\ 3 + Len(key) = h
    BY <1>1, <1>2, <1>4, <1>9
  <2>3. SubSeq(image, 3 + 1, 3 + Len(key)) = key
    BY <1>1, <1>9, <2>1, <2>2, PartIs
  <2> QED
    BY <2>2, <2>3, Zenon
<1>14. image[1] = 1 /\ image[2] = size[1] /\ image[3] = size[2]
  <2>1. 1 \in 1..h /\ 2 \in 1..h /\ 3 \in 1..h
    BY <1>2, <1>4
  <2> QED
    BY <1>7, <1>10, <2>1, Zenon
<1>15. U16Of(image[2], image[3]) = Len(idl)
  BY <1>3, <1>14, Zenon
<1>16. load_imported_idl(image) = [program_id |-> key, idl |-> idl]
  <2>1. ~(image[1] # 1) /\ ~(Len(idl) \notin 1..MaxImportedIdl) /\ ~(idl \notin DOMAIN ProgramIdOf)
    BY <1>14
  <2> QED
    BY <1>12, <1>13, <1>15, <2>1, Zenon DEF load_imported_idl, h
<1> QED
  BY <1>16, Zenon DEF key, image

(* The tool reads the answer as it was written.                            *)
LEMMA ResponseRoundTrip ==
  ASSUME NEW idl \in DOMAIN ProgramIdOf, NEW count, count \in Nat, count < 256,
         NEW idl_len, idl_len \in Nat, FitsU16(idl_len)
  PROVE  decode_load_idl_response(load_idl_response(ProgramIdOf[idl], count, idl_len))
           = [program_id |-> ProgramIdOf[idl], signer_count |-> count, idl_len |-> idl_len]
<1> DEFINE key == ProgramIdOf[idl]
           size == U16Bytes(idl_len)
           back == <<count>> \o size
           whole == key \o back
           h == KeyLength
<1>1. key \in Seq(Byte) /\ Len(key) = h /\ h \in Nat
  BY ProgramIdIs, AttestationSizes
<1>2. size \in Seq(Byte) /\ Len(size) = 2 /\ U16Of(size[1], size[2]) = idl_len
  BY U16RoundTrip
<1> HIDE DEF key, size, h
<1>3. <<count>> \in Seq(Byte) /\ Len(<<count>>) = 1 /\ <<count>>[1] = count
  <2>1. count \in Byte
    BY ByteIs, Zenon
  <2> QED
    BY <2>1
<1>4. /\ back \in Seq(Byte) /\ Len(back) = 3
      /\ back[1] = count /\ back[2] = size[1] /\ back[3] = size[2]
  <2>1. /\ <<count>> \o size \in Seq(Byte) /\ Len(<<count>> \o size) = Len(<<count>>) + Len(size)
        /\ \A i \in 1..Len(<<count>>) : (<<count>> \o size)[i] = <<count>>[i]
        /\ \A i \in 1..Len(size) : (<<count>> \o size)[Len(<<count>>) + i] = size[i]
    <3>1. <<count>> \in Seq(Byte) /\ size \in Seq(Byte)
      BY <1>2, <1>3
    <3> QED
      BY <3>1, ConcatIs
  <2>2. 1 \in 1..1 /\ 1 \in 1..2 /\ 2 \in 1..2 /\ 1 + 1 = 2 /\ 1 + 2 = 3
    OBVIOUS
  <2> QED
    BY <1>2, <1>3, <2>1, <2>2
<1> HIDE DEF back
<1>5. /\ whole \in Seq(Byte) /\ Len(whole) = h + 3
      /\ \A i \in 1..h : whole[i] = key[i]
      /\ whole[h + 1] = count /\ whole[h + 2] = size[1] /\ whole[h + 3] = size[2]
  <2>1. /\ key \o back \in Seq(Byte) /\ Len(key \o back) = Len(key) + Len(back)
        /\ \A i \in 1..Len(key) : (key \o back)[i] = key[i]
        /\ \A i \in 1..Len(back) : (key \o back)[Len(key) + i] = back[i]
    <3>1. key \in Seq(Byte) /\ back \in Seq(Byte)
      BY <1>1, <1>4
    <3> QED
      BY <3>1, ConcatIs
  <2>2. 1 \in 1..3 /\ 2 \in 1..3 /\ 3 \in 1..3
    OBVIOUS
  <2> QED
    BY <1>1, <1>4, <2>1, <2>2, Zenon
<1> HIDE DEF whole
<1>6. SubSeq(whole, 1, h) = key
  <2>1. SubSeq(whole, 0 + 1, 0 + Len(key)) = key
    <3>1. 0 \in Nat /\ 0 + Len(key) <= Len(whole) /\ \A i \in 1..Len(key) : whole[0 + i] = key[i]
      BY <1>1, <1>5
    <3> QED
      BY <1>1, <1>5, <3>1, PartIs
  <2> QED
    BY <1>1, <2>1
<1>7. U16Of(whole[h + 2], whole[h + 3]) = idl_len
  BY <1>2, <1>5, Zenon
<1>8. decode_load_idl_response(whole)
        = [program_id |-> key, signer_count |-> count, idl_len |-> idl_len]
  BY <1>5, <1>6, <1>7, Zenon DEF decode_load_idl_response, h
<1>9. whole = load_idl_response(ProgramIdOf[idl], count, idl_len)
  BY DEF load_idl_response, whole, key, back, size
<1> QED
  BY <1>8, <1>9, Zenon DEF key

-----------------------------------------------------------------------------
(* The inductive invariant: an upload is a beginning of its payload, the   *)
(* context of the device holds exactly that beginning, and the payload is  *)
(* the one of the command.                                                 *)
Types ==
  /\ contexts \in [{"sign", "load_idl"} -> Contexts(Byte)]
  /\ phase # "idle" => command \in Commands
  /\ phase \in {"ask_address", "encode"} => offset = 0

PathIsRead ==
  phase \in {"ask_address", "encode", "send"} /\ command.ins # "load_idl" => IsPath(path)

OnItsWay ==
  /\ phase = "ask_address" => command.ins # "load_idl"
  /\ phase \in {"encode", "send"} => command.ins # "pubkey"
  /\ phase \in {"encode", "send"} /\ command.ins = "load_idl" =>
       /\ FitsU16(Len(command.idl)) /\ command.idl # <<>>
       /\ Len(command.attestations) < 256 /\ command.attestations # <<>>
  /\ phase \in {"encode", "send"} /\ command.ins = "sign" /\ offset = 0 =>
       ~contexts["sign"].in_progress

Wanted ==
  IF command.ins = "sign" THEN sign_payload(path, command.message)
  ELSE import_payload(command.idl, command.attestations)

UploadIsABeginning ==
  phase = "send" =>
    /\ payload = Wanted /\ payload \in Seq(Byte)
    /\ command.ins = "sign" => command.message # <<>>
    /\ offset \in Nat /\ offset < Len(payload)
    /\ offset > 0 => contexts[command.ins] =
                       [payload |-> SubSeq(payload, 1, offset), in_progress |-> TRUE]

IInv ==
  /\ Types /\ PathIsRead /\ OnItsWay /\ UploadIsABeginning
  /\ DeviceReadsTheCommand /\ AnswerTellsTheSlot

(* The arguments of a command are of their types.                          *)
LEMMA CommandParts ==
  ASSUME NEW cmd \in Commands
  PROVE  /\ cmd.ins \in {"pubkey", "sign", "load_idl"}
         /\ cmd.ins = "sign" => cmd.message \in Seq(Byte)
         /\ cmd.ins = "load_idl" => /\ cmd.idl \in Seq(Byte)
                                    /\ cmd.attestations \in Seq(Attestation)
<1>1. /\ Messages \subseteq Seq(Byte) /\ Idls \subseteq Seq(Byte)
      /\ AttestationLists \subseteq Seq(Attestation)
  BY PayloadAssumption
<1> QED
  BY <1>1 DEF Commands

(* One chunk: the pieces follow each other without a gap, and the device   *)
(* answers for one of four reasons.                                        *)
LEMMA ChunkIsNext ==
  ASSUME IInv, phase = "send"
  PROVE  /\ End \in Nat /\ offset < End /\ End <= Len(payload) /\ Len(payload) \in Nat
         /\ Ingested.result = "incomplete" =>
              /\ End < Len(payload)
              /\ Ingested.ctx = [payload |-> SubSeq(payload, 1, End), in_progress |-> TRUE]
         /\ Ingested.result = "completed" => Ingested.ctx.payload = payload
         /\ Ingested.result \in {"incomplete", "completed", "WrongP1P2", "WrongApduLength"}
         /\ Ingested.result = "WrongP1P2" =>
              offset = 0 /\ contexts[command.ins].in_progress
         /\ Ingested.result = "WrongApduLength" => Len(payload) > MaxPayload
         /\ Ingested.ctx \in Contexts(Byte)
<1> DEFINE ctx == contexts[command.ins]
           size == Len(payload)
<1>1. /\ payload \in Seq(Byte) /\ offset \in Nat /\ offset < size /\ size \in Nat
      /\ offset > 0 => ctx = [payload |-> SubSeq(payload, 1, offset), in_progress |-> TRUE]
      /\ ctx \in Contexts(Byte)
  <2>1. command \in Commands /\ command.ins # "pubkey" /\ payload \in Seq(Byte)
    BY DEF IInv, Types, OnItsWay, UploadIsABeginning
  <2>2. command.ins \in {"sign", "load_idl"}
    BY <2>1, CommandParts
  <2> QED
    BY <2>1, <2>2, LenProperties DEF IInv, Types, UploadIsABeginning
<1>2. ChunkSize \in Nat \ {0} /\ MaxPayload \in Nat
  BY PayloadAssumption, SMT DEF MaxPayload
<1>3. End \in Nat /\ offset < End /\ End <= size
  BY <1>1, <1>2 DEF End
<1>4. /\ SubSeq(payload, 1, offset) \in Seq(Byte) /\ Len(SubSeq(payload, 1, offset)) = offset
      /\ Piece \in Seq(Byte) /\ Len(Piece) = End - offset
      /\ SubSeq(payload, 1, offset) \o Piece = SubSeq(payload, 1, End)
      /\ <<>> \o Piece = Piece /\ Len(<<>>) = 0 /\ <<>> \in Seq(Byte)
  <2>1. \A i \in 1..size : payload[i] \in Byte
    BY <1>1, ElementOfSeq
  <2>2. SubSeq(payload, 1, offset) \in Seq(Byte) /\ Len(SubSeq(payload, 1, offset)) = offset
    <3>1. \A i \in 1..offset : payload[i] \in Byte
      BY <1>1, <2>1
    <3>2. /\ SubSeq(payload, 1, offset) \in Seq(Byte)
          /\ Len(SubSeq(payload, 1, offset)) = IF 1 <= offset THEN offset - 1 + 1 ELSE 0
      BY <1>1, <3>1, SubSeqProperties
    <3> QED
      BY <1>1, <3>2
  <2>3. Piece \in Seq(Byte) /\ Len(Piece) = End - offset
    <3>1. \A i \in (offset + 1)..End : payload[i] \in Byte
      BY <1>1, <1>3, <2>1
    <3>2. /\ Piece \in Seq(Byte)
          /\ Len(Piece) = IF offset + 1 <= End THEN End - (offset + 1) + 1 ELSE 0
      <4>1. offset + 1 \in Int /\ End \in Int
        BY <1>1, <1>3
      <4> HIDE DEF End
      <4> QED
        BY <3>1, <4>1, SubSeqProperties DEF Piece
    <3> QED
      BY <1>1, <1>3, <3>2
  <2>4. SubSeq(payload, 1, offset) \o Piece = SubSeq(payload, 1, End)
    <3>1. 1 \in 1..(size + 1) /\ offset \in (1 - 1)..size /\ End \in offset..size
      BY <1>1, <1>3
    <3> QED
      BY <1>1, <3>1, ConcatAdjacentSubSeq DEF Piece
  <2> QED
    BY <2>2, <2>3, <2>4, ConcatEmptySeq, EmptySeq
<1>5. More <=> End < size
  BY <1>1, <1>3 DEF More
<1>6. SubSeq(payload, 1, size) = payload
  BY <1>1, SubSeqFull
<1>7. "reserved" \notin ChunkBits /\ ("extend" \in ChunkBits <=> offset # 0) /\ ("more" \in ChunkBits <=> More)
  BY DEF ChunkBits
<1>8. ctx.in_progress \in BOOLEAN /\ ResetContext \in Contexts(Byte)
  BY <1>1 DEF Contexts, ResetContext
<1>9. Ingested = ingest_payload_chunk(ctx, MaxPayload, ChunkBits, Piece)
  BY DEF Ingested
<1> HIDE DEF ctx, size
<1>10. CASE OutOfSequence(ctx, ChunkBits)
  <2>1. Ingested = [ctx |-> ResetContext, result |-> "WrongP1P2"]
    BY <1>9, <1>10 DEF ingest_payload_chunk, Refused
  <2>2. offset = 0 /\ ctx.in_progress
    BY <1>1, <1>7, <1>8, <1>10 DEF OutOfSequence
  <2> QED
    BY <1>1, <1>3, <1>8, <2>1, <2>2 DEF ctx, size
<1>11. CASE ~OutOfSequence(ctx, ChunkBits)
  <2>1. Received(ctx) \o Piece = SubSeq(payload, 1, End) /\ Len(Received(ctx)) + Len(Piece) = End
    <3>1. CASE offset = 0
      <4>1. ~ctx.in_progress
        BY <1>7, <1>8, <1>11, <3>1 DEF OutOfSequence
      <4>2. Received(ctx) = <<>> /\ SubSeq(payload, 1, End) = Piece
        BY <3>1, <4>1 DEF Received, Piece
      <4> QED
        BY <1>3, <1>4, <3>1, <4>2
    <3>2. CASE offset # 0
      <4>1. Received(ctx) = SubSeq(payload, 1, offset)
        BY <1>1, <3>2 DEF Received
      <4> QED
        BY <1>1, <1>3, <1>4, <4>1
    <3> QED
      BY <3>1, <3>2
  <2>2. SubSeq(payload, 1, End) \in Seq(Byte)
    <3>1. Received(ctx) \in Seq(Byte)
      BY <1>1, <1>4 DEF Received, Contexts
    <3> QED
      BY <1>4, <2>1, <3>1, ConcatProperties
  <2>3. CASE End > MaxPayload
    <3>1. Ingested = [ctx |-> ResetContext, result |-> "WrongApduLength"]
      BY <1>7, <1>9, <1>11, <2>1, <2>3 DEF ingest_payload_chunk, Refused
    <3> QED
      BY <1>1, <1>2, <1>3, <1>8, <2>3, <3>1 DEF size
  <2>4. CASE ~(End > MaxPayload)
    <3>1. Ingested = [ctx    |-> [payload |-> SubSeq(payload, 1, End), in_progress |-> More],
                      result |-> IF More THEN "incomplete" ELSE "completed"]
      <4>1. ("more" \in ChunkBits) = More
        BY <1>7 DEF More
      <4> QED
        BY <1>7, <1>9, <1>11, <2>1, <2>4, <4>1, Zenon DEF ingest_payload_chunk
    <3>2. More \in BOOLEAN
      BY DEF More
    <3>3. Ingested.ctx \in Contexts(Byte)
      BY <2>2, <3>1, <3>2 DEF Contexts
    <3>4. CASE More
      BY <1>1, <1>3, <1>5, <3>1, <3>3, <3>4 DEF size
    <3>5. CASE ~More
      <4>1. End = size
        BY <1>1, <1>3, <1>5, <3>5
      <4> QED
        BY <1>1, <1>3, <1>6, <3>1, <3>3, <3>5, <4>1 DEF size
    <3> QED
      BY <3>4, <3>5
  <2> QED
    BY <2>3, <2>4
<1> QED
  BY <1>10, <1>11

(* Before the first process nothing is on its way.                         *)
LEMMA InitInv == Init => IInv
<1> SUFFICES ASSUME Init PROVE IInv
  OBVIOUS
<1>1. contexts \in [{"sign", "load_idl"} -> Contexts(Byte)]
  <2>1. ResetContext \in Contexts(Byte)
    BY EmptySeq DEF ResetContext, Contexts
  <2> QED
    BY <2>1 DEF Init, Fresh
<1>2. phase = "idle"
  BY DEF Init
<1> QED
  BY <1>1, <1>2 DEF IInv, Types, PathIsRead, OnItsWay, UploadIsABeginning,
                    DeviceReadsTheCommand, AnswerTellsTheSlot

(* The uploads that a command leaves behind are well-formed.               *)
LEMMA UploadsType ==
  ASSUME NEW ctx \in Contexts(Byte)
  PROVE  /\ Fresh \in [{"sign", "load_idl"} -> Contexts(Byte)]
         /\ Uploads(ctx) \in [{"sign", "load_idl"} -> Contexts(Byte)]
         /\ command.ins \in {"sign", "load_idl"} => Uploads(ctx)[command.ins] = ctx
         /\ ~Fresh["sign"].in_progress
<1>1. ResetContext \in Contexts(Byte)
  BY EmptySeq DEF ResetContext, Contexts
<1> QED
  BY <1>1 DEF Fresh, Uploads, ResetContext

(* A process that has started has sent nothing.                            *)
LEMMA StartInv ==
  ASSUME IInv, NEW cmd \in Commands,
         IF cmd.ins = "load_idl" THEN StartImport(cmd) ELSE StartWithPath(cmd)
  PROVE  IInv'
<1>1. /\ command' = cmd /\ offset' = 0 /\ contexts' = contexts /\ payload' = <<>>
      /\ phase' \in {"bailed", "ask_address", "encode"}
  BY DEF StartImport, StartWithPath, Start
<1>2. Types'
  BY <1>1 DEF IInv, Types
<1>3. PathIsRead' /\ OnItsWay'
  <2>1. CASE cmd.ins = "load_idl"
    <3>1. phase' # "bailed" => /\ phase' = "encode" /\ cmd.idl # <<>>
                              /\ ~(Len(cmd.idl) > MaxHostIdl)
                              /\ Len(cmd.attestations) \in 1..MaxHostAttestations
      BY <2>1 DEF StartImport
    <3>2. /\ MaxHostIdl \in Nat /\ FitsU16(MaxHostIdl)
          /\ MaxHostAttestations \in Nat /\ MaxHostAttestations < 256
      BY PayloadAssumption, SMT
    <3>3. Len(cmd.idl) \in Nat /\ Len(cmd.attestations) \in Nat
      BY <2>1, CommandParts, LenProperties
    <3>4. phase' # "bailed" => /\ FitsU16(Len(cmd.idl)) /\ Len(cmd.attestations) < 256
                              /\ Len(cmd.attestations) # 0
      BY <3>1, <3>2, <3>3, SMT DEF FitsU16
    <3>5. cmd.attestations = <<>> => Len(cmd.attestations) = 0
      BY EmptySeq
    <3> QED
      BY <1>1, <2>1, <3>1, <3>4, <3>5 DEF PathIsRead, OnItsWay
  <2>2. CASE cmd.ins # "load_idl"
    <3>1. /\ path' = parse_derivation_path(cmd.text)
          /\ phase' = IF path' = NotAPath THEN "bailed" ELSE "ask_address"
      BY <2>2 DEF StartWithPath
    <3>2. phase' # "bailed" => phase' = "ask_address" /\ IsPath(path')
      BY <3>1, ParsedIsPath
    <3> QED
      BY <1>1, <2>2, <3>2 DEF PathIsRead, OnItsWay, IsPath
  <2> QED
    BY <2>1, <2>2
<1>4. UploadIsABeginning' /\ DeviceReadsTheCommand' /\ AnswerTellsTheSlot'
  BY <1>1 DEF UploadIsABeginning, DeviceReadsTheCommand, AnswerTellsTheSlot
<1> QED
  BY <1>2, <1>3, <1>4 DEF IInv

(* The address: the device reads the path that the tool has written.       *)
LEMMA AddressIsRead ==
  ASSUME IInv, phase = "ask_address"
  PROVE  LET data == serialize_derivation_path(path)
         IN  device_parse_path(data) = [sw |-> "Ok", path |-> path, consumed |-> Len(data)]
<1> DEFINE data == serialize_derivation_path(path)
           parsed == device_parse_path(data \o <<>>)
<1>1. IsPath(path)
  BY DEF IInv, PathIsRead, OnItsWay
<1>2. <<>> \in Seq(Byte) /\ Len(<<>>) = 0
  BY EmptySeq
<1>3. /\ data \o <<>> \in Seq(Byte) /\ Len(data \o <<>>) = 1 + 4 * Len(path) + Len(<<>>)
      /\ parsed = [sw |-> "Ok", path |-> path, consumed |-> 1 + 4 * Len(path)]
  BY <1>1, <1>2, AddressRoundTrip
<1>4. data \in Seq(Byte)
  <2>1. SegmentBytes(path) \in Seq(Byte)
    BY <1>1, SegmentBytesAre DEF IsPath
  <2>2. <<Len(path)>> \in Seq(Byte)
    <3>1. Len(path) \in Nat /\ Len(path) < 256
      <4>1. Len(path) \in 2..5
        BY <1>1 DEF IsPath
      <4>2. \A n \in 2..5 : n \in Nat /\ n < 256
        OBVIOUS
      <4> QED
        BY <4>1, <4>2, Zenon
    <3>2. Len(path) \in Byte
      BY <3>1, ByteIs, Zenon
    <3> QED
      BY <3>2
  <2> QED
    BY <2>1, <2>2, ConcatProperties DEF serialize_derivation_path
<1> HIDE DEF data
<1>5. data \o <<>> = data
  BY <1>4, ConcatEmptySeq
<1>6. 1 + 4 * Len(path) + Len(<<>>) = 1 + 4 * Len(path)
  BY <1>1, <1>2 DEF IsPath
<1> QED
  BY <1>3, <1>5, <1>6 DEF data

(* The question for the address ends every upload.                         *)
LEMMA AskAddressInv ==
  ASSUME IInv, AskAddress
  PROVE  IInv'
<1>1. /\ phase = "ask_address" /\ contexts' = Fresh
      /\ UNCHANGED <<command, path, payload, offset, slot, response, runs>>
  BY DEF AskAddress
<1>2. IsPath(path) /\ command.ins # "load_idl" /\ offset = 0 /\ command \in Commands
  BY <1>1 DEF IInv, Types, PathIsRead, OnItsWay
<1>3. /\ phase' = IF command.ins = "pubkey" THEN "finished" ELSE "encode"
      /\ command.ins = "pubkey" => read'.path = path
  BY <1>1, AddressIsRead DEF AskAddress
<1>4. Fresh \in [{"sign", "load_idl"} -> Contexts(Byte)] /\ ~Fresh["sign"].in_progress
  BY EmptySeq DEF Fresh, ResetContext, Contexts
<1>5. Types' /\ PathIsRead' /\ OnItsWay'
  BY <1>1, <1>2, <1>3, <1>4 DEF Types, PathIsRead, OnItsWay, IsPath
<1>6. UploadIsABeginning' /\ DeviceReadsTheCommand' /\ AnswerTellsTheSlot'
  BY <1>1, <1>2, <1>3, CommandParts
     DEF UploadIsABeginning, DeviceReadsTheCommand, AnswerTellsTheSlot
<1> QED
  BY <1>5, <1>6 DEF IInv

(* The payload is the one of the command.                                  *)
LEMMA EncodeInv ==
  ASSUME IInv, EncodeSign \/ EncodeImport
  PROVE  IInv'
<1>1. /\ phase = "encode" /\ phase' \in {"bailed", "send"}
      /\ UNCHANGED <<command, path, offset, contexts, read, slot, response, runs>>
      /\ command.ins \in {"sign", "load_idl"}
  BY DEF EncodeSign, EncodeImport
<1>2. command \in Commands /\ offset = 0
  BY <1>1 DEF IInv, Types
<1>3. Types' /\ PathIsRead' /\ OnItsWay'
  BY <1>1, <1>2 DEF IInv, Types, PathIsRead, OnItsWay, IsPath
<1>4. ASSUME phase' = "send"
      PROVE  /\ payload' = Wanted /\ payload' \in Seq(Byte) /\ payload' # <<>>
             /\ command.ins = "sign" => command.message # <<>>
  <2>1. CASE EncodeSign
    <3>1. command.message \in Seq(Byte) /\ IsPath(path) /\ command.ins = "sign"
      BY <1>1, <1>2, <2>1, CommandParts DEF IInv, PathIsRead, EncodeSign
    <3>2. command.message # <<>> /\ payload' = sign_payload(path, command.message)
      BY <1>4, <2>1 DEF EncodeSign
    <3> QED
      BY <3>1, <3>2, SignRoundTrip DEF Wanted
  <2>2. CASE EncodeImport
    <3>1. /\ command.idl \in Seq(Byte) /\ command.attestations \in Seq(Attestation)
          /\ FitsU16(Len(command.idl)) /\ Len(command.attestations) < 256
          /\ command.ins = "load_idl"
      BY <1>1, <1>2, <2>2, CommandParts DEF IInv, OnItsWay, EncodeImport
    <3>2. payload' = import_payload(command.idl, command.attestations)
      BY <2>2 DEF EncodeImport
    <3>3. /\ import_payload(command.idl, command.attestations) \in Seq(Byte)
          /\ import_payload(command.idl, command.attestations) # <<>>
      BY <3>1, ImportRoundTrip
    <3> QED
      BY <3>1, <3>2, <3>3 DEF Wanted
  <2> QED
    BY <2>1, <2>2
<1>5. UploadIsABeginning'
  <2> SUFFICES ASSUME phase' = "send" PROVE UploadIsABeginning'
    BY DEF UploadIsABeginning
  <2>1. Len(payload') \in Nat /\ Len(payload') > 0
    BY <1>4, EmptySeq
  <2>2. Wanted' = Wanted
    BY <1>1 DEF Wanted, sign_payload, import_payload
  <2> QED
    BY <1>1, <1>2, <1>4, <2>1, <2>2 DEF UploadIsABeginning
<1>6. DeviceReadsTheCommand' /\ AnswerTellsTheSlot'
  BY <1>1, <1>5 DEF DeviceReadsTheCommand, AnswerTellsTheSlot, UploadIsABeginning
<1> QED
  BY <1>3, <1>5, <1>6 DEF IInv

(* The facts about an upload that a chunk finds.                           *)
LEMMA SendingFacts ==
  ASSUME IInv, phase = "send"
  PROVE  /\ command \in Commands /\ command.ins \in {"sign", "load_idl"}
         /\ payload = Wanted /\ offset \in Nat
         /\ command.ins = "sign" =>
              /\ IsPath(path) /\ command.message \in Seq(Byte) /\ command.message # <<>>
              /\ offset = 0 => ~contexts["sign"].in_progress
         /\ command.ins = "load_idl" =>
              /\ command.idl \in Seq(Byte) /\ command.attestations \in Seq(Attestation)
              /\ FitsU16(Len(command.idl)) /\ Len(command.attestations) < 256
<1>1. command \in Commands /\ command.ins # "pubkey"
  BY DEF IInv, Types, OnItsWay
<1> QED
  BY <1>1, CommandParts DEF IInv, PathIsRead, OnItsWay, UploadIsABeginning

(* A chunk makes the beginning longer.                                     *)
LEMMA SendChunkInv ==
  ASSUME IInv, SendChunk
  PROVE  IInv'
<1>1. /\ phase = "send" /\ Ingested.result = "incomplete"
      /\ contexts' = Uploads(Ingested.ctx) /\ offset' = End
      /\ UNCHANGED <<command, phase, path, payload, read, slot, response, runs>>
  BY DEF SendChunk
<1>2. /\ End \in Nat /\ End > 0 /\ End < Len(payload)
      /\ Ingested.ctx = [payload |-> SubSeq(payload, 1, End), in_progress |-> TRUE]
      /\ Ingested.ctx \in Contexts(Byte)
  BY <1>1, ChunkIsNext, SendingFacts
<1>3. /\ contexts' \in [{"sign", "load_idl"} -> Contexts(Byte)]
      /\ contexts'[command.ins] = Ingested.ctx
  BY <1>1, <1>2, UploadsType, SendingFacts
<1> HIDE DEF End, Ingested
<1>4. Types' /\ PathIsRead' /\ OnItsWay'
  BY <1>1, <1>2, <1>3 DEF IInv, Types, PathIsRead, OnItsWay, IsPath
<1>5. Wanted' = Wanted
  BY <1>1 DEF Wanted, sign_payload, import_payload
<1>6. UploadIsABeginning'
  BY <1>1, <1>2, <1>3, <1>5 DEF IInv, UploadIsABeginning
<1>7. DeviceReadsTheCommand' /\ AnswerTellsTheSlot'
  BY <1>1, <1>2 DEF DeviceReadsTheCommand, AnswerTellsTheSlot
<1> QED
  BY <1>4, <1>6, <1>7 DEF IInv

(* A process that ends keeps nothing but well-formed contexts.             *)
LEMMA EndInv ==
  ASSUME IInv, phase # "idle", phase' \in {"refused", "declined"}, command' = command,
         contexts' \in [{"sign", "load_idl"} -> Contexts(Byte)]
  PROVE  IInv'
BY DEF IInv, Types, PathIsRead, OnItsWay, UploadIsABeginning,
       DeviceReadsTheCommand, AnswerTellsTheSlot

(* A refused chunk ends the process.                                       *)
LEMMA RefuseChunkInv ==
  ASSUME IInv, RefuseChunk
  PROVE  IInv'
<1>1. phase = "send" /\ phase' = "refused" /\ command' = command /\ contexts' = Uploads(Ingested.ctx)
  BY DEF RefuseChunk
<1>2. contexts' \in [{"sign", "load_idl"} -> Contexts(Byte)]
  BY <1>1, ChunkIsNext, UploadsType
<1> QED
  BY <1>1, <1>2, EndInv

(* What the last chunk leaves.                                             *)
LEMMA LastChunkFacts ==
  ASSUME IInv, LastChunk
  PROVE  /\ phase = "send" /\ Ingested.ctx.payload = payload
         /\ contexts' \in [{"sign", "load_idl"} -> Contexts(Byte)]
         /\ UNCHANGED <<command, path, payload, runs>>
<1>1. ResetContext \in Contexts(Byte)
  BY EmptySeq DEF ResetContext, Contexts
<1> QED
  BY <1>1, ChunkIsNext, UploadsType DEF LastChunk

(* The last chunk of a message.                                            *)
LEMMA CompleteSignInv ==
  ASSUME IInv, CompleteSign
  PROVE  IInv'
<1> DEFINE parsed == parse_sign_payload(Ingested.ctx.payload)
<1>1. /\ phase = "send" /\ Ingested.ctx.payload = payload
      /\ contexts' \in [{"sign", "load_idl"} -> Contexts(Byte)]
      /\ UNCHANGED <<command, path, payload, runs>>
      /\ command.ins = "sign"
  BY LastChunkFacts DEF CompleteSign
<1>2. RefusePayload(parsed) \/ Decline(parsed) \/ Sign(parsed)
  BY DEF CompleteSign
<1>3. /\ payload = sign_payload(path, command.message) /\ IsPath(path)
      /\ command.message \in Seq(Byte) /\ command.message # <<>> /\ command \in Commands
  BY <1>1, SendingFacts DEF Wanted
<1>4. parsed = [sw |-> "Ok", path |-> path, message |-> command.message]
  BY <1>1, <1>3, SignRoundTrip
<1> HIDE DEF parsed
<1>5. CASE RefusePayload(parsed) \/ Decline(parsed)
  BY <1>1, <1>5, EndInv DEF RefusePayload, Decline
<1>6. CASE Sign(parsed)
  <2>1. phase' = "finished" /\ read' = parsed
    BY <1>6 DEF Sign
  <2> QED
    BY <1>1, <1>3, <1>4, <2>1 DEF IInv, Types, PathIsRead, OnItsWay, UploadIsABeginning,
                                 DeviceReadsTheCommand, AnswerTellsTheSlot
<1> QED
  BY <1>2, <1>5, <1>6

(* The last chunk of an import.                                            *)
LEMMA CompleteImportInv ==
  ASSUME IInv, CompleteImport
  PROVE  IInv'
<1> DEFINE parsed == prepare_idl_import(Ingested.ctx.payload)
           idl == command.idl
           attestations == command.attestations
<1>1. /\ phase = "send" /\ Ingested.ctx.payload = payload
      /\ contexts' \in [{"sign", "load_idl"} -> Contexts(Byte)]
      /\ UNCHANGED <<command, path, payload, runs>>
      /\ command.ins = "load_idl"
  BY LastChunkFacts DEF CompleteImport
<1>2. RefusePayload(parsed) \/ Decline(parsed) \/ Import(parsed)
  BY DEF CompleteImport
<1>3. /\ payload = import_payload(idl, attestations)
      /\ idl \in Seq(Byte) /\ attestations \in Seq(Attestation)
      /\ FitsU16(Len(idl)) /\ Len(attestations) < 256 /\ command \in Commands
  BY <1>1, SendingFacts DEF Wanted
<1>4. parsed.sw = "Ok" =>
        /\ Len(idl) \in 1..MaxImportedIdl /\ idl \in DOMAIN ProgramIdOf
        /\ parsed = [sw |-> "Ok", attestations |-> attestations, idl |-> idl]
  BY <1>1, <1>3, PrepareRoundTrip
<1> HIDE DEF parsed
<1>5. CASE RefusePayload(parsed) \/ Decline(parsed)
  BY <1>1, <1>5, EndInv DEF RefusePayload, Decline
<1>6. CASE Import(parsed)
  <2>1. /\ phase' = "finished" /\ read' = parsed /\ parsed.sw = "Ok"
        /\ slot' = store_imported_idl(parsed.idl, ProgramIdOf[parsed.idl])
        /\ response' = load_idl_response(ProgramIdOf[parsed.idl], Len(parsed.attestations),
                                         Len(parsed.idl))
    BY <1>6 DEF Import
  <2>2. parsed.idl = idl /\ parsed.attestations = attestations
    BY <1>4, <2>1
  <2>3. load_imported_idl(slot') = [program_id |-> ProgramIdOf[idl], idl |-> idl]
    BY <1>3, <1>4, <2>1, <2>2, SlotRoundTrip
  <2>4. decode_load_idl_response(response')
          = [program_id |-> ProgramIdOf[idl], signer_count |-> Len(attestations), idl_len |-> Len(idl)]
    <3>1. Len(attestations) \in Nat /\ Len(idl) \in Nat
      BY <1>3, LenProperties
    <3> QED
      BY <1>3, <1>4, <2>1, <2>2, <3>1, ResponseRoundTrip
  <2>5. AnswerTellsTheSlot'
    BY <1>1, <2>3, <2>4 DEF AnswerTellsTheSlot, load_imported_idl, decode_load_idl_response
  <2>6. DeviceReadsTheCommand'
    BY <1>1, <2>1, <2>2 DEF DeviceReadsTheCommand
  <2>7. Types' /\ PathIsRead' /\ OnItsWay' /\ UploadIsABeginning'
    BY <1>1, <1>3, <2>1 DEF Types, PathIsRead, OnItsWay, UploadIsABeginning
  <2> QED
    BY <2>5, <2>6, <2>7 DEF IInv
<1> QED
  BY <1>2, <1>5, <1>6

(* Every step keeps the invariant.                                         *)
LEMMA NextInv == IInv /\ [Next]_vars => IInv'
<1> SUFFICES ASSUME IInv, [Next]_vars PROVE IInv'
  OBVIOUS
<1>1. ASSUME NEW cmd \in Commands,
             IF cmd.ins = "load_idl" THEN StartImport(cmd) ELSE StartWithPath(cmd)
      PROVE  IInv'
  BY <1>1, StartInv
<1>2. CASE UNCHANGED vars
  <2>1. Wanted' = Wanted
    BY <1>2 DEF vars, Wanted, sign_payload, import_payload
  <2>2. Types' /\ PathIsRead' /\ OnItsWay'
    BY <1>2, <2>1 DEF vars, IInv, Types, PathIsRead, OnItsWay, IsPath
  <2>3. UploadIsABeginning'
    BY <1>2, <2>1 DEF vars, IInv, UploadIsABeginning
  <2>4. DeviceReadsTheCommand' /\ AnswerTellsTheSlot'
    BY <1>2 DEF vars, IInv, DeviceReadsTheCommand, AnswerTellsTheSlot
  <2> QED
    BY <2>2, <2>3, <2>4 DEF IInv
<1> QED
  BY <1>1, <1>2, AskAddressInv, EncodeInv, SendChunkInv, RefuseChunkInv,
     CompleteSignInv, CompleteImportInv DEF Next

(* An upload is at all times a beginning of the payload of its command,    *)
(* and the context of the device holds exactly this beginning.             *)
THEOREM SpecInv == Spec => []IInv
<1>1. Init => IInv
  BY InitInv
<1>2. IInv /\ [Next]_vars => IInv'
  BY NextInv
<1> QED
  BY <1>1, <1>2, PTL DEF Spec

(* Whatever the path, the message, the IDL and the attestations are, and   *)
(* wherever the chunks end, the device reads the command byte by byte.     *)
THEOREM SpecReads == Spec => []DeviceReadsTheCommand
<1>1. IInv => DeviceReadsTheCommand
  BY DEF IInv
<1> QED
  BY <1>1, SpecInv, PTL

(* After an import the slot, read back, holds the IDL of the command with  *)
(* its program, and the tool reads the answer as it was meant.             *)
THEOREM SpecAnswers == Spec => []AnswerTellsTheSlot
<1>1. IInv => AnswerTellsTheSlot
  BY DEF IInv
<1> QED
  BY <1>1, SpecInv, PTL

(* The import payload of a command within the limits is not too large.     *)
LEMMA ImportFits ==
  ASSUME NEW n \in Nat, NEW l \in Nat, n <= MaxAttestations, l <= MaxImportedIdl
  PROVE  4 + n * AttestationSize + l <= MaxLoadIdlPayload
<1>1. /\ MaxAttestations \in Nat /\ MaxImportedIdl \in Nat /\ MaxLoadIdlPayload \in Nat
      /\ MaxLoadIdlPayload >= 4 + MaxAttestations * AttestationSize + MaxImportedIdl
      /\ AttestationSize \in Nat
  BY PayloadAssumption, AttestationSizes, SMT DEF AttestationSize
<1>2. \A a, b, s \in Nat : a <= b => a * s \in Nat /\ b * s \in Nat /\ a * s <= b * s
  OBVIOUS
<1>3. n * AttestationSize <= MaxAttestations * AttestationSize
      /\ n * AttestationSize \in Nat /\ MaxAttestations * AttestationSize \in Nat
  BY <1>1, <1>2
<1> QED
  BY <1>1, <1>3

(* A refusal has its reason.                                               *)
LEMMA RefusalStep ==
  ASSUME IInv, Next, phase' = "refused", phase # "refused"
  PROVE  ~Fits \/ LeftOver
<1>1. CASE AskAddress
  <2>1. phase = "ask_address"
    BY <1>1 DEF AskAddress
  <2>2. phase' \in {"finished", "encode"}
    BY <1>1, <2>1, AddressIsRead DEF AskAddress
  <2> QED
    BY <2>2
<1>2. CASE RefuseChunk
  <2>1. /\ phase = "send" /\ Ingested.result \notin {"incomplete", "completed"}
    BY <1>2 DEF RefuseChunk
  <2>2. /\ Ingested.result = "WrongP1P2" =>
             offset = 0 /\ contexts[command.ins].in_progress
        /\ Ingested.result = "WrongApduLength" => Len(payload) > MaxPayload
        /\ Ingested.result \in {"incomplete", "completed", "WrongP1P2", "WrongApduLength"}
        /\ Len(payload) \in Nat
    BY <2>1, ChunkIsNext
  <2>3. CASE Ingested.result = "WrongP1P2"
    <3>1. command.ins = "load_idl"
      BY <2>1, <2>2, <2>3, SendingFacts
    <3> QED
      BY <2>2, <2>3, <3>1 DEF LeftOver
  <2>4. CASE Ingested.result = "WrongApduLength"
    <3>1. Len(payload) > MaxPayload
      BY <2>2, <2>4
    <3>2. CASE command.ins = "sign"
      <4>1. Len(payload) > MaxSignPayload
        BY <3>1, <3>2 DEF MaxPayload
      <4>2. MaxSignPayload \in Nat
        BY PayloadAssumption, SMT
      <4> QED
        BY <2>2, <3>2, <4>1, <4>2 DEF Fits
    <3>3. CASE command.ins = "load_idl"
      <4> DEFINE n == Len(command.attestations)
                 l == Len(command.idl)
      <4>1. /\ command.idl \in Seq(Byte) /\ command.attestations \in Seq(Attestation)
            /\ FitsU16(l) /\ n < 256
            /\ payload = import_payload(command.idl, command.attestations)
        BY <2>1, <3>3, SendingFacts DEF Wanted
      <4>2. Len(payload) = 4 + n * AttestationSize + l /\ n \in Nat /\ l \in Nat
        BY <4>1, ImportRoundTrip, LenProperties
      <4>3. Len(payload) > MaxLoadIdlPayload /\ MaxLoadIdlPayload \in Nat
        BY <3>1, <3>3, PayloadAssumption, SMT DEF MaxPayload
      <4> HIDE DEF n, l
      <4>4. ~(n <= MaxAttestations /\ l <= MaxImportedIdl)
        BY <2>2, <4>2, <4>3, ImportFits
      <4> QED
        BY <3>3, <4>4 DEF Fits, n, l
    <3> QED
      BY <2>1, <3>2, <3>3, SendingFacts
  <2> QED
    BY <2>1, <2>2, <2>3, <2>4
<1>3. CASE CompleteSign
  <2>1. /\ phase = "send" /\ Ingested.ctx.payload = payload /\ command.ins = "sign"
    BY <1>3, LastChunkFacts DEF CompleteSign
  <2>2. /\ payload = sign_payload(path, command.message) /\ IsPath(path)
        /\ command.message \in Seq(Byte) /\ command.message # <<>>
    BY <2>1, SendingFacts DEF Wanted
  <2>3. parse_sign_payload(Ingested.ctx.payload).sw = "Ok"
    BY <2>1, <2>2, SignRoundTrip
  <2>4. phase' \in {"declined", "finished"}
    BY <1>3, <2>3 DEF CompleteSign, RefusePayload, Decline, Sign
  <2> QED
    BY <2>4
<1>4. CASE CompleteImport
  <2>1. /\ phase = "send" /\ Ingested.ctx.payload = payload /\ command.ins = "load_idl"
    BY <1>4, LastChunkFacts DEF CompleteImport
  <2>2. /\ payload = import_payload(command.idl, command.attestations)
        /\ command.idl \in Seq(Byte) /\ command.attestations \in Seq(Attestation)
        /\ FitsU16(Len(command.idl)) /\ Len(command.attestations) < 256
        /\ command.idl # <<>> /\ command.attestations # <<>>
    BY <2>1, SendingFacts DEF Wanted, IInv, OnItsWay
  <2>3. prepare_idl_import(Ingested.ctx.payload).sw # "Ok"
    BY <1>4 DEF CompleteImport, RefusePayload, Decline, Import
  <2>4. ~(/\ Len(command.attestations) \in 1..MaxAttestations
          /\ Len(command.idl) \in 1..MaxImportedIdl
          /\ command.idl \in DOMAIN ProgramIdOf)
    BY <2>1, <2>2, <2>3, PrepareRoundTrip
  <2>5. /\ Len(command.attestations) \in Nat /\ Len(command.attestations) > 0
        /\ Len(command.idl) \in Nat /\ Len(command.idl) > 0
    BY <2>2, EmptySeq
  <2>6. MaxAttestations \in Nat /\ MaxImportedIdl \in Nat
    BY PayloadAssumption, SMT
  <2> QED
    BY <2>1, <2>4, <2>5, <2>6 DEF Fits
<1>5. CASE \E cmd \in Commands :
             IF cmd.ins = "load_idl" THEN StartImport(cmd) ELSE StartWithPath(cmd)
  BY <1>5 DEF StartImport, StartWithPath
<1>6. CASE EncodeSign \/ EncodeImport \/ SendChunk
  BY <1>6 DEF EncodeSign, EncodeImport, SendChunk
<1> QED
  BY <1>1, <1>2, <1>3, <1>4, <1>5, <1>6 DEF Next

(* What the tool sends is refused only when it is beyond the limits of the *)
(* device, or when a stopped process left the beginning of an import.      *)
THEOREM SpecRefusals == Spec => RefusedForAReason
<1>1. IInv /\ [Next]_vars => [phase' = "refused" /\ phase # "refused" => ~Fits \/ LeftOver]_vars
  BY RefusalStep DEF vars
<1> QED
  BY <1>1, SpecInv, PTL DEF Spec, RefusedForAReason
=============================================================================
