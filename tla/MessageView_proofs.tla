------------------------- MODULE MessageView_proofs -------------------------
(***************************************************************************)
(* For all messages and sizes: the serialization of every message is       *)
(* accepted, and every index names in it what it names for Solana. If a    *)
(* byte can name each of its keys it is read as that message, and the      *)
(* bytes that the parser accepts are, when its lengths are minimal, those  *)
(* that the message they are read as is serialized to.                     *)
(* The parser's loops are recursive functions: what they compute is proved *)
(* by induction over sets of numbers, and walks over the bytes say where   *)
(* each instruction and each lookup ends.                                  *)
(***************************************************************************)
EXTENDS MessageView, SequenceParts

-----------------------------------------------------------------------------
(* Powers of two.                                                          *)
Doubling(n) == [k \in 1..n |-> [x \in Nat |-> 2 * x]]

(* The steps of that loop.                                                 *)
LEMMA DoublingIs ==
  ASSUME NEW n \in Nat
  PROVE  /\ Doubling(n) \in [1..n -> [Nat -> Nat]]
         /\ \A k \in 1..n : \A x \in Nat : Doubling(n)[k][x] = 2 * x
<1>1. [x \in Nat |-> 2 * x] \in [Nat -> Nat]
  OBVIOUS
<1> QED
  BY <1>1 DEF Doubling

(* TwoTo is the last state of the run that doubles.                        *)
LEMMA TwoToRun ==
  ASSUME NEW n \in Nat
  PROVE  \E f \in LoopRuns(Nat, Doubling(n), 1, n) : TwoTo(n) = f[n]
<1> DEFINE Is(g) == g = [k \in 0..n |-> IF k = 0 THEN 1 ELSE 2 * g[k - 1]]
           h == CHOOSE g : Is(g)
<1>0. LoopRuns(Nat, Doubling(n), 1, n) # {}
  BY DoublingIs, LoopRun
<1>1. PICK f : f \in LoopRuns(Nat, Doubling(n), 1, n)
  BY <1>0
<1>2. f \in [0..n -> Nat] /\ f[0] = 1 /\ \A k \in 1..n : f[k] = Doubling(n)[k][f[k - 1]]
  BY <1>1 DEF LoopRuns
<1>3. \A k \in 1..n : f[k] = 2 * f[k - 1]
  <2>1. \A k \in 1..n : k - 1 \in 0..n
    OBVIOUS
  <2> QED
    BY <1>2, <2>1, DoublingIs
<1>4. Is(f)
  BY <1>2, <1>3
<1>5. Is(h)
  BY <1>4
<1>6. TwoTo(n) = h[n]
  BY DEF TwoTo, Repeat, Double
<1> HIDE DEF h
<1> DEFINE D == {h[k] : k \in 0..n}
<1>7. h \in [0..n -> D] /\ h[0] = 1 /\ \A k \in 1..n : h[k] = 2 * h[k - 1]
  <2>1. h = [k \in 0..n |-> h[k]] /\ h[0] = 1 /\ \A k \in 1..n : h[k] = 2 * h[k - 1]
    <3> DEFINE value(k) == IF k = 0 THEN 1 ELSE 2 * h[k - 1]
    <3>1. h = [k \in 0..n |-> value(k)]
      BY ONLY <1>5
    <3>2. \A k \in 0..n : h[k] = value(k)
      <4> HIDE DEF value
      <4> QED
        BY ONLY <3>1
    <3>3. h = [k \in 0..n |-> h[k]]
      <4> HIDE DEF value
      <4> QED
        BY ONLY <3>1
    <3>4. 0 \in 0..n /\ value(0) = 1
      OBVIOUS
    <3>5. \A k \in 1..n : k \in 0..n /\ value(k) = 2 * h[k - 1]
      OBVIOUS
    <3> HIDE DEF value
    <3> QED
      BY ONLY <3>2, <3>3, <3>4, <3>5
  <2>2. \A k \in 0..n : h[k] \in D
    OBVIOUS
  <2> HIDE DEF D, Is
  <2>3. h \in [0..n -> D]
    BY ONLY <2>1, <2>2
  <2> QED
    BY ONLY <2>1, <2>3
<1> HIDE DEF D
<1>8. \A k \in 1..n : h[k - 1] \in Nat => h[k] = Doubling(n)[k][h[k - 1]]
  BY <1>7, DoublingIs
<1>9. h \in LoopRuns(Nat, Doubling(n), 1, n)
  BY <1>7, <1>8, DoublingIs, ChosenRun
<1> QED
  BY <1>6, <1>9

(* TwoTo by its recurrence.                                                *)
LEMMA TwoToIs ==
  /\ TwoTo(0) = 1
  /\ \A n \in Nat : TwoTo(n) \in Nat /\ TwoTo(n + 1) = 2 * TwoTo(n)
<1>1. TwoTo(0) = 1
  <2>1. PICK f \in LoopRuns(Nat, Doubling(0), 1, 0) : TwoTo(0) = f[0]
    BY TwoToRun
  <2> QED
    BY <2>1 DEF LoopRuns
<1>2. ASSUME NEW n \in Nat
      PROVE  TwoTo(n) \in Nat /\ TwoTo(n + 1) = 2 * TwoTo(n)
  <2>1. n + 1 \in Nat /\ n <= n + 1 /\ n \in 0..n /\ n + 1 \in 1..(n + 1) /\ (n + 1) - 1 = n
    OBVIOUS
  <2>2. PICK f \in LoopRuns(Nat, Doubling(n), 1, n) : TwoTo(n) = f[n]
    BY TwoToRun
  <2>3. PICK g \in LoopRuns(Nat, Doubling(n + 1), 1, n + 1) : TwoTo(n + 1) = g[n + 1]
    BY <2>1, TwoToRun
  <2>4. f[n] \in Nat /\ g[n + 1] = Doubling(n + 1)[n + 1][g[n]]
    BY <2>1 DEF LoopRuns
  <2>5. \A k \in 1..n : Doubling(n)[k] = Doubling(n + 1)[k]
    BY DEF Doubling
  <2>6. \A k \in 0..n : f[k] = g[k]
    <3> DEFINE S == Nat
               one == 1
               m == n + 1
               a == Doubling(n)
               b == Doubling(m)
    <3>1. /\ f \in LoopRuns(S, a, one, n) /\ g \in LoopRuns(S, b, one, m)
          /\ m \in Nat /\ n <= m /\ \A k \in 1..n : a[k] = b[k]
      BY <2>1, <2>5
    <3> HIDE DEF S, one, m, a, b
    <3> QED
      BY <3>1, SameRuns
  <2>7. \A x \in Nat : Doubling(n + 1)[n + 1][x] = 2 * x
    BY <2>1, DoublingIs
  <2>8. f[n] = g[n] /\ f[n] \in Nat
    BY <2>1, <2>4, <2>6
  <2> QED
    BY <2>2, <2>3, <2>4, <2>7, <2>8
<1> QED
  BY <1>1, <1>2

(* Powers of two multiply as their exponents add.                          *)
LEMMA TwoToSum ==
  ASSUME NEW m \in Nat, NEW n \in Nat
  PROVE  TwoTo(m + n) = TwoTo(m) * TwoTo(n)
<1> DEFINE T == {k \in Nat : TwoTo(m + k) = TwoTo(m) * TwoTo(k)}
<1>1. 0 \in T
  <2>1. m + 0 = m /\ TwoTo(m) \in Nat /\ TwoTo(0) = 1
    BY TwoToIs
  <2> QED
    BY <2>1
<1>2. \A k \in Nat : k \in T => k + 1 \in T
  <2> SUFFICES ASSUME NEW k \in Nat, TwoTo(m + k) = TwoTo(m) * TwoTo(k)
               PROVE  TwoTo(m + (k + 1)) = TwoTo(m) * TwoTo(k + 1)
    OBVIOUS
  <2>1. m + k \in Nat /\ m + (k + 1) = (m + k) + 1
    OBVIOUS
  <2>2. TwoTo(m) \in Nat /\ TwoTo(k) \in Nat /\ TwoTo(k + 1) = 2 * TwoTo(k)
    BY TwoToIs
  <2>3. TwoTo(m + (k + 1)) = 2 * TwoTo(m + k)
    BY <2>1, TwoToIs
  <2> DEFINE a == TwoTo(m)
             b == TwoTo(k)
  <2>4. \A x, y \in Nat : 2 * (x * y) = x * (2 * y)
    OBVIOUS
  <2> QED
    BY <2>2, <2>3, <2>4
<1> HIDE DEF T
<1>3. Nat \subseteq T
  BY <1>1, <1>2, Induction
<1> QED
  BY <1>3 DEF T

(* Powers of two are at least one and never fall.                          *)
LEMMA TwoToGrows ==
  ASSUME NEW m \in Nat, NEW n \in Nat
  PROVE  1 <= TwoTo(n) /\ TwoTo(m) <= TwoTo(m + n)
<1> DEFINE T == {k \in Nat : 1 <= TwoTo(k) /\ TwoTo(m) <= TwoTo(m + k)}
<1>1. 0 \in T
  <2>1. m + 0 = m /\ TwoTo(m) \in Nat /\ TwoTo(0) = 1
    BY TwoToIs
  <2> QED
    BY <2>1
<1>2. \A k \in Nat : k \in T => k + 1 \in T
  <2> SUFFICES ASSUME NEW k \in Nat, 1 <= TwoTo(k), TwoTo(m) <= TwoTo(m + k)
               PROVE  1 <= TwoTo(k + 1) /\ TwoTo(m) <= TwoTo(m + (k + 1))
    OBVIOUS
  <2>1. m + k \in Nat /\ m + (k + 1) = (m + k) + 1
    OBVIOUS
  <2>2. /\ TwoTo(m) \in Nat /\ TwoTo(k) \in Nat /\ TwoTo(m + k) \in Nat
        /\ TwoTo(k + 1) = 2 * TwoTo(k)
    BY <2>1, TwoToIs
  <2>3. TwoTo(m + (k + 1)) = 2 * TwoTo(m + k)
    BY <2>1, TwoToIs
  <2> QED
    BY <2>2, <2>3
<1> HIDE DEF T
<1>3. Nat \subseteq T
  BY <1>1, <1>2, Induction
<1> QED
  BY <1>3 DEF T

(* The sizes of shortvecs.                                                 *)
LEMMA FlagIs ==
  /\ Flag \in Nat /\ Flag >= 2 /\ Bytes \subseteq Nat
  /\ Word \in Nat /\ Word >= 2
<1>1. GroupBits \in Nat \ {0} /\ WordBits \in Nat \ {0}
  BY SizesAssumption
<1>2. ASSUME NEW n \in Nat \ {0}
      PROVE  TwoTo(n) \in Nat /\ TwoTo(n) >= 2
  <2>1. n - 1 \in Nat /\ (n - 1) + 1 = n
    OBVIOUS
  <2>2. TwoTo(n - 1) \in Nat /\ 1 <= TwoTo(n - 1) /\ TwoTo(n) = 2 * TwoTo(n - 1)
    BY <2>1, TwoToIs, TwoToGrows
  <2> QED
    BY <2>2
<1>3. Flag \in Nat /\ Flag >= 2 /\ Word \in Nat /\ Word >= 2
  BY <1>1, <1>2 DEF Flag, Word
<1> QED
  BY <1>3 DEF Bytes, U8

(* Shift by its recurrence, and that it never falls.                       *)
LEMMA ShiftIs ==
  /\ Shift(0) = 1
  /\ \A n \in Nat : /\ Shift(n) \in Nat /\ 1 <= Shift(n)
                     /\ Shift(n + 1) = Flag * Shift(n)
                     /\ \A m \in 0..n : Shift(m) <= Shift(n)
<1>1. GroupBits \in Nat \ {0}
  BY SizesAssumption
<1>2. Shift(0) = 1
  <2>1. GroupBits * 0 = 0
    BY <1>1
  <2> QED
    BY <2>1, TwoToIs DEF Shift
<1>3. ASSUME NEW n \in Nat
      PROVE  /\ Shift(n) \in Nat /\ 1 <= Shift(n)
             /\ Shift(n + 1) = Flag * Shift(n)
             /\ \A m \in 0..n : Shift(m) <= Shift(n)
  <2>1. GroupBits * n \in Nat /\ GroupBits * (n + 1) = GroupBits + GroupBits * n
    BY <1>1
  <2>2. Shift(n) \in Nat /\ 1 <= Shift(n)
    BY <2>1, TwoToIs, TwoToGrows DEF Shift
  <2>3. Shift(n + 1) = Flag * Shift(n)
    BY <1>1, <2>1, TwoToSum DEF Shift, Flag
  <2>4. ASSUME NEW m \in 0..n
        PROVE  Shift(m) <= Shift(n)
    <3>1. /\ GroupBits * m \in Nat /\ GroupBits * (n - m) \in Nat
          /\ GroupBits * n = GroupBits * m + GroupBits * (n - m)
      BY <1>1
    <3> QED
      BY <3>1, TwoToGrows DEF Shift
  <2> QED
    BY <2>2, <2>3, <2>4
<1> QED
  BY <1>2, <1>3

(* The length of a shortvec is the one number of bytes that is just enough. *)
IsShortvecLen(n, value) == value < Shift(n) /\ (n = 1 \/ value >= Shift(n - 1))

(* The loop of shortvec_len ends, and with the only fitting length.        *)
LEMMA ShortvecLenIs ==
  ASSUME NEW value \in Nat, value < Word
  PROVE  shortvec_len(value) \in 1..(WordBits + 1) /\ IsShortvecLen(shortvec_len(value), value)
<1> DEFINE T == {n \in Nat : n >= 1 /\ value < Shift(n)
                              => \E k \in 1..n : IsShortvecLen(k, value)}
<1>1. 0 \in T
  OBVIOUS
<1>2. \A n \in Nat : n \in T => n + 1 \in T
  <2> SUFFICES ASSUME NEW n \in Nat, n \in T, value < Shift(n + 1)
               PROVE  \E k \in 1..(n + 1) : IsShortvecLen(k, value)
    OBVIOUS
  <2>1. Shift(n) \in Nat /\ Shift(n + 1) \in Nat /\ (n + 1) - 1 = n /\ n + 1 \in 1..(n + 1)
    <3> DEFINE next == n + 1
    <3>1. next \in Nat /\ next - 1 = n /\ next \in 1..next
      OBVIOUS
    <3> HIDE DEF next
    <3>2. Shift(n) \in Nat /\ Shift(next) \in Nat
      BY <3>1, ShiftIs
    <3> QED
      BY <3>1, <3>2 DEF next
  <2>2. CASE n = 0
    <3>1. n + 1 = 1
      BY <2>2
    <3>2. IsShortvecLen(n + 1, value)
      BY ONLY <3>1, value < Shift(n + 1) DEF IsShortvecLen
    <3> QED
      BY ONLY <2>1, <3>2
  <2>3. CASE n # 0 /\ value < Shift(n)
    <3>1. \E k \in 1..n : IsShortvecLen(k, value)
      BY <2>3
    <3> QED
      BY <3>1
  <2>4. CASE n # 0 /\ ~(value < Shift(n))
    BY <2>1, <2>4 DEF IsShortvecLen
  <2> QED
    BY <2>2, <2>3, <2>4
<1> HIDE DEF T
<1>3. Nat \subseteq T
  BY <1>1, <1>2, Induction
<1>4. GroupBits \in Nat \ {0} /\ WordBits \in Nat \ {0}
  BY SizesAssumption
<1> DEFINE most == WordBits + 1
<1>5. most \in Nat /\ most >= 1 /\ value < Shift(most)
  <2>1. \E rest \in Nat : GroupBits * (WordBits + 1) = WordBits + rest
    <3>1. GroupBits * (WordBits + 1) = WordBits + ((GroupBits - 1) * WordBits + GroupBits)
      BY <1>4
    <3>2. (GroupBits - 1) * WordBits + GroupBits \in Nat
      BY <1>4
    <3> QED
      BY <3>1, <3>2
  <2>2. PICK rest \in Nat : GroupBits * (WordBits + 1) = WordBits + rest
    BY <2>1
  <2>3. Word <= Shift(most)
    BY <1>4, <2>2, TwoToGrows DEF Word, Shift
  <2>5. most \in Nat
    BY <1>4
  <2>4. Word \in Nat /\ Shift(most) \in Nat
    BY ONLY <2>5, FlagIs, ShiftIs
  <2> QED
    BY <1>4, <2>3, <2>4, <2>5
<1> HIDE DEF most
<1>6. \E k \in 1..most : IsShortvecLen(k, value)
  BY <1>3, <1>5 DEF T
<1> QED
  BY <1>6 DEF shortvec_len, IsShortvecLen, most

(* No two lengths fit one value.                                           *)
LEMMA ShortvecLenIsUnique ==
  ASSUME NEW value \in Nat, NEW m \in Nat \ {0}, NEW n \in Nat \ {0},
         IsShortvecLen(m, value), IsShortvecLen(n, value)
  PROVE  m = n
<1>1. ASSUME NEW j \in Nat \ {0}, NEW k \in Nat \ {0}, j < k,
             IsShortvecLen(j, value), IsShortvecLen(k, value)
      PROVE  FALSE
  <2>1. j \in Nat /\ k - 1 \in Nat /\ j \in 0..(k - 1) /\ k # 1
    BY <1>1
  <2>2. Shift(j) \in Nat /\ Shift(k - 1) \in Nat /\ Shift(j) <= Shift(k - 1)
    BY <2>1, ShiftIs
  <2> QED
    BY <1>1, <2>1, <2>2 DEF IsShortvecLen
<1> QED
  BY <1>1

(* A length that a usize holds is written as bytes.                        *)
LEMMA ShortvecIsBytes ==
  ASSUME NEW value \in Nat, value < Word
  PROVE  Shortvec(value) \in Seq(Bytes) /\ Len(Shortvec(value)) = shortvec_len(value)
<1> DEFINE n == shortvec_len(value)
           digit(k) == ((value \div Shift(k - 1)) % Flag) + (IF k < n THEN Flag ELSE 0)
<1>1. n \in Nat
  <2>1. n \in 1..(WordBits + 1) /\ WordBits \in Nat
    BY ShortvecLenIs, SizesAssumption
  <2> QED
    BY <2>1
<1>2. Shortvec(value) = [k \in 1..n |-> digit(k)]
  BY DEF Shortvec
<1>3. ASSUME NEW k \in 1..n
      PROVE  digit(k) \in Bytes
  <2>1. k - 1 \in Nat
    OBVIOUS
  <2> DEFINE j == k - 1
  <2> HIDE DEF j
  <2>6. Shift(j) \in Nat /\ 1 <= Shift(j)
    BY <2>1, ShiftIs DEF j
  <2>2. Shift(k - 1) \in Nat \ {0} /\ Flag \in Nat /\ Flag >= 2
    BY <2>6, FlagIs DEF j
  <2>3. value \div Shift(k - 1) \in Nat
    BY <2>2, Quotient
  <2>4. (value \div Shift(k - 1)) % Flag \in 0..(Flag - 1)
    BY <2>2, <2>3
  <2>5. (IF k < n THEN Flag ELSE 0) \in {0, Flag}
    OBVIOUS
  <2> QED
    BY <2>2, <2>4, <2>5 DEF Bytes, U8
<1> HIDE DEF n, digit
<1>4. [k \in 1..n |-> digit(k)] \in [1..n -> Bytes]
  BY <1>3
<1>5. Shortvec(value) \in Seq(Bytes) /\ Len(Shortvec(value)) = n
  BY <1>1, <1>2, <1>4, FunctionIsSeq
<1> QED
  BY <1>5 DEF n

(* Bytes after their count are bytes.                                      *)
LEMMA CountedIsBytes ==
  ASSUME NEW bytes \in Seq(Bytes), Len(bytes) < Word
  PROVE  Counted(bytes) \in Seq(Bytes)
<1>1. Len(bytes) \in Nat
  BY LenProperties
<1> QED
  BY <1>1, ShortvecIsBytes, ConcatProperties DEF Counted

(* A count and then what it counts are bytes.                              *)
LEMMA JoinedAreBytes ==
  ASSUME NEW n \in Nat, n < Word, NEW parts \in [1..n -> Seq(Bytes)]
  PROVE  Shortvec(n) \o FlattenSeq(parts) \in Seq(Bytes)
<1>1. parts \in Seq(Seq(Bytes))
  BY FunctionIsSeq
<1>2. FlattenSeq(parts) \in Seq(Bytes)
  BY <1>1, FlattenIs
<1> QED
  BY <1>2, ShortvecIsBytes, ConcatProperties

(* Keys are bytes, each of the size of a key.                              *)
LEMMA KeysAreBytes == Keys \subseteq Seq(Bytes) /\ \A key \in Keys : Len(key) = KeyLength
BY SizesAssumption, FunctionIsSeq DEF Keys

(* What a message is made of, with the parts of its serialization.         *)
HeaderBytes(m) ==
  (IF m.version = "v0" THEN <<Flag>> ELSE <<>>)
  \o <<m.header.signers, m.header.readonly_signed, m.header.readonly_unsigned>>

(* An instruction, as it is written.                                       *)
InstructionBytes(i) == <<i.program>> \o Counted(i.accounts) \o Counted(i.data)

(* A lookup, as it is written.                                             *)
LookupBytes(l) == l.key \o Counted(l.writable) \o Counted(l.readonly)

(* The keys, instructions and lookups of a message, each as it is written. *)
KeyParts(m) == [k \in 1..Len(m.keys) |-> m.keys[k]]
InstructionParts(m) == [k \in 1..Len(m.instructions) |-> InstructionBytes(m.instructions[k])]
LookupParts(m) == [k \in 1..Len(m.lookups) |-> LookupBytes(m.lookups[k])]

(* What the fields of instructions and of lookups hold.                    *)
InstructionType == [program : Bytes, accounts : Seq(Bytes), data : Seq(Bytes)]
LookupType == [key : Keys, writable : Seq(Bytes), readonly : Seq(Bytes)]

(* The types of the fields of a message that can be written.               *)
LEMMA MessageTypes ==
  ASSUME NEW m, WellFormed(m)
  PROVE  /\ m.version \in {"legacy", "v0"} /\ m.blockhash \in Seq(Bytes)
         /\ m.header.signers \in Bytes /\ m.header.readonly_signed \in Bytes
         /\ m.header.readonly_unsigned \in Bytes
         /\ m.keys \in Seq(Keys) /\ m.instructions \in Seq(InstructionType)
         /\ m.lookups \in Seq(LookupType)
BY KeysAreBytes DEF WellFormed, InstructionType, LookupType

(* An instruction is written as bytes.                                     *)
LEMMA InstructionIsBytes ==
  ASSUME NEW i \in InstructionType, Len(i.accounts) < Word, Len(i.data) < Word
  PROVE  InstructionBytes(i) \in Seq(Bytes)
<1>1. i.program \in Bytes /\ i.accounts \in Seq(Bytes) /\ i.data \in Seq(Bytes)
  BY DEF InstructionType
<1>2. Counted(i.accounts) \in Seq(Bytes) /\ Counted(i.data) \in Seq(Bytes)
  BY <1>1, CountedIsBytes
<1>3. <<i.program>> \in Seq(Bytes)
  BY <1>1
<1> QED
  BY <1>2, <1>3, ConcatProperties DEF InstructionBytes

(* A lookup is written as bytes.                                           *)
LEMMA LookupIsBytes ==
  ASSUME NEW l \in LookupType, Len(l.writable) < Word, Len(l.readonly) < Word
  PROVE  LookupBytes(l) \in Seq(Bytes)
<1>1. l.key \in Seq(Bytes) /\ l.writable \in Seq(Bytes) /\ l.readonly \in Seq(Bytes)
  BY KeysAreBytes DEF LookupType
<1>2. Counted(l.writable) \in Seq(Bytes) /\ Counted(l.readonly) \in Seq(Bytes)
  BY <1>1, CountedIsBytes
<1> QED
  BY <1>1, <1>2, ConcatProperties DEF LookupBytes

(* A message is written part by part.                                      *)
LEMMA SerializedParts ==
  ASSUME NEW m
  PROVE  Serialize(m) = HeaderBytes(m)
           \o (Shortvec(Len(m.keys)) \o FlattenSeq(KeyParts(m))) \o m.blockhash
           \o (Shortvec(Len(m.instructions)) \o FlattenSeq(InstructionParts(m)))
           \o (IF m.version = "v0" THEN Shortvec(Len(m.lookups)) \o FlattenSeq(LookupParts(m))
                                   ELSE <<>>)
BY DEF Serialize, Each, HeaderBytes, InstructionBytes, LookupBytes, KeyParts,
       InstructionParts, LookupParts

(* Each part is written as bytes.                                          *)
LEMMA PartsAreBytes ==
  ASSUME NEW m, WellFormed(m)
  PROVE  /\ HeaderBytes(m) \in Seq(Bytes)
         /\ KeyParts(m) \in [1..Len(m.keys) -> Seq(Bytes)]
         /\ InstructionParts(m) \in [1..Len(m.instructions) -> Seq(Bytes)]
         /\ LookupParts(m) \in [1..Len(m.lookups) -> Seq(Bytes)]
<1>1. HeaderBytes(m) \in Seq(Bytes)
  <2>1. Flag \in Bytes
    BY FlagIs DEF Bytes, U8
  <2>2. <<m.header.signers, m.header.readonly_signed, m.header.readonly_unsigned>> \in Seq(Bytes)
    BY MessageTypes
  <2>3. (IF m.version = "v0" THEN <<Flag>> ELSE <<>>) \in Seq(Bytes)
    BY <2>1
  <2> QED
    BY <2>2, <2>3, ConcatProperties DEF HeaderBytes
<1>2. ASSUME NEW k \in 1..Len(m.keys) PROVE m.keys[k] \in Seq(Bytes)
  <2>1. m.keys[k] \in Keys
    BY MessageTypes, ElementOfSeq
  <2> QED
    BY <2>1, KeysAreBytes
<1>3. ASSUME NEW k \in 1..Len(m.instructions)
      PROVE  InstructionBytes(m.instructions[k]) \in Seq(Bytes)
  <2>1. m.instructions[k] \in InstructionType
    BY MessageTypes, ElementOfSeq
  <2>2. Len(m.instructions[k].accounts) < Word /\ Len(m.instructions[k].data) < Word
    BY DEF WellFormed
  <2> QED
    BY <2>1, <2>2, InstructionIsBytes
<1>4. ASSUME NEW k \in 1..Len(m.lookups) PROVE LookupBytes(m.lookups[k]) \in Seq(Bytes)
  <2>1. m.lookups[k] \in LookupType
    BY MessageTypes, ElementOfSeq
  <2>2. Len(m.lookups[k].writable) < Word /\ Len(m.lookups[k].readonly) < Word
    BY DEF WellFormed
  <2> QED
    BY <2>1, <2>2, LookupIsBytes
<1> QED
  BY <1>1, <1>2, <1>3, <1>4 DEF KeyParts, InstructionParts, LookupParts

(* The counts of a message fit a word.                                     *)
LEMMA CountsFit ==
  ASSUME NEW m, WellFormed(m)
  PROVE  /\ Len(m.keys) \in Nat /\ Len(m.keys) < Word
         /\ Len(m.instructions) \in Nat /\ Len(m.instructions) < Word
         /\ Len(m.lookups) \in Nat /\ Len(m.lookups) < Word
<1>1. Len(m.keys) \in Nat /\ Len(m.instructions) \in Nat /\ Len(m.lookups) \in Nat
  BY MessageTypes, LenProperties
<1>2. KeyLength \in Nat /\ KeyLength >= 1 /\ Word \in Nat
  BY SizesAssumption, FlagIs
<1>3. /\ Len(m.keys) * KeyLength < Word
      /\ Len(m.instructions) < Word /\ Len(m.lookups) < Word
  BY DEF WellFormed
<1>4. \A a, b \in Nat : b >= 1 => a <= a * b
  OBVIOUS
<1> QED
  BY <1>1, <1>2, <1>3, <1>4

(* So a message is written as bytes.                                       *)
LEMMA SerializedIsBytes ==
  ASSUME NEW m, WellFormed(m)
  PROVE  Serialize(m) \in Seq(Bytes)
<1>1. /\ Shortvec(Len(m.keys)) \o FlattenSeq(KeyParts(m)) \in Seq(Bytes)
      /\ Shortvec(Len(m.instructions)) \o FlattenSeq(InstructionParts(m)) \in Seq(Bytes)
      /\ Shortvec(Len(m.lookups)) \o FlattenSeq(LookupParts(m)) \in Seq(Bytes)
  BY PartsAreBytes, CountsFit, JoinedAreBytes
<1>2. HeaderBytes(m) \in Seq(Bytes) /\ m.blockhash \in Seq(Bytes)
  BY PartsAreBytes, MessageTypes
<1> DEFINE rest == IF m.version = "v0" THEN Shortvec(Len(m.lookups)) \o FlattenSeq(LookupParts(m))
                                       ELSE <<>>
<1>3. rest \in Seq(Bytes)
  BY <1>1
<1> HIDE DEF rest
<1>4. Serialize(m) = HeaderBytes(m)
           \o (Shortvec(Len(m.keys)) \o FlattenSeq(KeyParts(m))) \o m.blockhash
           \o (Shortvec(Len(m.instructions)) \o FlattenSeq(InstructionParts(m))) \o rest
  BY SerializedParts DEF rest
<1> QED
  BY <1>1, <1>2, <1>3, <1>4, ConcatProperties

-----------------------------------------------------------------------------

(* The inductive invariant: the input is bytes, and the view is what the   *)
(* parser makes of the input it has now.                                   *)
Inv ==
  /\ input \in Seq(Bytes)
  /\ view = Unparsed \/ view = try_new(input)
  /\ message # NoMessage => message \in Messages /\ input = Serialize(message)

(* Cutting bytes leaves bytes.                                             *)
LEMMA CutIsBytes ==
  ASSUME NEW s \in Seq(Bytes), NEW k \in 1..Len(s)
  PROVE  /\ SubSeq(s, 1, k - 1) \in Seq(Bytes) /\ SubSeq(s, k, Len(s)) \in Seq(Bytes)
         /\ RemoveAt(s, k) \in Seq(Bytes)
<1>1. Len(s) \in Nat
  BY LenProperties
<1>2. ASSUME NEW i \in Nat \ {0}, NEW j \in Nat, j <= Len(s)
      PROVE  SubSeq(s, i, j) \in Seq(Bytes)
  <2>1. \A x \in i..j : s[x] \in Bytes
    BY <1>1, <1>2, ElementOfSeq
  <2> QED
    BY <1>1, <1>2, <2>1, SubSeqProperties
<1>3. /\ SubSeq(s, 1, k - 1) \in Seq(Bytes) /\ SubSeq(s, k, Len(s)) \in Seq(Bytes)
      /\ SubSeq(s, k + 1, Len(s)) \in Seq(Bytes)
  BY <1>1, <1>2
<1> QED
  BY <1>3, ConcatProperties DEF RemoveAt

(* Damaging bytes leaves bytes.                                            *)
LEMMA DamagedIsBytes ==
  ASSUME NEW s \in Seq(Bytes), NEW k \in 1..Len(s), NEW b \in DamageBytes
  PROVE  /\ [s EXCEPT ![k] = b] \in Seq(Bytes)
         /\ InsertAt(s, k, b) \in Seq(Bytes) /\ Append(s, b) \in Seq(Bytes)
<1>1. b \in Bytes
  BY SizesAssumption
<1>2. [s EXCEPT ![k] = b] \in Seq(Bytes)
  BY <1>1, ExceptSeq
<1>3. <<b>> \in Seq(Bytes)
  BY <1>1
<1>4. Append(s, b) \in Seq(Bytes)
  BY <1>1, AppendProperties
<1> QED
  BY <1>2, <1>3, <1>4, CutIsBytes, ConcatProperties DEF InsertAt

(* The view is never that of another input.                                *)
LEMMA Invariance == Spec => []Inv
<1>1. Init => Inv
  <2> SUFFICES ASSUME Init PROVE Inv
    OBVIOUS
  <2>1. CASE message \in Messages /\ input = Serialize(message)
    BY <2>1, SerializedIsBytes, MessagesAssumption DEF Init, Inv
  <2>2. CASE message = NoMessage /\ input \in Inputs
    BY <2>2, SizesAssumption DEF Init, Inv
  <2> QED
    BY <2>1, <2>2 DEF Init
<1>2. Inv /\ [Next]_vars => Inv'
  <2> SUFFICES ASSUME Inv, [Next]_vars PROVE Inv'
    OBVIOUS
  <2>1. CASE Damage
    <3>1. PICK k \in 1..Len(input) :
            \/ input' = RemoveAt(input, k)
            \/ input' = SubSeq(input, 1, k - 1)
            \/ \E b \in DamageBytes :
                 input' \in {[input EXCEPT ![k] = b], InsertAt(input, k, b), Append(input, b)}
      BY <2>1 DEF Damage
    <3>4. \A b \in DamageBytes :
            /\ [input EXCEPT ![k] = b] \in Seq(Bytes)
            /\ InsertAt(input, k, b) \in Seq(Bytes) /\ Append(input, b) \in Seq(Bytes)
      BY DamagedIsBytes DEF Inv
    <3>5. RemoveAt(input, k) \in Seq(Bytes) /\ SubSeq(input, 1, k - 1) \in Seq(Bytes)
      BY CutIsBytes DEF Inv
    <3>2. input' \in Seq(Bytes)
      BY <3>1, <3>4, <3>5
    <3>3. message' = NoMessage /\ view' = Unparsed
      BY <2>1 DEF Damage
    <3> QED
      BY <3>2, <3>3 DEF Inv, Unparsed
  <2>2. CASE Parse
    <3>1. /\ UNCHANGED <<message, input>> /\ view' = try_new(input)
      BY <2>2 DEF Parse
    <3> QED
      BY <3>1 DEF Inv
  <2>3. CASE UNCHANGED vars
    BY <2>3 DEF Inv, vars
  <2> QED
    BY <2>1, <2>2, <2>3 DEF Next
<1> QED
  BY <1>1, <1>2, PTL DEF Spec

(* The least element of a set of numbers.                                  *)
Least(set) == CHOOSE n \in set : \A other \in set : n <= other

(* It is one, and no other is less.                                        *)
LEMMA LeastIs ==
  ASSUME NEW set, set \subseteq Nat, set # {}
  PROVE  Least(set) \in set /\ \A other \in set : Least(set) <= other
<1> DEFINE T == {n \in Nat : (\E x \in set : x <= n) =>
                   \E least \in set : \A other \in set : least <= other}
<1>1. 0 \in T
  OBVIOUS
<1>2. \A n \in Nat : n \in T => n + 1 \in T
  <2> SUFFICES ASSUME NEW n \in Nat, n \in T, NEW x \in set, x <= n + 1
               PROVE  \E least \in set : \A other \in set : least <= other
    OBVIOUS
  <2>1. CASE \E y \in set : y <= n
    BY <2>1
  <2>2. CASE ~ \E y \in set : y <= n
    <3>1. \A other \in set : x <= other
      BY <2>2
    <3> QED
      BY <3>1
  <2> QED
    BY <2>1, <2>2
<1> HIDE DEF T
<1>3. Nat \subseteq T
  BY <1>1, <1>2, Induction
<1>4. \E least \in set : \A other \in set : least <= other
  <2>1. PICK x : x \in set
    OBVIOUS
  <2>2. x \in Nat /\ x <= x
    BY <2>1
  <2> QED
    BY <1>3, <2>1, <2>2 DEF T
<1> QED
  BY <1>4 DEF Least

(* What n bytes stand for is a number.                                     *)
Adding(bytes, offset, n) == [k \in 1..n |-> [x \in Nat |-> x + part(bytes, offset, k)]]

(* What a byte adds is a number.                                           *)
LEMMA PartIsNat ==
  ASSUME NEW b \in Seq(Bytes), NEW o \in Nat, NEW n \in Nat, o + n <= Len(b), NEW k \in 1..n
  PROVE  part(b, o, k) \in Nat /\ b[o + k] \in Bytes
<1>1. Len(b) \in Nat /\ o + k \in 1..Len(b)
  BY LenProperties
<1>2. b[o + k] \in Bytes
  BY <1>1, ElementOfSeq
<1>3. b[o + k] \in Nat /\ Flag \in Nat /\ Flag >= 2
  BY <1>2, FlagIs
<1>4. b[o + k] % Flag \in Nat
  BY <1>3
<1>5. Shift(k - 1) \in Nat
  <2> DEFINE j == k - 1
  <2>1. j \in Nat
    OBVIOUS
  <2> HIDE DEF j
  <2>2. Shift(j) \in Nat
    BY <2>1, ShiftIs
  <2> QED
    BY <2>2 DEF j
<1>6. \A x, y \in Nat : x * y \in Nat
  OBVIOUS
<1> QED
  BY <1>2, <1>4, <1>5, <1>6 DEF part

(* The value is the last state of the run that adds the parts up.          *)
LEMMA ValueRun ==
  ASSUME NEW b \in Seq(Bytes), NEW o \in Nat, NEW n \in Nat, o + n <= Len(b)
  PROVE  \E f \in [0..n -> Nat] :
           /\ f[0] = 0 /\ \A k \in 1..n : f[k] = f[k - 1] + part(b, o, k)
           /\ shortvec_value(b, o, n) = f[n]
<1> DEFINE p(k) == part(b, o, k)
           steps == Adding(b, o, n)
           Is(g) == g = [k \in 0..n |-> IF k = 0 THEN 0 ELSE g[k - 1] + p(k)]
           h == CHOOSE g : Is(g)
<1>1. \A k \in 1..n : p(k) \in Nat
  BY PartIsNat
<1>2. shortvec_value(b, o, n) = h[n]
  BY DEF shortvec_value
<1>3. \A k \in 1..n : \A x \in Nat : steps[k][x] = x + p(k)
  BY DEF Adding
<1>4. steps \in [1..n -> [Nat -> Nat]]
  <2>1. ASSUME NEW k \in 1..n
        PROVE  [x \in Nat |-> x + p(k)] \in [Nat -> Nat]
    BY <1>1
  <2> QED
    BY <2>1 DEF Adding
<1> HIDE DEF steps, p
<1>5. LoopRuns(Nat, steps, 0, n) # {}
  BY <1>4, LoopRun
<1>6. PICK f : f \in LoopRuns(Nat, steps, 0, n)
  BY <1>5
<1>7. f \in [0..n -> Nat] /\ f[0] = 0 /\ \A k \in 1..n : f[k] = f[k - 1] + p(k)
  <2>1. f \in [0..n -> Nat] /\ f[0] = 0 /\ \A k \in 1..n : f[k] = steps[k][f[k - 1]]
    BY <1>6 DEF LoopRuns
  <2>2. \A k \in 1..n : k - 1 \in 0..n
    OBVIOUS
  <2>3. \A k \in 1..n : f[k - 1] \in Nat
    BY <2>1, <2>2
  <2> QED
    BY <1>3, <2>1, <2>3
<1>8. Is(h)
  <2>1. Is(f)
    BY <1>7
  <2> QED
    BY <2>1
<1> HIDE DEF h
<1>9. h[0] = 0 /\ \A k \in 1..n : h[k] = h[k - 1] + p(k)
  BY <1>8
<1> DEFINE T == {k \in Nat : k <= n => h[k] = f[k]}
<1>10. 0 \in T
  BY <1>7, <1>9
<1>11. \A k \in Nat : k \in T => k + 1 \in T
  <2> SUFFICES ASSUME NEW k \in Nat, k + 1 <= n, h[k] = f[k]
               PROVE  h[k + 1] = f[k + 1]
    OBVIOUS
  <2>1. k + 1 \in 1..n /\ (k + 1) - 1 = k
    OBVIOUS
  <2> QED
    BY <1>7, <1>9, <2>1
<1> HIDE DEF T
<1>12. Nat \subseteq T
  BY <1>10, <1>11, Induction
<1>13. h[n] = f[n]
  BY <1>12 DEF T
<1> QED
  BY <1>2, <1>7, <1>13 DEF p

(* So it is a number.                                                      *)
LEMMA ValueIsNat ==
  ASSUME NEW b \in Seq(Bytes), NEW o \in Nat, NEW n \in Nat, o + n <= Len(b)
  PROVE  shortvec_value(b, o, n) \in Nat
<1>1. PICK f \in [0..n -> Nat] : shortvec_value(b, o, n) = f[n]
  BY ValueRun
<1> QED
  BY <1>1

-----------------------------------------------------------------------------
(* Cursors over bytes b.                                                   *)
Cursors(b) ==
  [input : {b}, offset : Nat, value : Nat, ok : BOOLEAN, minimal : BOOLEAN]

(* A cursor starts where it is put.                                        *)
LEMMA CursorIs ==
  ASSUME NEW b, NEW o \in Nat
  PROVE  /\ Cursor(b, o) \in Cursors(b)
         /\ Cursor(b, o).ok /\ Cursor(b, o).offset = o /\ Cursor(b, o).value = 0
         /\ Cursor(b, o).minimal
BY DEF Cursor, Cursors

(* The fields of a cursor, and of one that failed.                         *)
LEMMA FieldsAre ==
  ASSUME NEW b, NEW c \in Cursors(b)
  PROVE  /\ c.input = b /\ c.offset \in Nat /\ c.value \in Nat
         /\ c.ok \in BOOLEAN /\ c.minimal \in BOOLEAN
         /\ Failed(c) \in Cursors(b) /\ ~Failed(c).ok
BY DEF Cursors, Failed

(* A step of a cursor that still reads has read length bytes.              *)
Moved(c, d, length) ==
  d.ok => c.ok /\ d.offset = c.offset + length /\ d.offset <= Len(c.input)

(* skip moves by the length if the input reaches so far, and else fails.   *)
LEMMA SkipIs ==
  ASSUME NEW b \in Seq(Bytes), NEW c \in Cursors(b), NEW len \in Nat
  PROVE  /\ skip(c, len) \in Cursors(b) /\ Moved(c, skip(c, len), len)
         /\ skip(c, len).value = c.value /\ skip(c, len).minimal = c.minimal
         /\ (skip(c, len).ok <=> c.ok /\ c.offset + len <= Len(b))
<1>1. /\ c.input = b /\ c.offset \in Nat /\ c.ok \in BOOLEAN
      /\ c.offset + len \in Nat /\ Len(b) \in Nat
  <2>1. c.input = b /\ c.offset \in Nat /\ c.ok \in BOOLEAN
    BY FieldsAre
  <2>2. Len(b) \in Nat
    BY LenProperties
  <2> QED
    BY <2>1, <2>2
<1>2. CASE c.ok /\ Len(b) - c.offset >= len
  <2>1. skip(c, len) = [c EXCEPT !.offset = c.offset + len]
    BY <1>1, <1>2 DEF skip
  <2>2. c.offset + len <= Len(b)
    BY <1>1, <1>2
  <2> QED
    BY <1>1, <1>2, <2>1, <2>2 DEF Cursors, Moved
<1>3. CASE ~(c.ok /\ Len(b) - c.offset >= len)
  <2>1. skip(c, len) = [c EXCEPT !.ok = FALSE]
    BY <1>1, <1>3 DEF skip, Failed
  <2>2. ~(c.ok /\ c.offset + len <= Len(b))
    BY <1>1, <1>3
  <2> QED
    BY <1>1, <1>3, <2>1, <2>2 DEF Cursors, Moved
<1> QED
  BY <1>2, <1>3

(* read_u8 reads the next byte and moves past it, or fails.                *)
LEMMA ReadByteIs ==
  ASSUME NEW b \in Seq(Bytes), NEW c \in Cursors(b)
  PROVE  /\ read_u8(c) \in Cursors(b) /\ Moved(c, read_u8(c), 1)
         /\ read_u8(c).minimal = c.minimal
         /\ (read_u8(c).ok <=> c.ok /\ c.offset + 1 <= Len(b))
         /\ read_u8(c).ok => read_u8(c).value = b[c.offset + 1] /\ read_u8(c).value \in Bytes
<1>1. /\ c.input = b /\ c.offset \in Nat /\ c.ok \in BOOLEAN /\ c.minimal \in BOOLEAN
      /\ c.offset + 1 \in Nat /\ Len(b) \in Nat
  <2>1. c.input = b /\ c.offset \in Nat /\ c.ok \in BOOLEAN /\ c.minimal \in BOOLEAN
    BY FieldsAre
  <2>2. Len(b) \in Nat
    BY LenProperties
  <2> QED
    BY <2>1, <2>2
<1>2. CASE c.ok /\ c.offset < Len(b)
  <2>1. read_u8(c) = [c EXCEPT !.offset = c.offset + 1, !.value = b[c.offset + 1]]
    BY <1>1, <1>2 DEF read_u8
  <2>2. c.offset + 1 \in 1..Len(b)
    BY <1>1, <1>2
  <2>3. b[c.offset + 1] \in Bytes /\ b[c.offset + 1] \in Nat
    BY <2>2, ElementOfSeq, FlagIs
  <2>4. read_u8(c) \in Cursors(b)
    BY <1>1, <1>2, <2>1, <2>3 DEF Cursors
  <2>5. /\ read_u8(c).ok /\ read_u8(c).offset = c.offset + 1
        /\ read_u8(c).value = b[c.offset + 1] /\ read_u8(c).minimal = c.minimal
    BY <1>1, <1>2, <2>1 DEF Cursors
  <2>6. c.offset + 1 <= Len(b)
    BY <1>1, <1>2
  <2> QED
    BY <1>1, <1>2, <2>3, <2>4, <2>5, <2>6 DEF Moved
<1>3. CASE ~(c.ok /\ c.offset < Len(b))
  <2>1. read_u8(c) = [c EXCEPT !.ok = FALSE]
    BY <1>1, <1>3 DEF read_u8, Failed
  <2>2. ~(c.ok /\ c.offset + 1 <= Len(b))
    BY <1>1, <1>3
  <2> QED
    BY <1>1, <1>3, <2>1, <2>2 DEF Cursors, Moved
<1> QED
  BY <1>2, <1>3

(* The shortvec that begins at an offset: its length and its value.        *)
Length(b, o) == Least(shortvec_ends(b, o))

(* The value written at an offset, and that there is one to read.          *)
Value(b, o) == shortvec_value(b, o, Length(b, o))
Readable(b, o) ==
  /\ shortvec_ends(b, o) # {}
  /\ \A k \in 1..Length(b, o) : part(b, o, k) < Word

(* The length of what is written at an offset is the first of its ends.    *)
LEMMA EndsAre ==
  ASSUME NEW b \in Seq(Bytes), NEW o \in Nat, shortvec_ends(b, o) # {}
  PROVE  /\ Length(b, o) \in Nat \ {0} /\ o + Length(b, o) <= Len(b)
         /\ Length(b, o) \in shortvec_ends(b, o)
         /\ \A n \in shortvec_ends(b, o) : Length(b, o) <= n
         /\ Value(b, o) \in Nat
<1>1. shortvec_ends(b, o) \subseteq Nat \ {0}
  BY SizesAssumption DEF shortvec_ends
<1>2. /\ Length(b, o) \in shortvec_ends(b, o)
      /\ \A n \in shortvec_ends(b, o) : Length(b, o) <= n
  BY <1>1, LeastIs DEF Length
<1>3. o + Length(b, o) <= Len(b) /\ Length(b, o) \in Nat \ {0}
  BY <1>1, <1>2 DEF shortvec_ends
<1> QED
  BY <1>2, <1>3, ValueIsNat DEF Value

(* read_shortvec, by its two outcomes.                                     *)
LEMMA ShortvecReads ==
  ASSUME NEW b \in Seq(Bytes), NEW c \in Cursors(b)
  PROVE  read_shortvec(c) =
           IF c.ok /\ Readable(b, c.offset)
           THEN [c EXCEPT !.offset = c.offset + Length(b, c.offset),
                          !.value = Value(b, c.offset),
                          !.minimal = c.minimal /\ Length(b, c.offset)
                                                    = shortvec_len(Value(b, c.offset))]
           ELSE Failed(c)
<1> DEFINE o == c.offset
           n == Length(b, o)
           value == Value(b, o)
<1>1. c.input = b /\ o \in Nat
  BY FieldsAre
<1>2. CASE ~c.ok \/ shortvec_ends(b, o) = {}
  <2>1. read_shortvec(c) = Failed(c)
    BY <1>1, <1>2 DEF read_shortvec
  <2>2. ~(c.ok /\ Readable(b, o))
    BY <1>2 DEF Readable
  <2> QED
    BY <2>1, <2>2
<1>3. CASE c.ok /\ shortvec_ends(b, o) # {}
  <2>1. read_shortvec(c) = take_shortvec(c, n)
    BY <1>1, <1>3 DEF read_shortvec, Length, Least
  <2>2. /\ n \in Nat \ {0} /\ o + n \in Nat /\ o + n <= Len(b) /\ value \in Nat
    BY <1>1, <1>3, EndsAre
  <2>3. \A k \in 1..n : part(b, o, k) \in Nat
    BY <1>1, <2>2, PartIsNat
  <2>4. Word \in Nat
    BY FlagIs
  <2>5. CASE \E k \in 1..n : part(b, o, k) >= Word
    <3>1. read_shortvec(c) = Failed(c)
      BY <1>1, <2>1, <2>5 DEF take_shortvec
    <3>2. ~Readable(b, o)
      BY <2>3, <2>4, <2>5 DEF Readable
    <3> QED
      BY <3>1, <3>2
  <2>6. CASE ~ \E k \in 1..n : part(b, o, k) >= Word
    <3>1. read_shortvec(c) = [c EXCEPT !.offset = o + n, !.value = value,
                                       !.minimal = c.minimal /\ n = shortvec_len(value)]
      BY <1>1, <2>1, <2>6 DEF take_shortvec, Value
    <3>2. Readable(b, o)
      BY <1>3, <2>3, <2>4, <2>6 DEF Readable
    <3> QED
      BY <1>3, <3>1, <3>2
  <2> QED
    BY <2>5, <2>6
<1> QED
  BY <1>2, <1>3

(* read_shortvec reads the length that is written at its offset, if any.   *)
LEMMA ReadShortvecIs ==
  ASSUME NEW b \in Seq(Bytes), NEW c \in Cursors(b)
  PROVE  /\ read_shortvec(c) \in Cursors(b)
         /\ (read_shortvec(c).ok <=> c.ok /\ Readable(b, c.offset))
         /\ Moved(c, read_shortvec(c), Length(b, c.offset))
         /\ read_shortvec(c).ok =>
              /\ read_shortvec(c).value = Value(b, c.offset)
              /\ Length(b, c.offset) \in Nat \ {0}
         /\ read_shortvec(c).minimal => c.minimal
         /\ read_shortvec(c).ok =>
              (read_shortvec(c).minimal <=>
                 c.minimal /\ Length(b, c.offset) = shortvec_len(Value(b, c.offset)))
<1> DEFINE d == read_shortvec(c)
           o == c.offset
           n == Length(b, o)
           value == Value(b, o)
<1>1. c.input = b /\ o \in Nat /\ c.ok \in BOOLEAN /\ c.minimal \in BOOLEAN
  BY FieldsAre
<1>2. CASE ~(c.ok /\ Readable(b, o))
  <2>1. d = Failed(c)
    BY <1>2, ShortvecReads
  <2>2. d \in Cursors(b) /\ ~d.ok
    BY <2>1, FieldsAre
  <2>3. d.minimal = c.minimal
    BY <2>1 DEF Failed, Cursors
  <2> HIDE DEF d
  <2> QED
    BY <1>1, <1>2, <2>2, <2>3 DEF Moved, d
<1>3. CASE c.ok /\ Readable(b, o)
  <2>1. n \in Nat \ {0} /\ o + n \in Nat /\ o + n <= Len(b) /\ value \in Nat
    <3>1. shortvec_ends(b, o) # {}
      BY <1>3 DEF Readable
    <3> QED
      BY <1>1, <3>1, EndsAre
  <2>2. d = [c EXCEPT !.offset = o + n, !.value = value,
                      !.minimal = c.minimal /\ n = shortvec_len(value)]
    BY <1>3, ShortvecReads
  <2> HIDE DEF d, n, value
  <2>3. d.offset = o + n /\ d.value = value /\ d.ok = c.ok
    BY <2>2 DEF Cursors
  <2>4. d.minimal <=> c.minimal /\ n = shortvec_len(value)
    BY <2>2 DEF Cursors
  <2>5. d \in Cursors(b)
    BY <1>1, <2>1, <2>2 DEF Cursors
  <2>6. d.ok /\ Moved(c, d, n)
    BY <1>1, <1>3, <2>1, <2>3 DEF Moved
  <2> QED
    BY <1>3, <2>1, <2>3, <2>4, <2>5, <2>6 DEF d, n, value
<1> QED
  BY <1>2, <1>3

(* A slice has the length between its ends.                                *)
LEMMA SliceIs ==
  ASSUME NEW b \in Seq(Bytes), NEW from \in Nat, NEW to \in Nat, from <= to, to <= Len(b)
  PROVE  Slice(b, from, to) \in Seq(Bytes) /\ Len(Slice(b, from, to)) = to - from
<1>1. Len(b) \in Nat
  BY LenProperties
<1>2. ASSUME NEW i \in (from + 1)..to
      PROVE  b[i] \in Bytes
  <2>1. i \in 1..Len(b)
    BY <1>1
  <2> QED
    BY <2>1, ElementOfSeq
<1>3. /\ SubSeq(b, from + 1, to) \in Seq(Bytes)
      /\ Len(SubSeq(b, from + 1, to)) = IF from + 1 <= to THEN to - (from + 1) + 1 ELSE 0
  BY <1>2, SubSeqProperties
<1> QED
  BY <1>3 DEF Slice

(* A counted slice at an offset: a shortvec and as many bytes as it says.  *)
CountedEnd(b, o) == o + Length(b, o) + Value(b, o)

(* That the bytes reach so far, those bytes, and whether their count is    *)
(* written in the fewest bytes.                                            *)
CountedOk(b, o) == Readable(b, o) /\ CountedEnd(b, o) <= Len(b)
CountedBytes(b, o) == Slice(b, o + Length(b, o), CountedEnd(b, o))
Minimal(b, o) == Length(b, o) = shortvec_len(Value(b, o))

(* Counted bytes that the input holds end within it.                       *)
LEMMA CountedIs ==
  ASSUME NEW b \in Seq(Bytes), NEW o \in Nat, CountedOk(b, o)
  PROVE  /\ CountedEnd(b, o) \in Nat /\ CountedEnd(b, o) <= Len(b)
         /\ CountedEnd(b, o) > o
         /\ Length(b, o) \in Nat \ {0} /\ Value(b, o) \in Nat
         /\ CountedBytes(b, o) \in Seq(Bytes) /\ Len(CountedBytes(b, o)) = Value(b, o)
<1> DEFINE n == Length(b, o)
           value == Value(b, o)
<1>1. shortvec_ends(b, o) # {}
  BY DEF CountedOk, Readable
<1>2. n \in Nat \ {0} /\ value \in Nat
  BY <1>1, EndsAre
<1>3. o + n + value <= Len(b)
  BY DEF CountedOk, CountedEnd
<1> HIDE DEF n, value
<1>4. /\ o + n \in Nat /\ o + n + value \in Nat /\ o + n <= o + n + value
      /\ o + n + value > o /\ (o + n + value) - (o + n) = value
  BY <1>2
<1>5. /\ Slice(b, o + n, o + n + value) \in Seq(Bytes)
      /\ Len(Slice(b, o + n, o + n + value)) = value
  BY <1>3, <1>4, SliceIs
<1> QED
  BY <1>2, <1>3, <1>4, <1>5 DEF CountedEnd, CountedBytes, n, value

(* What reads a counted slice: the shortvec first, then the bytes.         *)
LEMMA CountedReads ==
  ASSUME NEW b \in Seq(Bytes), NEW c \in Cursors(b)
  PROVE  LET d == read_shortvec(c)
             e == skip_value(d)
             o == c.offset
         IN  /\ d \in Cursors(b) /\ e \in Cursors(b)
             /\ e.ok <=> c.ok /\ CountedOk(b, o)
             /\ e.ok => /\ d.offset = o + Length(b, o) /\ d.value = Value(b, o)
                        /\ e.offset = CountedEnd(b, o)
                        /\ e.minimal <=> c.minimal /\ Minimal(b, o)
             /\ e.minimal => c.minimal
<1> DEFINE d == read_shortvec(c)
           e == skip_value(d)
           o == c.offset
<1>1. /\ d \in Cursors(b)
      /\ d.ok <=> c.ok /\ Readable(b, o)
      /\ d.ok => /\ d.offset = o + Length(b, o) /\ d.value = Value(b, o)
                 /\ d.minimal <=> c.minimal /\ Minimal(b, o)
      /\ d.minimal => c.minimal
  BY ReadShortvecIs DEF Moved, Minimal
<1> HIDE DEF d
<1>2. d.offset \in Nat /\ d.value \in Nat
  BY <1>1, FieldsAre
<1>3. /\ e \in Cursors(b) /\ e.minimal = d.minimal
      /\ e.ok <=> d.ok /\ d.offset + d.value <= Len(b)
      /\ e.ok => e.offset = d.offset + d.value
  BY <1>1, <1>2, SkipIs DEF skip_value, Moved
<1> HIDE DEF e
<1>4. e.ok <=> c.ok /\ CountedOk(b, o)
  BY <1>1, <1>3 DEF CountedOk, CountedEnd
<1>5. e.ok => /\ d.offset = o + Length(b, o) /\ d.value = Value(b, o)
              /\ e.offset = CountedEnd(b, o)
              /\ e.minimal <=> c.minimal /\ Minimal(b, o)
  BY <1>1, <1>3 DEF CountedEnd
<1>6. e.minimal => c.minimal
  BY <1>1, <1>3
<1> QED
  BY <1>1, <1>3, <1>4, <1>5, <1>6 DEF d, e

(* An instruction at an offset, and a lookup.                              *)
InstructionData(b, o) == CountedEnd(b, o + 1)

(* The rest of the layout of an instruction at an offset.                  *)
InstructionEnd(b, o) == CountedEnd(b, InstructionData(b, o))
InstructionOk(b, o) ==
  o + 1 <= Len(b) /\ CountedOk(b, o + 1) /\ CountedOk(b, InstructionData(b, o))
InstructionMinimal(b, o) == Minimal(b, o + 1) /\ Minimal(b, InstructionData(b, o))
InstructionAt(b, o) ==
  [program |-> b[o + 1], accounts |-> CountedBytes(b, o + 1),
   data |-> CountedBytes(b, InstructionData(b, o))]

(* The layout of a lookup at an offset.                                    *)
LookupReadonly(b, o) == CountedEnd(b, o + KeyLength)
LookupEnd(b, o) == CountedEnd(b, LookupReadonly(b, o))
LookupOk(b, o) ==
  /\ o + KeyLength <= Len(b) /\ CountedOk(b, o + KeyLength)
  /\ CountedOk(b, LookupReadonly(b, o))
LookupMinimal(b, o) == Minimal(b, o + KeyLength) /\ Minimal(b, LookupReadonly(b, o))
LookupAt(b, o) ==
  [key |-> Slice(b, o, o + KeyLength), writable |-> CountedBytes(b, o + KeyLength),
   readonly |-> CountedBytes(b, LookupReadonly(b, o))]

(* An instruction that the input holds ends within it.                     *)
LEMMA InstructionIs ==
  ASSUME NEW b \in Seq(Bytes), NEW o \in Nat, InstructionOk(b, o)
  PROVE  /\ InstructionEnd(b, o) \in Nat /\ InstructionEnd(b, o) <= Len(b)
         /\ InstructionAt(b, o) \in InstructionType
         /\ InstructionData(b, o) \in Nat
<1>1. o + 1 \in Nat /\ o + 1 \in 1..Len(b)
  BY LenProperties DEF InstructionOk
<1>2. b[o + 1] \in Bytes
  BY <1>1, ElementOfSeq
<1>3. /\ InstructionData(b, o) \in Nat /\ CountedBytes(b, o + 1) \in Seq(Bytes)
  BY <1>1, CountedIs DEF InstructionOk, InstructionData
<1>4. /\ InstructionEnd(b, o) \in Nat /\ InstructionEnd(b, o) <= Len(b)
      /\ CountedBytes(b, InstructionData(b, o)) \in Seq(Bytes)
  BY <1>3, CountedIs DEF InstructionOk, InstructionEnd
<1> QED
  BY <1>2, <1>3, <1>4 DEF InstructionAt, InstructionType

(* What is read as a lookup.                                               *)
LookupItems == [key : Seq(Bytes), writable : Seq(Bytes), readonly : Seq(Bytes)]

(* A lookup that the input holds ends within it.                           *)
LEMMA LookupIs ==
  ASSUME NEW b \in Seq(Bytes), NEW o \in Nat, LookupOk(b, o)
  PROVE  /\ LookupAt(b, o) \in LookupItems
         /\ LookupEnd(b, o) \in Nat /\ LookupEnd(b, o) <= Len(b)
         /\ LookupReadonly(b, o) \in Nat
         /\ LookupAt(b, o).key = Slice(b, o, o + KeyLength)
         /\ LookupAt(b, o).key \in Seq(Bytes) /\ Len(LookupAt(b, o).key) = KeyLength
         /\ LookupAt(b, o).writable \in Seq(Bytes)
         /\ Len(LookupAt(b, o).writable) = Value(b, o + KeyLength)
         /\ LookupAt(b, o).readonly \in Seq(Bytes)
         /\ Len(LookupAt(b, o).readonly) = Value(b, LookupReadonly(b, o))
<1>1. KeyLength \in Nat /\ o + KeyLength \in Nat /\ o <= o + KeyLength /\ o + KeyLength <= Len(b)
      /\ (o + KeyLength) - o = KeyLength
  BY SizesAssumption DEF LookupOk
<1>2. /\ Slice(b, o, o + KeyLength) \in Seq(Bytes)
      /\ Len(Slice(b, o, o + KeyLength)) = KeyLength
  BY <1>1, SliceIs
<1>3. /\ LookupReadonly(b, o) \in Nat /\ CountedBytes(b, o + KeyLength) \in Seq(Bytes)
      /\ Len(CountedBytes(b, o + KeyLength)) = Value(b, o + KeyLength)
  BY <1>1, CountedIs DEF LookupOk, LookupReadonly
<1>4. /\ LookupEnd(b, o) \in Nat /\ LookupEnd(b, o) <= Len(b)
      /\ CountedBytes(b, LookupReadonly(b, o)) \in Seq(Bytes)
      /\ Len(CountedBytes(b, LookupReadonly(b, o))) = Value(b, LookupReadonly(b, o))
  BY <1>3, CountedIs DEF LookupOk, LookupEnd
<1> QED
  BY <1>2, <1>3, <1>4 DEF LookupAt, LookupItems

(* The steps of the walks.                                                 *)
LEMMA SkipInstructionIs ==
  ASSUME NEW b \in Seq(Bytes), NEW c \in Cursors(b)
  PROVE  LET d == skip_compiled_instruction(c)
             o == c.offset
         IN  /\ d \in Cursors(b)
             /\ d.ok <=> c.ok /\ InstructionOk(b, o)
             /\ d.ok => /\ d.offset = InstructionEnd(b, o)
                        /\ d.minimal <=> c.minimal /\ InstructionMinimal(b, o)
             /\ d.minimal => c.minimal
<1> DEFINE p == skip(c, 1)
           a == skip_counted(p)
           d == skip_counted(a)
           o == c.offset
<1>1. o \in Nat /\ 1 \in Nat
  BY FieldsAre
<1>2. /\ p \in Cursors(b) /\ p.minimal = c.minimal
      /\ p.ok <=> c.ok /\ o + 1 <= Len(b)
      /\ p.ok => p.offset = o + 1
  BY <1>1, SkipIs DEF Moved
<1> HIDE DEF p
<1>3. /\ a \in Cursors(b)
      /\ a.ok <=> p.ok /\ CountedOk(b, p.offset)
      /\ a.ok => /\ a.offset = CountedEnd(b, p.offset)
                 /\ a.minimal <=> p.minimal /\ Minimal(b, p.offset)
      /\ a.minimal => p.minimal
  BY <1>2, CountedReads DEF skip_counted
<1> HIDE DEF a
<1>4. /\ d \in Cursors(b)
      /\ d.ok <=> a.ok /\ CountedOk(b, a.offset)
      /\ d.ok => /\ d.offset = CountedEnd(b, a.offset)
                 /\ d.minimal <=> a.minimal /\ Minimal(b, a.offset)
      /\ d.minimal => a.minimal
  BY <1>3, CountedReads DEF skip_counted
<1> HIDE DEF d
<1>5. a.ok => a.offset = InstructionData(b, o)
  BY <1>2, <1>3 DEF InstructionData
<1>6. d.ok <=> c.ok /\ InstructionOk(b, o)
  BY <1>2, <1>3, <1>4, <1>5 DEF InstructionOk
<1>7. d.ok => /\ d.offset = InstructionEnd(b, o)
              /\ d.minimal <=> c.minimal /\ InstructionMinimal(b, o)
  BY <1>2, <1>3, <1>4, <1>5 DEF InstructionEnd, InstructionMinimal
<1>8. d.minimal => c.minimal
  BY <1>2, <1>3, <1>4
<1>9. d = skip_compiled_instruction(c)
  BY DEF d, a, p, skip_compiled_instruction
<1> QED
  BY <1>4, <1>6, <1>7, <1>8, <1>9

(* What the iterator does at the offset of its cursor: it reads the        *)
(* instruction there and moves past it, or fails and keeps what it has.    *)
InstructionTaken(b, c, items, t) ==
  /\ t = [c |-> t.c, items |-> t.items] /\ t.c \in Cursors(b)
  /\ t.c.ok <=> c.ok /\ InstructionOk(b, c.offset)
  /\ ~t.c.ok => t.items = items
  /\ t.c.ok => /\ t.c.offset = InstructionEnd(b, c.offset)
               /\ t.items = Append(items, InstructionAt(b, c.offset))

(* The iterator reads the instruction at its offset and moves past it.     *)
LEMMA NextInstructionIs ==
  ASSUME NEW b \in Seq(Bytes), NEW c \in Cursors(b), NEW items
  PROVE  InstructionTaken(b, c, items, NextInstruction([c |-> c, items |-> items]))
<1> DEFINE program == read_u8(c)
           accounts == read_shortvec(program)
           middle == skip_value(accounts)
           data == read_shortvec(middle)
           end == skip_value(data)
           t == NextInstruction([c |-> c, items |-> items])
           o == c.offset
<1>1. o \in Nat /\ c.input = b
  BY FieldsAre
<1>2. /\ program \in Cursors(b)
      /\ program.ok <=> c.ok /\ o + 1 <= Len(b)
      /\ program.ok => program.offset = o + 1 /\ program.value = b[o + 1]
  BY ReadByteIs DEF Moved
<1> HIDE DEF program
<1>3. /\ accounts \in Cursors(b) /\ middle \in Cursors(b)
      /\ middle.ok <=> program.ok /\ CountedOk(b, program.offset)
      /\ middle.ok => /\ accounts.offset = program.offset + Length(b, program.offset)
                      /\ accounts.value = Value(b, program.offset)
                      /\ middle.offset = CountedEnd(b, program.offset)
  BY <1>2, CountedReads
<1> HIDE DEF accounts
<1> HIDE DEF middle
<1>4. /\ data \in Cursors(b) /\ end \in Cursors(b)
      /\ end.ok <=> middle.ok /\ CountedOk(b, middle.offset)
      /\ end.ok => /\ data.offset = middle.offset + Length(b, middle.offset)
                   /\ end.offset = CountedEnd(b, middle.offset)
  BY <1>3, CountedReads
<1> HIDE DEF data
<1>5. t = IF ~end.ok THEN [c |-> end, items |-> items]
          ELSE [c |-> end, items |-> Append(items,
                 [program |-> program.value,
                  accounts |-> Slice(end.input, accounts.offset, accounts.offset + accounts.value),
                  data |-> Slice(end.input, data.offset, end.offset)])]
  BY DEF NextInstruction, end, data, middle, accounts, program
<1> HIDE DEF end, t
<1>6. middle.ok => middle.offset = InstructionData(b, o)
  BY <1>2, <1>3 DEF InstructionData
<1>7. end.ok <=> c.ok /\ InstructionOk(b, o)
  BY <1>2, <1>3, <1>4, <1>6 DEF InstructionOk
<1>8. ASSUME end.ok
      PROVE  /\ end.offset = InstructionEnd(b, o)
             /\ program.value = b[o + 1]
             /\ Slice(end.input, accounts.offset, accounts.offset + accounts.value)
                  = CountedBytes(b, o + 1)
             /\ Slice(end.input, data.offset, end.offset)
                  = CountedBytes(b, InstructionData(b, o))
  <2>1. end.input = b
    BY <1>4, FieldsAre
  <2>2. /\ program.value = b[o + 1] /\ program.offset = o + 1
        /\ accounts.offset = (o + 1) + Length(b, o + 1) /\ accounts.value = Value(b, o + 1)
        /\ middle.offset = InstructionData(b, o)
    BY <1>2, <1>3, <1>4, <1>6, <1>8
  <2>3. /\ data.offset = InstructionData(b, o) + Length(b, InstructionData(b, o))
        /\ end.offset = CountedEnd(b, InstructionData(b, o))
    BY <1>4, <1>8, <2>2
  <2> QED
    BY <2>1, <2>2, <2>3 DEF InstructionEnd, CountedBytes, CountedEnd
<1>9. ASSUME end.ok
      PROVE  InstructionTaken(b, c, items, t)
  <2>1. t = [c |-> end, items |-> Append(items, InstructionAt(b, o))]
    BY <1>5, <1>8, <1>9 DEF InstructionAt
  <2> QED
    BY <1>4, <1>7, <1>8, <1>9, <2>1 DEF InstructionTaken
<1>10. ASSUME ~end.ok
       PROVE  InstructionTaken(b, c, items, t)
  <2>1. t = [c |-> end, items |-> items]
    BY <1>5, <1>10
  <2> QED
    BY <1>4, <1>7, <1>10, <2>1 DEF InstructionTaken
<1> QED
  BY <1>9, <1>10 DEF t

(* What skipping a lookup does to the cursor and to the counts.            *)
LookupSkipped(b, c, w, r, t) ==
  /\ t = [c |-> t.c, writable |-> t.writable, readonly |-> t.readonly]
  /\ t.c \in Cursors(b) /\ t.writable \in Nat /\ t.readonly \in Nat
  /\ t.c.ok <=> c.ok /\ LookupOk(b, c.offset)
  /\ t.c.ok => /\ t.c.offset = LookupEnd(b, c.offset)
               /\ t.c.minimal => LookupMinimal(b, c.offset)
               /\ t.writable = w + Len(LookupAt(b, c.offset).writable)
               /\ t.readonly = r + Len(LookupAt(b, c.offset).readonly)
  /\ t.c.minimal => c.minimal

(* skip_lookup moves past the lookup at its offset and counts its indexes. *)
LEMMA SkipLookupIs ==
  ASSUME NEW b \in Seq(Bytes), NEW c \in Cursors(b), NEW w \in Nat, NEW r \in Nat
  PROVE  LookupSkipped(b, c, w, r, skip_lookup([c |-> c, writable |-> w, readonly |-> r]))
<1> DEFINE s == [c |-> c, writable |-> w, readonly |-> r]
           key == skip(c, KeyLength)
           writable == read_shortvec(key)
           middle == skip_value(writable)
           readonly == read_shortvec(middle)
           end == skip_value(readonly)
           t == skip_lookup(s)
           o == c.offset
<1>1. o \in Nat /\ c.input = b /\ KeyLength \in Nat
  BY FieldsAre, SizesAssumption
<1>2. /\ key \in Cursors(b) /\ key.minimal = c.minimal
      /\ key.ok <=> c.ok /\ o + KeyLength <= Len(b)
      /\ key.ok => key.offset = o + KeyLength
  BY <1>1, SkipIs DEF Moved
<1> HIDE DEF key
<1>3. /\ writable \in Cursors(b) /\ middle \in Cursors(b)
      /\ middle.ok <=> key.ok /\ CountedOk(b, key.offset)
      /\ middle.ok => /\ writable.value = Value(b, key.offset)
                      /\ middle.offset = CountedEnd(b, key.offset)
                      /\ middle.minimal <=> key.minimal /\ Minimal(b, key.offset)
      /\ middle.minimal => key.minimal
  BY <1>2, CountedReads
<1> HIDE DEF writable
<1> HIDE DEF middle
<1>4. /\ readonly \in Cursors(b) /\ end \in Cursors(b)
      /\ end.ok <=> middle.ok /\ CountedOk(b, middle.offset)
      /\ end.ok => /\ readonly.value = Value(b, middle.offset)
                   /\ end.offset = CountedEnd(b, middle.offset)
                   /\ end.minimal <=> middle.minimal /\ Minimal(b, middle.offset)
      /\ end.minimal => middle.minimal
  BY <1>3, CountedReads
<1> HIDE DEF readonly
<1>5. t = [c |-> end, writable |-> w + writable.value, readonly |-> r + readonly.value]
  BY DEF skip_lookup, end, readonly, middle, writable, key
<1>6. writable.value \in Nat /\ readonly.value \in Nat
  BY <1>3, <1>4, FieldsAre
<1> HIDE DEF end, t
<1>7. middle.ok => middle.offset = LookupReadonly(b, o)
  BY <1>2, <1>3 DEF LookupReadonly
<1>8. end.ok <=> c.ok /\ LookupOk(b, o)
  BY <1>2, <1>3, <1>4, <1>7 DEF LookupOk
<1>9. end.ok => /\ end.offset = LookupEnd(b, o)
                /\ end.minimal <=> c.minimal /\ LookupMinimal(b, o)
  BY <1>2, <1>3, <1>4, <1>7 DEF LookupEnd, LookupMinimal
<1>10. end.ok => /\ writable.value = Len(LookupAt(b, o).writable)
                 /\ readonly.value = Len(LookupAt(b, o).readonly)
  <2> SUFFICES ASSUME end.ok
               PROVE  /\ writable.value = Len(LookupAt(b, o).writable)
                      /\ readonly.value = Len(LookupAt(b, o).readonly)
    OBVIOUS
  <2>1. LookupOk(b, o)
    BY <1>8
  <2>2. /\ Len(LookupAt(b, o).writable) = Value(b, o + KeyLength)
        /\ Len(LookupAt(b, o).readonly) = Value(b, LookupReadonly(b, o))
    BY <1>1, <2>1, LookupIs
  <2>3. writable.value = Value(b, o + KeyLength)
    BY <1>2, <1>3, <1>4
  <2>4. readonly.value = Value(b, LookupReadonly(b, o))
    BY <1>4, <1>7
  <2> QED
    BY <2>2, <2>3, <2>4
<1>11. end.minimal => c.minimal
  BY <1>2, <1>3, <1>4
<1>12. LookupSkipped(b, c, w, r, t)
  <2>1. t.c = end /\ t.writable = w + writable.value /\ t.readonly = r + readonly.value
    BY ONLY <1>5
  <2>2. t = [c |-> t.c, writable |-> t.writable, readonly |-> t.readonly]
    BY ONLY <1>5
  <2>3. t.writable \in Nat /\ t.readonly \in Nat
    BY <1>6, <2>1
  <2> QED
    BY <1>4, <1>8, <1>9, <1>10, <1>11, <2>1, <2>2, <2>3 DEF LookupSkipped
<1> QED
  BY <1>12 DEF t

(* What the iterator does at the offset of its cursor: it reads the lookup *)
(* there and moves past it, or fails and keeps what it has.                *)
LookupTaken(b, c, items, t) ==
  /\ t = [c |-> t.c, items |-> t.items] /\ t.c \in Cursors(b)
  /\ t.c.ok <=> c.ok /\ LookupOk(b, c.offset)
  /\ ~t.c.ok => t.items = items
  /\ t.c.ok => /\ t.c.offset = LookupEnd(b, c.offset)
               /\ t.items = Append(items, LookupAt(b, c.offset))

(* The iterator reads the lookup at its offset and moves past it.          *)
LEMMA NextLookupIs ==
  ASSUME NEW b \in Seq(Bytes), NEW c \in Cursors(b), NEW items
  PROVE  LookupTaken(b, c, items, NextLookup([c |-> c, items |-> items]))
<1> DEFINE key == skip(c, KeyLength)
           writable == read_shortvec(key)
           middle == skip_value(writable)
           readonly == read_shortvec(middle)
           end == skip_value(readonly)
           t == NextLookup([c |-> c, items |-> items])
           o == c.offset
<1>1. o \in Nat /\ c.input = b /\ KeyLength \in Nat
  BY FieldsAre, SizesAssumption
<1>2. /\ key \in Cursors(b)
      /\ key.ok <=> c.ok /\ o + KeyLength <= Len(b)
      /\ key.ok => key.offset = o + KeyLength
  BY <1>1, SkipIs DEF Moved
<1> HIDE DEF key
<1>3. /\ writable \in Cursors(b) /\ middle \in Cursors(b)
      /\ middle.ok <=> key.ok /\ CountedOk(b, key.offset)
      /\ middle.ok => /\ writable.offset = key.offset + Length(b, key.offset)
                      /\ writable.value = Value(b, key.offset)
                      /\ middle.offset = CountedEnd(b, key.offset)
  BY <1>2, CountedReads
<1> HIDE DEF writable
<1> HIDE DEF middle
<1>4. /\ readonly \in Cursors(b) /\ end \in Cursors(b)
      /\ end.ok <=> middle.ok /\ CountedOk(b, middle.offset)
      /\ end.ok => /\ readonly.offset = middle.offset + Length(b, middle.offset)
                   /\ end.offset = CountedEnd(b, middle.offset)
  BY <1>3, CountedReads
<1> HIDE DEF readonly
<1>5. t = IF ~end.ok THEN [c |-> end, items |-> items]
          ELSE [c |-> end, items |-> Append(items,
                 [key |-> Slice(end.input, o, key.offset),
                  writable |-> Slice(end.input, writable.offset, writable.offset + writable.value),
                  readonly |-> Slice(end.input, readonly.offset, end.offset)])]
  BY DEF NextLookup, end, readonly, middle, writable, key
<1> HIDE DEF end, t
<1>6. middle.ok => middle.offset = LookupReadonly(b, o)
  BY <1>2, <1>3 DEF LookupReadonly
<1>7. end.ok <=> c.ok /\ LookupOk(b, o)
  BY <1>2, <1>3, <1>4, <1>6 DEF LookupOk
<1>8. ASSUME end.ok
      PROVE  /\ end.offset = LookupEnd(b, o)
             /\ Slice(end.input, o, key.offset) = Slice(b, o, o + KeyLength)
             /\ Slice(end.input, writable.offset, writable.offset + writable.value)
                  = CountedBytes(b, o + KeyLength)
             /\ Slice(end.input, readonly.offset, end.offset)
                  = CountedBytes(b, LookupReadonly(b, o))
  <2>1. end.input = b
    BY <1>4, FieldsAre
  <2>2. /\ key.offset = o + KeyLength
        /\ writable.offset = (o + KeyLength) + Length(b, o + KeyLength)
        /\ writable.value = Value(b, o + KeyLength)
        /\ middle.offset = LookupReadonly(b, o)
    BY <1>2, <1>3, <1>4, <1>6, <1>8
  <2>3. /\ readonly.offset = LookupReadonly(b, o) + Length(b, LookupReadonly(b, o))
        /\ end.offset = CountedEnd(b, LookupReadonly(b, o))
    BY <1>4, <1>8, <2>2
  <2> QED
    BY <2>1, <2>2, <2>3 DEF LookupEnd, CountedBytes, CountedEnd
<1>9. ASSUME end.ok
      PROVE  LookupTaken(b, c, items, t)
  <2>1. t = [c |-> end, items |-> Append(items, LookupAt(b, o))]
    BY <1>5, <1>8, <1>9 DEF LookupAt
  <2> QED
    BY <1>4, <1>7, <1>8, <1>9, <2>1 DEF LookupTaken
<1>10. ASSUME ~end.ok
       PROVE  LookupTaken(b, c, items, t)
  <2>1. t = [c |-> end, items |-> items]
    BY <1>5, <1>10
  <2> QED
    BY <1>4, <1>7, <1>10, <2>1 DEF LookupTaken
<1> QED
  BY <1>9, <1>10 DEF t

(* The loops of the parser run through states of their steps.              *)
InstructionsRead(s0, n) == Repeat(NextInstruction, s0, n)

(* The runs of each loop of the parser, and that each has one.             *)
NextInstructionRuns(S, s0, n) ==
  {g \in [0..n -> S] : /\ g[0] = s0 /\ \A k \in 1..n : g[k] = NextInstruction(g[k - 1])
                      /\ InstructionsRead(s0, n) = g[n]}

LEMMA NextInstructionRun ==
  ASSUME NEW S, \A s \in S : NextInstruction(s) \in S, NEW s0 \in S, NEW n \in Nat
  PROVE  NextInstructionRuns(S, s0, n) # {}
<1> DEFINE steps == [k \in 1..n |-> [s \in S |-> NextInstruction(s)]]
           Is(g) == g = [k \in 0..n |-> IF k = 0 THEN s0 ELSE NextInstruction(g[k - 1])]
           h == CHOOSE g : Is(g)
           D == {h[k] : k \in 0..n}
<1>1. steps \in [1..n -> [S -> S]]
  <2>1. [s \in S |-> NextInstruction(s)] \in [S -> S]
    OBVIOUS
  <2> QED
    BY <2>1
<1>2. \A k \in 1..n : \A s \in S : steps[k][s] = NextInstruction(s)
  OBVIOUS
<1>3. InstructionsRead(s0, n) = h[n]
  BY DEF InstructionsRead, Repeat
<1> HIDE DEF steps
<1>4. LoopRuns(S, steps, s0, n) # {}
  BY <1>1, LoopRun
<1>5. PICK f : f \in LoopRuns(S, steps, s0, n)
  BY <1>4
<1>6. f \in [0..n -> S] /\ f[0] = s0 /\ \A k \in 1..n : f[k] = steps[k][f[k - 1]]
  BY <1>5 DEF LoopRuns
<1>7. \A k \in 1..n : f[k] = NextInstruction(f[k - 1])
  <2>1. \A k \in 1..n : k - 1 \in 0..n
    OBVIOUS
  <2>2. \A k \in 1..n : f[k - 1] \in S
    BY <1>6, <2>1
  <2> QED
    BY <1>2, <1>6, <2>2
<1>8. Is(h)
  <2>1. Is(f)
    BY <1>6, <1>7
  <2> QED
    BY <2>1
<1> HIDE DEF h
<1>9. h \in [0..n -> D] /\ h[0] = s0 /\ \A k \in 1..n : h[k] = NextInstruction(h[k - 1])
  <2>1. h = [k \in 0..n |-> h[k]] /\ h[0] = s0 /\ \A k \in 1..n : h[k] = NextInstruction(h[k - 1])
    BY <1>8
  <2>2. \A k \in 0..n : h[k] \in D
    OBVIOUS
  <2> HIDE DEF D, Is
  <2>3. h \in [0..n -> D]
    BY ONLY <2>1, <2>2
  <2> QED
    BY ONLY <2>1, <2>3
<1> HIDE DEF D, Is
<1>10. \A k \in 1..n : h[k - 1] \in S => h[k] = steps[k][h[k - 1]]
  BY <1>2, <1>9
<1>11. h \in LoopRuns(S, steps, s0, n)
  BY <1>1, <1>9, <1>10, ChosenRun
<1>12. h \in [0..n -> S]
  BY <1>11 DEF LoopRuns
<1> QED
  BY <1>3, <1>9, <1>12 DEF NextInstructionRuns

LookupsRead(s0, n) == Repeat(NextLookup, s0, n)
NextLookupRuns(S, s0, n) ==
  {g \in [0..n -> S] : /\ g[0] = s0 /\ \A k \in 1..n : g[k] = NextLookup(g[k - 1])
                      /\ LookupsRead(s0, n) = g[n]}

LEMMA NextLookupRun ==
  ASSUME NEW S, \A s \in S : NextLookup(s) \in S, NEW s0 \in S, NEW n \in Nat
  PROVE  NextLookupRuns(S, s0, n) # {}
<1> DEFINE steps == [k \in 1..n |-> [s \in S |-> NextLookup(s)]]
           Is(g) == g = [k \in 0..n |-> IF k = 0 THEN s0 ELSE NextLookup(g[k - 1])]
           h == CHOOSE g : Is(g)
           D == {h[k] : k \in 0..n}
<1>1. steps \in [1..n -> [S -> S]]
  <2>1. [s \in S |-> NextLookup(s)] \in [S -> S]
    OBVIOUS
  <2> QED
    BY <2>1
<1>2. \A k \in 1..n : \A s \in S : steps[k][s] = NextLookup(s)
  OBVIOUS
<1>3. LookupsRead(s0, n) = h[n]
  BY DEF LookupsRead, Repeat
<1> HIDE DEF steps
<1>4. LoopRuns(S, steps, s0, n) # {}
  BY <1>1, LoopRun
<1>5. PICK f : f \in LoopRuns(S, steps, s0, n)
  BY <1>4
<1>6. f \in [0..n -> S] /\ f[0] = s0 /\ \A k \in 1..n : f[k] = steps[k][f[k - 1]]
  BY <1>5 DEF LoopRuns
<1>7. \A k \in 1..n : f[k] = NextLookup(f[k - 1])
  <2>1. \A k \in 1..n : k - 1 \in 0..n
    OBVIOUS
  <2>2. \A k \in 1..n : f[k - 1] \in S
    BY <1>6, <2>1
  <2> QED
    BY <1>2, <1>6, <2>2
<1>8. Is(h)
  <2>1. Is(f)
    BY <1>6, <1>7
  <2> QED
    BY <2>1
<1> HIDE DEF h
<1>9. h \in [0..n -> D] /\ h[0] = s0 /\ \A k \in 1..n : h[k] = NextLookup(h[k - 1])
  <2>1. h = [k \in 0..n |-> h[k]] /\ h[0] = s0 /\ \A k \in 1..n : h[k] = NextLookup(h[k - 1])
    BY <1>8
  <2>2. \A k \in 0..n : h[k] \in D
    OBVIOUS
  <2> HIDE DEF D, Is
  <2>3. h \in [0..n -> D]
    BY ONLY <2>1, <2>2
  <2> QED
    BY ONLY <2>1, <2>3
<1> HIDE DEF D, Is
<1>10. \A k \in 1..n : h[k - 1] \in S => h[k] = steps[k][h[k - 1]]
  BY <1>2, <1>9
<1>11. h \in LoopRuns(S, steps, s0, n)
  BY <1>1, <1>9, <1>10, ChosenRun
<1>12. h \in [0..n -> S]
  BY <1>11 DEF LoopRuns
<1> QED
  BY <1>3, <1>9, <1>12 DEF NextLookupRuns

InstructionsSkipped(s0, n) == Repeat(skip_compiled_instruction, s0, n)
SkipInstructionRuns(S, s0, n) ==
  {g \in [0..n -> S] : /\ g[0] = s0 /\ \A k \in 1..n : g[k] = skip_compiled_instruction(g[k - 1])
                      /\ InstructionsSkipped(s0, n) = g[n]}

LEMMA SkipInstructionRun ==
  ASSUME NEW S, \A s \in S : skip_compiled_instruction(s) \in S, NEW s0 \in S, NEW n \in Nat
  PROVE  SkipInstructionRuns(S, s0, n) # {}
<1> DEFINE steps == [k \in 1..n |-> [s \in S |-> skip_compiled_instruction(s)]]
           Is(g) == g = [k \in 0..n |-> IF k = 0 THEN s0 ELSE skip_compiled_instruction(g[k - 1])]
           h == CHOOSE g : Is(g)
           D == {h[k] : k \in 0..n}
<1>1. steps \in [1..n -> [S -> S]]
  <2>1. [s \in S |-> skip_compiled_instruction(s)] \in [S -> S]
    OBVIOUS
  <2> QED
    BY <2>1
<1>2. \A k \in 1..n : \A s \in S : steps[k][s] = skip_compiled_instruction(s)
  OBVIOUS
<1>3. InstructionsSkipped(s0, n) = h[n]
  BY DEF InstructionsSkipped, Repeat
<1> HIDE DEF steps
<1>4. LoopRuns(S, steps, s0, n) # {}
  BY <1>1, LoopRun
<1>5. PICK f : f \in LoopRuns(S, steps, s0, n)
  BY <1>4
<1>6. f \in [0..n -> S] /\ f[0] = s0 /\ \A k \in 1..n : f[k] = steps[k][f[k - 1]]
  BY <1>5 DEF LoopRuns
<1>7. \A k \in 1..n : f[k] = skip_compiled_instruction(f[k - 1])
  <2>1. \A k \in 1..n : k - 1 \in 0..n
    OBVIOUS
  <2>2. \A k \in 1..n : f[k - 1] \in S
    BY <1>6, <2>1
  <2> QED
    BY <1>2, <1>6, <2>2
<1>8. Is(h)
  <2>1. Is(f)
    BY <1>6, <1>7
  <2> QED
    BY <2>1
<1> HIDE DEF h
<1>9. h \in [0..n -> D] /\ h[0] = s0 /\ \A k \in 1..n : h[k] = skip_compiled_instruction(h[k - 1])
  <2>1. /\ h = [k \in 0..n |-> h[k]] /\ h[0] = s0
        /\ \A k \in 1..n : h[k] = skip_compiled_instruction(h[k - 1])
    BY <1>8
  <2>2. \A k \in 0..n : h[k] \in D
    OBVIOUS
  <2> HIDE DEF D, Is
  <2>3. h \in [0..n -> D]
    BY ONLY <2>1, <2>2
  <2> QED
    BY ONLY <2>1, <2>3
<1> HIDE DEF D, Is
<1>10. \A k \in 1..n : h[k - 1] \in S => h[k] = steps[k][h[k - 1]]
  BY <1>2, <1>9
<1>11. h \in LoopRuns(S, steps, s0, n)
  BY <1>1, <1>9, <1>10, ChosenRun
<1>12. h \in [0..n -> S]
  BY <1>11 DEF LoopRuns
<1> QED
  BY <1>3, <1>9, <1>12 DEF SkipInstructionRuns

LookupsSkipped(s0, n) == Repeat(skip_lookup, s0, n)
SkipLookupRuns(S, s0, n) ==
  {g \in [0..n -> S] : /\ g[0] = s0 /\ \A k \in 1..n : g[k] = skip_lookup(g[k - 1])
                      /\ LookupsSkipped(s0, n) = g[n]}

LEMMA SkipLookupRun ==
  ASSUME NEW S, \A s \in S : skip_lookup(s) \in S, NEW s0 \in S, NEW n \in Nat
  PROVE  SkipLookupRuns(S, s0, n) # {}
<1> DEFINE steps == [k \in 1..n |-> [s \in S |-> skip_lookup(s)]]
           Is(g) == g = [k \in 0..n |-> IF k = 0 THEN s0 ELSE skip_lookup(g[k - 1])]
           h == CHOOSE g : Is(g)
           D == {h[k] : k \in 0..n}
<1>1. steps \in [1..n -> [S -> S]]
  <2>1. [s \in S |-> skip_lookup(s)] \in [S -> S]
    OBVIOUS
  <2> QED
    BY <2>1
<1>2. \A k \in 1..n : \A s \in S : steps[k][s] = skip_lookup(s)
  OBVIOUS
<1>3. LookupsSkipped(s0, n) = h[n]
  BY DEF LookupsSkipped, Repeat
<1> HIDE DEF steps
<1>4. LoopRuns(S, steps, s0, n) # {}
  BY <1>1, LoopRun
<1>5. PICK f : f \in LoopRuns(S, steps, s0, n)
  BY <1>4
<1>6. f \in [0..n -> S] /\ f[0] = s0 /\ \A k \in 1..n : f[k] = steps[k][f[k - 1]]
  BY <1>5 DEF LoopRuns
<1>7. \A k \in 1..n : f[k] = skip_lookup(f[k - 1])
  <2>1. \A k \in 1..n : k - 1 \in 0..n
    OBVIOUS
  <2>2. \A k \in 1..n : f[k - 1] \in S
    BY <1>6, <2>1
  <2> QED
    BY <1>2, <1>6, <2>2
<1>8. Is(h)
  <2>1. Is(f)
    BY <1>6, <1>7
  <2> QED
    BY <2>1
<1> HIDE DEF h
<1>9. h \in [0..n -> D] /\ h[0] = s0 /\ \A k \in 1..n : h[k] = skip_lookup(h[k - 1])
  <2>1. h = [k \in 0..n |-> h[k]] /\ h[0] = s0 /\ \A k \in 1..n : h[k] = skip_lookup(h[k - 1])
    BY <1>8
  <2>2. \A k \in 0..n : h[k] \in D
    OBVIOUS
  <2> HIDE DEF D, Is
  <2>3. h \in [0..n -> D]
    BY ONLY <2>1, <2>2
  <2> QED
    BY ONLY <2>1, <2>3
<1> HIDE DEF D, Is
<1>10. \A k \in 1..n : h[k - 1] \in S => h[k] = steps[k][h[k - 1]]
  BY <1>2, <1>9
<1>11. h \in LoopRuns(S, steps, s0, n)
  BY <1>1, <1>9, <1>10, ChosenRun
<1>12. h \in [0..n -> S]
  BY <1>11 DEF LoopRuns
<1> QED
  BY <1>3, <1>9, <1>12 DEF SkipLookupRuns

(* Instructions one after the other from an offset: where each one ends.   *)
InstructionWalks(b, o, n) ==
  {f \in [0..n -> Nat] :
     f[0] = o /\ \A k \in 1..n : /\ InstructionOk(b, f[k - 1])
                                 /\ f[k] = InstructionEnd(b, f[k - 1])}

(* What a walk over instructions is.                                       *)
LEMMA InstructionWalkIs ==
  ASSUME NEW b, NEW o, NEW n \in Nat, NEW f \in InstructionWalks(b, o, n)
  PROVE  /\ f \in [0..n -> Nat] /\ f[0] = o /\ f[n] \in Nat
         /\ \A k \in 1..n : /\ InstructionOk(b, f[k - 1]) /\ f[k] = InstructionEnd(b, f[k - 1])
                            /\ f[k - 1] \in Nat /\ f[k] \in Nat
<1>1. n \in 0..n /\ \A k \in 1..n : k \in 0..n /\ k - 1 \in 0..n
  OBVIOUS
<1> QED
  BY <1>1 DEF InstructionWalks

(* The iterator follows the walk.                                          *)
LEMMA InstructionIterated ==
  ASSUME NEW b \in Seq(Bytes), NEW o \in Nat, NEW n \in Nat, NEW f \in InstructionWalks(b, o, n)
  PROVE  LET all == Repeat(NextInstruction, [c |-> Cursor(b, o), items |-> <<>>], n)
         IN  /\ all.c.ok
             /\ all.items \in Seq(InstructionType) /\ Len(all.items) = n
             /\ \A k \in 1..n : all.items[k] = InstructionAt(b, f[k - 1])
<1> DEFINE S == [c : Cursors(b), items : Seq(InstructionType)]
           s0 == [c |-> Cursor(b, o), items |-> <<>>]
           all == Repeat(NextInstruction, s0, n)
<1>1. ASSUME NEW s \in S
      PROVE  NextInstruction(s) \in S
  <2>1. s = [c |-> s.c, items |-> s.items] /\ s.c \in Cursors(b) /\ s.items \in Seq(InstructionType)
    OBVIOUS
  <2> DEFINE t == NextInstruction(s)
  <2>2. /\ t = [c |-> t.c, items |-> t.items] /\ t.c \in Cursors(b)
        /\ t.c.ok <=> s.c.ok /\ InstructionOk(b, s.c.offset)
        /\ ~t.c.ok => t.items = s.items
        /\ t.c.ok => t.items = Append(s.items, InstructionAt(b, s.c.offset))
    <3> DEFINE c == s.c
               items == s.items
    <3>1. t = NextInstruction([c |-> c, items |-> items])
      BY <2>1
    <3> HIDE DEF t
    <3>2. c \in Cursors(b)
      BY <2>1
    <3> HIDE DEF c, items
    <3>3. /\ t = [c |-> t.c, items |-> t.items] /\ t.c \in Cursors(b)
          /\ t.c.ok <=> c.ok /\ InstructionOk(b, c.offset)
          /\ ~t.c.ok => t.items = items
          /\ t.c.ok => t.items = Append(items, InstructionAt(b, c.offset))
      <4>1. InstructionTaken(b, c, items, t)
        BY <3>1, <3>2, NextInstructionIs
      <4> QED
        BY <4>1 DEF InstructionTaken
    <3> QED
      BY <3>3 DEF c, items
  <2> HIDE DEF t
  <2>3. t.items \in Seq(InstructionType)
    <3>1. CASE t.c.ok
      <4>1. s.c.offset \in Nat /\ InstructionOk(b, s.c.offset)
        BY <2>1, <2>2, <3>1, FieldsAre
      <4> DEFINE x == InstructionAt(b, s.c.offset)
      <4>2. x \in InstructionType
        BY <4>1, InstructionIs
      <4>3. t.items = Append(s.items, x)
        BY <2>2, <3>1
      <4> HIDE DEF x
      <4> QED
        BY <2>1, <4>2, <4>3, AppendProperties
    <3>2. CASE ~t.c.ok
      BY <2>1, <2>2, <3>2
    <3> QED
      BY <3>1, <3>2
  <2>4. t \in S
    BY <2>2, <2>3
  <2> QED
    BY <2>4 DEF t
<1>2. s0 \in S
  BY CursorIs
<1>0. \A s \in S : NextInstruction(s) \in S
  BY <1>1
<1> HIDE DEF S, s0
<1>3. PICK g \in [0..n -> S] : /\ g[0] = s0 /\ \A k \in 1..n : g[k] = NextInstruction(g[k - 1])
                              /\ all = g[n]
  <2>1. NextInstructionRuns(S, s0, n) # {}
    BY <1>0, <1>2, NextInstructionRun
  <2>2. PICK g : g \in NextInstructionRuns(S, s0, n)
    BY <2>1
  <2> QED
    BY <2>2 DEF NextInstructionRuns, InstructionsRead
<1> DEFINE Follows(k) == /\ g[k].c.ok /\ g[k].c.offset = f[k] /\ Len(g[k].items) = k
                         /\ \A i \in 1..k : g[k].items[i] = InstructionAt(b, f[i - 1])
           T == {k \in Nat : k <= n => Follows(k)}
<1>4. /\ f[0] = o
      /\ \A k \in 1..n : /\ InstructionOk(b, f[k - 1]) /\ f[k] = InstructionEnd(b, f[k - 1])
                         /\ f[k - 1] \in Nat
  BY InstructionWalkIs
<1>5. 0 \in T
  <2>1. g[0].c = Cursor(b, o) /\ g[0].items = <<>>
    BY <1>3 DEF s0
  <2>2. Len(g[0].items) = 0
    BY <2>1
  <2>3. g[0].c.ok /\ g[0].c.offset = o
    BY <2>1, CursorIs
  <2>4. Follows(0)
    BY <1>4, <2>2, <2>3
  <2> QED
    BY <2>4
<1>6. \A k \in Nat : k \in T => k + 1 \in T
  <2> SUFFICES ASSUME NEW k \in Nat, k \in T, k + 1 <= n
               PROVE  Follows(k + 1)
    OBVIOUS
  <2>1. k \in 0..n /\ k + 1 \in 1..n /\ (k + 1) - 1 = k /\ k <= n
    OBVIOUS
  <2>2. Follows(k)
    BY <2>1
  <2> DEFINE c == g[k].c
             items == g[k].items
             t == g[k + 1]
             x == InstructionAt(b, f[k])
  <2>3. g[k] \in S
    BY <1>3, <2>1
  <2>4. g[k] = [c |-> c, items |-> items] /\ c \in Cursors(b) /\ items \in Seq(InstructionType)
    BY <2>3 DEF S
  <2>5. t = NextInstruction([c |-> c, items |-> items])
    BY <1>3, <2>1, <2>4
  <2>6. /\ c.ok /\ c.offset = f[k] /\ Len(items) = k
        /\ \A i \in 1..k : items[i] = InstructionAt(b, f[i - 1])
    BY <2>2
  <2>7. /\ f[k] \in Nat /\ InstructionOk(b, f[k]) /\ f[k + 1] = InstructionEnd(b, f[k])
    BY <1>4, <2>1
  <2> DEFINE u == NextInstruction([c |-> c, items |-> items])
  <2> HIDE DEF c, items, t
  <2>81. /\ u.c.ok <=> c.ok /\ InstructionOk(b, c.offset)
         /\ u.c.ok => /\ u.c.offset = InstructionEnd(b, c.offset)
                      /\ u.items = Append(items, InstructionAt(b, c.offset))
    <3>1. c \in Cursors(b)
      BY <2>4
    <3>2. InstructionTaken(b, c, items, u)
      BY <3>1, NextInstructionIs
    <3> HIDE DEF u
    <3> QED
      BY ONLY <3>2 DEF InstructionTaken
  <2> HIDE DEF u
  <2>82. t = u
    BY <2>5 DEF u
  <2>8. /\ t.c.ok <=> c.ok /\ InstructionOk(b, c.offset)
        /\ t.c.ok => /\ t.c.offset = InstructionEnd(b, c.offset)
                     /\ t.items = Append(items, InstructionAt(b, c.offset))
    BY <2>81, <2>82
  <2>9. t.c.ok /\ t.c.offset = f[k + 1] /\ t.items = Append(items, x)
    BY <2>6, <2>7, <2>8
  <2>10. x \in InstructionType
    BY <2>7, InstructionIs
  <2> HIDE DEF x
  <2>11. /\ Len(t.items) = k + 1 /\ t.items[k + 1] = x
         /\ \A i \in 1..k : t.items[i] = items[i]
    BY <2>4, <2>6, <2>9, <2>10, AppendProperties
  <2>12. \A i \in 1..(k + 1) : i \in 1..k \/ i = k + 1
    OBVIOUS
  <2>13. \A i \in 1..(k + 1) : t.items[i] = InstructionAt(b, f[i - 1])
    BY <2>1, <2>6, <2>11, <2>12 DEF x
  <2> QED
    BY <2>9, <2>11, <2>13 DEF t
<1> HIDE DEF T
<1>7. Nat \subseteq T
  BY <1>5, <1>6, Induction
<1>8. Follows(n) /\ g[n] \in S
  <2>1. n \in 0..n /\ n <= n
    OBVIOUS
  <2> QED
    BY <1>3, <1>7, <2>1 DEF T
<1> QED
  BY <1>3, <1>8 DEF S, s0

(* Lookups one after the other from an offset: where each one ends.        *)
LookupWalks(b, o, n) ==
  {f \in [0..n -> Nat] :
     f[0] = o /\ \A k \in 1..n : /\ LookupOk(b, f[k - 1])
                                 /\ f[k] = LookupEnd(b, f[k - 1])}

(* What a walk over lookups is.                                            *)
LEMMA LookupWalkIs ==
  ASSUME NEW b, NEW o, NEW n \in Nat, NEW f \in LookupWalks(b, o, n)
  PROVE  /\ f \in [0..n -> Nat] /\ f[0] = o /\ f[n] \in Nat
         /\ \A k \in 1..n : /\ LookupOk(b, f[k - 1]) /\ f[k] = LookupEnd(b, f[k - 1])
                            /\ f[k - 1] \in Nat /\ f[k] \in Nat
<1>1. n \in 0..n /\ \A k \in 1..n : k \in 0..n /\ k - 1 \in 0..n
  OBVIOUS
<1> QED
  BY <1>1 DEF LookupWalks

(* The iterator follows the walk.                                          *)
LEMMA LookupIterated ==
  ASSUME NEW b \in Seq(Bytes), NEW o \in Nat, NEW n \in Nat, NEW f \in LookupWalks(b, o, n)
  PROVE  LET all == Repeat(NextLookup, [c |-> Cursor(b, o), items |-> <<>>], n)
         IN  /\ all.c.ok
             /\ all.items \in Seq(LookupItems) /\ Len(all.items) = n
             /\ \A k \in 1..n : all.items[k] = LookupAt(b, f[k - 1])
<1> DEFINE S == [c : Cursors(b), items : Seq(LookupItems)]
           s0 == [c |-> Cursor(b, o), items |-> <<>>]
           all == Repeat(NextLookup, s0, n)
<1>1. ASSUME NEW s \in S
      PROVE  NextLookup(s) \in S
  <2>1. s = [c |-> s.c, items |-> s.items] /\ s.c \in Cursors(b) /\ s.items \in Seq(LookupItems)
    OBVIOUS
  <2> DEFINE t == NextLookup(s)
  <2>2. /\ t = [c |-> t.c, items |-> t.items] /\ t.c \in Cursors(b)
        /\ t.c.ok <=> s.c.ok /\ LookupOk(b, s.c.offset)
        /\ ~t.c.ok => t.items = s.items
        /\ t.c.ok => t.items = Append(s.items, LookupAt(b, s.c.offset))
    <3> DEFINE c == s.c
               items == s.items
    <3>1. t = NextLookup([c |-> c, items |-> items])
      BY <2>1
    <3> HIDE DEF t
    <3>2. c \in Cursors(b)
      BY <2>1
    <3> HIDE DEF c, items
    <3>3. /\ t = [c |-> t.c, items |-> t.items] /\ t.c \in Cursors(b)
          /\ t.c.ok <=> c.ok /\ LookupOk(b, c.offset)
          /\ ~t.c.ok => t.items = items
          /\ t.c.ok => t.items = Append(items, LookupAt(b, c.offset))
      <4>1. LookupTaken(b, c, items, t)
        BY <3>1, <3>2, NextLookupIs
      <4> QED
        BY <4>1 DEF LookupTaken
    <3> QED
      BY <3>3 DEF c, items
  <2> HIDE DEF t
  <2>3. t.items \in Seq(LookupItems)
    <3>1. CASE t.c.ok
      <4>1. s.c.offset \in Nat /\ LookupOk(b, s.c.offset)
        BY <2>1, <2>2, <3>1, FieldsAre
      <4> DEFINE x == LookupAt(b, s.c.offset)
      <4>2. x \in LookupItems
        BY <4>1, LookupIs
      <4>3. t.items = Append(s.items, x)
        BY <2>2, <3>1
      <4> HIDE DEF x
      <4> QED
        BY <2>1, <4>2, <4>3, AppendProperties
    <3>2. CASE ~t.c.ok
      BY <2>1, <2>2, <3>2
    <3> QED
      BY <3>1, <3>2
  <2>4. t \in S
    BY <2>2, <2>3
  <2> QED
    BY <2>4 DEF t
<1>2. s0 \in S
  BY CursorIs
<1>0. \A s \in S : NextLookup(s) \in S
  BY <1>1
<1> HIDE DEF S, s0
<1>3. PICK g \in [0..n -> S] : /\ g[0] = s0 /\ \A k \in 1..n : g[k] = NextLookup(g[k - 1])
                              /\ all = g[n]
  <2>1. NextLookupRuns(S, s0, n) # {}
    BY <1>0, <1>2, NextLookupRun
  <2>2. PICK g : g \in NextLookupRuns(S, s0, n)
    BY <2>1
  <2> QED
    BY <2>2 DEF NextLookupRuns, LookupsRead
<1> DEFINE Follows(k) == /\ g[k].c.ok /\ g[k].c.offset = f[k] /\ Len(g[k].items) = k
                         /\ \A i \in 1..k : g[k].items[i] = LookupAt(b, f[i - 1])
           T == {k \in Nat : k <= n => Follows(k)}
<1>4. /\ f[0] = o
      /\ \A k \in 1..n : /\ LookupOk(b, f[k - 1]) /\ f[k] = LookupEnd(b, f[k - 1])
                         /\ f[k - 1] \in Nat
  BY LookupWalkIs
<1>5. 0 \in T
  <2>1. g[0].c = Cursor(b, o) /\ g[0].items = <<>>
    BY <1>3 DEF s0
  <2>2. Len(g[0].items) = 0
    BY <2>1
  <2>3. g[0].c.ok /\ g[0].c.offset = o
    BY <2>1, CursorIs
  <2>4. Follows(0)
    BY <1>4, <2>2, <2>3
  <2> QED
    BY <2>4
<1>6. \A k \in Nat : k \in T => k + 1 \in T
  <2> SUFFICES ASSUME NEW k \in Nat, k \in T, k + 1 <= n
               PROVE  Follows(k + 1)
    OBVIOUS
  <2>1. k \in 0..n /\ k + 1 \in 1..n /\ (k + 1) - 1 = k /\ k <= n
    OBVIOUS
  <2>2. Follows(k)
    BY <2>1
  <2> DEFINE c == g[k].c
             items == g[k].items
             t == g[k + 1]
             x == LookupAt(b, f[k])
  <2>3. g[k] \in S
    BY <1>3, <2>1
  <2>4. g[k] = [c |-> c, items |-> items] /\ c \in Cursors(b) /\ items \in Seq(LookupItems)
    BY <2>3 DEF S
  <2>5. t = NextLookup([c |-> c, items |-> items])
    BY <1>3, <2>1, <2>4
  <2>6. /\ c.ok /\ c.offset = f[k] /\ Len(items) = k
        /\ \A i \in 1..k : items[i] = LookupAt(b, f[i - 1])
    BY <2>2
  <2>7. /\ f[k] \in Nat /\ LookupOk(b, f[k]) /\ f[k + 1] = LookupEnd(b, f[k])
    BY <1>4, <2>1
  <2> DEFINE u == NextLookup([c |-> c, items |-> items])
  <2> HIDE DEF c, items, t
  <2>81. /\ u.c.ok <=> c.ok /\ LookupOk(b, c.offset)
         /\ u.c.ok => /\ u.c.offset = LookupEnd(b, c.offset)
                      /\ u.items = Append(items, LookupAt(b, c.offset))
    <3>1. c \in Cursors(b)
      BY <2>4
    <3>2. LookupTaken(b, c, items, u)
      BY <3>1, NextLookupIs
    <3> HIDE DEF u
    <3> QED
      BY ONLY <3>2 DEF LookupTaken
  <2> HIDE DEF u
  <2>82. t = u
    BY <2>5 DEF u
  <2>8. /\ t.c.ok <=> c.ok /\ LookupOk(b, c.offset)
        /\ t.c.ok => /\ t.c.offset = LookupEnd(b, c.offset)
                     /\ t.items = Append(items, LookupAt(b, c.offset))
    BY <2>81, <2>82
  <2>9. t.c.ok /\ t.c.offset = f[k + 1] /\ t.items = Append(items, x)
    BY <2>6, <2>7, <2>8
  <2>10. x \in LookupItems
    BY <2>7, LookupIs
  <2> HIDE DEF x
  <2>11. /\ Len(t.items) = k + 1 /\ t.items[k + 1] = x
         /\ \A i \in 1..k : t.items[i] = items[i]
    BY <2>4, <2>6, <2>9, <2>10, AppendProperties
  <2>12. \A i \in 1..(k + 1) : i \in 1..k \/ i = k + 1
    OBVIOUS
  <2>13. \A i \in 1..(k + 1) : t.items[i] = LookupAt(b, f[i - 1])
    BY <2>1, <2>6, <2>11, <2>12 DEF x
  <2> QED
    BY <2>9, <2>11, <2>13 DEF t
<1> HIDE DEF T
<1>7. Nat \subseteq T
  BY <1>5, <1>6, Induction
<1>8. Follows(n) /\ g[n] \in S
  <2>1. n \in 0..n /\ n <= n
    OBVIOUS
  <2> QED
    BY <1>3, <1>7, <2>1 DEF T
<1> QED
  BY <1>3, <1>8 DEF S, s0

(* What holds at the end of a loop and, with a step, also before it, held  *)
(* all along.                                                              *)
LEMMA Backwards ==
  ASSUME NEW n \in Nat, NEW P, n \in P, \A k \in 1..n : k \in P => k - 1 \in P
  PROVE  \A k \in 0..n : k \in P
<1> DEFINE T == {j \in Nat : j <= n => n - j \in P}
<1>1. 0 \in T
  OBVIOUS
<1>2. \A j \in Nat : j \in T => j + 1 \in T
  <2> SUFFICES ASSUME NEW j \in Nat, j \in T, j + 1 <= n
               PROVE  n - (j + 1) \in P
    OBVIOUS
  <2> DEFINE k == n - j
  <2>1. k \in 1..n /\ k \in P /\ k - 1 = n - (j + 1)
    OBVIOUS
  <2> HIDE DEF k
  <2>2. k - 1 \in P
    BY <2>1
  <2> QED
    BY <2>1, <2>2
<1> HIDE DEF T
<1>3. Nat \subseteq T
  BY <1>1, <1>2, Induction
<1>4. ASSUME NEW k \in 0..n
      PROVE  k \in P
  <2>1. n - k \in Nat /\ n - k <= n /\ n - (n - k) = k
    OBVIOUS
  <2> DEFINE j == n - k
  <2>2. j \in T
    BY <1>3, <2>1
  <2> HIDE DEF j
  <2>3. j \in Nat /\ j <= n /\ n - j = k
    BY <2>1 DEF j
  <2> QED
    BY <2>2, <2>3 DEF T
<1> QED
  BY <1>4

(* The skips follow a walk to where they end.                              *)
InstructionsTo(b, c, n, d) ==
  {f \in InstructionWalks(b, c.offset, n) :
     /\ f[n] = d.offset
     /\ d.minimal => \A k \in 1..n : InstructionMinimal(b, f[k - 1])}

(* Where instructions were skipped, a walk goes over them.                 *)
LEMMA InstructionsSkippedIs ==
  ASSUME NEW b \in Seq(Bytes), NEW c \in Cursors(b), NEW n \in Nat
  PROVE  LET d == InstructionsSkipped(c, n)
         IN  /\ d \in Cursors(b) /\ (d.ok => c.ok) /\ (d.minimal => c.minimal)
             /\ d.ok => InstructionsTo(b, c, n, d) # {}
<1> DEFINE S == Cursors(b)
           d == InstructionsSkipped(c, n)
<1>1. \A s \in S : skip_compiled_instruction(s) \in S
  BY SkipInstructionIs
<1> HIDE DEF S
<1>2. c \in S
  BY DEF S
<1>3. SkipInstructionRuns(S, c, n) # {}
  BY <1>1, <1>2, SkipInstructionRun
<1>4. PICK g : g \in SkipInstructionRuns(S, c, n)
  BY <1>3
<1>5. /\ g \in [0..n -> Cursors(b)] /\ g[0] = c /\ d = g[n]
      /\ \A k \in 1..n : g[k] = skip_compiled_instruction(g[k - 1])
  BY <1>4 DEF SkipInstructionRuns, S
<1> HIDE DEF d
<1>6. 0 \in 0..n /\ n \in 0..n /\ \A k \in 1..n : k - 1 \in 0..n /\ k \in 0..n
  OBVIOUS
<1>7. ASSUME NEW k \in 1..n
      PROVE  /\ g[k].ok <=> g[k - 1].ok /\ InstructionOk(b, g[k - 1].offset)
             /\ g[k].ok => /\ g[k].offset = InstructionEnd(b, g[k - 1].offset)
                           /\ g[k].minimal => InstructionMinimal(b, g[k - 1].offset)
             /\ g[k].minimal => g[k - 1].minimal
  <2> DEFINE before == g[k - 1]
             after == skip_compiled_instruction(before)
  <2>1. before \in Cursors(b)
    BY <1>5, <1>6
  <2> HIDE DEF before
  <2>2. /\ after.ok <=> before.ok /\ InstructionOk(b, before.offset)
        /\ after.ok => /\ after.offset = InstructionEnd(b, before.offset)
                       /\ after.minimal <=> before.minimal /\ InstructionMinimal(b, before.offset)
        /\ after.minimal => before.minimal
    BY <2>1, SkipInstructionIs
  <2>3. g[k] = after
    BY <1>5 DEF before
  <2> HIDE DEF after
  <2> QED
    BY <2>2, <2>3 DEF before
<1>8. d \in Cursors(b)
  BY <1>5, <1>6
<1>9. ASSUME d.ok
      PROVE  \A k \in 0..n : g[k].ok
  <2> DEFINE P == {k \in 0..n : g[k].ok}
  <2>1. n \in P /\ \A k \in 1..n : k \in P => k - 1 \in P
    BY <1>5, <1>6, <1>7, <1>9
  <2> HIDE DEF P
  <2>2. \A k \in 0..n : k \in P
    BY <2>1, Backwards
  <2> QED
    BY <2>2 DEF P
<1>10. ASSUME d.minimal
       PROVE  \A k \in 0..n : g[k].minimal
  <2> DEFINE P == {k \in 0..n : g[k].minimal}
  <2>1. n \in P /\ \A k \in 1..n : k \in P => k - 1 \in P
    BY <1>5, <1>6, <1>7, <1>10
  <2> HIDE DEF P
  <2>2. \A k \in 0..n : k \in P
    BY <2>1, Backwards
  <2> QED
    BY <2>2 DEF P
<1>11. ASSUME d.ok
       PROVE  InstructionsTo(b, c, n, d) # {}
  <2> DEFINE f == [k \in 0..n |-> g[k].offset]
  <2>1. \A k \in 0..n : g[k].ok
    BY <1>9, <1>11
  <2>2. f \in [0..n -> Nat]
    BY <1>5, FieldsAre
  <2>3. f[0] = c.offset /\ f[n] = d.offset
    BY <1>5, <1>6
  <2>4. ASSUME NEW k \in 1..n
        PROVE  /\ InstructionOk(b, f[k - 1]) /\ f[k] = InstructionEnd(b, f[k - 1])
               /\ d.minimal => InstructionMinimal(b, f[k - 1])
    <3>1. f[k] = g[k].offset /\ f[k - 1] = g[k - 1].offset
      BY <1>6
    <3>2. g[k].ok /\ (d.minimal => g[k].minimal)
      BY <1>6, <1>10, <2>1
    <3> HIDE DEF f
    <3> QED
      BY <1>7, <3>1, <3>2
  <2> HIDE DEF f
  <2>5. f \in InstructionWalks(b, c.offset, n)
    BY <2>2, <2>3, <2>4 DEF InstructionWalks
  <2>6. f \in InstructionsTo(b, c, n, d)
    BY <2>3, <2>4, <2>5 DEF InstructionsTo
  <2> QED
    BY <2>6
<1>12. (d.ok => c.ok) /\ (d.minimal => c.minimal)
  BY <1>5, <1>6, <1>9, <1>10
<1> QED
  BY <1>8, <1>11, <1>12 DEF d

(* The lookups of a walk, and the lengths of their lists added up.         *)
LookupsAt(b, f, n) == [k \in 1..n |-> LookupAt(b, f[k - 1])]

(* The indexes of one of its two kinds that a lookup loads.                *)
IndexesOf(lookup, writable) == IF writable THEN lookup.writable ELSE lookup.readonly

(* The runs that count the indexes of a kind, to a total.                  *)
Totals(lookups, writable, total) ==
  {w \in [0..Len(lookups) -> Nat] :
     /\ w[0] = 0 /\ w[Len(lookups)] = total
     /\ \A k \in 1..Len(lookups) : w[k] = w[k - 1] + Len(IndexesOf(lookups[k], writable))}

(* The lookups of a walk, in their order.                                  *)
LEMMA LookupsAtIs ==
  ASSUME NEW b \in Seq(Bytes), NEW o \in Nat, NEW n \in Nat, NEW f \in LookupWalks(b, o, n)
  PROVE  LookupsAt(b, f, n) \in Seq(LookupItems) /\ Len(LookupsAt(b, f, n)) = n
<1>1. \A k \in 1..n : f[k - 1] \in Nat /\ LookupOk(b, f[k - 1])
  BY LookupWalkIs
<1>2. \A k \in 1..n : LookupAt(b, f[k - 1]) \in LookupItems
  BY <1>1, LookupIs
<1>3. LookupsAt(b, f, n) \in [1..n -> LookupItems]
  BY <1>2 DEF LookupsAt
<1> QED
  BY <1>3, FunctionIsSeq

(* The walks over the lookups that skipping has gone over and counted.     *)
LookupsTo(b, c, n, t) ==
  {f \in LookupWalks(b, c.offset, n) :
     /\ f[n] = t.c.offset
     /\ Totals(LookupsAt(b, f, n), TRUE, t.writable) # {}
     /\ Totals(LookupsAt(b, f, n), FALSE, t.readonly) # {}
     /\ t.c.minimal => \A k \in 1..n : LookupMinimal(b, f[k - 1])}

(* Where lookups were skipped, a walk goes over them.                      *)
LEMMA LookupsSkippedIs ==
  ASSUME NEW b \in Seq(Bytes), NEW c \in Cursors(b), NEW n \in Nat
  PROVE  LET t == LookupsSkipped([c |-> c, writable |-> 0, readonly |-> 0], n)
         IN  /\ t.c \in Cursors(b) /\ t.writable \in Nat /\ t.readonly \in Nat
             /\ (t.c.ok => c.ok) /\ (t.c.minimal => c.minimal)
             /\ t.c.ok => LookupsTo(b, c, n, t) # {}
<1> DEFINE S == [c : Cursors(b), writable : Nat, readonly : Nat]
           s0 == [c |-> c, writable |-> 0, readonly |-> 0]
           t == LookupsSkipped(s0, n)
<1>1. \A s \in S : skip_lookup(s) \in S
  <2> SUFFICES ASSUME NEW s \in S
               PROVE  skip_lookup(s) \in S
    OBVIOUS
  <2> DEFINE x == s.c
             w == s.writable
             r == s.readonly
             u == skip_lookup([c |-> x, writable |-> w, readonly |-> r])
  <2>1. /\ s = [c |-> x, writable |-> w, readonly |-> r]
        /\ x \in Cursors(b) /\ w \in Nat /\ r \in Nat
    OBVIOUS
  <2> HIDE DEF x, w, r
  <2>2. /\ u = [c |-> u.c, writable |-> u.writable, readonly |-> u.readonly]
        /\ u.c \in Cursors(b) /\ u.writable \in Nat /\ u.readonly \in Nat
    <3>1. LookupSkipped(b, x, w, r, u)
      BY <2>1, SkipLookupIs
    <3> HIDE DEF u
    <3> QED
      BY <3>1 DEF LookupSkipped
  <2>3. skip_lookup(s) = u
    BY <2>1
  <2> HIDE DEF u
  <2> QED
    BY <2>2, <2>3
<1>2. s0 \in S
  OBVIOUS
<1>21. s0.c = c /\ s0.writable = 0 /\ s0.readonly = 0
  OBVIOUS
<1> HIDE DEF S, s0
<1>3. SkipLookupRuns(S, s0, n) # {}
  BY <1>1, <1>2, SkipLookupRun
<1>4. PICK g : g \in SkipLookupRuns(S, s0, n)
  BY <1>3
<1>5. /\ g \in [0..n -> S] /\ g[0] = s0 /\ t = g[n]
      /\ \A k \in 1..n : g[k] = skip_lookup(g[k - 1])
  BY <1>4 DEF SkipLookupRuns
<1> HIDE DEF t
<1>6. 0 \in 0..n /\ n \in 0..n /\ \A k \in 1..n : k - 1 \in 0..n /\ k \in 0..n
  OBVIOUS
<1>61. \A k \in 0..n : /\ g[k].c \in Cursors(b) /\ g[k].writable \in Nat /\ g[k].readonly \in Nat
                       /\ g[k] = [c |-> g[k].c, writable |-> g[k].writable,
                                  readonly |-> g[k].readonly]
  BY <1>5 DEF S
<1>7. ASSUME NEW k \in 1..n
      PROVE  /\ g[k].c.ok <=> g[k - 1].c.ok /\ LookupOk(b, g[k - 1].c.offset)
             /\ g[k].c.ok =>
                  /\ g[k].c.offset = LookupEnd(b, g[k - 1].c.offset)
                  /\ g[k].c.minimal => LookupMinimal(b, g[k - 1].c.offset)
                  /\ g[k].writable = g[k - 1].writable
                                     + Len(LookupAt(b, g[k - 1].c.offset).writable)
                  /\ g[k].readonly = g[k - 1].readonly
                                     + Len(LookupAt(b, g[k - 1].c.offset).readonly)
             /\ g[k].c.minimal => g[k - 1].c.minimal
  <2> DEFINE x == g[k - 1].c
             w == g[k - 1].writable
             r == g[k - 1].readonly
             u == skip_lookup([c |-> x, writable |-> w, readonly |-> r])
  <2>1. g[k - 1] = [c |-> x, writable |-> w, readonly |-> r]
    BY <1>6, <1>61
  <2>2. x \in Cursors(b) /\ w \in Nat /\ r \in Nat
    BY <1>6, <1>61
  <2>3. g[k] = u
    BY <1>5, <2>1
  <2> HIDE DEF x, w, r
  <2>4. LookupSkipped(b, x, w, r, u)
    BY <2>2, SkipLookupIs
  <2> HIDE DEF u
  <2> QED
    BY <2>3, <2>4 DEF x, w, r, LookupSkipped
<1>8. t.c \in Cursors(b) /\ t.writable \in Nat /\ t.readonly \in Nat
  BY <1>5, <1>6, <1>61
<1>9. ASSUME t.c.ok
      PROVE  \A k \in 0..n : g[k].c.ok
  <2> DEFINE P == {k \in 0..n : g[k].c.ok}
  <2>1. n \in P /\ \A k \in 1..n : k \in P => k - 1 \in P
    BY <1>5, <1>6, <1>7, <1>9
  <2> HIDE DEF P
  <2>2. \A k \in 0..n : k \in P
    BY <2>1, Backwards
  <2> QED
    BY <2>2 DEF P
<1>10. ASSUME t.c.minimal
       PROVE  \A k \in 0..n : g[k].c.minimal
  <2> DEFINE P == {k \in 0..n : g[k].c.minimal}
  <2>1. n \in P /\ \A k \in 1..n : k \in P => k - 1 \in P
    BY <1>5, <1>6, <1>7, <1>10
  <2> HIDE DEF P
  <2>2. \A k \in 0..n : k \in P
    BY <2>1, Backwards
  <2> QED
    BY <2>2 DEF P
<1>11. ASSUME t.c.ok
       PROVE  LookupsTo(b, c, n, t) # {}
  <2> DEFINE f == [k \in 0..n |-> g[k].c.offset]
             w == [k \in 0..n |-> g[k].writable]
             r == [k \in 0..n |-> g[k].readonly]
             lookups == LookupsAt(b, f, n)
  <2>1. \A k \in 0..n : g[k].c.ok
    BY <1>9, <1>11
  <2>2. f \in [0..n -> Nat] /\ w \in [0..n -> Nat] /\ r \in [0..n -> Nat]
    BY <1>61, FieldsAre
  <2>3. /\ f[0] = c.offset /\ f[n] = t.c.offset
        /\ w[0] = 0 /\ w[n] = t.writable /\ r[0] = 0 /\ r[n] = t.readonly
    BY <1>5, <1>6, <1>21
  <2>4. ASSUME NEW k \in 1..n
        PROVE  /\ LookupOk(b, f[k - 1]) /\ f[k] = LookupEnd(b, f[k - 1])
               /\ t.c.minimal => LookupMinimal(b, f[k - 1])
               /\ w[k] = w[k - 1] + Len(LookupAt(b, f[k - 1]).writable)
               /\ r[k] = r[k - 1] + Len(LookupAt(b, f[k - 1]).readonly)
    <3>1. /\ f[k] = g[k].c.offset /\ f[k - 1] = g[k - 1].c.offset
          /\ w[k] = g[k].writable /\ w[k - 1] = g[k - 1].writable
          /\ r[k] = g[k].readonly /\ r[k - 1] = g[k - 1].readonly
      BY <1>6
    <3>2. g[k].c.ok /\ (t.c.minimal => g[k].c.minimal)
      BY <1>6, <1>10, <2>1
    <3> HIDE DEF f, w, r
    <3> QED
      BY <1>7, <3>1, <3>2
  <2>41. \A k \in 1..n : lookups[k] = LookupAt(b, f[k - 1])
    BY DEF LookupsAt
  <2> HIDE DEF f, w, r
  <2>5. f \in LookupWalks(b, c.offset, n)
    BY <2>2, <2>3, <2>4 DEF LookupWalks
  <2>6. Len(lookups) = n
    <3>1. c.offset \in Nat
      BY FieldsAre
    <3> QED
      BY <2>5, <3>1, LookupsAtIs
  <2> HIDE DEF lookups
  <2>7. w \in Totals(lookups, TRUE, t.writable)
    BY <2>2, <2>3, <2>4, <2>41, <2>6 DEF Totals, IndexesOf
  <2>8. r \in Totals(lookups, FALSE, t.readonly)
    BY <2>2, <2>3, <2>4, <2>41, <2>6 DEF Totals, IndexesOf
  <2>9. f \in LookupsTo(b, c, n, t)
    BY <2>3, <2>4, <2>5, <2>7, <2>8 DEF LookupsTo, lookups
  <2> QED
    BY <2>9
<1>12. (t.c.ok => c.ok) /\ (t.c.minimal => c.minimal)
  BY <1>5, <1>6, <1>9, <1>10, <1>21
<1> QED
  BY <1>8, <1>11, <1>12 DEF t, s0

(* The length of sequences joined is the sum of theirs.                    *)
LEMMA FlattenLen ==
  ASSUME NEW S, NEW seqs \in Seq(Seq(S)), NEW w \in [0..Len(seqs) -> Nat], w[0] = 0,
         \A k \in 1..Len(seqs) : w[k] = w[k - 1] + Len(seqs[k])
  PROVE  Len(FlattenSeq(seqs)) = w[Len(seqs)]
<1> DEFINE n == Len(seqs)
<1>1. n \in Nat /\ \A k \in 1..n : seqs[k] \in Seq(S)
  BY JoiningIs
<1>2. PICK f \in LoopRuns(Seq(S), Joining(S, seqs), <<>>, n) : FlattenSeq(seqs) = f[n]
  BY FlattenRun
<1>3. f \in [0..n -> Seq(S)] /\ f[0] = <<>> /\ \A k \in 1..n : f[k] = f[k - 1] \o seqs[k]
  BY <1>2, JoiningRun
<1> HIDE DEF n
<1>4. w \in [0..n -> Nat] /\ \A k \in 1..n : w[k] = w[k - 1] + Len(seqs[k])
  BY DEF n
<1> DEFINE T == {k \in Nat : k <= n => Len(f[k]) = w[k]}
<1>5. 0 \in T
  BY <1>3
<1>6. \A k \in Nat : k \in T => k + 1 \in T
  <2> SUFFICES ASSUME NEW k \in Nat, k \in T, k + 1 <= n
               PROVE  Len(f[k + 1]) = w[k + 1]
    OBVIOUS
  <2>1. k + 1 \in 1..n /\ (k + 1) - 1 = k /\ k \in 0..n /\ k <= n
    BY <1>1
  <2>2. f[k] \in Seq(S) /\ seqs[k + 1] \in Seq(S) /\ Len(f[k]) = w[k]
    BY <1>1, <1>3, <2>1
  <2>3. f[k + 1] = f[k] \o seqs[k + 1] /\ w[k + 1] = w[k] + Len(seqs[k + 1])
    BY <1>3, <1>4, <2>1
  <2>4. Len(f[k] \o seqs[k + 1]) = Len(f[k]) + Len(seqs[k + 1])
    BY <2>2, ConcatProperties
  <2> QED
    BY <2>2, <2>3, <2>4
<1> HIDE DEF T
<1>7. Nat \subseteq T
  BY <1>5, <1>6, Induction
<1>8. Len(f[n]) = w[n]
  BY <1>1, <1>7 DEF T
<1> QED
  BY <1>2, <1>8 DEF n

(* Where try_new found what it kept of the bytes.                          *)
Headers == [signers : Bytes, readonly_signed : Bytes, readonly_unsigned : Bytes]

(* Where the header ends, the count of programs' instructions starts, and  *)
(* the first lookup stands.                                                *)
HeaderEnd(v) == IF v.version = "v0" THEN 4 ELSE 3
ProgramsCount(v) == v.recent_blockhash_offset + KeyLength
LookupsFirst(b, v) ==
  IF v.version = "v0" THEN v.lookups_offset + Length(b, v.lookups_offset) ELSE v.lookups_offset

(* What the bytes hold where the view says that its parts are.             *)
HeaderFound(b, v) ==
  /\ v.version \in {"legacy", "v0"} /\ HeaderEnd(v) <= Len(b)
  /\ v.version = "v0" => b[1] = Flag
  /\ v.version = "legacy" => b[1] < Flag
  /\ v.header = [signers |-> b[HeaderEnd(v) - 2], readonly_signed |-> b[HeaderEnd(v) - 1],
                 readonly_unsigned |-> b[HeaderEnd(v)]]

KeysFound(b, v) ==
  /\ Readable(b, HeaderEnd(v))
  /\ v.static_accounts_offset = HeaderEnd(v) + Length(b, HeaderEnd(v))
  /\ v.static_account_count = Value(b, HeaderEnd(v))
  /\ v.recent_blockhash_offset = v.static_accounts_offset + KeyBytes(v.static_account_count)
  /\ ProgramsCount(v) <= Len(b)
  /\ v.minimal => Minimal(b, HeaderEnd(v))

InstructionsFound(b, v) ==
  /\ Readable(b, ProgramsCount(v))
  /\ v.instructions_offset = ProgramsCount(v) + Length(b, ProgramsCount(v))
  /\ v.instruction_count = Value(b, ProgramsCount(v))
  /\ v.minimal => Minimal(b, ProgramsCount(v))
  /\ {f \in InstructionWalks(b, v.instructions_offset, v.instruction_count) :
        /\ f[v.instruction_count] = v.lookups_offset
        /\ v.minimal => \A k \in 1..v.instruction_count : InstructionMinimal(b, f[k - 1])} # {}

LookupsEnd(b, v) ==
  {f \in LookupWalks(b, LookupsFirst(b, v), v.lookup_count) :
     /\ f[v.lookup_count] = Len(b)
     /\ Totals(LookupsAt(b, f, v.lookup_count), TRUE, v.loaded_writable) # {}
     /\ Totals(LookupsAt(b, f, v.lookup_count), FALSE, v.loaded_readonly) # {}
     /\ v.minimal => \A k \in 1..v.lookup_count : LookupMinimal(b, f[k - 1])}

LookupsFound(b, v) ==
  /\ v.version = "v0" => /\ Readable(b, v.lookups_offset)
                         /\ v.lookup_count = Value(b, v.lookups_offset)
                         /\ v.minimal => Minimal(b, v.lookups_offset)
  /\ v.version = "legacy" => v.lookup_count = 0
  /\ LookupsEnd(b, v) # {}

Counts(v) ==
  /\ v.static_accounts_offset \in Nat /\ v.static_account_count \in Nat
  /\ v.recent_blockhash_offset \in Nat
  /\ v.instructions_offset \in Nat /\ v.instruction_count \in Nat
  /\ v.lookups_offset \in Nat /\ v.lookup_count \in Nat
  /\ v.loaded_writable \in Nat /\ v.loaded_readonly \in Nat

(* The header is read from the bytes after the version, if they have one.  *)
LEMMA MarkedHeader ==
  ASSUME NEW b \in Seq(Bytes), NEW marked \in BOOLEAN,
         marked <=> b # <<>> /\ b[1] >= Flag, marked => b[1] = Flag
  PROVE  LET prefix == Cursor(b, 0)
             signers == read_u8(IF marked THEN read_u8(prefix) ELSE prefix)
             readonly_signed == read_u8(signers)
             readonly_unsigned == read_u8(readonly_signed)
             end == IF marked THEN 4 ELSE 3
         IN  /\ readonly_unsigned \in Cursors(b)
             /\ readonly_unsigned.ok =>
                  /\ end <= Len(b) /\ readonly_unsigned.offset = end
                  /\ signers.value = b[end - 2] /\ readonly_signed.value = b[end - 1]
                  /\ readonly_unsigned.value = b[end]
                  /\ ~marked => b[1] < Flag
<1> DEFINE prefix == Cursor(b, 0)
           first == read_u8(prefix)
           start == IF marked THEN first ELSE prefix
           signers == read_u8(start)
           readonly_signed == read_u8(signers)
           readonly_unsigned == read_u8(readonly_signed)
           end == IF marked THEN 4 ELSE 3
<1>1. prefix \in Cursors(b) /\ prefix.ok /\ prefix.offset = 0
  BY CursorIs
<1> HIDE DEF prefix
<1>2. /\ first \in Cursors(b) /\ (first.ok => first.offset = 1)
  BY <1>1, ReadByteIs DEF Moved
<1> HIDE DEF first
<1>3. /\ start \in Cursors(b) /\ (start.ok => start.offset = end - 3)
  BY <1>1, <1>2
<1> HIDE DEF start
<1>4. /\ signers \in Cursors(b)
      /\ signers.ok => start.ok /\ signers.offset = start.offset + 1
                       /\ signers.value = b[start.offset + 1] /\ start.offset + 1 <= Len(b)
  BY <1>3, ReadByteIs DEF Moved
<1> HIDE DEF signers
<1>5. /\ readonly_signed \in Cursors(b)
      /\ readonly_signed.ok => signers.ok /\ readonly_signed.offset = signers.offset + 1
                       /\ readonly_signed.value = b[signers.offset + 1]
  BY <1>4, ReadByteIs DEF Moved
<1> HIDE DEF readonly_signed
<1>6. /\ readonly_unsigned \in Cursors(b)
      /\ readonly_unsigned.ok =>
           readonly_signed.ok /\ readonly_unsigned.offset = readonly_signed.offset + 1
           /\ readonly_unsigned.value = b[readonly_signed.offset + 1]
           /\ readonly_signed.offset + 1 <= Len(b)
  BY <1>5, ReadByteIs DEF Moved
<1> HIDE DEF readonly_unsigned
<1>7. end \in {3, 4} /\ Len(b) \in Nat
  BY LenProperties
<1> HIDE DEF end
<1>8. ASSUME readonly_unsigned.ok
      PROVE  /\ end <= Len(b) /\ readonly_unsigned.offset = end
             /\ signers.value = b[end - 2] /\ readonly_signed.value = b[end - 1]
             /\ readonly_unsigned.value = b[end]
  <2>1. start.offset = end - 3 /\ signers.offset = end - 2 /\ readonly_signed.offset = end - 1
        /\ readonly_unsigned.offset = end
    BY <1>3, <1>4, <1>5, <1>6, <1>7, <1>8
  <2> QED
    BY <1>3, <1>4, <1>5, <1>6, <1>7, <1>8, <2>1
<1>9. ASSUME readonly_unsigned.ok, ~marked
      PROVE  b[1] < Flag
  <2>1. 1 \in 1..Len(b)
    BY <1>7, <1>8, <1>9
  <2>2. b[1] \in Bytes /\ b # <<>>
    BY <2>1, ElementOfSeq
  <2> QED
    BY <1>9, <2>2, FlagIs DEF Bytes, U8
<1> QED
  BY <1>6, <1>8, <1>9 DEF readonly_unsigned, readonly_signed, signers, start, first, prefix, end

(* The count of lookups is read only after a version.                      *)
LEMMA ReadLookupCountIs ==
  ASSUME NEW b \in Seq(Bytes), NEW c \in Cursors(b), NEW marked \in BOOLEAN
  PROVE  LET d == read_lookup_count(c, marked)
             o == c.offset
         IN  /\ d \in Cursors(b) /\ (d.ok => c.ok) /\ (d.minimal => c.minimal)
             /\ d.ok /\ marked => /\ Readable(b, o) /\ d.offset = o + Length(b, o)
                                  /\ d.value = Value(b, o)
                                  /\ d.minimal => Minimal(b, o)
             /\ ~marked => d.value = 0 /\ d.offset = o
<1> DEFINE d == read_lookup_count(c, marked)
           o == c.offset
<1>1. CASE marked
  <2> DEFINE e == read_shortvec(c)
  <2>1. d = e
    BY <1>1 DEF read_lookup_count
  <2>2. e \in Cursors(b) /\ (e.ok <=> c.ok /\ Readable(b, o)) /\ (e.minimal => c.minimal)
    BY ReadShortvecIs
  <2>3. e.ok => e.offset = o + Length(b, o) /\ e.value = Value(b, o)
    BY ReadShortvecIs DEF Moved
  <2>4. e.ok /\ e.minimal => Minimal(b, o)
    BY ReadShortvecIs DEF Minimal
  <2> HIDE DEF d, e
  <2> QED
    BY <1>1, <2>1, <2>2, <2>3, <2>4 DEF d
<1>2. CASE ~marked
  <2>1. d = [c EXCEPT !.value = 0]
    BY <1>2 DEF read_lookup_count
  <2> HIDE DEF d
  <2>2. /\ d \in Cursors(b) /\ d.ok = c.ok /\ d.minimal = c.minimal /\ d.value = 0
        /\ d.offset = c.offset
    BY <2>1 DEF Cursors
  <2> QED
    BY <1>2, <2>2 DEF d
<1> QED
  BY <1>1, <1>2

(* What an accepted view has kept, and what it has validated.              *)
Found(b, v) ==
  /\ v.ok /\ v.input = b /\ Counts(v) /\ v.header \in Headers /\ v.minimal \in BOOLEAN
  /\ HeaderFound(b, v) /\ KeysFound(b, v) /\ InstructionsFound(b, v) /\ LookupsFound(b, v)
  /\ valid_header(v.header, v.static_account_count) /\ valid_indexes(v)

(* A view that is accepted is found in the bytes, part by part.            *)
LEMMA TryNewFinds ==
  ASSUME NEW b \in Seq(Bytes), try_new(b).ok
  PROVE  Found(b, try_new(b))
<1> DEFINE marked == b # <<>> /\ b[1] >= Flag
           prefix == Cursor(b, 0)
           signers == read_u8(IF marked THEN read_u8(prefix) ELSE prefix)
           readonly_signed == read_u8(signers)
           readonly_unsigned == read_u8(readonly_signed)
           header == [signers |-> signers.value,
                      readonly_signed |-> readonly_signed.value,
                      readonly_unsigned |-> readonly_unsigned.value]
           keys == read_shortvec(readonly_unsigned)
           blockhash == skip_keys(keys)
           behind == skip(blockhash, KeyLength)
           programs == read_shortvec(behind)
           compiled == skip_instructions(programs)
           tables == read_lookup_count(compiled, marked)
           looked_up == skip_lookups(tables)
           v == [ok |-> TRUE, input |-> b, version |-> IF marked THEN "v0" ELSE "legacy",
                 header |-> header,
                 static_accounts_offset |-> keys.offset, static_account_count |-> keys.value,
                 recent_blockhash_offset |-> blockhash.offset,
                 instructions_offset |-> programs.offset, instruction_count |-> programs.value,
                 lookups_offset |-> compiled.offset, lookup_count |-> tables.value,
                 loaded_writable |-> looked_up.writable, loaded_readonly |-> looked_up.readonly,
                 minimal |-> looked_up.c.minimal]
           end == IF marked THEN 4 ELSE 3
<1>1. try_new(b) = IF marked => b[1] = Flag THEN Accepted(v, looked_up.c) ELSE Rejected
  BY DEF try_new
<1>2. /\ v.ok /\ v.input = b /\ v.version = (IF marked THEN "v0" ELSE "legacy")
      /\ v.header = header
      /\ v.static_accounts_offset = keys.offset /\ v.static_account_count = keys.value
      /\ v.recent_blockhash_offset = blockhash.offset
      /\ v.instructions_offset = programs.offset /\ v.instruction_count = programs.value
      /\ v.lookups_offset = compiled.offset /\ v.lookup_count = tables.value
      /\ v.loaded_writable = looked_up.writable /\ v.loaded_readonly = looked_up.readonly
      /\ v.minimal = looked_up.c.minimal
  OBVIOUS
<1> HIDE DEF v
<1>3. marked => b[1] = Flag
  BY <1>1 DEF Rejected
<1>4. /\ try_new(b) = v /\ looked_up.c.ok /\ looked_up.c.offset = Len(looked_up.c.input)
      /\ valid_header(v.header, v.static_account_count) /\ valid_indexes(v)
  BY <1>1 DEF Accepted, Rejected, AtEnd
<1>5. /\ readonly_unsigned \in Cursors(b)
      /\ readonly_unsigned.ok =>
           /\ end <= Len(b) /\ readonly_unsigned.offset = end
           /\ signers.value = b[end - 2] /\ readonly_signed.value = b[end - 1]
           /\ readonly_unsigned.value = b[end]
           /\ ~marked => b[1] < Flag
  <2> DEFINE x == marked
  <2>1. x \in BOOLEAN /\ (x <=> b # <<>> /\ b[1] >= Flag) /\ (x => b[1] = Flag)
    BY <1>3
  <2> HIDE DEF x
  <2> DEFINE a == read_u8(IF x THEN read_u8(prefix) ELSE prefix)
             c == read_u8(a)
             d == read_u8(c)
             e == IF x THEN 4 ELSE 3
  <2>2. /\ d \in Cursors(b)
        /\ d.ok => /\ e <= Len(b) /\ d.offset = e
                   /\ a.value = b[e - 2] /\ c.value = b[e - 1] /\ d.value = b[e]
                   /\ ~x => b[1] < Flag
    BY <2>1, MarkedHeader
  <2> QED
    BY <2>2 DEF x
<1>6. signers.value = header.signers /\ readonly_signed.value = header.readonly_signed
      /\ readonly_unsigned.value = header.readonly_unsigned
      /\ header = [signers |-> header.signers, readonly_signed |-> header.readonly_signed,
                   readonly_unsigned |-> header.readonly_unsigned]
  OBVIOUS
<1> HIDE DEF signers, readonly_signed, readonly_unsigned, header
<1>7. /\ keys \in Cursors(b) /\ (keys.minimal => readonly_unsigned.minimal)
      /\ keys.ok => /\ readonly_unsigned.ok /\ Readable(b, readonly_unsigned.offset)
                    /\ keys.offset = readonly_unsigned.offset + Length(b, readonly_unsigned.offset)
                    /\ keys.value = Value(b, readonly_unsigned.offset)
                    /\ keys.minimal => Minimal(b, readonly_unsigned.offset)
  BY <1>5, ReadShortvecIs DEF Moved, Minimal
<1> HIDE DEF keys
<1>8. /\ blockhash \in Cursors(b) /\ blockhash.minimal = keys.minimal
      /\ blockhash.ok => keys.ok /\ blockhash.offset = keys.offset + KeyBytes(keys.value)
  <2>1. KeyBytes(keys.value) \in Nat
    <3>1. keys.value \in Nat
      BY <1>7, FieldsAre
    <3>2. KeyLength \in Nat /\ Word \in Nat \ {0}
      BY SizesAssumption, FlagIs
    <3> QED
      BY ONLY <3>1, <3>2 DEF KeyBytes
  <2> DEFINE size == KeyBytes(keys.value)
  <2>2. size \in Nat /\ keys \in Cursors(b) /\ blockhash = skip(keys, size)
    BY <1>7, <2>1 DEF skip_keys
  <2> HIDE DEF size, blockhash
  <2>3. /\ blockhash \in Cursors(b) /\ Moved(keys, blockhash, size)
        /\ blockhash.minimal = keys.minimal
    BY <2>2, SkipIs
  <2> QED
    BY <2>3 DEF Moved, size
<1> HIDE DEF blockhash
<1>9. /\ behind \in Cursors(b) /\ behind.minimal = blockhash.minimal
      /\ behind.ok => /\ blockhash.ok /\ behind.offset = blockhash.offset + KeyLength
                      /\ behind.offset <= Len(b)
  <2>1. KeyLength \in Nat /\ blockhash.input = b
    BY <1>8, SizesAssumption, FieldsAre
  <2> QED
    BY <1>8, <2>1, SkipIs DEF Moved
<1> HIDE DEF behind
<1>10. /\ programs \in Cursors(b) /\ (programs.minimal => behind.minimal)
       /\ programs.ok => /\ behind.ok /\ Readable(b, behind.offset)
                         /\ programs.offset = behind.offset + Length(b, behind.offset)
                         /\ programs.value = Value(b, behind.offset)
                         /\ programs.minimal => Minimal(b, behind.offset)
  BY <1>9, ReadShortvecIs DEF Moved, Minimal
<1> HIDE DEF programs
<1>11. programs.value \in Nat
  BY <1>10, FieldsAre
<1>12. /\ compiled \in Cursors(b) /\ (compiled.ok => programs.ok)
       /\ (compiled.minimal => programs.minimal)
       /\ compiled.ok => InstructionsTo(b, programs, programs.value, compiled) # {}
  <2> DEFINE n == programs.value
             d == InstructionsSkipped(programs, n)
  <2>1. n \in Nat
    BY <1>11
  <2>2. compiled = d
    BY DEF skip_instructions, InstructionsSkipped
  <2> HIDE DEF n
  <2>3. /\ d \in Cursors(b) /\ (d.ok => programs.ok) /\ (d.minimal => programs.minimal)
        /\ d.ok => InstructionsTo(b, programs, n, d) # {}
    BY <1>10, <2>1, InstructionsSkippedIs
  <2> HIDE DEF d, compiled
  <2> QED
    BY <2>2, <2>3 DEF n
<1> HIDE DEF compiled
<1>13. /\ tables \in Cursors(b) /\ (tables.ok => compiled.ok)
       /\ (tables.minimal => compiled.minimal)
       /\ tables.ok /\ marked =>
            /\ Readable(b, compiled.offset)
            /\ tables.offset = compiled.offset + Length(b, compiled.offset)
            /\ tables.value = Value(b, compiled.offset)
            /\ tables.minimal => Minimal(b, compiled.offset)
       /\ ~marked => tables.value = 0 /\ tables.offset = compiled.offset
  <2> DEFINE x == marked
             d == read_lookup_count(compiled, x)
             o == compiled.offset
  <2>1. x \in BOOLEAN
    OBVIOUS
  <2> HIDE DEF x
  <2>2. /\ d \in Cursors(b) /\ (d.ok => compiled.ok) /\ (d.minimal => compiled.minimal)
        /\ d.ok /\ x => /\ Readable(b, o) /\ d.offset = o + Length(b, o)
                        /\ d.value = Value(b, o)
                        /\ d.minimal => Minimal(b, o)
        /\ ~x => d.value = 0 /\ d.offset = o
    BY <1>12, <2>1, ReadLookupCountIs
  <2> QED
    BY <2>2 DEF x
<1> HIDE DEF tables
<1>14. tables.value \in Nat
  BY <1>13, FieldsAre
<1>15. /\ looked_up.c \in Cursors(b) /\ looked_up.writable \in Nat /\ looked_up.readonly \in Nat
       /\ (looked_up.c.ok => tables.ok) /\ (looked_up.c.minimal => tables.minimal)
       /\ looked_up.c.ok => LookupsTo(b, tables, tables.value, looked_up) # {}
  <2> DEFINE n == tables.value
             t == LookupsSkipped([c |-> tables, writable |-> 0, readonly |-> 0], n)
  <2>1. n \in Nat
    BY <1>14
  <2>2. looked_up = t
    BY DEF skip_lookups, LookupsSkipped
  <2> HIDE DEF n
  <2>3. /\ t.c \in Cursors(b) /\ t.writable \in Nat /\ t.readonly \in Nat
        /\ (t.c.ok => tables.ok) /\ (t.c.minimal => tables.minimal)
        /\ t.c.ok => LookupsTo(b, tables, n, t) # {}
    BY <1>13, <2>1, LookupsSkippedIs
  <2> HIDE DEF t, looked_up
  <2> QED
    BY <2>2, <2>3 DEF n
<1> HIDE DEF looked_up
<1>16. /\ looked_up.c.ok /\ tables.ok /\ compiled.ok /\ programs.ok /\ behind.ok
       /\ blockhash.ok /\ keys.ok /\ readonly_unsigned.ok
  BY <1>4, <1>7, <1>8, <1>9, <1>10, <1>12, <1>13, <1>15
<1>17. v.minimal => /\ tables.minimal /\ compiled.minimal /\ programs.minimal /\ keys.minimal
  BY <1>2, <1>8, <1>9, <1>10, <1>12, <1>13, <1>15
<1>18. /\ (marked <=> v.version = "v0") /\ (~marked <=> v.version = "legacy")
       /\ HeaderEnd(v) = end /\ v.version \in {"legacy", "v0"}
  BY <1>2 DEF HeaderEnd
<1>19. HeaderFound(b, v)
  BY <1>2, <1>3, <1>5, <1>6, <1>16, <1>18 DEF HeaderFound
<1>20. KeysFound(b, v)
  BY <1>2, <1>5, <1>7, <1>8, <1>9, <1>16, <1>17, <1>18 DEF KeysFound, ProgramsCount
<1>21. ProgramsCount(v) = behind.offset
  BY <1>2, <1>9, <1>16 DEF ProgramsCount
<1>22. InstructionsFound(b, v)
  <2>1. PICK f : f \in InstructionsTo(b, programs, programs.value, compiled)
    BY <1>12, <1>16
  <2>2. f \in {g \in InstructionWalks(b, v.instructions_offset, v.instruction_count) :
        /\ g[v.instruction_count] = v.lookups_offset
        /\ v.minimal => \A k \in 1..v.instruction_count : InstructionMinimal(b, g[k - 1])}
    BY <1>2, <1>17, <2>1 DEF InstructionsTo
  <2> QED
    BY <1>2, <1>10, <1>16, <1>17, <1>21, <2>2 DEF InstructionsFound
<1>23. LookupsFirst(b, v) = tables.offset
  BY <1>2, <1>13, <1>16, <1>18 DEF LookupsFirst
<1>24. LookupsEnd(b, v) # {}
  <2>1. PICK f : f \in LookupsTo(b, tables, tables.value, looked_up)
    BY <1>15, <1>16
  <2>2. looked_up.c.offset = Len(b)
    BY <1>4, <1>15, FieldsAre
  <2>3. f \in LookupsEnd(b, v)
    BY <1>2, <1>23, <2>1, <2>2 DEF LookupsTo, LookupsEnd
  <2> QED
    BY <2>3
<1>25. LookupsFound(b, v)
  BY <1>2, <1>13, <1>16, <1>17, <1>18, <1>24 DEF LookupsFound
<1>26. Counts(v)
  <2>1. /\ keys.offset \in Nat /\ keys.value \in Nat /\ blockhash.offset \in Nat
        /\ programs.offset \in Nat /\ compiled.offset \in Nat
    BY <1>7, <1>8, <1>10, <1>12, FieldsAre
  <2> QED
    BY <1>2, <1>11, <1>14, <1>15, <2>1 DEF Counts
<1>27. v.header \in Headers
  <2>1. end \in {3, 4} /\ Len(b) \in Nat /\ end <= Len(b)
    BY <1>5, <1>16, LenProperties
  <2>2. \A k \in {end - 2, end - 1, end} : b[k] \in Bytes
    BY <2>1, ElementOfSeq
  <2> QED
    BY <1>2, <1>5, <1>6, <1>16, <2>2 DEF Headers
<1>28. v.minimal \in BOOLEAN
  BY <1>2, <1>15, FieldsAre
<1>29. Found(b, v)
  BY <1>2, <1>4, <1>19, <1>20, <1>22, <1>25, <1>26, <1>27, <1>28 DEF Found
<1> QED
  BY <1>4, <1>29

(* The iterators find again what the walk of try_new has passed.           *)
LEMMA InstructionsOf ==
  ASSUME NEW b \in Seq(Bytes), NEW v, Found(b, v)
  PROVE  /\ instructions(v).c.ok
         /\ instructions(v).items \in Seq(InstructionType)
         /\ Len(instructions(v).items) = v.instruction_count
<1> DEFINE o == v.instructions_offset
           n == v.instruction_count
           all == Repeat(NextInstruction, [c |-> Cursor(b, o), items |-> <<>>], n)
<1>1. v.input = b /\ o \in Nat /\ n \in Nat /\ InstructionsFound(b, v)
  BY DEF Found, Counts
<1>2. InstructionWalks(b, o, n) # {}
  BY <1>1 DEF InstructionsFound
<1>3. instructions(v) = all
  BY <1>1 DEF instructions
<1> HIDE DEF o, n
<1>4. PICK f : f \in InstructionWalks(b, o, n)
  BY <1>2
<1>5. all.c.ok /\ all.items \in Seq(InstructionType) /\ Len(all.items) = n
  BY <1>1, <1>4, InstructionIterated
<1> HIDE DEF all
<1> QED
  BY <1>3, <1>5 DEF n

(* The lookups are looked for where they are, when lengths are minimal.    *)
LEMMA FirstLookupIs ==
  ASSUME NEW b \in Seq(Bytes), NEW v, Found(b, v), v.minimal
  PROVE  FirstLookup(v) = LookupsFirst(b, v) /\ LookupsFirst(b, v) \in Nat
<1>1. LookupsFound(b, v) /\ v.lookups_offset \in Nat /\ v.version \in {"legacy", "v0"}
  BY DEF Found, Counts, HeaderFound
<1>2. CASE v.version = "v0"
  <2>1. /\ Readable(b, v.lookups_offset) /\ v.lookup_count = Value(b, v.lookups_offset)
        /\ Minimal(b, v.lookups_offset)
    BY <1>1, <1>2 DEF LookupsFound
  <2>2. Length(b, v.lookups_offset) = shortvec_len(v.lookup_count)
    BY <2>1 DEF Minimal
  <2>3. Length(b, v.lookups_offset) \in Nat
    BY <1>1, <2>1, EndsAre DEF Readable
  <2> QED
    BY <1>1, <1>2, <2>2, <2>3 DEF FirstLookup, LookupsFirst
<1>3. CASE v.version = "legacy"
  BY <1>1, <1>3 DEF FirstLookup, LookupsFirst
<1> QED
  BY <1>1, <1>2, <1>3

(* The lists of the lookups that are found are as long as try_new counted. *)
LookupsOf(b, v, lookups) ==
  /\ lookups \in Seq(LookupItems) /\ Len(lookups) = v.lookup_count
  /\ Totals(lookups, TRUE, v.loaded_writable) # {}
  /\ Totals(lookups, FALSE, v.loaded_readonly) # {}

(* The lookups of a view are as many and load as many as it says.          *)
LEMMA AddressTableLookupsOf ==
  ASSUME NEW b \in Seq(Bytes), NEW v, Found(b, v), v.minimal
  PROVE  address_table_lookups(v).c.ok /\ LookupsOf(b, v, address_table_lookups(v).items)
<1> DEFINE o == FirstLookup(v)
           n == v.lookup_count
           all == Repeat(NextLookup, [c |-> Cursor(b, o), items |-> <<>>], n)
<1>1. v.input = b /\ n \in Nat /\ LookupsFound(b, v)
  BY DEF Found, Counts
<1>2. o = LookupsFirst(b, v) /\ o \in Nat
  BY FirstLookupIs
<1>3. PICK f : f \in LookupsEnd(b, v)
  BY <1>1 DEF LookupsFound
<1> DEFINE lookups == LookupsAt(b, f, n)
<1>4. /\ f \in LookupWalks(b, o, n)
      /\ Totals(lookups, TRUE, v.loaded_writable) # {}
      /\ Totals(lookups, FALSE, v.loaded_readonly) # {}
  BY <1>2, <1>3 DEF LookupsEnd
<1>5. address_table_lookups(v) = all
  BY <1>1 DEF address_table_lookups
<1>6. \A k \in 1..n : lookups[k] = LookupAt(b, f[k - 1])
  BY DEF LookupsAt
<1> HIDE DEF o
<1> DEFINE m == n
<1>61. m \in Nat /\ f \in LookupWalks(b, o, m)
  BY <1>1, <1>4
<1> HIDE DEF m
<1>7. lookups \in Seq(LookupItems) /\ Len(lookups) = n
  <2>1. LookupsAt(b, f, m) \in Seq(LookupItems) /\ Len(LookupsAt(b, f, m)) = m
    BY <1>2, <1>61, LookupsAtIs
  <2> QED
    BY <2>1 DEF m
<1>8. /\ all.c.ok /\ all.items \in Seq(LookupItems) /\ Len(all.items) = n
      /\ \A k \in 1..n : all.items[k] = LookupAt(b, f[k - 1])
  <2> DEFINE read == Repeat(NextLookup, [c |-> Cursor(b, o), items |-> <<>>], m)
  <2>1. /\ read.c.ok /\ read.items \in Seq(LookupItems) /\ Len(read.items) = m
        /\ \A k \in 1..m : read.items[k] = LookupAt(b, f[k - 1])
    BY <1>2, <1>61, LookupIterated
  <2> QED
    BY <2>1 DEF m
<1> HIDE DEF all, lookups
<1>9. all.items = lookups
  <2> DEFINE items == all.items
  <2>1. /\ items \in Seq(LookupItems) /\ Len(items) = Len(lookups)
        /\ \A k \in 1..Len(items) : items[k] = lookups[k]
    BY <1>6, <1>7, <1>8
  <2> HIDE DEF items
  <2>2. items = lookups
    BY <1>7, <2>1, SeqEqual
  <2> QED
    BY <2>2 DEF items
<1> QED
  BY <1>4, <1>5, <1>7, <1>8, <1>9 DEF LookupsOf

(* The accounts that lookups load, lookup by lookup.                       *)
Refs == [kind : {"lookup"}, table : Seq(Bytes), index : Bytes, writable : BOOLEAN]

(* What a lookup, and what all of them, load of one kind.                  *)
LoadedBy(lookup, writable) ==
  [k \in 1..Len(IndexesOf(lookup, writable)) |->
     LookupRef(lookup.key, IndexesOf(lookup, writable)[k], writable)]
Loaded(lookups, writable) == [i \in 1..Len(lookups) |-> LoadedBy(lookups[i], writable)]

(* A lookup loads a reference for each of its indexes.                     *)
LEMMA LoadedByIs ==
  ASSUME NEW lookup \in LookupItems, NEW writable \in BOOLEAN
  PROVE  /\ IndexesOf(lookup, writable) \in Seq(Bytes)
         /\ LoadedBy(lookup, writable) \in Seq(Refs)
         /\ Len(LoadedBy(lookup, writable)) = Len(IndexesOf(lookup, writable))
         /\ \A k \in 1..Len(IndexesOf(lookup, writable)) :
              LoadedBy(lookup, writable)[k]
                = LookupRef(lookup.key, IndexesOf(lookup, writable)[k], writable)
<1> DEFINE indexes == IndexesOf(lookup, writable)
           n == Len(indexes)
<1>1. indexes \in Seq(Bytes) /\ lookup.key \in Seq(Bytes)
  BY DEF LookupItems, IndexesOf
<1> HIDE DEF indexes
<1>2. n \in Nat /\ \A k \in 1..n : indexes[k] \in Bytes
  BY <1>1, LenProperties, ElementOfSeq
<1>3. \A k \in 1..n : LookupRef(lookup.key, indexes[k], writable) \in Refs
  BY <1>1, <1>2 DEF LookupRef, Refs
<1>4. /\ LoadedBy(lookup, writable) \in [1..n -> Refs]
      /\ \A k \in 1..n : LoadedBy(lookup, writable)[k] = LookupRef(lookup.key, indexes[k], writable)
  BY <1>3 DEF LoadedBy, indexes
<1> HIDE DEF n
<1>5. LoadedBy(lookup, writable) \in Seq(Refs) /\ Len(LoadedBy(lookup, writable)) = n
  BY <1>2, <1>4, FunctionIsSeq
<1> QED
  BY <1>1, <1>4, <1>5 DEF indexes, n

(* So do all of them.                                                      *)
LEMMA LoadedIs ==
  ASSUME NEW lookups \in Seq(LookupItems), NEW writable \in BOOLEAN
  PROVE  /\ Loaded(lookups, writable) \in Seq(Seq(Refs))
         /\ Len(Loaded(lookups, writable)) = Len(lookups)
         /\ \A k \in 1..Len(lookups) :
              /\ lookups[k] \in LookupItems
              /\ Loaded(lookups, writable)[k] = LoadedBy(lookups[k], writable)
<1> DEFINE n == Len(lookups)
<1>1. n \in Nat /\ \A k \in 1..n : lookups[k] \in LookupItems
  BY LenProperties, ElementOfSeq
<1>2. /\ Loaded(lookups, writable) \in [1..n -> Seq(Refs)]
      /\ \A k \in 1..n : Loaded(lookups, writable)[k] = LoadedBy(lookups[k], writable)
  BY <1>1, LoadedByIs DEF Loaded
<1> HIDE DEF n
<1>3. Loaded(lookups, writable) \in Seq(Seq(Refs)) /\ Len(Loaded(lookups, writable)) = n
  BY <1>1, <1>2, FunctionIsSeq
<1> QED
  BY <1>1, <1>2, <1>3 DEF n

(* They load as many as the view counts.                                   *)
LEMMA LoadedCount ==
  ASSUME NEW lookups \in Seq(LookupItems), NEW writable \in BOOLEAN, NEW total,
         Totals(lookups, writable, total) # {}
  PROVE  Len(FlattenSeq(Loaded(lookups, writable))) = total
<1> DEFINE seqs == Loaded(lookups, writable)
           n == Len(lookups)
<1>1. PICK w : w \in Totals(lookups, writable, total)
  OBVIOUS
<1>2. /\ w \in [0..n -> Nat] /\ w[0] = 0 /\ w[n] = total
      /\ \A k \in 1..n : w[k] = w[k - 1] + Len(IndexesOf(lookups[k], writable))
  BY <1>1 DEF Totals
<1>3. /\ seqs \in Seq(Seq(Refs)) /\ Len(seqs) = n
      /\ \A k \in 1..n : Len(seqs[k]) = Len(IndexesOf(lookups[k], writable))
  BY LoadedIs, LoadedByIs
<1> HIDE DEF seqs, n
<1>4. w \in [0..Len(seqs) -> Nat] /\ \A k \in 1..Len(seqs) : w[k] = w[k - 1] + Len(seqs[k])
  BY <1>2, <1>3
<1>5. Len(FlattenSeq(seqs)) = w[Len(seqs)]
  BY <1>2, <1>3, <1>4, FlattenLen
<1> QED
  BY <1>2, <1>3, <1>5 DEF seqs

(* The loops over lookups run through states of the search.                *)
Searches == [ref : Refs \cup {NoRef}, left : Nat]

(* The steps of a search, a lookup at a time.                              *)
Visits(lookups, writable) ==
  [k \in 1..Len(lookups) |->
     [s \in Searches |-> Visit(s, lookups[k].key, IndexesOf(lookups[k], writable), writable)]]

(* A step ends the search within the lookup, or passes all it loads.       *)
LEMMA VisitIs ==
  ASSUME NEW s \in Searches, NEW lookup \in LookupItems, NEW writable \in BOOLEAN
  PROVE  /\ Visit(s, lookup.key, IndexesOf(lookup, writable), writable) \in Searches
         /\ s.ref # NoRef =>
              Visit(s, lookup.key, IndexesOf(lookup, writable), writable) = s
         /\ s.ref = NoRef /\ s.left < Len(LoadedBy(lookup, writable)) =>
              Visit(s, lookup.key, IndexesOf(lookup, writable), writable).ref
                = LoadedBy(lookup, writable)[s.left + 1]
         /\ s.ref = NoRef /\ s.left >= Len(LoadedBy(lookup, writable)) =>
              Visit(s, lookup.key, IndexesOf(lookup, writable), writable)
                = [s EXCEPT !.left = s.left - Len(LoadedBy(lookup, writable))]
<1> DEFINE indexes == IndexesOf(lookup, writable)
           loaded == LoadedBy(lookup, writable)
           n == Len(indexes)
           t == Visit(s, lookup.key, indexes, writable)
<1>1. /\ indexes \in Seq(Bytes) /\ loaded \in Seq(Refs) /\ Len(loaded) = n /\ n \in Nat
      /\ \A k \in 1..n : loaded[k] = LookupRef(lookup.key, indexes[k], writable)
  BY LoadedByIs, LenProperties
<1>2. \A k \in 1..n : loaded[k] \in Refs
  BY <1>1, ElementOfSeq
<1>3. s.left \in Nat /\ s.ref \in Refs \cup {NoRef} /\ s = [ref |-> s.ref, left |-> s.left]
  BY DEF Searches
<1>4. t = IF s.ref # NoRef THEN s
          ELSE IF s.left < n
          THEN [s EXCEPT !.ref = LookupRef(lookup.key, indexes[s.left + 1], writable)]
          ELSE [s EXCEPT !.left = s.left - n]
  BY <1>3 DEF Visit
<1> HIDE DEF t, loaded, indexes, n
<1>5. CASE s.ref # NoRef
  BY <1>4, <1>5 DEF t, indexes
<1>6. CASE s.ref = NoRef /\ s.left < n
  <2> DEFINE k == s.left + 1
  <2>1. k \in 1..n
    BY <1>1, <1>3, <1>6
  <2>2. loaded[k] \in Refs /\ loaded[k] = LookupRef(lookup.key, indexes[k], writable)
    BY <1>1, <1>2, <2>1
  <2>3. t = [s EXCEPT !.ref = loaded[k]]
    BY <1>4, <1>6, <2>2
  <2> HIDE DEF k
  <2>4. t \in Searches /\ t.ref = loaded[k]
    BY <1>3, <2>2, <2>3 DEF Searches
  <2> QED
    BY <1>1, <1>3, <1>6, <2>4 DEF t, indexes, loaded, n, k
<1>7. CASE s.ref = NoRef /\ s.left >= n
  <2>1. t = [s EXCEPT !.left = s.left - n] /\ s.left - n \in Nat
    BY <1>1, <1>3, <1>4, <1>7
  <2>2. t \in Searches
    BY <1>3, <2>1 DEF Searches
  <2> QED
    BY <1>1, <1>3, <1>7, <2>1, <2>2 DEF t, indexes, loaded, n
<1> QED
  BY <1>1, <1>3, <1>5, <1>6, <1>7

(* The steps of that loop.                                                 *)
LEMMA VisitsIs ==
  ASSUME NEW lookups \in Seq(LookupItems), NEW writable \in BOOLEAN
  PROVE  /\ Len(lookups) \in Nat
         /\ Visits(lookups, writable) \in [1..Len(lookups) -> [Searches -> Searches]]
         /\ \A k \in 1..Len(lookups) : \A s \in Searches :
              Visits(lookups, writable)[k][s]
                = Visit(s, lookups[k].key, IndexesOf(lookups[k], writable), writable)
<1> DEFINE n == Len(lookups)
<1>1. n \in Nat /\ \A k \in 1..n : lookups[k] \in LookupItems
  BY LenProperties, ElementOfSeq
<1>2. ASSUME NEW k \in 1..n
      PROVE  [s \in Searches |-> Visit(s, lookups[k].key, IndexesOf(lookups[k], writable),
                                       writable)]
               \in [Searches -> Searches]
  <2> DEFINE lookup == lookups[k]
  <2>1. lookup \in LookupItems
    BY <1>1
  <2> HIDE DEF lookup
  <2>2. \A s \in Searches :
          Visit(s, lookup.key, IndexesOf(lookup, writable), writable) \in Searches
    BY <2>1, VisitIs
  <2> QED
    BY <2>2 DEF lookup
<1> QED
  BY <1>1, <1>2 DEF Visits

(* The search is the last state of its run.                                *)
LEMMA VisitAllRun ==
  ASSUME NEW lookups \in Seq(LookupItems), NEW writable \in BOOLEAN, NEW start \in Searches
  PROVE  \E g \in LoopRuns(Searches, Visits(lookups, writable), start, Len(lookups)) :
           VisitAll(start, lookups, writable) = g[Len(lookups)]
<1> DEFINE n == Len(lookups)
           steps == Visits(lookups, writable)
           step(k, s) == Visit(s, lookups[k].key, IndexesOf(lookups[k], writable), writable)
           Is(g) == g = [k \in 0..n |-> IF k = 0 THEN start
                                        ELSE Visit(g[k - 1], lookups[k].key,
                   IF writable THEN lookups[k].writable ELSE lookups[k].readonly, writable)]
           h == CHOOSE g : Is(g)
           D == {h[k] : k \in 0..n}
<1>1. n \in Nat /\ steps \in [1..n -> [Searches -> Searches]]
  BY VisitsIs
<1>2. \A k \in 1..n : \A s \in Searches : steps[k][s] = step(k, s)
  BY VisitsIs
<1>3. VisitAll(start, lookups, writable) = h[n]
  BY DEF VisitAll
<1> HIDE DEF steps
<1>4. LoopRuns(Searches, steps, start, n) # {}
  BY <1>1, LoopRun
<1>5. PICK f : f \in LoopRuns(Searches, steps, start, n)
  BY <1>4
<1>6. f \in [0..n -> Searches] /\ f[0] = start /\ \A k \in 1..n : f[k] = steps[k][f[k - 1]]
  BY <1>5 DEF LoopRuns
<1>7. \A k \in 1..n : f[k] = step(k, f[k - 1])
  <2>1. \A k \in 1..n : k - 1 \in 0..n
    BY <1>1
  <2>2. \A k \in 1..n : f[k - 1] \in Searches
    BY <1>6, <2>1
  <2> QED
    BY <1>2, <1>6, <2>2
<1>8. Is(h)
  <2>1. Is(f)
    BY <1>1, <1>6, <1>7 DEF IndexesOf
  <2> QED
    BY <2>1
<1> HIDE DEF h
<1>9. h \in [0..n -> D] /\ h[0] = start /\ \A k \in 1..n : h[k] = step(k, h[k - 1])
  <2>1. h = [k \in 0..n |-> h[k]] /\ h[0] = start /\ \A k \in 1..n : h[k] = step(k, h[k - 1])
    BY <1>1, <1>8 DEF IndexesOf
  <2>2. \A k \in 0..n : h[k] \in D
    OBVIOUS
  <2> HIDE DEF D, Is
  <2>3. h \in [0..n -> D]
    BY ONLY <2>1, <2>2
  <2> QED
    BY ONLY <2>1, <2>3
<1> HIDE DEF D, Is
<1>10. \A k \in 1..n : h[k - 1] \in Searches => h[k] = steps[k][h[k - 1]]
  BY <1>2, <1>9
<1> HIDE DEF n
<1>11. h \in LoopRuns(Searches, steps, start, n)
  BY <1>1, <1>9, <1>10, ChosenRun
<1> QED
  BY <1>3, <1>11 DEF n, steps

(* A loop over the lookups finds what stands at its index in the list of   *)
(* what they load, or has counted all of that list.                        *)
FoundIn(list, index, s) ==
  IF index < Len(list) THEN s.ref = list[index + 1] /\ s.ref # NoRef
  ELSE s.ref = NoRef /\ s.left = index - Len(list)

(* A reference is never that there is none.                                *)
LEMMA RefsAreRefs ==
  \A ref \in Refs : ref # NoRef
BY DEF Refs, NoRef

(* A step searches what one more lookup loads.                             *)
LEMMA FoundMore ==
  ASSUME NEW lookup \in LookupItems, NEW writable \in BOOLEAN,
         NEW list \in Seq(Refs), NEW index \in Nat, NEW s \in Searches, FoundIn(list, index, s)
  PROVE  FoundIn(list \o LoadedBy(lookup, writable), index,
                 Visit(s, lookup.key, IndexesOf(lookup, writable), writable))
<1> DEFINE more == LoadedBy(lookup, writable)
           all == list \o more
           t == Visit(s, lookup.key, IndexesOf(lookup, writable), writable)
<1>1. /\ more \in Seq(Refs) /\ t \in Searches
      /\ s.ref # NoRef => t = s
      /\ s.ref = NoRef /\ s.left < Len(more) => t.ref = more[s.left + 1]
      /\ s.ref = NoRef /\ s.left >= Len(more) => t = [s EXCEPT !.left = s.left - Len(more)]
  BY LoadedByIs, VisitIs
<1> HIDE DEF more, t
<1>2. /\ Len(list) \in Nat /\ Len(more) \in Nat /\ Len(all) = Len(list) + Len(more)
      /\ \A i \in 1..Len(list) : all[i] = list[i]
      /\ \A i \in 1..Len(more) : all[Len(list) + i] = more[i]
  BY <1>1, ConcatIs
<1>3. s.left \in Nat /\ s = [ref |-> s.ref, left |-> s.left]
  BY DEF Searches
<1> HIDE DEF all
<1>4. CASE index < Len(list)
  <2>1. s.ref = list[index + 1] /\ s.ref # NoRef /\ t = s
    BY <1>1, <1>4 DEF FoundIn
  <2>2. index + 1 \in 1..Len(list) /\ index < Len(all)
    BY <1>2, <1>4
  <2>3. all[index + 1] = list[index + 1]
    BY <1>2, <2>2
  <2>4. FoundIn(all, index, t)
    BY <2>1, <2>2, <2>3 DEF FoundIn
  <2> QED
    BY <2>4 DEF all, more, t
<1>5. CASE index >= Len(list) /\ index < Len(list) + Len(more)
  <2>1. s.ref = NoRef /\ s.left = index - Len(list)
    BY <1>2, <1>5 DEF FoundIn
  <2> DEFINE i == s.left + 1
  <2>2. i \in 1..Len(more) /\ Len(list) + i = index + 1 /\ s.left < Len(more)
    BY <1>2, <1>5, <2>1
  <2>3. t.ref = more[i]
    BY <1>1, <2>1, <2>2
  <2> HIDE DEF i
  <2>4. all[index + 1] = more[i]
    BY <1>2, <2>2
  <2>5. more[i] \in Refs
    BY <1>1, <2>2, ElementOfSeq
  <2>6. FoundIn(all, index, t)
    BY <1>2, <1>5, <2>3, <2>4, <2>5, RefsAreRefs DEF FoundIn
  <2> QED
    BY <2>6 DEF all, more, t
<1>6. CASE index >= Len(list) + Len(more)
  <2>1. s.ref = NoRef /\ s.left = index - Len(list) /\ s.left >= Len(more)
    BY <1>2, <1>6 DEF FoundIn
  <2>2. t = [s EXCEPT !.left = s.left - Len(more)]
    BY <1>1, <2>1
  <2>3. t.ref = NoRef /\ t.left = s.left - Len(more)
    BY <1>3, <2>1, <2>2
  <2>4. t.left = index - Len(all)
    BY <1>2, <2>1, <2>3
  <2>5. FoundIn(all, index, t)
    BY <1>2, <1>6, <2>3, <2>4 DEF FoundIn
  <2> QED
    BY <2>5 DEF all, more, t
<1> QED
  BY <1>2, <1>4, <1>5, <1>6

(* So the loop searches what all of them load.                             *)
LEMMA VisitAllFinds ==
  ASSUME NEW lookups \in Seq(LookupItems), NEW writable \in BOOLEAN, NEW start \in Searches
  PROVE  /\ VisitAll(start, lookups, writable) \in Searches
         /\ start.ref # NoRef => VisitAll(start, lookups, writable) = start
         /\ start.ref = NoRef =>
              FoundIn(FlattenSeq(Loaded(lookups, writable)), start.left,
                      VisitAll(start, lookups, writable))
<1> DEFINE n == Len(lookups)
           seqs == Loaded(lookups, writable)
<1>1. /\ n \in Nat /\ Visits(lookups, writable) \in [1..n -> [Searches -> Searches]]
      /\ \A k \in 1..n : \A s \in Searches :
              Visits(lookups, writable)[k][s]
                = Visit(s, lookups[k].key, IndexesOf(lookups[k], writable), writable)
  BY VisitsIs
<1>2. /\ seqs \in Seq(Seq(Refs)) /\ Len(seqs) = n
      /\ \A k \in 1..n : lookups[k] \in LookupItems /\ seqs[k] = LoadedBy(lookups[k], writable)
  BY LoadedIs
<1>3. PICK g \in LoopRuns(Searches, Visits(lookups, writable), start, n) :
            VisitAll(start, lookups, writable) = g[n]
  BY VisitAllRun
<1>4. /\ g \in [0..n -> Searches] /\ g[0] = start
      /\ \A k \in 1..n : g[k] = Visits(lookups, writable)[k][g[k - 1]]
  BY <1>3 DEF LoopRuns
<1> HIDE DEF n, seqs
<1>5. PICK f \in LoopRuns(Seq(Refs), Joining(Refs, seqs), <<>>, n) : FlattenSeq(seqs) = f[n]
  BY <1>2, FlattenRun
<1>6. f \in [0..n -> Seq(Refs)] /\ f[0] = <<>> /\ \A k \in 1..n : f[k] = f[k - 1] \o seqs[k]
  BY <1>2, <1>5, JoiningRun
<1>7. \A k \in 1..n : g[k] = Visit(g[k - 1], lookups[k].key,
                                   IndexesOf(lookups[k], writable), writable)
  <2>1. \A k \in 1..n : k - 1 \in 0..n
    BY <1>1
  <2>2. \A k \in 1..n : g[k - 1] \in Searches
    BY <1>4, <2>1
  <2> QED
    BY <1>1, <1>4, <2>2
<1> DEFINE Done(k) == /\ start.ref # NoRef => g[k] = start
                      /\ start.ref = NoRef => FoundIn(f[k], start.left, g[k])
           T == {k \in Nat : k <= n => Done(k)}
<1>8. start.left \in Nat
  BY DEF Searches
<1>9. 0 \in T
  <2>1. Len(f[0]) = 0
    BY <1>6
  <2>2. start.ref = NoRef => FoundIn(f[0], start.left, g[0])
    BY <1>4, <1>8, <2>1 DEF FoundIn
  <2> QED
    BY <1>4, <2>2
<1>10. \A k \in Nat : k \in T => k + 1 \in T
  <2> SUFFICES ASSUME NEW k \in Nat, k \in T, k + 1 <= n
               PROVE  Done(k + 1)
    OBVIOUS
  <2>1. k + 1 \in 1..n /\ (k + 1) - 1 = k /\ k \in 0..n /\ k <= n
    BY <1>1
  <2>2. Done(k)
    BY <2>1
  <2> DEFINE lookup == lookups[k + 1]
             s == g[k]
             t == g[k + 1]
             list == f[k]
  <2>3. lookup \in LookupItems /\ s \in Searches /\ list \in Seq(Refs)
    BY <1>2, <1>4, <1>6, <2>1
  <2>4. t = Visit(s, lookup.key, IndexesOf(lookup, writable), writable)
    BY <1>7, <2>1
  <2>5. f[k + 1] = list \o LoadedBy(lookup, writable)
    BY <1>2, <1>6, <2>1
  <2> HIDE DEF lookup, s, t, list
  <2>6. s.ref # NoRef => t = s
    BY <2>3, <2>4, VisitIs
  <2>7. FoundIn(list, start.left, s) =>
          FoundIn(list \o LoadedBy(lookup, writable), start.left, t)
    BY <1>8, <2>3, <2>4, FoundMore
  <2>8. (start.ref # NoRef => s = start) /\ (start.ref = NoRef => FoundIn(list, start.left, s))
    BY <2>2 DEF s, list
  <2>9. /\ start.ref # NoRef => t = start
        /\ start.ref = NoRef => FoundIn(f[k + 1], start.left, t)
    BY <2>5, <2>6, <2>7, <2>8
  <2> QED
    BY <2>9 DEF t
<1> HIDE DEF T, Done
<1>11. Nat \subseteq T
  BY <1>9, <1>10, Induction
<1>12. Done(n) /\ g[n] \in Searches
  <2>1. n \in 0..n /\ n <= n
    BY <1>1
  <2> QED
    BY <1>1, <1>4, <1>11, <2>1 DEF T
<1> QED
  BY <1>3, <1>5, <1>12 DEF Done, seqs

(* The two loops find what stands at the index in their lists joined.      *)
LEMMA SearchFinds ==
  ASSUME NEW lookups \in Seq(LookupItems), NEW index \in Nat
  PROVE  LET all == FlattenSeq(Loaded(lookups, TRUE)) \o FlattenSeq(Loaded(lookups, FALSE))
         IN  SearchLookups(lookups, index)
               = IF index < Len(all) THEN all[index + 1] ELSE NoRef
<1> DEFINE first == FlattenSeq(Loaded(lookups, TRUE))
           second == FlattenSeq(Loaded(lookups, FALSE))
           all == first \o second
           start == [ref |-> NoRef, left |-> index]
           s == VisitAll(start, lookups, TRUE)
           t == VisitAll(s, lookups, FALSE)
<1>1. first \in Seq(Refs) /\ second \in Seq(Refs)
  BY LoadedIs, FlattenIs
<1>2. start \in Searches /\ start.ref = NoRef /\ start.left = index
  BY DEF Searches
<1>3. SearchLookups(lookups, index) = t.ref
  BY DEF SearchLookups
<1> HIDE DEF start
<1>4. s \in Searches /\ FoundIn(first, index, s)
  BY <1>2, VisitAllFinds
<1> HIDE DEF s
<1>5. /\ s.ref # NoRef => t = s
      /\ s.ref = NoRef => FoundIn(second, s.left, t)
  BY <1>4, VisitAllFinds
<1> HIDE DEF t, first, second
<1>6. /\ Len(first) \in Nat /\ Len(second) \in Nat /\ Len(all) = Len(first) + Len(second)
      /\ \A i \in 1..Len(first) : all[i] = first[i]
      /\ \A i \in 1..Len(second) : all[Len(first) + i] = second[i]
  BY <1>1, ConcatIs
<1> HIDE DEF all
<1>7. CASE index < Len(first)
  <2>1. s.ref = first[index + 1] /\ t.ref = s.ref
    BY <1>4, <1>5, <1>7 DEF FoundIn
  <2>2. index + 1 \in 1..Len(first) /\ index < Len(all)
    BY <1>6, <1>7
  <2>3. all[index + 1] = first[index + 1]
    BY <1>6, <2>2
  <2> QED
    BY <1>3, <2>1, <2>2, <2>3 DEF all, first, second
<1>8. CASE index >= Len(first)
  <2> DEFINE left == index - Len(first)
  <2>1. s.ref = NoRef /\ s.left = left
    BY <1>4, <1>6, <1>8 DEF FoundIn
  <2>2. FoundIn(second, left, t)
    BY <1>5, <2>1
  <2>3. /\ left \in Nat /\ index = Len(first) + left /\ (index < Len(all) <=> left < Len(second))
        /\ index + 1 = Len(first) + (left + 1)
    BY <1>6, <1>8
  <2> HIDE DEF left
  <2>4. CASE left < Len(second)
    <3>1. t.ref = second[left + 1] /\ left + 1 \in 1..Len(second)
      BY <1>6, <2>2, <2>3, <2>4 DEF FoundIn
    <3>2. all[index + 1] = second[left + 1]
      BY <1>6, <2>3, <3>1
    <3> QED
      BY <1>3, <2>3, <2>4, <3>1, <3>2 DEF all, first, second
  <2>5. CASE ~(left < Len(second))
    <3>1. t.ref = NoRef
      BY <2>2, <2>5 DEF FoundIn
    <3> QED
      BY <1>3, <2>3, <2>5, <3>1 DEF all, first, second
  <2> QED
    BY <2>4, <2>5
<1>9. index < Len(first) \/ index >= Len(first)
  BY <1>6
<1> QED
  BY <1>7, <1>8, <1>9, Zenon

(* The accounts of what a view reads: its keys, then what the lookups load. *)
Statics(v) == {StaticRef(v, index) : index \in 0..(v.static_account_count - 1)}

(* They, in the order of the keys.                                         *)
StaticRefs(v) == [k \in 1..v.static_account_count |-> StaticRef(v, k - 1)]

(* There is one for each key.                                              *)
LEMMA StaticRefsAre ==
  ASSUME NEW v, v.static_account_count \in Nat
  PROVE  /\ StaticRefs(v) \in Seq(Statics(v)) /\ Len(StaticRefs(v)) = v.static_account_count
         /\ \A ref \in Statics(v) : ref # NoRef
<1> DEFINE n == v.static_account_count
<1>1. \A k \in 1..n : k - 1 \in 0..(n - 1)
  OBVIOUS
<1>2. StaticRefs(v) \in [1..n -> Statics(v)]
  BY <1>1 DEF StaticRefs, Statics
<1>3. n \in Nat
  OBVIOUS
<1> HIDE DEF n
<1>4. StaticRefs(v) \in Seq(Statics(v)) /\ Len(StaticRefs(v)) = n
  BY <1>2, <1>3, FunctionIsSeq
<1>5. \A index : StaticRef(v, index) # NoRef
  <2> SUFFICES ASSUME NEW index PROVE StaticRef(v, index) # NoRef
    OBVIOUS
  <2>1. StaticRef(v, index).kind = "static" /\ NoRef.kind = "none"
    BY DEF StaticRef, NoRef
  <2> QED
    BY <2>1
<1> QED
  BY <1>4, <1>5 DEF Statics, n

(* Solana's list: the keys, then what is loaded writable, then readonly.   *)
LEMMA AccountsSplit ==
  ASSUME NEW m
  PROVE  Accounts(m) =
           [k \in 1..Len(m.keys) |->
              [kind |-> "static", pubkey |-> m.keys[k], signer |-> k <= m.header.signers,
               writable |-> \/ k <= m.header.signers - m.header.readonly_signed
                            \/ k > m.header.signers
                               /\ k <= Len(m.keys) - m.header.readonly_unsigned]]
           \o FlattenSeq(Loaded(m.lookups, TRUE)) \o FlattenSeq(Loaded(m.lookups, FALSE))
BY DEF Accounts, Loaded, LoadedBy, IndexesOf

(* A key signs and is written as the header says.                          *)
LEMMA SignersAndWritable ==
  ASSUME NEW v, v.header \in Headers, v.static_account_count \in Nat,
         NEW k \in 1..v.static_account_count,
         NEW pubkey, pubkey = static_account(v, k - 1)
  PROVE  StaticRef(v, k - 1) =
           [kind |-> "static", pubkey |-> pubkey, signer |-> k <= v.header.signers,
            writable |-> \/ k <= v.header.signers - v.header.readonly_signed
                         \/ k > v.header.signers
                            /\ k <= v.static_account_count - v.header.readonly_unsigned]
<1> DEFINE s == v.header.signers
           rs == v.header.readonly_signed
           ru == v.header.readonly_unsigned
           n == v.static_account_count
           j == k - 1
           w == IF j < s THEN j < s - rs ELSE j < n - ru
           x == k <= s - rs \/ (k > s /\ k <= n - ru)
           y == j < s
           z == k <= s
<1>1. s \in Nat /\ rs \in Nat /\ ru \in Nat /\ n \in Nat /\ j \in Nat /\ k = j + 1
  BY FlagIs DEF Headers, Bytes, U8
<1>2. StaticRef(v, j) = [kind |-> "static", pubkey |-> static_account(v, j),
                         signer |-> y, writable |-> w]
  BY DEF StaticRef
<1> HIDE DEF s, rs, ru, n, j
<1>3. w \in BOOLEAN /\ x \in BOOLEAN /\ y \in BOOLEAN /\ z \in BOOLEAN
  <2>1. (j < s - rs) \in BOOLEAN /\ (j < n - ru) \in BOOLEAN
    BY <1>1
  <2>2. w \in BOOLEAN
    BY <2>1
  <2>3. x \in BOOLEAN
    OBVIOUS
  <2>4. y \in BOOLEAN
    BY <1>1
  <2>5. z \in BOOLEAN
    BY <1>1
  <2> QED
    BY ONLY <2>2, <2>3, <2>4, <2>5
<1>4. (w <=> x) /\ (y <=> z)
  BY <1>1
<1> HIDE DEF w, x, y, z
<1>5. w = x /\ y = z
  BY <1>3, <1>4
<1>6. pubkey = static_account(v, j)
  BY DEF j
<1>7. StaticRef(v, j) = [kind |-> "static", pubkey |-> pubkey, signer |-> z, writable |-> x]
  BY <1>2, <1>5, <1>6
<1> QED
  BY <1>7 DEF j, x, z, s, rs, ru, n

(* The same list, as the view's operations tell it.                        *)
AccountsOf(v) ==
  StaticRefs(v) \o (FlattenSeq(Loaded(address_table_lookups(v).items, TRUE))
                    \o FlattenSeq(Loaded(address_table_lookups(v).items, FALSE)))

(* A byte can hold the index of each key when there are no more of them.   *)
LEMMA IndexIsKept ==
  ASSUME NEW k \in Nat, 1 <= k, EachHasAnIndex(k)
  PROVE  (k - 1) % U8 = k - 1
<1>1. U8 \in Nat /\ k <= U8
  BY FlagIs DEF U8, EachHasAnIndex
<1>2. k - 1 \in 0..(U8 - 1)
  BY <1>1
<1> DEFINE i == k - 1
<1>3. i % U8 = i
  BY <1>1, <1>2
<1> QED
  BY <1>3

(* What follows on two sequences of one length stands at the same places.  *)
LEMMA SameTail ==
  ASSUME NEW S, NEW s \in Seq(S), NEW t \in Seq(S), NEW r \in Seq(S), Len(s) = Len(t)
  PROVE  /\ Len(s \o r) = Len(t \o r) /\ Len(t \o r) \in Nat
         /\ \A k \in 1..Len(t \o r) :
              (k <= Len(t) => s[k] = t[k]) => (s \o r)[k] = (t \o r)[k]
<1> DEFINE x == s \o r
           y == t \o r
<1>1. /\ Len(s) \in Nat /\ Len(r) \in Nat /\ Len(x) = Len(s) + Len(r)
      /\ \A k \in 1..Len(s) : x[k] = s[k]
      /\ \A k \in 1..Len(r) : x[Len(s) + k] = r[k]
  BY ONLY ConcatIs
<1>2. /\ Len(y) = Len(t) + Len(r)
      /\ \A k \in 1..Len(t) : y[k] = t[k]
      /\ \A k \in 1..Len(r) : y[Len(t) + k] = r[k]
  BY ONLY ConcatIs
<1> HIDE DEF x, y
<1>3. ASSUME NEW k \in 1..Len(y), k <= Len(t) => s[k] = t[k]
      PROVE  x[k] = y[k]
  <2>1. CASE k <= Len(t)
    BY <1>1, <1>2, <1>3, <2>1
  <2>2. CASE ~(k <= Len(t))
    <3> DEFINE j == k - Len(t)
    <3>1. j \in 1..Len(r) /\ k = Len(s) + j /\ k = Len(t) + j
      BY <1>1, <1>2, <2>2
    <3> HIDE DEF j
    <3>2. x[Len(s) + j] = r[j]
      BY <1>1, <3>1
    <3>3. y[Len(t) + j] = r[j]
      BY <1>2, <3>1
    <3> QED
      BY <3>1, <3>2, <3>3
  <2> QED
    BY <2>1, <2>2
<1> QED
  BY <1>1, <1>2, <1>3 DEF x, y

(* The accounts of the message that the view reads are as many, and the    *)
(* same up to the last one that has an index.                              *)
LEMMA AccountsOfRead ==
  ASSUME NEW b \in Seq(Bytes), NEW v, Found(b, v), v.minimal
  PROVE  /\ Len(Accounts(Read(v))) = Len(AccountsOf(v)) /\ Len(AccountsOf(v)) \in Nat
         /\ \A k \in 1..Len(AccountsOf(v)) :
              EachHasAnIndex(k) => Accounts(Read(v))[k] = AccountsOf(v)[k]
<1> DEFINE m == Read(v)
           n == v.static_account_count
           lookups == address_table_lookups(v).items
           writable == FlattenSeq(Loaded(lookups, TRUE))
           readonly == FlattenSeq(Loaded(lookups, FALSE))
           static(k) == [kind |-> "static", pubkey |-> m.keys[k], signer |-> k <= v.header.signers,
                         writable |-> \/ k <= v.header.signers - v.header.readonly_signed
                                      \/ k > v.header.signers
                                         /\ k <= n - v.header.readonly_unsigned]
           statics == [k \in 1..n |-> static(k)]
           Every == Statics(v) \cup {static(k) : k \in 1..n} \cup Refs
<1>1. n \in Nat /\ v.header \in Headers
  BY DEF Found, Counts
<1>2. /\ m.header = v.header /\ m.lookups = lookups
      /\ m.keys = [k \in 1..n |-> static_account(v, (k - 1) % U8)]
  BY DEF Read
<1>3. Len(m.keys) = n /\ \A k \in 1..n : m.keys[k] = static_account(v, (k - 1) % U8)
  <2> DEFINE Slices == {static_account(v, (k - 1) % U8) : k \in 1..n}
             keys == [k \in 1..n |-> static_account(v, (k - 1) % U8)]
  <2>1. keys \in [1..n -> Slices] /\ \A k \in 1..n : keys[k] = static_account(v, (k - 1) % U8)
    OBVIOUS
  <2> HIDE DEF Slices, keys
  <2>2. Len(keys) = n
    BY <1>1, <2>1, FunctionIsSeq
  <2>3. m.keys = keys
    BY <1>2 DEF keys
  <2> QED
    BY <2>1, <2>2, <2>3
<1> HIDE DEF m
<1>4. Accounts(m) = statics \o writable \o readonly
  BY <1>2, <1>3, AccountsSplit
<1>5. ASSUME NEW k \in 1..n, EachHasAnIndex(k) PROVE static(k) = StaticRef(v, k - 1)
  <2>1. m.keys[k] = static_account(v, k - 1)
    BY <1>1, <1>3, <1>5, IndexIsKept
  <2> QED
    BY <1>1, <2>1, SignersAndWritable
<1>6. \A k \in 1..n : statics[k] \in Every /\ (EachHasAnIndex(k) => statics[k] = StaticRefs(v)[k])
  BY <1>5 DEF StaticRefs
<1>7. lookups \in Seq(LookupItems)
  BY AddressTableLookupsOf DEF LookupsOf
<1> HIDE DEF lookups
<1>8. writable \in Seq(Refs) /\ readonly \in Seq(Refs)
  BY <1>7, LoadedIs, FlattenIs
<1> HIDE DEF writable, readonly
<1>9. /\ statics \in [1..n -> Every] /\ StaticRefs(v) \in Seq(Statics(v))
      /\ Len(StaticRefs(v)) = n
  BY <1>1, <1>6, StaticRefsAre
<1> HIDE DEF static, statics
<1>10. /\ StaticRefs(v) \in Seq(Every) /\ writable \in Seq(Every) /\ readonly \in Seq(Every)
       /\ statics \in Seq(Every) /\ Len(statics) = n
  <2> DEFINE S == Every
  <2>1. statics \in [1..n -> S]
    BY <1>9
  <2>2. StaticRefs(v) \in Seq(S) /\ writable \in Seq(S) /\ readonly \in Seq(S)
    BY <1>8, <1>9
  <2> HIDE DEF S
  <2>3. statics \in Seq(S) /\ Len(statics) = n
    BY <1>1, <2>1, FunctionIsSeq
  <2> QED
    BY <2>2, <2>3 DEF S
<1> HIDE DEF Every
<1> DEFINE first == StaticRefs(v)
           rest == writable \o readonly
<1>11. first \in Seq(Every) /\ Len(first) = n
  BY <1>9, <1>10
<1> HIDE DEF first
<1>12. (statics \o writable) \o readonly = statics \o rest
  <2>1. statics \in Seq(Every) /\ writable \in Seq(Every) /\ readonly \in Seq(Every)
    BY <1>10
  <2> QED
    BY ONLY <2>1, ConcatAssociative
<1>13. rest \in Seq(Every)
  BY <1>10, ConcatIs
<1> HIDE DEF rest
<1>14. \A k \in 1..n : EachHasAnIndex(k) => statics[k] = first[k]
  BY <1>6 DEF first
<1>15. /\ Len(statics \o rest) = Len(first \o rest) /\ Len(first \o rest) \in Nat
       /\ \A k \in 1..Len(first \o rest) :
            (k <= Len(first) => statics[k] = first[k]) => (statics \o rest)[k] = (first \o rest)[k]
  <2>1. /\ statics \in Seq(Every) /\ first \in Seq(Every) /\ rest \in Seq(Every)
        /\ Len(statics) = Len(first)
    BY <1>10, <1>11, <1>13
  <2> QED
    BY ONLY <2>1, SameTail
<1>16. Accounts(m) = statics \o rest /\ AccountsOf(v) = first \o rest
  BY <1>4, <1>12 DEF AccountsOf, first, rest, writable, readonly, lookups
<1> DEFINE all == AccountsOf(v)
           read == Accounts(m)
<1>17. /\ Len(read) = Len(all) /\ Len(all) \in Nat
       /\ \A k \in 1..Len(all) : (k <= Len(first) => statics[k] = first[k]) => read[k] = all[k]
  BY <1>15, <1>16
<1> HIDE DEF read, all
<1>18. ASSUME NEW k \in 1..Len(all), EachHasAnIndex(k) PROVE read[k] = all[k]
  BY <1>1, <1>11, <1>14, <1>17, <1>18
<1> QED
  BY <1>17, <1>18 DEF m, read, all

(* What an index names, of the accounts of a view.                         *)
LEMMA AccountRefIs ==
  ASSUME NEW b \in Seq(Bytes), NEW v, Found(b, v), v.minimal
  PROVE  /\ Len(AccountsOf(v)) = total_account_count(v) /\ total_account_count(v) \in Nat
         /\ \A index \in Nat :
              account_ref(v, index) =
                IF index < Len(AccountsOf(v)) THEN AccountsOf(v)[index + 1] ELSE NoRef
         /\ \A k \in 1..Len(AccountsOf(v)) : AccountsOf(v)[k] # NoRef
<1> DEFINE n == v.static_account_count
           found == address_table_lookups(v)
           lookups == found.items
           writable == FlattenSeq(Loaded(lookups, TRUE))
           readonly == FlattenSeq(Loaded(lookups, FALSE))
           loaded == writable \o readonly
           statics == StaticRefs(v)
           Every == Statics(v) \cup Refs
           all == statics \o loaded
<1>1. n \in Nat /\ v.loaded_writable \in Nat /\ v.loaded_readonly \in Nat
  BY DEF Found, Counts
<1>2. found.c.ok /\ LookupsOf(b, v, lookups)
  BY AddressTableLookupsOf
<1> HIDE DEF found
<1>21. lookups \in Seq(LookupItems)
  BY <1>2 DEF LookupsOf
<1> DEFINE list == lookups
<1>22. list \in Seq(LookupItems)
  BY <1>21
<1>23. Totals(list, TRUE, v.loaded_writable) # {} /\ Totals(list, FALSE, v.loaded_readonly) # {}
  BY <1>2 DEF LookupsOf
<1> HIDE DEF list
<1>3. /\ FlattenSeq(Loaded(list, TRUE)) \in Seq(Refs)
      /\ FlattenSeq(Loaded(list, FALSE)) \in Seq(Refs)
      /\ Len(FlattenSeq(Loaded(list, TRUE))) = v.loaded_writable
      /\ Len(FlattenSeq(Loaded(list, FALSE))) = v.loaded_readonly
  BY <1>22, <1>23, LoadedIs, FlattenIs, LoadedCount
<1>4. /\ writable \in Seq(Refs) /\ readonly \in Seq(Refs)
      /\ Len(writable) = v.loaded_writable /\ Len(readonly) = v.loaded_readonly
  BY <1>3 DEF list
<1>5. \A left \in Nat : SearchLookups(list, left) =
        IF left < Len(FlattenSeq(Loaded(list, TRUE)) \o FlattenSeq(Loaded(list, FALSE)))
        THEN (FlattenSeq(Loaded(list, TRUE)) \o FlattenSeq(Loaded(list, FALSE)))[left + 1]
        ELSE NoRef
  BY <1>22, SearchFinds
<1>6. \A left \in Nat : SearchLookups(lookups, left) =
                          IF left < Len(loaded) THEN loaded[left + 1] ELSE NoRef
  BY <1>5 DEF list
<1>7. \A index : account_ref(v, index) =
        IF index < n THEN StaticRef(v, index) ELSE SearchLookups(lookups, index - n)
  BY <1>2 DEF account_ref, found
<1>8. AccountsOf(v) = all
  BY DEF AccountsOf, found
<1> HIDE DEF lookups, writable, readonly
<1>9. loaded \in Seq(Refs) /\ Len(loaded) = v.loaded_writable + v.loaded_readonly
  <2>1. writable \in Seq(Refs) /\ readonly \in Seq(Refs)
    BY <1>4
  <2>2. loaded \in Seq(Refs) /\ Len(loaded) = Len(writable) + Len(readonly)
    BY ONLY <2>1, ConcatIs DEF loaded
  <2> QED
    BY <1>4, <2>2
<1> HIDE DEF loaded
<1>10. /\ statics \in Seq(Statics(v)) /\ Len(statics) = n
       /\ \A ref \in Statics(v) \cup Refs : ref # NoRef
  BY <1>1, StaticRefsAre, RefsAreRefs
<1>11. \A index \in 0..(n - 1) : statics[index + 1] = StaticRef(v, index)
  BY <1>1 DEF StaticRefs
<1> HIDE DEF statics
<1>12. statics \in Seq(Every) /\ loaded \in Seq(Every)
  BY <1>9, <1>10
<1> HIDE DEF Every
<1>13. /\ all \in Seq(Every) /\ Len(all) = n + Len(loaded)
       /\ Len(loaded) \in Nat
       /\ \A i \in 1..n : all[i] = statics[i]
       /\ \A i \in 1..Len(loaded) : all[n + i] = loaded[i]
  <2> DEFINE first == Len(statics)
  <2>1. /\ all \in Seq(Every) /\ first \in Nat /\ Len(loaded) \in Nat
        /\ Len(all) = first + Len(loaded)
        /\ \A i \in 1..first : all[i] = statics[i]
        /\ \A i \in 1..Len(loaded) : all[first + i] = loaded[i]
    BY <1>12, ConcatIs
  <2>2. first = n
    BY <1>10
  <2> HIDE DEF first, all
  <2> QED
    BY <2>1, <2>2
<1> HIDE DEF all
<1>14. Len(all) = total_account_count(v) /\ total_account_count(v) \in Nat
  BY <1>1, <1>9, <1>13 DEF total_account_count
<1>15. \A k \in 1..Len(all) : all[k] # NoRef
  <2>1. \A k \in 1..Len(all) : all[k] \in Every
    BY <1>13, ElementOfSeq
  <2> QED
    BY <1>10, <2>1 DEF Every
<1>16. ASSUME NEW index \in Nat
       PROVE  account_ref(v, index) = IF index < Len(all) THEN all[index + 1] ELSE NoRef
  <2>1. CASE index < n
    <3>1. index \in 0..(n - 1) /\ index + 1 \in 1..n /\ index < Len(all)
      BY <1>1, <1>13, <2>1
    <3> QED
      BY <1>7, <1>11, <1>13, <2>1, <3>1
  <2>2. CASE ~(index < n)
    <3> DEFINE left == index - n
    <3>1. left \in Nat /\ index + 1 = n + (left + 1) /\ (index < Len(all) <=> left < Len(loaded))
      BY <1>1, <1>13, <2>2
    <3>2. account_ref(v, index) = SearchLookups(lookups, left)
      BY <1>7, <2>2
    <3> HIDE DEF left
    <3>3. account_ref(v, index) = IF left < Len(loaded) THEN loaded[left + 1] ELSE NoRef
      BY <1>6, <3>1, <3>2
    <3>4. left < Len(loaded) => all[index + 1] = loaded[left + 1]
      BY <1>13, <3>1
    <3> QED
      BY <3>1, <3>3, <3>4
  <2> QED
    BY <2>1, <2>2
<1> QED
  BY <1>8, <1>14, <1>15, <1>16

(* The indexes of the instructions are below the count they were validated *)
(* against.                                                                *)
LEMMA IndexesAreBelow ==
  ASSUME NEW b \in Seq(Bytes), NEW v, Found(b, v),
         NEW i \in 1..v.instruction_count,
         NEW index \in {instructions(v).items[i].program}
                         \cup ToSet(instructions(v).items[i].accounts)
  PROVE  index \in Nat /\ index < total_account_count(v)
<1> DEFINE all == instructions(v)
           items == all.items
           instruction == items[i]
           accounts == instruction.accounts
<1>1. items \in Seq(InstructionType) /\ Len(items) = v.instruction_count
  BY InstructionsOf
<1>2. \A j \in 1..Len(items) :
           /\ items[j].program < total_account_count(v)
           /\ \A k \in 1..Len(items[j].accounts) : items[j].accounts[k] < total_account_count(v)
  BY DEF Found, valid_indexes
<1> HIDE DEF items
<1>3. instruction \in InstructionType
  BY <1>1, ElementOfSeq
<1>4. /\ instruction.program < total_account_count(v)
      /\ \A k \in 1..Len(accounts) : accounts[k] < total_account_count(v)
  BY <1>1, <1>2
<1>5. index \in {instruction.program} \cup ToSet(accounts)
  BY DEF items
<1> HIDE DEF instruction
<1>6. instruction.program \in Bytes /\ accounts \in Seq(Bytes)
  BY <1>3 DEF InstructionType
<1> HIDE DEF accounts
<1>7. Bytes \subseteq Nat
  BY FlagIs DEF Bytes, U8
<1>8. CASE index = instruction.program
  BY <1>4, <1>6, <1>7, <1>8
<1>9. CASE index \in ToSet(accounts)
  <2>1. PICK k \in DOMAIN accounts : index = accounts[k]
    BY <1>9 DEF ToSet
  <2>2. k \in 1..Len(accounts)
    BY <1>6, <2>1, LenProperties
  <2>3. accounts[k] \in Bytes
    BY <1>6, <2>2, ElementOfSeq
  <2> QED
    BY <1>4, <1>7, <2>1, <2>2, <2>3
<1> QED
  BY <1>5, <1>8, <1>9

(* In every state, the account that an index of an accepted message names  *)
(* for the app, key, signer and writable flags included, is the one that   *)
(* it names in Solana's list of the message.                               *)
THEOREM IndexesNameSolanasAccounts == Spec => []AccountsAreSolanas
<1>1. Inv => AccountsAreSolanas
  <2> SUFFICES ASSUME Inv, view.ok, view.minimal
               PROVE  AccountsAreSolanas
    BY DEF AccountsAreSolanas
  <2>1. input \in Seq(Bytes) /\ view = try_new(input)
    BY DEF Inv, Unparsed
  <2>2. Found(input, view)
    BY <2>1, TryNewFinds
  <2> DEFINE all == AccountsOf(view)
           accounts == Accounts(Read(view))
  <2>3. /\ Len(accounts) = Len(all)
        /\ \A k \in 1..Len(all) : EachHasAnIndex(k) => accounts[k] = all[k]
    BY <2>1, <2>2, AccountsOfRead
  <2>4. /\ Len(all) = total_account_count(view) /\ total_account_count(view) \in Nat
        /\ \A index \in Nat :
             account_ref(view, index) = IF index < Len(all) THEN all[index + 1] ELSE NoRef
        /\ \A k \in 1..Len(all) : all[k] # NoRef
    BY <2>1, <2>2, AccountRefIs
  <2> HIDE DEF all, accounts
  <2>5. \A index \in Bytes :
           account_ref(view, index) = IF index < Len(accounts) THEN accounts[index + 1] ELSE NoRef
    <3> SUFFICES ASSUME NEW index \in Bytes
                 PROVE  account_ref(view, index) =
                          IF index < Len(accounts) THEN accounts[index + 1] ELSE NoRef
      OBVIOUS
    <3>1. index \in Nat /\ EachHasAnIndex(index + 1)
      BY FlagIs DEF Bytes, U8, EachHasAnIndex
    <3>2. index < Len(all) => index + 1 \in 1..Len(all)
      BY <2>4, <3>1
    <3> QED
      BY <2>3, <2>4, <3>1, <3>2
  <2>6. \A index \in Nat : index < Len(all) => account_ref(view, index) # NoRef
    <3> SUFFICES ASSUME NEW index \in Nat, index < Len(all)
                 PROVE  account_ref(view, index) # NoRef
      OBVIOUS
    <3>1. index + 1 \in 1..Len(all)
      BY <2>4
    <3> QED
      BY <2>4, <3>1
  <2>7. IndexesResolve
    <3> SUFFICES ASSUME NEW i \in 1..view.instruction_count,
                        NEW index \in {instructions(view).items[i].program}
                                        \cup ToSet(instructions(view).items[i].accounts)
                 PROVE  account_ref(view, index) # NoRef
      BY DEF IndexesResolve
    <3>1. index \in Nat /\ index < total_account_count(view)
      BY <2>1, <2>2, IndexesAreBelow
    <3> QED
      BY <2>4, <2>6, <3>1
  <2> QED
    BY <2>3, <2>4, <2>5, <2>7 DEF AccountsAreSolanas, accounts
<1> QED
  BY <1>1, Invariance, PTL

(* Taking the low digits off.                                              *)
LEMMA QuotientIs ==
  ASSUME NEW s \in Nat, 1 <= s, NEW a \in Nat, a < s, NEW q \in Nat
  PROVE  (a + s * q) \div s = q
<1> DEFINE v == a + s * q
           p == v \div s
<1>1. v \in Nat /\ s \in Nat \ {0} /\ v = q * s + a
  OBVIOUS
<1>2. p \in Nat /\ p * s <= v /\ v < p * s + s
  BY <1>1, Quotient
<1> HIDE DEF p, v
<1>3. p * s \in Nat /\ q * s \in Nat
  BY <1>2
<1>4. ASSUME p < q PROVE FALSE
  <2>1. p + 1 \in Nat /\ p + 1 <= q
    BY <1>2, <1>4
  <2>2. (p + 1) * s <= q * s
    BY <2>1, Products
  <2>3. (p + 1) * s = p * s + s
    BY <1>2
  <2> QED
    BY <1>1, <1>2, <1>3, <2>2, <2>3
<1>5. ASSUME q < p PROVE FALSE
  <2>1. q + 1 \in Nat /\ q + 1 <= p
    BY <1>2, <1>5
  <2>2. (q + 1) * s <= p * s
    BY <1>2, <2>1, Products
  <2>3. (q + 1) * s = q * s + s
    OBVIOUS
  <2> QED
    BY <1>1, <1>2, <1>3, <2>2, <2>3
<1> QED
  BY <1>2, <1>4, <1>5 DEF p, v

(* Keeping the low digits.                                                 *)
LEMMA RemainderIs ==
  ASSUME NEW s \in Nat, 1 <= s, NEW a \in Nat, a < s, NEW q \in Nat
  PROVE  (a + s * q) % s = a
<1> DEFINE v == a + s * q
<1>1. v \in Nat
  OBVIOUS
<1>2. v = s * (v \div s) + (v % s)
  BY <1>1
<1>3. v \div s = q
  BY QuotientIs
<1> HIDE DEF v
<1>4. v % s \in 0..(s - 1)
  BY <1>1
<1>5. v = s * q + (v % s) /\ s * q \in Nat
  BY <1>2, <1>3
<1>6. v = a + s * q
  BY DEF v
<1>7. v % s = a
  BY <1>4, <1>5, <1>6
<1> QED
  BY <1>7 DEF v

(* A digit of a value, between what is below it and what is above.         *)
LEMMA DigitIs ==
  ASSUME NEW base \in Nat, 1 <= base, NEW s \in Nat, 1 <= s, NEW below \in Nat, below < s,
         NEW digit \in Nat, digit < base, NEW above \in Nat
  PROVE  ((below + s * (digit + base * above)) \div s) % base = digit
<1> DEFINE q == digit + base * above
<1>1. q \in Nat
  OBVIOUS
<1>2. q % base = digit
  BY RemainderIs
<1> HIDE DEF q
<1>3. (below + s * q) \div s = q
  BY <1>1, QuotientIs
<1> QED
  BY <1>2, <1>3 DEF q

(* A digit more is less than the next power.                               *)
LEMMA DigitsBelow ==
  ASSUME NEW base \in Nat, NEW s \in Nat, NEW below \in Nat, below < s,
         NEW digit \in Nat, digit < base
  PROVE  below + digit * s < base * s
<1>1. digit + 1 \in Nat /\ digit + 1 <= base
  OBVIOUS
<1>2. (digit + 1) * s <= base * s
  BY <1>1, Products
<1>3. (digit + 1) * s = digit * s + s /\ digit * s \in Nat /\ base * s \in Nat
  OBVIOUS
<1> QED
  BY <1>2, <1>3

(* A shortvec that is as short as can be is the one of its value.          *)
LEMMA ShortvecAgain ==
  ASSUME NEW b \in Seq(Bytes), NEW o \in Nat, Readable(b, o), Minimal(b, o)
  PROVE  Shortvec(Value(b, o)) = Slice(b, o, o + Length(b, o))
<1> DEFINE n == Length(b, o)
           value == Value(b, o)
           d(k) == b[o + k] % Flag
<1>1. /\ n \in Nat \ {0} /\ o + n <= Len(b) /\ n \in shortvec_ends(b, o) /\ value \in Nat
      /\ \A k \in shortvec_ends(b, o) : n <= k
  BY EndsAre DEF Readable
<1>2. n = shortvec_len(value)
  BY DEF Minimal
<1>3. PICK f \in [0..n -> Nat] : /\ f[0] = 0 /\ \A k \in 1..n : f[k] = f[k - 1] + part(b, o, k)
                                 /\ shortvec_value(b, o, n) = f[n]
  BY <1>1, ValueRun
<1>4. f[n] = value
  BY <1>3 DEF Value
<1> HIDE DEF n, value
<1>5. /\ Flag \in Nat /\ Flag >= 2 /\ Len(b) \in Nat
  BY FlagIs, LenProperties
<1>6. ASSUME NEW k \in 1..n
      PROVE  /\ o + k \in 1..Len(b) /\ b[o + k] \in Bytes /\ b[o + k] \in Nat
             /\ d(k) \in Nat /\ d(k) < Flag
             /\ k - 1 \in Nat /\ k - 1 \in 0..n /\ k \in 0..n
             /\ part(b, o, k) = d(k) * Shift(k - 1)
  <2>1. o + k \in 1..Len(b)
    BY <1>1, <1>5
  <2>2. b[o + k] \in Bytes /\ b[o + k] \in Nat
    BY <2>1, ElementOfSeq, FlagIs
  <2>3. d(k) \in Nat /\ d(k) < Flag
    BY <1>5, <2>2
  <2> QED
    BY <1>1, <2>1, <2>2, <2>3 DEF part
<1>7. ASSUME NEW k \in 1..n
      PROVE  /\ Shift(k - 1) \in Nat /\ 1 <= Shift(k - 1) /\ Shift(k) \in Nat
             /\ Shift(k) = Flag * Shift(k - 1)
  <2> DEFINE j == k - 1
  <2>1. j \in Nat /\ k = j + 1
    BY <1>1
  <2> HIDE DEF j
  <2>2. /\ Shift(j) \in Nat /\ 1 <= Shift(j) /\ Shift(j + 1) = Flag * Shift(j)
        /\ Shift(j + 1) \in Nat
    <3>1. j + 1 \in Nat
      BY <2>1
    <3> QED
      BY <2>1, <3>1, ShiftIs
  <2> QED
    BY <2>1, <2>2 DEF j
<1> HIDE DEF d
<1> DEFINE T == {k \in Nat : k <= n => f[k] < Shift(k)}
<1>8. 0 \in T
  BY <1>3, ShiftIs
<1>9. \A k \in Nat : k \in T => k + 1 \in T
  <2> SUFFICES ASSUME NEW k \in Nat, k \in T, k + 1 <= n
               PROVE  f[k + 1] < Shift(k + 1)
    OBVIOUS
  <2>1. k + 1 \in 1..n /\ (k + 1) - 1 = k /\ k \in 0..n /\ k <= n
    BY <1>1
  <2>2. f[k] < Shift(k) /\ f[k] \in Nat
    BY <1>3, <2>1
  <2>3. d(k + 1) \in Nat /\ d(k + 1) < Flag /\ part(b, o, k + 1) = d(k + 1) * Shift(k)
    BY <1>6, <2>1
  <2>4. Shift(k) \in Nat /\ Shift(k + 1) = Flag * Shift(k)
    BY <1>7, <2>1
  <2>5. f[k] + d(k + 1) * Shift(k) < Flag * Shift(k)
    BY <1>5, <2>2, <2>3, <2>4, DigitsBelow
  <2> QED
    BY <1>3, <2>1, <2>3, <2>4, <2>5
<1> HIDE DEF T
<1>10. Nat \subseteq T
  BY <1>8, <1>9, Induction
<1>11. \A k \in 0..n : f[k] < Shift(k)
  BY <1>1, <1>10 DEF T
<1> DEFINE P == {k \in 0..n : \E above \in Nat : value = f[k] + Shift(k) * above}
<1>12. n \in P
  <2>1. n \in 0..n /\ Shift(n) \in Nat /\ f[n] \in Nat
    BY <1>1, <1>3, ShiftIs
  <2>2. value = f[n] + Shift(n) * 0
    BY <1>4, <2>1
  <2> QED
    BY <2>1, <2>2
<1>13. ASSUME NEW k \in 1..n, NEW above \in Nat, value = f[k] + Shift(k) * above
       PROVE  value = f[k - 1] + Shift(k - 1) * (d(k) + Flag * above)
  <2> DEFINE s == Shift(k - 1)
             a == f[k - 1]
             x == d(k)
  <2>1. s \in Nat /\ Shift(k) = Flag * s /\ x \in Nat /\ part(b, o, k) = x * s
    BY <1>6, <1>7
  <2>2. a \in Nat /\ f[k] = a + x * s
    BY <1>3, <1>6, <2>1
  <2> HIDE DEF s, a, x
  <2>3. value = a + x * s + (Flag * s) * above
    BY <1>13, <2>1, <2>2
  <2>4. x * s + (Flag * s) * above = s * (x + Flag * above)
    BY <1>5, <2>1
  <2>5. x * s \in Nat /\ (Flag * s) * above \in Nat /\ s * (x + Flag * above) \in Nat
    BY <1>5, <2>1
  <2>6. value = a + s * (x + Flag * above)
    BY <2>2, <2>3, <2>4, <2>5
  <2> QED
    BY <2>6 DEF a, s, x
<1>14. ASSUME NEW k \in 1..n, k \in P
       PROVE  k - 1 \in P
  <2>1. PICK above \in Nat : value = f[k] + Shift(k) * above
    BY <1>14
  <2>2. value = f[k - 1] + Shift(k - 1) * (d(k) + Flag * above)
    BY <1>13, <2>1
  <2>3. d(k) + Flag * above \in Nat /\ k - 1 \in 0..n
    BY <1>5, <1>6
  <2> QED
    BY <2>2, <2>3
<1>15. \A k \in 0..n : k \in P
  <2> HIDE DEF P
  <2> QED
    BY <1>1, <1>12, <1>14, Backwards
<1>16. ASSUME NEW k \in 1..n
       PROVE  (value \div Shift(k - 1)) % Flag = d(k)
  <2>1. k \in P
    BY <1>6, <1>15
  <2>2. PICK above \in Nat : value = f[k] + Shift(k) * above
    BY <2>1
  <2>3. value = f[k - 1] + Shift(k - 1) * (d(k) + Flag * above)
    BY <1>13, <2>2
  <2>4. /\ f[k - 1] \in Nat /\ f[k - 1] < Shift(k - 1) /\ Shift(k - 1) \in Nat
        /\ 1 <= Shift(k - 1) /\ d(k) \in Nat /\ d(k) < Flag
    BY <1>3, <1>6, <1>7, <1>11
  <2> DEFINE s == Shift(k - 1)
             a == f[k - 1]
             x == d(k)
  <2>5. s \in Nat /\ 1 <= s /\ a \in Nat /\ a < s /\ x \in Nat /\ x < Flag
    BY <2>4
  <2>6. value = a + s * (x + Flag * above)
    BY <2>3
  <2> HIDE DEF s, a, x
  <2>7. ((a + s * (x + Flag * above)) \div s) % Flag = x
    <3> DEFINE base == Flag
    <3>1. base \in Nat /\ 1 <= base /\ x < base
      BY <1>5, <2>5
    <3> HIDE DEF base
    <3>2. base \in Nat /\ 1 <= base /\ s \in Nat /\ 1 <= s /\ a \in Nat /\ a < s
          /\ x \in Nat /\ x < base /\ above \in Nat
      BY <2>5, <3>1
    <3> DEFINE q == x + base * above
    <3>3. q \in Nat
      BY <3>2
    <3>4. q % base = x
      BY ONLY <3>2, RemainderIs
    <3> HIDE DEF q
    <3>5. (a + s * q) \div s = q
      BY ONLY <3>2, <3>3, QuotientIs
    <3>6. ((a + s * q) \div s) % base = x
      BY ONLY <3>4, <3>5
    <3> QED
      BY <3>6 DEF q, base
  <2>8. (value \div s) % Flag = x
    BY <2>6, <2>7
  <2> QED
    BY <2>8 DEF s, x
<1>17. ASSUME NEW k \in 1..n
       PROVE  b[o + k] = d(k) + (IF k < n THEN Flag ELSE 0)
  <2>1. b[o + k] \in Nat /\ b[o + k] <= 2 * Flag - 1
    BY <1>6 DEF Bytes, U8
  <2>2. CASE k < n
    <3>1. k \notin shortvec_ends(b, o)
      BY <1>1, <2>2
    <3>2. k \in 1..((WordBits + GroupBits - 1) \div GroupBits)
      <4> DEFINE longest == (WordBits + GroupBits - 1) \div GroupBits
      <4>1. n \in 1..longest /\ longest \in Nat
        <5>1. longest \in Nat
          BY SizesAssumption
        <5> QED
          BY <1>1, <5>1 DEF shortvec_ends
      <4> HIDE DEF longest
      <4>2. k \in 1..longest
        BY <2>2, <4>1
      <4> QED
        BY <4>2 DEF longest
    <3>3. o + k <= Len(b)
      BY <1>6
    <3>4. ~(b[o + k] < Flag)
      BY <3>1, <3>2, <3>3 DEF shortvec_ends
    <3> DEFINE x == b[o + k]
    <3>5. x \in Nat /\ x >= Flag /\ x - Flag \in Nat /\ x - Flag < Flag
          /\ x = (x - Flag) + Flag * 1
      BY <1>5, <2>1, <3>4
    <3> HIDE DEF x
    <3>6. ((x - Flag) + Flag * 1) % Flag = x - Flag
      BY <1>5, <3>5, RemainderIs
    <3>7. x % Flag = x - Flag
      BY <3>5, <3>6
    <3> QED
      BY <1>5, <2>2, <3>5, <3>7 DEF d, x
  <2>3. CASE ~(k < n)
    <3>1. k = n
      BY <1>1, <2>3
    <3>2. b[o + k] < Flag
      BY <1>1, <3>1 DEF shortvec_ends
    <3> DEFINE x == b[o + k]
    <3>4. x \in Nat /\ x < Flag /\ x = x + Flag * 0
      BY <1>5, <2>1, <3>2
    <3> HIDE DEF x
    <3>5. (x + Flag * 0) % Flag = x
      BY <1>5, <3>4, RemainderIs
    <3>3. b[o + k] % Flag = b[o + k]
      BY <3>4, <3>5 DEF x
    <3> QED
      BY <2>1, <2>3, <3>3 DEF d
  <2> QED
    BY <2>2, <2>3
<1> DEFINE digit(k) == ((value \div Shift(k - 1)) % Flag) + (IF k < n THEN Flag ELSE 0)
<1>18. \A k \in 1..n : digit(k) = b[o + k]
  BY <1>16, <1>17
<1>19. Shortvec(value) = [k \in 1..n |-> digit(k)]
  BY <1>2 DEF Shortvec
<1> HIDE DEF digit
<1>20. [k \in 1..n |-> digit(k)] = [k \in 1..n |-> b[o + k]]
  BY <1>18
<1> DEFINE again == [k \in 1..n |-> b[o + k]]
           cut == Slice(b, o, o + n)
<1>21. again \in Seq(Bytes) /\ Len(again) = n /\ \A k \in 1..n : again[k] = b[o + k]
  <2>1. again \in [1..n -> Bytes] /\ \A k \in 1..n : again[k] = b[o + k]
    BY <1>6
  <2> HIDE DEF again
  <2> QED
    BY <1>1, <2>1, FunctionIsSeq
<1>22. cut \in Seq(Bytes) /\ Len(cut) = n /\ \A k \in 1..n : cut[k] = b[o + k]
  <2>1. \A i \in (o + 1)..(o + n) : b[i] \in Bytes
    <3>1. \A i \in (o + 1)..(o + n) : i \in 1..Len(b)
      BY <1>1, <1>5
    <3> QED
      BY <3>1, ElementOfSeq
  <2> DEFINE from == o + 1
             to == o + n
             slice == SubSeq(b, from, to)
  <2>2. from \in Nat /\ to \in Nat /\ from >= 1 /\ to <= Len(b) /\ to - from + 1 = n /\ from <= to
    BY <1>1
  <2>3. slice \in Seq(Bytes) /\ Len(slice) = (IF from <= to THEN to - from + 1 ELSE 0)
        /\ \A i \in 1..(to - from + 1) : slice[i] = b[from + i - 1]
    BY <2>1, <2>2, SubSeqProperties
  <2>4. cut = slice
    BY DEF Slice
  <2> HIDE DEF slice, cut
  <2>5. \A k \in 1..n : slice[k] = b[o + k]
    BY <2>2, <2>3
  <2> QED
    BY <2>2, <2>3, <2>4, <2>5
<1> HIDE DEF again, cut
<1>23. again = cut
  BY <1>21, <1>22, SeqEqual
<1> QED
  BY <1>19, <1>20, <1>23 DEF again, cut, n, value

(* The elements of a slice.                                                *)
LEMMA SliceElements ==
  ASSUME NEW b \in Seq(Bytes), NEW from \in Nat, NEW to \in Nat, from <= to, to <= Len(b)
  PROVE  /\ Slice(b, from, to) \in Seq(Bytes) /\ Len(Slice(b, from, to)) = to - from
         /\ \A k \in 1..(to - from) : Slice(b, from, to)[k] = b[from + k] /\ b[from + k] \in Bytes
<1> DEFINE first == from + 1
           slice == SubSeq(b, first, to)
<1>1. Len(b) \in Nat /\ first \in Nat
  BY LenProperties
<1>2. \A i \in first..to : b[i] \in Bytes
  <2>1. \A i \in first..to : i \in 1..Len(b)
    BY <1>1
  <2> QED
    BY <2>1, ElementOfSeq
<1>3. /\ slice \in Seq(Bytes)
      /\ Len(slice) = IF first <= to THEN to - first + 1 ELSE 0
      /\ \A k \in 1..(to - first + 1) : slice[k] = b[first + k - 1]
  BY <1>1, <1>2, SubSeqProperties
<1>4. Slice(b, from, to) = slice
  BY DEF Slice
<1> HIDE DEF slice
<1>5. to - first + 1 = to - from
  BY <1>1
<1>6. Len(slice) = to - from
  BY <1>1, <1>3
<1>7. ASSUME NEW k \in 1..(to - from)
      PROVE  slice[k] = b[from + k] /\ b[from + k] \in Bytes
  <2>1. first + k - 1 = from + k /\ from + k \in first..to
    BY <1>1
  <2> QED
    BY <1>2, <1>3, <1>5, <2>1
<1> QED
  BY <1>3, <1>4, <1>6, <1>7

(* Two slices that meet are one.                                           *)
LEMMA SlicesMeet ==
  ASSUME NEW b \in Seq(Bytes), NEW x \in Nat, NEW y \in Nat, NEW z \in Nat,
         x <= y, y <= z, z <= Len(b)
  PROVE  Slice(b, x, y) \o Slice(b, y, z) = Slice(b, x, z)
<1> DEFINE s == Slice(b, x, y)
           t == Slice(b, y, z)
           u == Slice(b, x, z)
           w == s \o t
<1>0. Len(b) \in Nat /\ y <= Len(b) /\ x <= z
  BY LenProperties
<1>1. s \in Seq(Bytes) /\ Len(s) = y - x /\ \A k \in 1..(y - x) : s[k] = b[x + k]
  BY <1>0, SliceElements
<1>2. t \in Seq(Bytes) /\ Len(t) = z - y /\ \A k \in 1..(z - y) : t[k] = b[y + k]
  BY <1>0, SliceElements
<1>3. u \in Seq(Bytes) /\ Len(u) = z - x /\ \A k \in 1..(z - x) : u[k] = b[x + k]
  BY <1>0, SliceElements
<1> HIDE DEF s, t, u
<1>4. /\ w \in Seq(Bytes) /\ Len(w) = Len(s) + Len(t)
      /\ \A i \in 1..Len(s) : w[i] = s[i]
      /\ \A i \in 1..Len(t) : w[Len(s) + i] = t[i]
  <2> DEFINE S == Bytes
  <2>1. s \in Seq(S) /\ t \in Seq(S)
    BY <1>1, <1>2
  <2> HIDE DEF S
  <2>2. /\ w \in Seq(S) /\ Len(w) = Len(s) + Len(t)
        /\ \A i \in 1..Len(s) : w[i] = s[i]
        /\ \A i \in 1..Len(t) : w[Len(s) + i] = t[i]
    BY ONLY <2>1, ConcatIs
  <2> QED
    BY <2>2 DEF S
<1> HIDE DEF w
<1>5. ASSUME NEW k \in 1..(z - x)
      PROVE  w[k] = u[k]
  <2>1. CASE k <= y - x
    <3>1. k \in 1..(y - x)
      BY <2>1
    <3> QED
      BY <1>1, <1>3, <1>4, <3>1
  <2>2. CASE ~(k <= y - x)
    <3> DEFINE i == k - (y - x)
    <3>1. i \in 1..(z - y) /\ (y - x) + i = k /\ y + i = x + k
      BY <2>2
    <3> HIDE DEF i
    <3>2. w[(y - x) + i] = t[i] /\ t[i] = b[y + i]
      BY <1>1, <1>2, <1>4, <3>1
    <3> QED
      BY <1>3, <3>1, <3>2
  <2> QED
    BY <2>1, <2>2
<1>6. Len(w) = z - x
  BY <1>1, <1>2, <1>4
<1>7. w = u
  BY <1>3, <1>4, <1>5, <1>6, SeqEqual
<1> QED
  BY <1>7 DEF w, s, t, u

(* The slice from the start to the end, and an empty one.                  *)
LEMMA SliceIsWhole ==
  ASSUME NEW b \in Seq(Bytes)
  PROVE  /\ Slice(b, 0, Len(b)) = b
         /\ \A k \in 0..Len(b) : Slice(b, k, k) = <<>>
<1>1. Len(b) \in Nat
  BY LenProperties
<1>2. Slice(b, 0, Len(b)) = b
  BY WholeIsPart DEF Slice
<1>3. ASSUME NEW k \in 0..Len(b)
      PROVE  Slice(b, k, k) = <<>>
  <2>1. k \in Nat /\ k <= Len(b) /\ k - k = 0
    BY <1>1
  <2>2. Slice(b, k, k) \in Seq(Bytes) /\ Len(Slice(b, k, k)) = 0
    BY <2>1, SliceElements
  <2> QED
    BY <2>2, EmptySeq
<1> QED
  BY <1>2, <1>3

(* A byte is a slice.                                                      *)
LEMMA ByteIsSlice ==
  ASSUME NEW b \in Seq(Bytes), NEW o \in Nat, o + 1 <= Len(b)
  PROVE  <<b[o + 1]>> = Slice(b, o, o + 1)
<1> DEFINE to == o + 1
           s == Slice(b, o, to)
           x == b[to]
           t == <<x>>
<1>1. to \in Nat /\ o <= to /\ to <= Len(b) /\ to - o = 1 /\ 1 \in 1..1
  OBVIOUS
<1>2. s \in Seq(Bytes) /\ Len(s) = 1 /\ s[1] = x /\ x \in Bytes
  <2>1. /\ s \in Seq(Bytes) /\ Len(s) = to - o
        /\ \A k \in 1..(to - o) : s[k] = b[o + k] /\ b[o + k] \in Bytes
    BY <1>1, SliceElements
  <2> HIDE DEF s
  <2>2. s[1] = b[o + 1] /\ b[o + 1] \in Bytes
    BY <1>1, <2>1
  <2> QED
    BY <1>1, <2>1, <2>2
<1> HIDE DEF s, x
<1>3. t \in Seq(Bytes) /\ Len(t) = 1 /\ t[1] = x
  BY <1>2
<1> HIDE DEF t
<1>4. s = t
  BY <1>2, <1>3, SeqEqual
<1> QED
  BY <1>4 DEF s, t, x

(* Counted bytes whose count is minimal are written as they were read.     *)
LEMMA CountedAgain ==
  ASSUME NEW b \in Seq(Bytes), NEW o \in Nat, CountedOk(b, o), Minimal(b, o)
  PROVE  Counted(CountedBytes(b, o)) = Slice(b, o, CountedEnd(b, o))
<1> DEFINE n == Length(b, o)
           value == Value(b, o)
           end == CountedEnd(b, o)
           bytes == CountedBytes(b, o)
<1>1. /\ end \in Nat /\ end <= Len(b) /\ n \in Nat \ {0} /\ value \in Nat
      /\ Len(bytes) = value
  BY CountedIs
<1>2. o + n \in Nat /\ o <= o + n /\ o + n <= end
  BY <1>1 DEF CountedEnd
<1>3. Shortvec(value) = Slice(b, o, o + n)
  BY ShortvecAgain DEF CountedOk
<1>4. bytes = Slice(b, o + n, end)
  BY DEF CountedBytes
<1>5. Counted(bytes) = Shortvec(value) \o bytes
  BY <1>1 DEF Counted
<1> HIDE DEF n, value, end, bytes
<1>6. Slice(b, o, o + n) \o Slice(b, o + n, end) = Slice(b, o, end)
  <2> DEFINE middle == o + n
  <2>1. /\ b \in Seq(Bytes) /\ o \in Nat /\ middle \in Nat /\ end \in Nat
        /\ o <= middle /\ middle <= end /\ end <= Len(b)
    BY <1>1, <1>2
  <2> HIDE DEF middle
  <2>2. Slice(b, o, middle) \o Slice(b, middle, end) = Slice(b, o, end)
    BY ONLY <2>1, SlicesMeet
  <2> QED
    BY <2>2 DEF middle
<1>7. Counted(bytes) = Slice(b, o, end)
  BY <1>3, <1>4, <1>5, <1>6
<1> QED
  BY <1>7 DEF end, bytes

(* So is an instruction.                                                   *)
LEMMA InstructionAgain ==
  ASSUME NEW b \in Seq(Bytes), NEW o \in Nat, InstructionOk(b, o), InstructionMinimal(b, o)
  PROVE  /\ InstructionBytes(InstructionAt(b, o)) = Slice(b, o, InstructionEnd(b, o))
         /\ InstructionEnd(b, o) \in Nat /\ o <= InstructionEnd(b, o)
         /\ InstructionEnd(b, o) <= Len(b)
<1> DEFINE accounts == o + 1
           data == InstructionData(b, o)
           end == InstructionEnd(b, o)
           i == InstructionAt(b, o)
<1>1. /\ accounts \in Nat /\ o + 1 <= Len(b) /\ CountedOk(b, accounts) /\ CountedOk(b, data)
      /\ Minimal(b, accounts) /\ Minimal(b, data)
  BY DEF InstructionOk, InstructionMinimal
<1>2. /\ data = CountedEnd(b, accounts) /\ end = CountedEnd(b, data)
      /\ i.program = b[o + 1] /\ i.accounts = CountedBytes(b, accounts)
      /\ i.data = CountedBytes(b, data)
  BY DEF InstructionData, InstructionEnd, InstructionAt
<1>3. InstructionBytes(i) = <<i.program>> \o Counted(i.accounts) \o Counted(i.data)
  BY DEF InstructionBytes
<1> HIDE DEF accounts, data, end, i
<1>4. data \in Nat /\ data > accounts /\ Counted(i.accounts) = Slice(b, accounts, data)
  BY <1>1, <1>2, CountedIs, CountedAgain
<1>5. end \in Nat /\ end > data /\ end <= Len(b) /\ Counted(i.data) = Slice(b, data, end)
  BY <1>1, <1>2, <1>4, CountedIs, CountedAgain
<1>6. <<i.program>> = Slice(b, o, accounts) /\ accounts = o + 1
  BY <1>1, <1>2, ByteIsSlice DEF accounts
<1>7. o <= accounts /\ accounts <= data /\ data <= end /\ data <= Len(b) /\ o <= data
  BY <1>1, <1>4, <1>5, <1>6, LenProperties
<1>8. Slice(b, o, accounts) \o Slice(b, accounts, data) = Slice(b, o, data)
  BY <1>1, <1>4, <1>7, SlicesMeet
<1>9. Slice(b, o, data) \o Slice(b, data, end) = Slice(b, o, end)
  BY <1>4, <1>5, <1>7, SlicesMeet
<1>10. InstructionBytes(i) = Slice(b, o, end)
  BY <1>3, <1>4, <1>5, <1>6, <1>8, <1>9
<1>11. o <= end
  BY <1>4, <1>5, <1>7
<1> QED
  BY <1>5, <1>10, <1>11 DEF end, i

(* So is a lookup.                                                         *)
LEMMA LookupAgain ==
  ASSUME NEW b \in Seq(Bytes), NEW o \in Nat, LookupOk(b, o), LookupMinimal(b, o)
  PROVE  /\ LookupBytes(LookupAt(b, o)) = Slice(b, o, LookupEnd(b, o))
         /\ LookupEnd(b, o) \in Nat /\ o <= LookupEnd(b, o)
         /\ LookupEnd(b, o) <= Len(b)
<1> DEFINE writable == o + KeyLength
           readonly == LookupReadonly(b, o)
           end == LookupEnd(b, o)
           l == LookupAt(b, o)
<1>0. KeyLength \in Nat
  BY SizesAssumption
<1>1. /\ writable \in Nat /\ CountedOk(b, writable) /\ CountedOk(b, readonly)
      /\ Minimal(b, writable) /\ Minimal(b, readonly) /\ o <= writable
  BY <1>0 DEF LookupOk, LookupMinimal
<1>2. /\ readonly = CountedEnd(b, writable) /\ end = CountedEnd(b, readonly)
      /\ l.key = Slice(b, o, writable) /\ l.writable = CountedBytes(b, writable)
      /\ l.readonly = CountedBytes(b, readonly)
  BY DEF LookupReadonly, LookupEnd, LookupAt
<1>3. LookupBytes(l) = l.key \o Counted(l.writable) \o Counted(l.readonly)
  BY DEF LookupBytes
<1> HIDE DEF writable, readonly, end, l
<1>4. readonly \in Nat /\ readonly > writable /\ Counted(l.writable) = Slice(b, writable, readonly)
  BY <1>1, <1>2, CountedIs, CountedAgain
<1>5. /\ end \in Nat /\ end > readonly /\ end <= Len(b)
      /\ Counted(l.readonly) = Slice(b, readonly, end)
  BY <1>1, <1>2, <1>4, CountedIs, CountedAgain
<1>7. writable <= readonly /\ readonly <= end /\ readonly <= Len(b) /\ o <= readonly
  BY <1>1, <1>4, <1>5, LenProperties
<1>8. Slice(b, o, writable) \o Slice(b, writable, readonly) = Slice(b, o, readonly)
  BY <1>1, <1>4, <1>7, SlicesMeet
<1>9. Slice(b, o, readonly) \o Slice(b, readonly, end) = Slice(b, o, end)
  BY <1>4, <1>5, <1>7, SlicesMeet
<1>10. LookupBytes(l) = Slice(b, o, end)
  BY <1>2, <1>3, <1>4, <1>5, <1>8, <1>9
<1>11. o <= end
  BY <1>4, <1>5, <1>7
<1> QED
  BY <1>5, <1>10, <1>11 DEF end, l

(* Slices that meet, joined, are the slice from the first to the last.     *)
LEMMA SlicesJoined ==
  ASSUME NEW b \in Seq(Bytes), NEW n \in Nat, NEW f \in [0..n -> Nat], f[0] <= Len(b),
         NEW parts \in [1..n -> Seq(Bytes)],
         \A k \in 1..n : /\ parts[k] = Slice(b, f[k - 1], f[k])
                         /\ f[k - 1] <= f[k] /\ f[k] <= Len(b)
  PROVE  FlattenSeq(parts) = Slice(b, f[0], f[n]) /\ f[0] <= f[n] /\ f[n] <= Len(b)
<1>1. parts \in Seq(Seq(Bytes)) /\ Len(parts) = n
  BY FunctionIsSeq
<1>2. PICK g \in LoopRuns(Seq(Bytes), Joining(Bytes, parts), <<>>, n) : FlattenSeq(parts) = g[n]
  BY <1>1, FlattenRun
<1>3. g \in [0..n -> Seq(Bytes)] /\ g[0] = <<>> /\ \A k \in 1..n : g[k] = g[k - 1] \o parts[k]
  BY <1>1, <1>2, JoiningRun
<1>4. Len(b) \in Nat /\ 0 \in 0..n
  BY LenProperties
<1> DEFINE Joined(k) == g[k] = Slice(b, f[0], f[k]) /\ f[0] <= f[k] /\ f[k] <= Len(b)
           T == {k \in Nat : k <= n => Joined(k)}
<1>5. 0 \in T
  <2>1. f[0] \in 0..Len(b)
    BY <1>4
  <2>2. Slice(b, f[0], f[0]) = <<>>
    BY <2>1, SliceIsWhole
  <2>3. Joined(0)
    BY <1>3, <1>4, <2>1, <2>2
  <2> QED
    BY <2>3
<1>6. \A k \in Nat : k \in T => k + 1 \in T
  <2> SUFFICES ASSUME NEW k \in Nat, k \in T, k + 1 <= n
               PROVE  Joined(k + 1)
    OBVIOUS
  <2>1. k + 1 \in 1..n /\ (k + 1) - 1 = k /\ k \in 0..n /\ k + 1 \in 0..n /\ k <= n
    OBVIOUS
  <2>2. /\ g[k] = Slice(b, f[0], f[k]) /\ f[0] <= f[k]
        /\ g[k + 1] = g[k] \o parts[k + 1]
        /\ parts[k + 1] = Slice(b, f[k], f[k + 1]) /\ f[k] <= f[k + 1] /\ f[k + 1] <= Len(b)
    <3>1. Joined(k)
      BY <2>1
    <3> QED
      BY <1>3, <2>1, <3>1
  <2> DEFINE x == f[0]
             y == f[k]
             z == f[k + 1]
  <2>3. x \in Nat /\ y \in Nat /\ z \in Nat /\ x <= y /\ y <= z /\ z <= Len(b)
    BY <1>4, <2>1, <2>2
  <2> HIDE DEF x, y, z
  <2>31. /\ b \in Seq(Bytes) /\ x \in Nat /\ y \in Nat /\ z \in Nat
         /\ x <= y /\ y <= z /\ z <= Len(b)
    BY <2>3
  <2>4. Slice(b, x, y) \o Slice(b, y, z) = Slice(b, x, z)
    BY ONLY <2>31, SlicesMeet
  <2>5. x <= z
    BY <2>3
  <2>6. g[k + 1] = Slice(b, x, z)
    BY <2>2, <2>4 DEF x, y, z
  <2> QED
    BY <2>3, <2>5, <2>6 DEF x, z
<1> HIDE DEF T, Joined
<1>7. Nat \subseteq T
  BY <1>5, <1>6, Induction
<1> QED
  BY <1>2, <1>7 DEF T, Joined

(* Three bytes are a slice.                                                *)
LEMMA ThreeBytes ==
  ASSUME NEW b \in Seq(Bytes), NEW o \in Nat, o + 3 <= Len(b)
  PROVE  <<b[o + 1], b[o + 2], b[o + 3]>> = Slice(b, o, o + 3)
<1> DEFINE to == o + 3
           s == Slice(b, o, to)
           x == b[o + 1]
           y == b[o + 2]
           z == b[o + 3]
           t == <<x, y, z>>
<1>1. to \in Nat /\ o <= to /\ to <= Len(b) /\ to - o = 3
  OBVIOUS
<1>2. /\ s \in Seq(Bytes) /\ Len(s) = to - o
      /\ \A k \in 1..(to - o) : s[k] = b[o + k] /\ b[o + k] \in Bytes
  BY <1>1, SliceElements
<1> HIDE DEF s
<1>3. s[1] = x /\ s[2] = y /\ s[3] = z /\ x \in Bytes /\ y \in Bytes /\ z \in Bytes /\ Len(s) = 3
  BY <1>1, <1>2
<1> HIDE DEF x, y, z
<1>4. t \in Seq(Bytes) /\ Len(t) = 3 /\ t[1] = x /\ t[2] = y /\ t[3] = z
  BY <1>3
<1> HIDE DEF t
<1>5. \A k \in 1..Len(s) : k = 1 \/ k = 2 \/ k = 3
  BY <1>3
<1>6. \A k \in 1..Len(s) : s[k] = t[k]
  BY <1>3, <1>4, <1>5
<1>7. s = t
  BY <1>2, <1>3, <1>4, <1>6, SeqEqual
<1> QED
  BY <1>7 DEF s, t, x, y, z

(* The parts of what a view reads, in the bytes.                           *)
LEMMA HeaderAgain ==
  ASSUME NEW b \in Seq(Bytes), NEW v, Found(b, v)
  PROVE  HeaderBytes(Read(v)) = Slice(b, 0, HeaderEnd(v))
<1> DEFINE m == Read(v)
<1>1. m.version = v.version /\ m.header = v.header
  BY DEF Read
<1>2. /\ v.version \in {"legacy", "v0"} /\ HeaderEnd(v) <= Len(b)
      /\ v.version = "v0" => b[1] = Flag
      /\ v.header = [signers |-> b[HeaderEnd(v) - 2], readonly_signed |-> b[HeaderEnd(v) - 1],
                     readonly_unsigned |-> b[HeaderEnd(v)]]
  BY DEF Found, HeaderFound
<1>3. HeaderBytes(m) = (IF v.version = "v0" THEN <<Flag>> ELSE <<>>)
                       \o <<v.header.signers, v.header.readonly_signed, v.header.readonly_unsigned>>
  BY <1>1 DEF HeaderBytes
<1> HIDE DEF m
<1>4. Len(b) \in Nat
  BY LenProperties
<1>5. CASE v.version = "v0"
  <2>1. HeaderEnd(v) = 4 /\ 4 <= Len(b)
    BY <1>2, <1>5 DEF HeaderEnd
  <2>2. <<Flag>> = Slice(b, 0, 1)
    <3>1. 0 + 1 = 1 /\ 0 + 1 <= Len(b) /\ b[0 + 1] = Flag
      BY <1>2, <1>4, <1>5, <2>1
    <3> DEFINE o == 0
    <3>2. o \in Nat /\ o + 1 <= Len(b) /\ b[o + 1] = Flag /\ o = 0 /\ o + 1 = 1
      BY <3>1
    <3> HIDE DEF o
    <3>3. <<b[o + 1]>> = Slice(b, o, o + 1)
      BY <3>2, ByteIsSlice
    <3> QED
      BY <3>2, <3>3
  <2>3. <<v.header.signers, v.header.readonly_signed, v.header.readonly_unsigned>> = Slice(b, 1, 4)
    <3> DEFINE o == 1
    <3>1. o \in Nat /\ o + 3 <= Len(b) /\ o = 1 /\ o + 1 = 2 /\ o + 2 = 3 /\ o + 3 = 4
      BY <2>1
    <3>2. /\ v.header.signers = b[2] /\ v.header.readonly_signed = b[3]
          /\ v.header.readonly_unsigned = b[4]
      <4>1. HeaderEnd(v) - 2 = 2 /\ HeaderEnd(v) - 1 = 3
        BY <2>1
      <4> QED
        BY <1>2, <2>1, <4>1
    <3> HIDE DEF o
    <3>3. <<b[o + 1], b[o + 2], b[o + 3]>> = Slice(b, o, o + 3)
      BY <3>1, ThreeBytes
    <3> QED
      BY <3>1, <3>2, <3>3
  <2>4. Slice(b, 0, 1) \o Slice(b, 1, 4) = Slice(b, 0, 4)
    BY <2>1, SlicesMeet
  <2> QED
    BY <1>3, <1>5, <2>1, <2>2, <2>3, <2>4 DEF m
<1>6. CASE v.version = "legacy"
  <2>1. HeaderEnd(v) = 3 /\ 3 <= Len(b)
    BY <1>2, <1>6 DEF HeaderEnd
  <2>2. <<v.header.signers, v.header.readonly_signed, v.header.readonly_unsigned>> = Slice(b, 0, 3)
    <3> DEFINE o == 0
    <3>1. o \in Nat /\ o + 3 <= Len(b) /\ o = 0 /\ o + 1 = 1 /\ o + 2 = 2 /\ o + 3 = 3
      BY <2>1
    <3>2. /\ v.header.signers = b[1] /\ v.header.readonly_signed = b[2]
          /\ v.header.readonly_unsigned = b[3]
      <4>1. HeaderEnd(v) - 2 = 1 /\ HeaderEnd(v) - 1 = 2
        BY <2>1
      <4> QED
        BY <1>2, <2>1, <4>1
    <3> HIDE DEF o
    <3>3. <<b[o + 1], b[o + 2], b[o + 3]>> = Slice(b, o, o + 3)
      BY <3>1, ThreeBytes
    <3> QED
      BY <3>1, <3>2, <3>3
  <2> DEFINE s == Slice(b, 0, 3)
  <2>3. s \in Seq(Bytes)
    <3> DEFINE o == 0
               to == 3
    <3>1. o \in Nat /\ to \in Nat /\ o <= to /\ to <= Len(b)
      BY <2>1
    <3> HIDE DEF o, to
    <3>2. Slice(b, o, to) \in Seq(Bytes)
      BY <3>1, SliceElements
    <3> QED
      BY <3>2 DEF o, to
  <2>5. HeaderBytes(m) = <<>> \o s
    BY <1>3, <1>6, <2>2
  <2> HIDE DEF s
  <2>4. <<>> \o s = s
    BY <2>3, ConcatEmptySeq
  <2> QED
    BY <2>1, <2>4, <2>5 DEF m, s
<1> QED
  BY <1>2, <1>5, <1>6

(* The keys and their count are written as they were read.                 *)
LEMMA KeysAgain ==
  ASSUME NEW b \in Seq(Bytes), NEW v, Found(b, v), v.minimal,
         v.static_accounts_offset + v.static_account_count * KeyLength <= v.recent_blockhash_offset,
         EachHasAnIndex(v.static_account_count)
  PROVE  /\ Shortvec(Len(Read(v).keys)) \o FlattenSeq(KeyParts(Read(v)))
              = Slice(b, HeaderEnd(v), v.recent_blockhash_offset)
         /\ HeaderEnd(v) \in Nat /\ HeaderEnd(v) <= v.recent_blockhash_offset
         /\ v.recent_blockhash_offset <= Len(b)
<1> DEFINE h == HeaderEnd(v)
           from == v.static_accounts_offset
           to == v.recent_blockhash_offset
           n == v.static_account_count
           keys == Read(v).keys
           parts == KeyParts(Read(v))
           f == [k \in 0..n |-> from + k * KeyLength]
<1>1. /\ from \in Nat /\ n \in Nat /\ to \in Nat /\ v.input = b
      /\ Readable(b, h) /\ from = h + Length(b, h) /\ n = Value(b, h)
      /\ to = from + KeyBytes(n) /\ to + KeyLength <= Len(b) /\ Minimal(b, h)
  BY DEF Found, Counts, KeysFound, ProgramsCount
<1>2. KeyLength \in Nat /\ Len(b) \in Nat /\ Word \in Nat /\ Word >= 2 /\ h \in Nat
  BY SizesAssumption, FlagIs, LenProperties DEF HeaderEnd
<1>3. n * KeyLength \in Nat
  BY <1>1, <1>2
<1>4. to = from + n * KeyLength
  <2> DEFINE all == n * KeyLength
  <2>1. all \in Nat /\ from + all <= to /\ to = from + (all % Word)
    BY <1>1, <1>3 DEF KeyBytes
  <2> HIDE DEF all
  <2>2. all % Word <= all
    BY <1>2, <2>1
  <2>3. (all % Word) \in Nat
    BY <1>2, <2>1
  <2> HIDE DEF from, to
  <2>4. to = from + all
    BY <1>1, <2>1, <2>2, <2>3
  <2> QED
    BY <2>4 DEF all
<1>5. Length(b, h) \in Nat \ {0} /\ Shortvec(n) = Slice(b, h, from)
  BY <1>1, <1>2, EndsAre, ShortvecAgain DEF Readable
<1>6. keys = [k \in 1..n |-> static_account(v, k - 1)]
  <2>1. ASSUME NEW k \in 1..n PROVE (k - 1) % U8 = k - 1
    <3>1. k \in Nat /\ 1 <= k /\ EachHasAnIndex(k)
      BY <1>1, FlagIs DEF EachHasAnIndex, U8
    <3> QED
      BY <3>1, IndexIsKept
  <2> QED
    BY <2>1 DEF Read
<1>7. parts = [k \in 1..Len(keys) |-> keys[k]]
  BY DEF KeyParts
<1>8. \A k \in 1..n : static_account(v, k - 1)
                        = Slice(b, from + (k - 1) * KeyLength, from + k * KeyLength)
  <2>1. \A k \in 1..n : (k - 1) + 1 = k
    OBVIOUS
  <2> QED
    BY <1>1, <2>1 DEF static_account
<1> HIDE DEF h, from, to, n, keys, parts
<1>9. ASSUME NEW k \in 1..n
      PROVE  /\ f[k] = from + k * KeyLength /\ f[k - 1] = from + (k - 1) * KeyLength
             /\ f[k - 1] <= f[k] /\ f[k] <= Len(b) /\ f[k - 1] \in Nat /\ f[k] \in Nat
  <2>1. k \in Nat /\ k <= n /\ k - 1 \in Nat /\ k - 1 <= k /\ k \in 0..n /\ k - 1 \in 0..n
    BY <1>1
  <2>2. /\ (k - 1) * KeyLength \in Nat /\ k * KeyLength \in Nat
        /\ (k - 1) * KeyLength <= k * KeyLength
    BY <1>2, <2>1, Products
  <2>3. k * KeyLength <= n * KeyLength
    BY <1>1, <1>2, <2>1, Products
  <2>4. f[k] = from + k * KeyLength /\ f[k - 1] = from + (k - 1) * KeyLength
    BY <2>1
  <2> DEFINE low == (k - 1) * KeyLength
             high == k * KeyLength
             all == n * KeyLength
  <2>5. /\ low \in Nat /\ high \in Nat /\ all \in Nat /\ low <= high /\ high <= all
        /\ f[k] = from + high /\ f[k - 1] = from + low
        /\ from + all <= Len(b) /\ from \in Nat /\ Len(b) \in Nat
    <3>1. to = from + all /\ all \in Nat /\ from \in Nat
      BY <1>1, <1>3, <1>4
    <3>2. to + KeyLength <= Len(b) /\ KeyLength \in Nat /\ Len(b) \in Nat
      BY <1>1, <1>2
    <3> HIDE DEF all
    <3>3. from + all <= Len(b)
      BY ONLY <3>1, <3>2
    <3> QED
      BY <2>2, <2>3, <2>4, <3>1, <3>2, <3>3 DEF all
  <2> HIDE DEF f, low, high, all
  <2>6. f[k - 1] <= f[k] /\ f[k] <= Len(b) /\ f[k - 1] \in Nat /\ f[k] \in Nat
    BY <2>5
  <2> QED
    BY <2>4, <2>6
<1>10. f \in [0..n -> Nat] /\ f[0] = from /\ f[n] = to
  <2>1. \A k \in 0..n : from + k * KeyLength \in Nat
    <3>1. \A k \in Nat : k * KeyLength \in Nat
      BY <1>2
    <3> SUFFICES ASSUME NEW k \in 0..n
                 PROVE  from + k * KeyLength \in Nat
      OBVIOUS
    <3> DEFINE some == k * KeyLength
    <3>2. some \in Nat
      BY <1>1, <3>1
    <3> HIDE DEF some
    <3>3. from + some \in Nat
      BY <1>1, <3>2
    <3> QED
      BY <3>3 DEF some
  <2>2. 0 \in 0..n /\ n \in 0..n /\ 0 * KeyLength = 0
    BY <1>1, <1>2
  <2> QED
    BY <1>1, <1>4, <2>1, <2>2
<1> HIDE DEF f
<1>11. /\ Len(keys) = n
       /\ \A k \in 1..n : keys[k] = Slice(b, f[k - 1], f[k]) /\ keys[k] \in Seq(Bytes)
  <2>1. \A k \in 1..n : static_account(v, k - 1) = Slice(b, f[k - 1], f[k])
    BY <1>8, <1>9
  <2>2. \A k \in 1..n : Slice(b, f[k - 1], f[k]) \in Seq(Bytes)
    BY <1>9, SliceIs
  <2>3. keys \in [1..n -> Seq(Bytes)] /\ \A k \in 1..n : keys[k] = Slice(b, f[k - 1], f[k])
    BY <1>6, <2>1, <2>2
  <2>4. Len(keys) = n
    BY <1>1, <2>3, FunctionIsSeq
  <2> QED
    BY <2>3, <2>4
<1>12. /\ parts \in [1..n -> Seq(Bytes)]
       /\ \A k \in 1..n : parts[k] = Slice(b, f[k - 1], f[k])
  BY <1>7, <1>11
<1>13. from <= Len(b) /\ to <= Len(b) /\ from <= to /\ h <= from
  <2> DEFINE all == n * KeyLength
             some == Length(b, h)
  <2>1. /\ to = from + all /\ all \in Nat /\ from \in Nat /\ to + KeyLength <= Len(b)
        /\ KeyLength \in Nat /\ Len(b) \in Nat /\ h \in Nat /\ some \in Nat /\ from = h + some
    BY <1>1, <1>2, <1>3, <1>4, <1>5
  <2> HIDE DEF all, some
  <2> QED
    BY ONLY <2>1
<1>14. FlattenSeq(parts) = Slice(b, from, to)
  <2>1. f[0] <= Len(b)
    BY <1>10, <1>13
  <2>2. \A k \in 1..n : /\ parts[k] = Slice(b, f[k - 1], f[k])
                        /\ f[k - 1] <= f[k] /\ f[k] <= Len(b)
    BY <1>9, <1>12
  <2>3. FlattenSeq(parts) = Slice(b, f[0], f[n])
    <3>1. /\ b \in Seq(Bytes) /\ n \in Nat /\ f \in [0..n -> Nat]
          /\ parts \in [1..n -> Seq(Bytes)]
      BY <1>1, <1>10, <1>12
    <3> QED
      BY ONLY <2>1, <2>2, <3>1, SlicesJoined
  <2> QED
    BY <1>10, <2>3
<1>15. Slice(b, h, from) \o Slice(b, from, to) = Slice(b, h, to)
  <2>1. /\ b \in Seq(Bytes) /\ h \in Nat /\ from \in Nat /\ to \in Nat
        /\ h <= from /\ from <= to /\ to <= Len(b)
    BY <1>1, <1>2, <1>13
  <2> QED
    BY ONLY <2>1, SlicesMeet
<1>16. Shortvec(Len(keys)) \o FlattenSeq(parts) = Slice(b, h, to)
  BY <1>5, <1>11, <1>14, <1>15
<1>17. h \in Nat /\ h <= to /\ to <= Len(b)
  BY <1>1, <1>2, <1>13
<1> QED
  BY <1>16, <1>17 DEF h, to, keys, parts

(* The instructions and their count are written as they were read.         *)
LEMMA InstructionsAgain ==
  ASSUME NEW b \in Seq(Bytes), NEW v, Found(b, v), v.minimal
  PROVE  /\ Shortvec(Len(Read(v).instructions)) \o FlattenSeq(InstructionParts(Read(v)))
              = Slice(b, ProgramsCount(v), v.lookups_offset)
         /\ ProgramsCount(v) \in Nat /\ ProgramsCount(v) <= v.lookups_offset
         /\ v.lookups_offset \in Nat /\ v.lookups_offset <= Len(b)
<1> DEFINE p == ProgramsCount(v)
           from == v.instructions_offset
           to == v.lookups_offset
           n == v.instruction_count
           all == Repeat(NextInstruction, [c |-> Cursor(b, from), items |-> <<>>], n)
           items == Read(v).instructions
           parts == InstructionParts(Read(v))
<1>1. /\ from \in Nat /\ n \in Nat /\ to \in Nat /\ v.input = b
      /\ Readable(b, p) /\ from = p + Length(b, p) /\ n = Value(b, p)
      /\ Minimal(b, p)
  BY DEF Found, Counts, InstructionsFound
<1>2. p \in Nat /\ Len(b) \in Nat
  BY SizesAssumption, LenProperties DEF ProgramsCount, Found, Counts
<1>3. PICK f \in InstructionWalks(b, from, n) :
        f[n] = to /\ \A k \in 1..n : InstructionMinimal(b, f[k - 1])
  BY DEF Found, InstructionsFound
<1>4. items = instructions(v).items
  BY DEF Read
<1>41. parts = [k \in 1..Len(items) |-> InstructionBytes(items[k])]
  BY DEF InstructionParts
<1>5. instructions(v) = all
  BY <1>1 DEF instructions
<1>6. /\ Length(b, p) \in Nat \ {0} /\ Shortvec(n) = Slice(b, p, from)
      /\ p + Length(b, p) <= Len(b)
  BY <1>1, <1>2, EndsAre, ShortvecAgain DEF Readable
<1> HIDE DEF p, from, to, n, items, parts
<1>7. /\ all.items \in Seq(InstructionType) /\ Len(all.items) = n
      /\ \A k \in 1..n : all.items[k] = InstructionAt(b, f[k - 1])
  BY <1>1, InstructionIterated
<1> HIDE DEF all
<1>8. /\ f \in [0..n -> Nat] /\ f[0] = from
      /\ \A k \in 1..n : /\ InstructionOk(b, f[k - 1]) /\ f[k] = InstructionEnd(b, f[k - 1])
                         /\ f[k - 1] \in Nat /\ f[k] \in Nat
  BY <1>1, InstructionWalkIs
<1>9. ASSUME NEW k \in 1..n
      PROVE  /\ InstructionBytes(items[k]) = Slice(b, f[k - 1], f[k])
             /\ f[k - 1] <= f[k] /\ f[k] <= Len(b)
             /\ InstructionBytes(items[k]) \in Seq(Bytes)
  <2> DEFINE o == f[k - 1]
  <2>1. o \in Nat /\ InstructionOk(b, o) /\ InstructionMinimal(b, o)
    BY <1>3, <1>8
  <2>2. f[k] = InstructionEnd(b, o) /\ items[k] = InstructionAt(b, o)
    BY <1>4, <1>5, <1>7, <1>8
  <2> HIDE DEF o
  <2>3. /\ InstructionBytes(InstructionAt(b, o)) = Slice(b, o, InstructionEnd(b, o))
        /\ InstructionEnd(b, o) \in Nat /\ o <= InstructionEnd(b, o)
        /\ InstructionEnd(b, o) <= Len(b)
    BY <2>1, InstructionAgain
  <2>4. Slice(b, o, InstructionEnd(b, o)) \in Seq(Bytes)
    BY <2>1, <2>3, SliceIs
  <2> QED
    BY <2>2, <2>3, <2>4 DEF o
<1>10. /\ Len(items) = n /\ parts \in [1..n -> Seq(Bytes)]
       /\ \A k \in 1..n : parts[k] = Slice(b, f[k - 1], f[k])
  <2>1. Len(items) = n
    BY <1>4, <1>5, <1>7
  <2> QED
    BY <1>9, <1>41, <2>1
<1>11. from <= Len(b)
  BY <1>1, <1>6
<1>12. FlattenSeq(parts) = Slice(b, from, to) /\ from <= to /\ to <= Len(b)
  <2>1. f[0] <= Len(b) /\ f \in [0..n -> Nat]
    BY <1>8, <1>11
  <2>2. \A k \in 1..n : /\ parts[k] = Slice(b, f[k - 1], f[k])
                        /\ f[k - 1] <= f[k] /\ f[k] <= Len(b)
    BY <1>9, <1>10
  <2>3. FlattenSeq(parts) = Slice(b, f[0], f[n]) /\ f[0] <= f[n] /\ f[n] <= Len(b)
    <3>1. /\ b \in Seq(Bytes) /\ n \in Nat /\ f \in [0..n -> Nat]
          /\ parts \in [1..n -> Seq(Bytes)]
      BY <1>1, <1>10, <2>1
    <3> QED
      BY ONLY <2>1, <2>2, <3>1, SlicesJoined
  <2> QED
    BY <1>3, <1>8, <2>3
<1>13. p <= from
  BY <1>1, <1>2, <1>6
<1>14. Slice(b, p, from) \o Slice(b, from, to) = Slice(b, p, to)
  <2>1. /\ b \in Seq(Bytes) /\ p \in Nat /\ from \in Nat /\ to \in Nat
        /\ p <= from /\ from <= to /\ to <= Len(b)
    BY <1>1, <1>2, <1>12, <1>13
  <2> QED
    BY ONLY <2>1, SlicesMeet
<1>15. Shortvec(Len(items)) \o FlattenSeq(parts) = Slice(b, p, to)
  BY <1>6, <1>10, <1>12, <1>14
<1>16. p <= to
  BY <1>1, <1>2, <1>12, <1>13
<1> QED
  BY <1>1, <1>2, <1>12, <1>15, <1>16 DEF p, to, items, parts

(* The lookups and their count, if there is a version, are too.            *)
LEMMA LookupsAgain ==
  ASSUME NEW b \in Seq(Bytes), NEW v, Found(b, v), v.minimal
  PROVE  (IF v.version = "v0"
          THEN Shortvec(Len(Read(v).lookups)) \o FlattenSeq(LookupParts(Read(v))) ELSE <<>>)
           = Slice(b, v.lookups_offset, Len(b))
<1> DEFINE p == v.lookups_offset
           from == LookupsFirst(b, v)
           to == Len(b)
           n == v.lookup_count
           all == Repeat(NextLookup, [c |-> Cursor(b, from), items |-> <<>>], n)
           items == Read(v).lookups
           parts == LookupParts(Read(v))
<1>1. /\ p \in Nat /\ n \in Nat /\ v.input = b /\ LookupsFound(b, v)
      /\ v.version \in {"legacy", "v0"}
  BY DEF Found, Counts, HeaderFound
<1>2. to \in Nat
  BY LenProperties
<1>3. from \in Nat /\ FirstLookup(v) = from
  BY FirstLookupIs
<1>31. PICK f \in LookupWalks(b, from, n) :
         f[n] = to /\ \A k \in 1..n : LookupMinimal(b, f[k - 1])
  BY <1>1 DEF LookupsFound, LookupsEnd
<1>4. items = address_table_lookups(v).items
  BY DEF Read
<1>41. parts = [k \in 1..Len(items) |-> LookupBytes(items[k])]
  BY DEF LookupParts
<1>5. address_table_lookups(v) = all
  BY <1>1, <1>3 DEF address_table_lookups
<1>6. v.version = "v0" =>
         /\ Readable(b, p) /\ from = p + Length(b, p) /\ n = Value(b, p) /\ Minimal(b, p)
  BY <1>1 DEF LookupsFound, LookupsFirst
<1>61. v.version = "legacy" => n = 0 /\ from = p
  BY <1>1 DEF LookupsFound, LookupsFirst
<1> HIDE DEF p, from, to, n, items, parts
<1>7. /\ all.items \in Seq(LookupItems) /\ Len(all.items) = n
      /\ \A k \in 1..n : all.items[k] = LookupAt(b, f[k - 1])
  BY <1>1, <1>3, LookupIterated
<1> HIDE DEF all
<1>8. /\ f \in [0..n -> Nat] /\ f[0] = from
      /\ \A k \in 1..n : /\ LookupOk(b, f[k - 1]) /\ f[k] = LookupEnd(b, f[k - 1])
                         /\ f[k - 1] \in Nat /\ f[k] \in Nat
  BY <1>1, LookupWalkIs
<1>9. ASSUME NEW k \in 1..n
      PROVE  /\ LookupBytes(items[k]) = Slice(b, f[k - 1], f[k])
             /\ f[k - 1] <= f[k] /\ f[k] <= Len(b)
             /\ LookupBytes(items[k]) \in Seq(Bytes)
  <2> DEFINE o == f[k - 1]
  <2>1. o \in Nat /\ LookupOk(b, o) /\ LookupMinimal(b, o)
    BY <1>31, <1>8
  <2>2. f[k] = LookupEnd(b, o) /\ items[k] = LookupAt(b, o)
    BY <1>4, <1>5, <1>7, <1>8
  <2> HIDE DEF o
  <2>3. /\ LookupBytes(LookupAt(b, o)) = Slice(b, o, LookupEnd(b, o))
        /\ LookupEnd(b, o) \in Nat /\ o <= LookupEnd(b, o)
        /\ LookupEnd(b, o) <= Len(b)
    BY <2>1, LookupAgain
  <2>4. Slice(b, o, LookupEnd(b, o)) \in Seq(Bytes)
    BY <2>1, <2>3, SliceIs
  <2> QED
    BY <2>2, <2>3, <2>4 DEF o
<1>10. /\ Len(items) = n /\ parts \in [1..n -> Seq(Bytes)]
       /\ \A k \in 1..n : parts[k] = Slice(b, f[k - 1], f[k])
  <2>1. Len(items) = n
    BY <1>4, <1>5, <1>7
  <2> QED
    BY <1>9, <1>41, <2>1
<1>11. CASE v.version = "v0"
  <2>1. /\ Length(b, p) \in Nat \ {0} /\ Shortvec(n) = Slice(b, p, from)
        /\ p + Length(b, p) <= Len(b)
    BY <1>1, <1>6, <1>11, EndsAre, ShortvecAgain DEF Readable
  <2>2. from <= Len(b) /\ p <= from
    BY <1>1, <1>6, <1>11, <2>1
  <2>7. f[0] <= Len(b) /\ f \in [0..n -> Nat]
    BY <1>8, <2>2
  <2>8. \A k \in 1..n : /\ parts[k] = Slice(b, f[k - 1], f[k])
                        /\ f[k - 1] <= f[k] /\ f[k] <= Len(b)
    BY <1>9, <1>10
  <2>3. FlattenSeq(parts) = Slice(b, f[0], f[n]) /\ f[0] <= f[n] /\ f[n] <= Len(b)
    <3>1. /\ b \in Seq(Bytes) /\ n \in Nat /\ f \in [0..n -> Nat]
          /\ parts \in [1..n -> Seq(Bytes)]
      BY <1>1, <1>10, <2>7
    <3> QED
      BY ONLY <2>7, <2>8, <3>1, SlicesJoined
  <2>4. FlattenSeq(parts) = Slice(b, from, to) /\ from <= to /\ to <= Len(b)
    BY <1>31, <1>8, <2>3
  <2>51. /\ b \in Seq(Bytes) /\ p \in Nat /\ from \in Nat /\ to \in Nat
         /\ p <= from /\ from <= to /\ to <= Len(b)
    BY <1>1, <1>2, <1>3, <2>2, <2>4
  <2>5. Slice(b, p, from) \o Slice(b, from, to) = Slice(b, p, to)
    BY ONLY <2>51, SlicesMeet
  <2>6. Shortvec(Len(items)) \o FlattenSeq(parts) = Slice(b, p, to)
    BY <1>10, <2>1, <2>4, <2>5
  <2> QED
    BY <1>11, <2>6 DEF items, parts, p, to
<1>12. CASE v.version = "legacy"
  <2>1. p = to
    BY <1>31, <1>8, <1>12, <1>61
  <2>2. p \in 0..Len(b)
    BY <1>1, <1>2, <2>1 DEF to
  <2>3. Slice(b, p, p) = <<>>
    BY <2>2, SliceIsWhole
  <2> QED
    BY <1>12, <2>1, <2>3 DEF p, to
<1> QED
  BY <1>1, <1>11, <1>12

(* So the whole message is.                                                *)
LEMMA SerializedAgain ==
  ASSUME NEW b \in Seq(Bytes), NEW v, Found(b, v), v.minimal,
         v.static_accounts_offset + v.static_account_count * KeyLength <= v.recent_blockhash_offset,
         EachHasAnIndex(v.static_account_count)
  PROVE  b = Serialize(Read(v))
<1> DEFINE m == Read(v)
           h == HeaderEnd(v)
           hash == v.recent_blockhash_offset
           p == ProgramsCount(v)
           i == v.lookups_offset
           e == Len(b)
           H == HeaderBytes(m)
           K == Shortvec(Len(m.keys)) \o FlattenSeq(KeyParts(m))
           I == Shortvec(Len(m.instructions)) \o FlattenSeq(InstructionParts(m))
           L == IF m.version = "v0" THEN Shortvec(Len(m.lookups)) \o FlattenSeq(LookupParts(m))
                                    ELSE <<>>
<1>1. Serialize(m) = H \o K \o m.blockhash \o I \o L
  BY SerializedParts
<1>2. H = Slice(b, 0, h)
  BY HeaderAgain
<1>3. K = Slice(b, h, hash) /\ h \in Nat /\ h <= hash /\ hash <= e
  BY KeysAgain
<1>4. I = Slice(b, p, i) /\ p \in Nat /\ p <= i /\ i \in Nat /\ i <= e
  BY InstructionsAgain
<1>5. m.version = v.version /\ m.blockhash = Slice(b, hash, p) /\ p = hash + KeyLength
  <2>1. v.input = b
    BY DEF Found
  <2> QED
    BY <2>1 DEF Read, ProgramsCount
<1>6. L = Slice(b, i, e)
  BY <1>5, LookupsAgain
<1>7. hash \in Nat /\ KeyLength \in Nat /\ e \in Nat
  BY SizesAssumption, LenProperties DEF Found, Counts
<1> HIDE DEF m, h, hash, p, i, e, H, K, I, L
<1>8. /\ hash <= p /\ p <= e /\ 0 <= h /\ 0 <= hash /\ 0 <= p /\ 0 <= i /\ e <= e /\ 0 \in Nat
  BY <1>3, <1>4, <1>5, <1>7
<1>81. e = Len(b)
  BY DEF e
<1> DEFINE o == 0
<1>82. /\ b \in Seq(Bytes) /\ o \in Nat /\ h \in Nat /\ hash \in Nat /\ p \in Nat /\ i \in Nat
       /\ o <= h /\ h <= hash /\ hash <= Len(b) /\ o <= hash /\ hash <= p /\ p <= Len(b)
       /\ o <= p /\ p <= i /\ i <= Len(b)
  BY <1>3, <1>4, <1>7, <1>8, <1>81
<1> HIDE DEF o
<1>83. Slice(b, o, h) \o Slice(b, h, hash) = Slice(b, o, hash)
  BY ONLY <1>82, SlicesMeet
<1>84. Slice(b, o, hash) \o Slice(b, hash, p) = Slice(b, o, p)
  BY ONLY <1>82, SlicesMeet
<1>85. Slice(b, o, p) \o Slice(b, p, i) = Slice(b, o, i)
  BY ONLY <1>82, SlicesMeet
<1>9. Slice(b, 0, h) \o Slice(b, h, hash) = Slice(b, 0, hash)
  BY <1>83 DEF o
<1>10. Slice(b, 0, hash) \o Slice(b, hash, p) = Slice(b, 0, p)
  BY <1>84 DEF o
<1>11. Slice(b, 0, p) \o Slice(b, p, i) = Slice(b, 0, i)
  BY <1>85 DEF o
<1>12. Slice(b, 0, i) \o Slice(b, i, e) = Slice(b, 0, e)
  <2>1. /\ b \in Seq(Bytes) /\ o \in Nat /\ i \in Nat /\ e \in Nat
        /\ o <= i /\ i <= e /\ e <= Len(b)
    BY <1>4, <1>7, <1>8, <1>81 DEF o
  <2>2. Slice(b, o, i) \o Slice(b, i, e) = Slice(b, o, e)
    BY ONLY <2>1, SlicesMeet
  <2> QED
    BY <2>2 DEF o
<1>13. Serialize(m) = Slice(b, 0, e)
  BY <1>1, <1>2, <1>3, <1>4, <1>5, <1>6, <1>9, <1>10, <1>11, <1>12
<1>14. Slice(b, 0, e) = b
  BY <1>81, SliceIsWhole
<1> QED
  BY <1>13, <1>14 DEF m

(* No two inputs are accepted for one message: bytes whose lengths are all *)
(* minimal and that are accepted are what the message they are read as is  *)
(* serialized to, if their keys can be told apart by a byte.  The premise  *)
(* is that the keys lie before the blockhash, which is false only of       *)
(* counts whose size in bytes a usize cannot hold.                         *)
THEOREM AcceptedBytesAreSerialized == Spec => [](KeysAreInTheInput => AcceptedIsSerialized)
<1>1. Inv => (KeysAreInTheInput => AcceptedIsSerialized)
  <2> SUFFICES ASSUME Inv, KeysAreInTheInput, view.ok, view.minimal,
                      EachHasAnIndex(view.static_account_count)
               PROVE  input = Serialize(Read(view))
    BY DEF AcceptedIsSerialized
  <2>1. input \in Seq(Bytes) /\ view = try_new(input)
    BY DEF Inv, Unparsed
  <2>2. Found(input, view)
    BY <2>1, TryNewFinds
  <2>3. view.static_accounts_offset + view.static_account_count * KeyLength
          <= view.recent_blockhash_offset
    BY DEF KeysAreInTheInput
  <2> QED
    BY <2>1, <2>2, <2>3, SerializedAgain
<1> QED
  BY <1>1, Invariance, PTL

(* Bytes that are in others from an offset on.                             *)
At(b, o, s) == o + Len(s) <= Len(b) /\ \A k \in 1..Len(s) : b[o + k] = s[k]

(* Of two parts the second one is where the first one ends.                *)
LEMMA AtSplit ==
  ASSUME NEW b \in Seq(Bytes), NEW o \in Nat, NEW s \in Seq(Bytes), NEW t \in Seq(Bytes),
         At(b, o, s \o t)
  PROVE  /\ At(b, o, s) /\ At(b, o + Len(s), t)
         /\ Len(s) \in Nat /\ Len(t) \in Nat /\ Len(s \o t) = Len(s) + Len(t)
<1> DEFINE w == s \o t
           S == Bytes
<1>1. s \in Seq(S) /\ t \in Seq(S)
  OBVIOUS
<1>2. At(b, o, w)
  OBVIOUS
<1> HIDE DEF S
<1>3. /\ w \in Seq(S) /\ Len(s) \in Nat /\ Len(t) \in Nat /\ Len(w) = Len(s) + Len(t)
      /\ \A i \in 1..Len(s) : w[i] = s[i]
      /\ \A i \in 1..Len(t) : w[Len(s) + i] = t[i]
  BY ONLY <1>1, ConcatIs
<1> HIDE DEF w
<1>4. Len(b) \in Nat
  BY LenProperties
<1>5. o + Len(s) <= Len(b) /\ (o + Len(s)) + Len(t) <= Len(b)
  BY <1>2, <1>3, <1>4 DEF At
<1>6. \A k \in 1..Len(s) : b[o + k] = s[k]
  <2>1. \A k \in 1..Len(s) : k \in 1..Len(w)
    BY <1>3
  <2> QED
    BY <1>2, <1>3, <2>1 DEF At
<1>7. \A k \in 1..Len(t) : b[(o + Len(s)) + k] = t[k]
  <2>1. \A k \in 1..Len(t) : Len(s) + k \in 1..Len(w) /\ o + (Len(s) + k) = (o + Len(s)) + k
    BY <1>3
  <2> QED
    BY <1>2, <1>3, <2>1 DEF At
<1> QED
  BY <1>3, <1>5, <1>6, <1>7 DEF At, w

(* Bytes are in themselves.                                                *)
LEMMA AtWhole ==
  ASSUME NEW b \in Seq(Bytes)
  PROVE  At(b, 0, b)
<1>1. Len(b) \in Nat
  BY LenProperties
<1> QED
  BY <1>1 DEF At

(* What is at an offset is the slice there.                                *)
LEMMA AtSlice ==
  ASSUME NEW b \in Seq(Bytes), NEW o \in Nat, NEW s \in Seq(Bytes), At(b, o, s)
  PROVE  /\ Slice(b, o, o + Len(s)) = s /\ Len(s) \in Nat
         /\ o + Len(s) \in Nat /\ o + Len(s) <= Len(b)
<1> DEFINE to == o + Len(s)
           cut == Slice(b, o, to)
<1>1. Len(s) \in Nat /\ Len(b) \in Nat
  BY LenProperties
<1>2. to \in Nat /\ o <= to /\ to <= Len(b) /\ to - o = Len(s)
  BY <1>1 DEF At
<1>3. cut \in Seq(Bytes) /\ Len(cut) = to - o /\ \A k \in 1..(to - o) : cut[k] = b[o + k]
  BY <1>2, SliceElements
<1> HIDE DEF cut
<1>4. \A k \in 1..Len(s) : cut[k] = s[k]
  BY <1>2, <1>3 DEF At
<1>5. cut = s
  BY <1>2, <1>3, <1>4, SeqEqual
<1> QED
  BY <1>1, <1>2, <1>5 DEF cut

(* A length that a usize holds takes no more bytes than read_shortvec tries. *)
LEMMA LengthFits ==
  ASSUME NEW value \in Nat, value < Word, NEW n \in Nat \ {0}, IsShortvecLen(n, value)
  PROVE  n \in 1..((WordBits + GroupBits - 1) \div GroupBits)
<1> DEFINE x == WordBits + GroupBits - 1
           q == x \div GroupBits
<1>1. x \in Nat /\ GroupBits \in Nat \ {0} /\ WordBits \in Nat \ {0} /\ GroupBits <= x
  BY SizesAssumption
<1>2. q \in Nat /\ q * GroupBits <= x /\ x < q * GroupBits + GroupBits
  BY <1>1, Quotient
<1> HIDE DEF q
<1>3. 1 <= q
  BY <1>1, <1>2
<1>4. ASSUME n > q
      PROVE  FALSE
  <2> DEFINE j == n - 1
             a == GroupBits * j
  <2>1. j \in Nat /\ q <= j /\ n = j + 1 /\ n # 1
    BY <1>2, <1>3, <1>4
  <2>2. a \in Nat /\ a = j * GroupBits
    BY <1>1, <2>1
  <2>3. q * GroupBits <= j * GroupBits
    BY <1>1, <1>2, <2>1, Products
  <2> DEFINE p == q * GroupBits
  <2>4. p \in Nat
    BY <1>1, <1>2
  <2>5. p <= a
    BY <2>2, <2>3
  <2>6. x < p + GroupBits
    BY <1>2
  <2> HIDE DEF p, a
  <2>7. WordBits <= a
    BY <1>1, <2>2, <2>4, <2>5, <2>6
  <2> DEFINE more == a - WordBits
  <2>8. more \in Nat /\ WordBits + more = a
    BY <1>1, <2>2, <2>7
  <2> HIDE DEF more
  <2>9. TwoTo(WordBits) <= TwoTo(a)
    BY <1>1, <2>8, TwoToGrows
  <2>10. value >= Shift(j)
    BY <2>1 DEF IsShortvecLen
  <2>11. Word <= Shift(j)
    BY <2>9 DEF Word, Shift, a
  <2>12. Shift(j) \in Nat /\ Word \in Nat
    BY <2>1, ShiftIs, FlagIs
  <2> QED
    BY <2>10, <2>11, <2>12
<1>5. n \in 1..q
  BY <1>2, <1>4
<1> QED
  BY <1>5 DEF q

(* A digit taken off a quotient.                                           *)
LEMMA DigitOff ==
  ASSUME NEW base \in Nat, 1 <= base, NEW s \in Nat, 1 <= s, NEW below \in Nat, below < s,
         NEW above \in Nat
  PROVE  /\ above % base \in Nat /\ above % base < base /\ above \div base \in Nat
         /\ ((below + s * above) \div s) % base = above % base
         /\ below + s * above
              = (below + (above % base) * s) + (base * s) * (above \div base)
         /\ (above % base) * s <= below + s * above
<1> DEFINE q == above \div base
           d == above % base
<1>1. d \in Nat /\ d < base /\ q \in Nat /\ above = base * q + d
  OBVIOUS
<1>2. (below + s * above) \div s = above
  BY QuotientIs
<1> HIDE DEF q, d
<1>3. s * above = d * s + (base * s) * q
  <2>1. s * above = s * (base * q + d)
    BY <1>1
  <2>2. s * (base * q + d) = d * s + (base * s) * q
    BY <1>1
  <2> QED
    BY <2>1, <2>2
<1>4. d * s \in Nat /\ (base * s) * q \in Nat
  BY <1>1
<1>5. /\ below + s * above = (below + d * s) + (base * s) * q
      /\ d * s <= below + s * above
  <2> DEFINE x == d * s
             y == (base * s) * q
             z == s * above
  <2>1. x \in Nat /\ y \in Nat /\ z = x + y
    BY <1>3, <1>4
  <2> HIDE DEF x, y, z
  <2>2. below + z = (below + x) + y /\ x <= below + z
    BY <2>1
  <2> QED
    BY <2>2 DEF x, y, z
<1> QED
  BY <1>1, <1>2, <1>5 DEF q, d

(* A value that is written at an offset is read there, as short as it is.  *)
LEMMA ShortvecAt ==
  ASSUME NEW b \in Seq(Bytes), NEW o \in Nat, NEW value \in Nat, value < Word,
         At(b, o, Shortvec(value))
  PROVE  /\ Readable(b, o) /\ Value(b, o) = value /\ Minimal(b, o)
         /\ Length(b, o) = Len(Shortvec(value)) /\ Length(b, o) \in Nat \ {0}
<1> DEFINE n == shortvec_len(value)
           s == Shortvec(value)
           d(k) == (value \div Shift(k - 1)) % Flag
           digit(k) == d(k) + (IF k < n THEN Flag ELSE 0)
<1>1. n \in 1..(WordBits + 1) /\ IsShortvecLen(n, value)
  BY ShortvecLenIs
<1>2. n \in Nat \ {0}
  BY <1>1, SizesAssumption
<1>3. n \in 1..((WordBits + GroupBits - 1) \div GroupBits)
  BY <1>1, <1>2, LengthFits
<1>4. s \in Seq(Bytes) /\ Len(s) = n
  BY ShortvecIsBytes
<1>5. s = [k \in 1..n |-> digit(k)]
  BY DEF Shortvec
<1>6. At(b, o, s)
  OBVIOUS
<1>7. value < Shift(n) /\ Shift(n) \in Nat
  BY <1>1, <1>2, ShiftIs DEF IsShortvecLen
<1> HIDE DEF n, s
<1>8. /\ Flag \in Nat /\ Flag >= 2 /\ Len(b) \in Nat /\ Word \in Nat
  BY FlagIs, LenProperties
<1>9. o + n <= Len(b) /\ \A k \in 1..n : b[o + k] = digit(k)
  BY <1>4, <1>5, <1>6 DEF At
<1>10. ASSUME NEW k \in 1..n
       PROVE  /\ Shift(k - 1) \in Nat /\ 1 <= Shift(k - 1) /\ Shift(k) = Flag * Shift(k - 1)
              /\ k - 1 \in Nat
  <2> DEFINE j == k - 1
  <2>1. j \in Nat /\ k = j + 1
    BY <1>2
  <2> HIDE DEF j
  <2>2. Shift(j) \in Nat /\ 1 <= Shift(j) /\ Shift(j + 1) = Flag * Shift(j)
    BY <2>1, ShiftIs
  <2> QED
    BY <2>1, <2>2 DEF j
<1>11. ASSUME NEW k \in 1..n
       PROVE  d(k) \in Nat /\ d(k) < Flag
  <2> DEFINE sh == Shift(k - 1)
             q == value \div sh
  <2>1. sh \in Nat \ {0}
    BY <1>10
  <2> HIDE DEF sh
  <2>2. q \in Nat
    BY <2>1
  <2> HIDE DEF q
  <2>3. q % Flag \in Nat /\ q % Flag < Flag
    BY <1>8, <2>2
  <2> QED
    BY <2>3 DEF q, sh
<1> HIDE DEF d
<1>12. ASSUME NEW k \in 1..n
       PROVE  /\ k < n => ~(b[o + k] < Flag)
              /\ k = n => b[o + k] < Flag
              /\ b[o + k] % Flag = d(k)
  <2> DEFINE x == d(k)
             y == b[o + k]
  <2>1. x \in Nat /\ x < Flag /\ y = x + (IF k < n THEN Flag ELSE 0)
    BY <1>9, <1>11
  <2> HIDE DEF x, y
  <2>2. CASE k < n
    <3>1. y = x + Flag * 1
      BY <1>8, <2>1, <2>2
    <3>2. (x + Flag * 1) % Flag = x
      BY <1>8, <2>1, RemainderIs
    <3>3. y % Flag = x /\ ~(y < Flag)
      BY <1>8, <2>1, <2>2, <3>1, <3>2
    <3>4. k # n
      BY <1>2, <2>2
    <3> QED
      BY <3>3, <3>4 DEF x, y
  <2>3. CASE ~(k < n)
    <3>1. y = x + Flag * 0 /\ y = x
      BY <1>8, <2>1, <2>3
    <3>2. (x + Flag * 0) % Flag = x
      BY <1>8, <2>1, RemainderIs
    <3>3. y % Flag = x /\ y < Flag
      BY <2>1, <3>1, <3>2
    <3> QED
      BY <2>3, <3>3 DEF x, y
  <2> QED
    BY <2>2, <2>3
<1>13. n \in shortvec_ends(b, o)
  <2>2. n \in 1..n
    BY <1>2
  <2>1. b[o + n] < Flag
    BY ONLY <1>12, <2>2
  <2> QED
    BY <1>3, <1>9, <2>1 DEF shortvec_ends
<1>14. shortvec_ends(b, o) # {}
  BY <1>13
<1>15. Length(b, o) = n
  <2>1. /\ Length(b, o) \in Nat \ {0} /\ Length(b, o) <= n
        /\ Length(b, o) \in shortvec_ends(b, o)
    BY <1>13, EndsAre
  <2> DEFINE l == Length(b, o)
  <2>2. b[o + l] < Flag /\ l \in Nat \ {0} /\ l <= n
    BY <2>1 DEF shortvec_ends
  <2> HIDE DEF l
  <2>3. l \in 1..n
    BY <1>2, <2>2
  <2>4. ~(l < n)
    BY <1>12, <2>2, <2>3
  <2>5. l = n
    BY <1>2, <2>2, <2>4
  <2> QED
    BY <2>5 DEF l
<1>16. PICK f \in [0..n -> Nat] : /\ f[0] = 0 /\ \A k \in 1..n : f[k] = f[k - 1] + part(b, o, k)
                                  /\ shortvec_value(b, o, n) = f[n]
  BY <1>2, <1>9, ValueRun
<1>17. \A k \in 1..n : part(b, o, k) = d(k) * Shift(k - 1)
  BY <1>12 DEF part
<1> DEFINE Reached(k, above) == value = f[k] + Shift(k) * above /\ f[k] < Shift(k)
           T == {k \in Nat : k <= n => \E above \in Nat : Reached(k, above)}
<1>18. 0 \in T
  <2>1. Shift(0) = 1 /\ value = 0 + 1 * value
    BY ShiftIs
  <2>2. Reached(0, value)
    BY <1>16, <2>1
  <2> QED
    BY <2>2
<1>19. ASSUME NEW k \in 1..n, NEW above \in Nat, Reached(k - 1, above)
       PROVE  /\ d(k) = above % Flag
              /\ d(k) * Shift(k - 1) <= value
              /\ above \div Flag \in Nat /\ Reached(k, above \div Flag)
  <2> DEFINE sh == Shift(k - 1)
             a == f[k - 1]
             base == Flag
  <2>1. sh \in Nat /\ 1 <= sh /\ Shift(k) = base * sh /\ k - 1 \in 0..n /\ k \in 0..n
    BY <1>2, <1>10
  <2>2. a \in Nat /\ a < sh /\ value = a + sh * above
    BY <1>16, <1>19, <2>1
  <2>3. base \in Nat /\ 1 <= base
    BY <1>8
  <2>4. d(k) = (value \div sh) % base
    BY DEF d
  <2>5. f[k] = a + d(k) * sh
    BY <1>16, <1>17
  <2> HIDE DEF sh, a, base
  <2>6. /\ above % base \in Nat /\ above % base < base /\ above \div base \in Nat
        /\ ((a + sh * above) \div sh) % base = above % base
        /\ a + sh * above = (a + (above % base) * sh) + (base * sh) * (above \div base)
        /\ (above % base) * sh <= a + sh * above
    BY <2>1, <2>2, <2>3, DigitOff
  <2>7. d(k) = above % base
    BY <2>2, <2>4, <2>6
  <2>8. value = f[k] + Shift(k) * (above \div base)
    BY <2>1, <2>2, <2>5, <2>6, <2>7
  <2>9. f[k] < Shift(k)
    <3> DEFINE x == d(k)
    <3>1. x \in Nat /\ x < base
      BY <2>6, <2>7
    <3> HIDE DEF x
    <3>2. a + x * sh < base * sh
      BY <2>1, <2>2, <2>3, <3>1, DigitsBelow
    <3> QED
      BY <2>1, <2>5, <3>2 DEF x
  <2>10. d(k) * sh <= value
    BY <2>2, <2>6, <2>7
  <2> QED
    BY <2>6, <2>7, <2>8, <2>9, <2>10 DEF base, sh
<1>20. \A k \in Nat : k \in T => k + 1 \in T
  <2> SUFFICES ASSUME NEW k \in Nat, k \in T, k + 1 <= n
               PROVE  \E above \in Nat : Reached(k + 1, above)
    OBVIOUS
  <2>1. k <= n /\ k + 1 \in 1..n /\ (k + 1) - 1 = k
    BY <1>2
  <2>2. PICK above \in Nat : Reached(k, above)
    BY <2>1
  <2> DEFINE j == k + 1
  <2>3. j \in 1..n /\ j - 1 = k
    BY <2>1
  <2> HIDE DEF j, Reached
  <2>4. Reached(j - 1, above)
    BY <2>2, <2>3
  <2>5. above \div Flag \in Nat /\ Reached(j, above \div Flag)
    BY <1>19, <2>3, <2>4
  <2> QED
    BY <2>5 DEF j
<1>21. \A k \in 0..n : \E above \in Nat : Reached(k, above)
  <2> HIDE DEF T, Reached
  <2>1. Nat \subseteq T
    BY <1>18, <1>20, Induction
  <2> QED
    BY <1>2, <2>1 DEF T
<1>22. f[n] = value
  <2>1. PICK above \in Nat : Reached(n, above)
    BY <1>2, <1>21
  <2> DEFINE sh == Shift(n)
             a == f[n]
  <2>2. sh \in Nat /\ a \in Nat /\ value = a + sh * above /\ value < sh
    BY <1>2, <1>7, <1>16, <2>1
  <2> HIDE DEF sh, a
  <2>3. above = 0
    <3>1. ASSUME above # 0
          PROVE  FALSE
      <4>1. 1 <= above /\ 1 \in Nat
        BY <3>1
      <4>2. 1 * sh <= above * sh
        BY <2>2, <4>1, Products
      <4>3. above * sh = sh * above /\ 1 * sh = sh /\ sh * above \in Nat
        BY <2>2
      <4> DEFINE p == sh * above
      <4>4. p \in Nat /\ sh <= p /\ value = a + p
        BY <2>2, <4>2, <4>3
      <4> HIDE DEF p
      <4> QED
        BY <2>2, <4>4
    <3> QED
      BY <3>1
  <2>4. value = a
    BY <2>2, <2>3
  <2> QED
    BY <2>4 DEF a
<1> HIDE DEF T, Reached
<1>23. \A k \in 1..n : part(b, o, k) < Word
  <2> SUFFICES ASSUME NEW k \in 1..n
               PROVE  part(b, o, k) < Word
    OBVIOUS
  <2> DEFINE j == k - 1
  <2>1. j \in 0..n
    BY <1>2
  <2>2. PICK above \in Nat : Reached(j, above)
    BY <1>21, <2>1
  <2>3. d(k) * Shift(k - 1) <= value
    BY <1>19, <2>2
  <2> DEFINE p == part(b, o, k)
  <2>4. p <= value /\ p \in Nat
    BY <1>2, <1>9, <1>17, <2>3, PartIsNat
  <2> HIDE DEF p
  <2>5. p < Word
    BY <1>8, <2>4
  <2> QED
    BY <2>5 DEF p
<1>24. Readable(b, o)
  BY <1>14, <1>15, <1>23 DEF Readable
<1>25. Value(b, o) = value
  BY <1>15, <1>16, <1>22 DEF Value
<1>26. Minimal(b, o)
  BY <1>15, <1>25 DEF Minimal, n
<1> QED
  BY <1>2, <1>4, <1>15, <1>24, <1>25, <1>26 DEF s

(* Counted bytes are read as they were written.                            *)
LEMMA CountedAt ==
  ASSUME NEW b \in Seq(Bytes), NEW o \in Nat, NEW bytes \in Seq(Bytes), Len(bytes) < Word,
         At(b, o, Counted(bytes))
  PROVE  /\ CountedOk(b, o) /\ CountedEnd(b, o) = o + Len(Counted(bytes))
         /\ CountedBytes(b, o) = bytes /\ Minimal(b, o) /\ Counted(bytes) \in Seq(Bytes)
<1> DEFINE value == Len(bytes)
           s == Shortvec(value)
           w == s \o bytes
<1>1. value \in Nat /\ value < Word
  BY LenProperties
<1>2. s \in Seq(Bytes)
  BY <1>1, ShortvecIsBytes
<1>3. Counted(bytes) = w /\ At(b, o, w)
  BY DEF Counted
<1> HIDE DEF s, value
<1>4. /\ At(b, o, s) /\ At(b, o + Len(s), bytes)
      /\ Len(s) \in Nat /\ Len(bytes) \in Nat /\ Len(w) = Len(s) + Len(bytes)
  BY <1>2, <1>3, AtSplit
<1>5. /\ Readable(b, o) /\ Value(b, o) = value /\ Minimal(b, o) /\ Length(b, o) = Len(s)
  BY <1>1, <1>4, ShortvecAt DEF s
<1>6. value = Len(bytes)
  BY DEF value
<1> HIDE DEF w
<1> DEFINE from == o + Len(s)
<1>7. from \in Nat /\ At(b, from, bytes)
  BY <1>4
<1>8. CountedEnd(b, o) = from + Len(bytes)
  BY <1>5, <1>6 DEF CountedEnd
<1> HIDE DEF from
<1>9. Slice(b, from, from + Len(bytes)) = bytes /\ from + Len(bytes) <= Len(b)
  BY <1>7, AtSlice
<1>10. CountedOk(b, o)
  BY <1>5, <1>8, <1>9 DEF CountedOk
<1>11. CountedBytes(b, o) = bytes
  BY <1>5, <1>8, <1>9 DEF CountedBytes, from
<1>12. from + Len(bytes) = o + Len(w)
  BY <1>4 DEF from
<1>13. w \in Seq(Bytes)
  BY <1>1, <1>3, CountedIsBytes DEF value
<1> QED
  BY <1>3, <1>5, <1>8, <1>10, <1>11, <1>12, <1>13

(* So is an instruction.                                                   *)
LEMMA InstructionIsAt ==
  ASSUME NEW b \in Seq(Bytes), NEW o \in Nat, NEW i \in InstructionType,
         Len(i.accounts) < Word, Len(i.data) < Word, At(b, o, InstructionBytes(i))
  PROVE  /\ InstructionOk(b, o) /\ InstructionMinimal(b, o) /\ InstructionAt(b, o) = i
         /\ InstructionEnd(b, o) = o + Len(InstructionBytes(i))
<1> DEFINE p == <<i.program>>
           x == Counted(i.accounts)
           y == Counted(i.data)
           px == p \o x
           all == px \o y
           accounts == o + 1
           data == accounts + Len(x)
<1>1. /\ i.program \in Bytes /\ i.accounts \in Seq(Bytes) /\ i.data \in Seq(Bytes)
      /\ i = [program |-> i.program, accounts |-> i.accounts, data |-> i.data]
  BY DEF InstructionType
<1>2. InstructionBytes(i) = all /\ At(b, o, all)
  BY DEF InstructionBytes
<1>3. p \in Seq(Bytes) /\ Len(p) = 1 /\ p[1] = i.program
  BY <1>1
<1>4. x \in Seq(Bytes) /\ y \in Seq(Bytes)
  BY <1>1, CountedIsBytes
<1> HIDE DEF p, x, y
<1>5. px \in Seq(Bytes)
  BY <1>3, <1>4
<1> HIDE DEF px
<1>6. /\ At(b, o, px) /\ At(b, o + Len(px), y) /\ Len(px) \in Nat /\ Len(y) \in Nat
      /\ Len(all) = Len(px) + Len(y)
  BY <1>2, <1>4, <1>5, AtSplit
<1> HIDE DEF all
<1>7. /\ At(b, o, p) /\ At(b, o + Len(p), x) /\ Len(x) \in Nat /\ Len(px) = Len(p) + Len(x)
  <2>1. px = p \o x
    BY DEF px
  <2>2. /\ b \in Seq(Bytes) /\ o \in Nat /\ p \in Seq(Bytes) /\ x \in Seq(Bytes)
        /\ At(b, o, p \o x)
    BY <1>3, <1>4, <1>6, <2>1
  <2>3. /\ At(b, o, p) /\ At(b, o + Len(p), x) /\ Len(p) \in Nat /\ Len(x) \in Nat
        /\ Len(p \o x) = Len(p) + Len(x)
    BY ONLY <2>2, AtSplit
  <2> QED
    BY <2>1, <2>3
<1>8. accounts \in Nat /\ data \in Nat /\ At(b, accounts, x) /\ o + Len(px) = data
  BY <1>3, <1>7
<1>9. At(b, data, y)
  BY <1>6, <1>8
<1>10. b[o + 1] = i.program /\ o + 1 <= Len(b)
  BY <1>3, <1>7 DEF At
<1>11. accounts = o + 1 /\ data = accounts + Len(x)
  OBVIOUS
<1> HIDE DEF accounts, data
<1>12. /\ CountedOk(b, accounts) /\ CountedEnd(b, accounts) = data
       /\ CountedBytes(b, accounts) = i.accounts /\ Minimal(b, accounts)
  BY <1>1, <1>8, <1>11, CountedAt DEF x
<1>13. /\ CountedOk(b, data) /\ CountedEnd(b, data) = data + Len(y)
       /\ CountedBytes(b, data) = i.data /\ Minimal(b, data)
  BY <1>1, <1>8, <1>9, CountedAt DEF y
<1>14. InstructionData(b, o) = data
  BY <1>11, <1>12 DEF InstructionData
<1>15. InstructionEnd(b, o) = data + Len(y)
  BY <1>13, <1>14 DEF InstructionEnd
<1>16. data + Len(y) = o + Len(all)
  BY <1>6, <1>8
<1>17. InstructionOk(b, o) /\ InstructionMinimal(b, o)
  BY <1>10, <1>11, <1>12, <1>13, <1>14 DEF InstructionOk, InstructionMinimal
<1>18. InstructionAt(b, o) = i
  BY <1>1, <1>10, <1>11, <1>12, <1>13, <1>14 DEF InstructionAt
<1> QED
  BY <1>2, <1>15, <1>16, <1>17, <1>18

(* So is a lookup.                                                         *)
LEMMA LookupIsAt ==
  ASSUME NEW b \in Seq(Bytes), NEW o \in Nat, NEW l \in LookupType,
         Len(l.writable) < Word, Len(l.readonly) < Word, At(b, o, LookupBytes(l))
  PROVE  /\ LookupOk(b, o) /\ LookupMinimal(b, o) /\ LookupAt(b, o) = l
         /\ LookupEnd(b, o) = o + Len(LookupBytes(l))
<1> DEFINE p == l.key
           x == Counted(l.writable)
           y == Counted(l.readonly)
           px == p \o x
           all == px \o y
           writable == o + KeyLength
           readonly == writable + Len(x)
<1>1. /\ l.key \in Keys /\ l.writable \in Seq(Bytes) /\ l.readonly \in Seq(Bytes)
      /\ l = [key |-> l.key, writable |-> l.writable, readonly |-> l.readonly]
      /\ KeyLength \in Nat
  BY SizesAssumption DEF LookupType
<1>2. LookupBytes(l) = all /\ At(b, o, all)
  BY DEF LookupBytes
<1>3. p \in Seq(Bytes) /\ Len(p) = KeyLength
  BY <1>1, KeysAreBytes
<1>4. x \in Seq(Bytes) /\ y \in Seq(Bytes)
  BY <1>1, CountedIsBytes
<1> HIDE DEF p, x, y
<1>5. px \in Seq(Bytes)
  BY <1>3, <1>4
<1> HIDE DEF px
<1>6. /\ At(b, o, px) /\ At(b, o + Len(px), y) /\ Len(px) \in Nat /\ Len(y) \in Nat
      /\ Len(all) = Len(px) + Len(y)
  BY <1>2, <1>4, <1>5, AtSplit
<1> HIDE DEF all
<1>7. /\ At(b, o, p) /\ At(b, o + Len(p), x) /\ Len(x) \in Nat /\ Len(px) = Len(p) + Len(x)
  <2>1. px = p \o x
    BY DEF px
  <2>2. /\ b \in Seq(Bytes) /\ o \in Nat /\ p \in Seq(Bytes) /\ x \in Seq(Bytes)
        /\ At(b, o, p \o x)
    BY <1>3, <1>4, <1>6, <2>1
  <2>3. /\ At(b, o, p) /\ At(b, o + Len(p), x) /\ Len(p) \in Nat /\ Len(x) \in Nat
        /\ Len(p \o x) = Len(p) + Len(x)
    BY ONLY <2>2, AtSplit
  <2> QED
    BY <2>1, <2>3
<1>8. writable \in Nat /\ readonly \in Nat /\ At(b, writable, x) /\ o + Len(px) = readonly
  BY <1>1, <1>3, <1>7
<1>9. At(b, readonly, y)
  BY <1>6, <1>8
<1>10. Slice(b, o, writable) = l.key /\ o + KeyLength <= Len(b)
  <2>1. Slice(b, o, o + Len(p)) = p /\ o + Len(p) <= Len(b)
    BY <1>3, <1>7, AtSlice
  <2> QED
    BY <1>3, <2>1 DEF p
<1>11. writable = o + KeyLength /\ readonly = writable + Len(x)
  OBVIOUS
<1> HIDE DEF writable, readonly
<1>12. /\ CountedOk(b, writable) /\ CountedEnd(b, writable) = readonly
       /\ CountedBytes(b, writable) = l.writable /\ Minimal(b, writable)
  BY <1>1, <1>8, <1>11, CountedAt DEF x
<1>13. /\ CountedOk(b, readonly) /\ CountedEnd(b, readonly) = readonly + Len(y)
       /\ CountedBytes(b, readonly) = l.readonly /\ Minimal(b, readonly)
  BY <1>1, <1>8, <1>9, CountedAt DEF y
<1>14. LookupReadonly(b, o) = readonly
  BY <1>11, <1>12 DEF LookupReadonly
<1>15. LookupEnd(b, o) = readonly + Len(y)
  BY <1>13, <1>14 DEF LookupEnd
<1>16. readonly + Len(y) = o + Len(all)
  BY <1>6, <1>8
<1>17. LookupOk(b, o) /\ LookupMinimal(b, o)
  BY <1>10, <1>11, <1>12, <1>13, <1>14 DEF LookupOk, LookupMinimal
<1>18. LookupAt(b, o) = l
  BY <1>1, <1>10, <1>11, <1>12, <1>13, <1>14 DEF LookupAt
<1> QED
  BY <1>2, <1>15, <1>16, <1>17, <1>18

(* Of parts joined, each one is where the one before it ends.              *)
PartsFrom(b, o, n, parts) ==
  {f \in [0..n -> Nat] :
     /\ f[0] = o /\ f[n] = o + Len(FlattenSeq(parts))
     /\ \A k \in 1..n : f[k] = f[k - 1] + Len(parts[k]) /\ At(b, f[k - 1], parts[k])}

(* They are found one after another, down from the last.                   *)
LEMMA PartsAt ==
  ASSUME NEW b \in Seq(Bytes), NEW o \in Nat, NEW n \in Nat,
         NEW parts \in [1..n -> Seq(Bytes)], At(b, o, FlattenSeq(parts))
  PROVE  PartsFrom(b, o, n, parts) # {}
<1>1. parts \in Seq(Seq(Bytes)) /\ Len(parts) = n
  BY FunctionIsSeq
<1>2. PICK g \in LoopRuns(Seq(Bytes), Joining(Bytes, parts), <<>>, n) : FlattenSeq(parts) = g[n]
  BY <1>1, FlattenRun
<1>3. g \in [0..n -> Seq(Bytes)] /\ g[0] = <<>> /\ \A k \in 1..n : g[k] = g[k - 1] \o parts[k]
  BY <1>1, <1>2, JoiningRun
<1> DEFINE P == {k \in 0..n : At(b, o, g[k])}
           f == [k \in 0..n |-> o + Len(g[k])]
<1>4. ASSUME NEW k \in 1..n, At(b, o, g[k])
      PROVE  /\ At(b, o, g[k - 1]) /\ At(b, o + Len(g[k - 1]), parts[k])
             /\ Len(g[k]) = Len(g[k - 1]) + Len(parts[k])
             /\ Len(g[k - 1]) \in Nat /\ Len(parts[k]) \in Nat
  <2> DEFINE s == g[k - 1]
             t == parts[k]
  <2>1. k - 1 \in 0..n /\ g[k] = s \o t
    <3>1. k - 1 \in 0..n
      OBVIOUS
    <3>2. g[k] = g[k - 1] \o parts[k]
      BY <1>3
    <3> QED
      BY <3>1, <3>2
  <2>2. s \in Seq(Bytes) /\ t \in Seq(Bytes)
    BY <1>3, <2>1
  <2>3. At(b, o, s \o t)
    BY <1>4, <2>1
  <2> HIDE DEF s, t
  <2>4. /\ At(b, o, s) /\ At(b, o + Len(s), t)
        /\ Len(s) \in Nat /\ Len(t) \in Nat /\ Len(s \o t) = Len(s) + Len(t)
    BY <2>2, <2>3, AtSplit
  <2> QED
    BY <2>1, <2>4 DEF s, t
<1>5. n \in P
  BY <1>2
<1>6. \A k \in 1..n : k \in P => k - 1 \in P
  BY <1>4
<1> HIDE DEF P
<1>7. \A k \in 0..n : k \in P
  BY <1>5, <1>6, Backwards
<1>8. \A k \in 0..n : At(b, o, g[k])
  BY <1>7 DEF P
<1>9. f \in [0..n -> Nat] /\ \A k \in 0..n : f[k] = o + Len(g[k])
  <2>1. \A k \in 0..n : Len(g[k]) \in Nat
    BY <1>3, LenProperties
  <2>2. \A k \in 0..n : o + Len(g[k]) \in Nat
    BY <2>1
  <2> QED
    BY <2>2
<1> HIDE DEF f
<1>10. f[0] = o /\ f[n] = o + Len(FlattenSeq(parts))
  <2>1. 0 \in 0..n /\ n \in 0..n /\ Len(g[0]) = 0
    BY <1>3
  <2> QED
    BY <1>2, <1>9, <2>1
<1>11. \A k \in 1..n : f[k] = f[k - 1] + Len(parts[k]) /\ At(b, f[k - 1], parts[k])
  <2> SUFFICES ASSUME NEW k \in 1..n
               PROVE  f[k] = f[k - 1] + Len(parts[k]) /\ At(b, f[k - 1], parts[k])
    OBVIOUS
  <2>1. k \in 0..n /\ k - 1 \in 0..n
    OBVIOUS
  <2>2. f[k] = o + Len(g[k]) /\ f[k - 1] = o + Len(g[k - 1])
    BY <1>9, <2>1
  <2>3. At(b, o, g[k])
    BY <1>8, <2>1
  <2>4. /\ At(b, o + Len(g[k - 1]), parts[k])
        /\ Len(g[k]) = Len(g[k - 1]) + Len(parts[k])
        /\ Len(g[k - 1]) \in Nat /\ Len(parts[k]) \in Nat
    BY <1>4, <2>3
  <2>5. At(b, f[k - 1], parts[k])
    BY <2>2, <2>4
  <2>6. f[k] = f[k - 1] + Len(parts[k])
    BY <2>2, <2>4
  <2> QED
    BY <2>5, <2>6
<1>12. f \in PartsFrom(b, o, n, parts)
  BY <1>9, <1>10, <1>11 DEF PartsFrom
<1> QED
  BY <1>12

(* The skips get to the end of a walk.                                     *)
LEMMA InstructionsForward ==
  ASSUME NEW b \in Seq(Bytes), NEW c \in Cursors(b), c.ok, NEW n \in Nat,
         NEW f \in InstructionWalks(b, c.offset, n)
  PROVE  LET d == InstructionsSkipped(c, n)
         IN  d \in Cursors(b) /\ d.ok /\ d.offset = f[n]
<1> DEFINE S == Cursors(b)
           d == InstructionsSkipped(c, n)
<1>1. \A s \in S : skip_compiled_instruction(s) \in S
  BY SkipInstructionIs
<1> HIDE DEF S
<1>2. c \in S
  BY DEF S
<1>3. SkipInstructionRuns(S, c, n) # {}
  BY <1>1, <1>2, SkipInstructionRun
<1>4. PICK g : g \in SkipInstructionRuns(S, c, n)
  BY <1>3
<1>5. /\ g \in [0..n -> Cursors(b)] /\ g[0] = c /\ d = g[n]
      /\ \A k \in 1..n : g[k] = skip_compiled_instruction(g[k - 1])
  BY <1>4 DEF SkipInstructionRuns, S
<1> HIDE DEF d
<1>6. 0 \in 0..n /\ n \in 0..n /\ \A k \in 1..n : k - 1 \in 0..n /\ k \in 0..n
  OBVIOUS
<1>7. /\ f[0] = c.offset
      /\ \A k \in 1..n : InstructionOk(b, f[k - 1]) /\ f[k] = InstructionEnd(b, f[k - 1])
  BY DEF InstructionWalks
<1>8. ASSUME NEW k \in 1..n, g[k - 1].ok, g[k - 1].offset = f[k - 1]
      PROVE  g[k].ok /\ g[k].offset = f[k]
  <2> DEFINE before == g[k - 1]
             after == skip_compiled_instruction(before)
  <2>1. before \in Cursors(b) /\ before.ok /\ before.offset = f[k - 1]
    BY <1>5, <1>6, <1>8
  <2> HIDE DEF before
  <2>2. /\ after.ok <=> before.ok /\ InstructionOk(b, before.offset)
        /\ after.ok => after.offset = InstructionEnd(b, before.offset)
    BY <2>1, SkipInstructionIs
  <2>3. g[k] = after
    BY <1>5 DEF before
  <2> HIDE DEF after
  <2>4. InstructionOk(b, f[k - 1]) /\ f[k] = InstructionEnd(b, f[k - 1])
    BY <1>7
  <2> QED
    BY <2>1, <2>2, <2>3, <2>4
<1> DEFINE T == {k \in Nat : k <= n => g[k].ok /\ g[k].offset = f[k]}
<1>9. 0 \in T
  BY <1>5, <1>7
<1>10. \A k \in Nat : k \in T => k + 1 \in T
  <2> SUFFICES ASSUME NEW k \in Nat, k \in T, k + 1 <= n
               PROVE  g[k + 1].ok /\ g[k + 1].offset = f[k + 1]
    OBVIOUS
  <2> DEFINE j == k + 1
  <2>1. j \in 1..n /\ j - 1 = k /\ g[k].ok /\ g[k].offset = f[k]
    OBVIOUS
  <2> HIDE DEF j
  <2>2. g[j].ok /\ g[j].offset = f[j]
    BY <1>8, <2>1
  <2> QED
    BY <2>2 DEF j
<1> HIDE DEF T
<1>11. Nat \subseteq T
  BY <1>9, <1>10, Induction
<1>12. g[n].ok /\ g[n].offset = f[n]
  BY <1>11 DEF T
<1>13. d \in Cursors(b)
  BY <1>5, <1>6
<1> QED
  BY <1>5, <1>12, <1>13 DEF d

(* So do the skips over lookups.                                           *)
LEMMA LookupsForward ==
  ASSUME NEW b \in Seq(Bytes), NEW c \in Cursors(b), c.ok, NEW n \in Nat,
         NEW f \in LookupWalks(b, c.offset, n)
  PROVE  LET t == LookupsSkipped([c |-> c, writable |-> 0, readonly |-> 0], n)
         IN  t.c.ok /\ t.c.offset = f[n]
<1> DEFINE S == [c : Cursors(b), writable : Nat, readonly : Nat]
           s0 == [c |-> c, writable |-> 0, readonly |-> 0]
           t == LookupsSkipped(s0, n)
<1>1. ASSUME NEW s \in S
      PROVE  /\ skip_lookup(s) \in S
             /\ skip_lookup(s).c.ok <=> s.c.ok /\ LookupOk(b, s.c.offset)
             /\ skip_lookup(s).c.ok => skip_lookup(s).c.offset = LookupEnd(b, s.c.offset)
  <2> DEFINE x == s.c
             w == s.writable
             r == s.readonly
             u == skip_lookup([c |-> x, writable |-> w, readonly |-> r])
  <2>1. /\ s = [c |-> x, writable |-> w, readonly |-> r]
        /\ x \in Cursors(b) /\ w \in Nat /\ r \in Nat
    OBVIOUS
  <2> HIDE DEF x, w, r
  <2>2. /\ u = [c |-> u.c, writable |-> u.writable, readonly |-> u.readonly]
        /\ u.c \in Cursors(b) /\ u.writable \in Nat /\ u.readonly \in Nat
        /\ u.c.ok <=> x.ok /\ LookupOk(b, x.offset)
        /\ u.c.ok => u.c.offset = LookupEnd(b, x.offset)
    <3>1. LookupSkipped(b, x, w, r, u)
      BY <2>1, SkipLookupIs
    <3> HIDE DEF u
    <3> QED
      BY <3>1 DEF LookupSkipped
  <2>3. skip_lookup(s) = u
    BY <2>1
  <2> HIDE DEF u
  <2>4. s.c = x
    BY DEF x
  <2> QED
    BY <2>2, <2>3, <2>4
<1>2. s0 \in S /\ s0.c = c
  OBVIOUS
<1>3. \A s \in S : s.c \in Cursors(b)
  OBVIOUS
<1> HIDE DEF S, s0
<1>4. SkipLookupRuns(S, s0, n) # {}
  <2>1. \A s \in S : skip_lookup(s) \in S
    BY <1>1
  <2> QED
    BY <1>2, <2>1, SkipLookupRun
<1>5. PICK g : g \in SkipLookupRuns(S, s0, n)
  BY <1>4
<1>6. /\ g \in [0..n -> S] /\ g[0] = s0 /\ t = g[n]
      /\ \A k \in 1..n : g[k] = skip_lookup(g[k - 1])
  BY <1>5 DEF SkipLookupRuns
<1> HIDE DEF t
<1>7. /\ f[0] = c.offset
      /\ \A k \in 1..n : LookupOk(b, f[k - 1]) /\ f[k] = LookupEnd(b, f[k - 1])
  BY DEF LookupWalks
<1>8. ASSUME NEW k \in 1..n, g[k - 1].c.ok, g[k - 1].c.offset = f[k - 1]
      PROVE  g[k].c.ok /\ g[k].c.offset = f[k]
  <2> DEFINE before == g[k - 1]
             after == skip_lookup(before)
  <2>1. k - 1 \in 0..n
    OBVIOUS
  <2>2. before \in S
    BY <1>6, <2>1
  <2>3. before.c.ok /\ before.c.offset = f[k - 1] /\ g[k] = after
    BY <1>6, <1>8
  <2> HIDE DEF before
  <2>4. /\ after.c.ok <=> before.c.ok /\ LookupOk(b, before.c.offset)
        /\ after.c.ok => after.c.offset = LookupEnd(b, before.c.offset)
    BY <1>1, <2>2
  <2> HIDE DEF after
  <2>5. LookupOk(b, f[k - 1]) /\ f[k] = LookupEnd(b, f[k - 1])
    BY <1>7
  <2> QED
    BY <2>3, <2>4, <2>5
<1> DEFINE T == {k \in Nat : k <= n => g[k].c.ok /\ g[k].c.offset = f[k]}
<1>9. 0 \in T
  BY <1>2, <1>6, <1>7
<1>10. \A k \in Nat : k \in T => k + 1 \in T
  <2> SUFFICES ASSUME NEW k \in Nat, k \in T, k + 1 <= n
               PROVE  g[k + 1].c.ok /\ g[k + 1].c.offset = f[k + 1]
    OBVIOUS
  <2> DEFINE j == k + 1
  <2>1. j \in 1..n /\ j - 1 = k /\ g[k].c.ok /\ g[k].c.offset = f[k]
    OBVIOUS
  <2> HIDE DEF j
  <2>2. g[j].c.ok /\ g[j].c.offset = f[j]
    BY <1>8, <2>1
  <2> QED
    BY <2>2 DEF j
<1> HIDE DEF T
<1>11. Nat \subseteq T
  BY <1>9, <1>10, Induction
<1>12. g[n].c.ok /\ g[n].c.offset = f[n]
  BY <1>11 DEF T
<1> QED
  BY <1>6, <1>12 DEF t, s0

(* The instructions of a message are skipped and read where they were      *)
(* written.                                                                *)
LEMMA InstructionsWritten ==
  ASSUME NEW b \in Seq(Bytes), NEW c \in Cursors(b), c.ok, NEW m, WellFormed(m),
         c.value = Len(m.instructions), At(b, c.offset, FlattenSeq(InstructionParts(m)))
  PROVE  LET d == skip_instructions(c)
             all == Repeat(NextInstruction, [c |-> Cursor(b, c.offset), items |-> <<>>], c.value)
         IN  /\ d \in Cursors(b) /\ d.ok
             /\ d.offset = c.offset + Len(FlattenSeq(InstructionParts(m)))
             /\ all.c.ok /\ all.items = m.instructions
<1> DEFINE n == c.value
           o == c.offset
           items == m.instructions
           parts == InstructionParts(m)
           d == InstructionsSkipped(c, n)
           all == Repeat(NextInstruction, [c |-> Cursor(b, o), items |-> <<>>], n)
<1>1. n \in Nat /\ o \in Nat
  BY FieldsAre
<1>2. items \in Seq(InstructionType) /\ Len(items) = n
  BY MessageTypes
<1>3. \A k \in 1..n : /\ items[k] \in InstructionType /\ parts[k] = InstructionBytes(items[k])
                      /\ Len(items[k].accounts) < Word /\ Len(items[k].data) < Word
  <2> SUFFICES ASSUME NEW k \in 1..n
               PROVE  /\ items[k] \in InstructionType /\ parts[k] = InstructionBytes(items[k])
                      /\ Len(items[k].accounts) < Word /\ Len(items[k].data) < Word
    OBVIOUS
  <2>1. k \in 1..Len(m.instructions)
    BY <1>2
  <2>2. items[k] \in InstructionType
    BY <1>2, ElementOfSeq
  <2>3. Len(m.instructions[k].accounts) < Word /\ Len(m.instructions[k].data) < Word
    BY <2>1 DEF WellFormed
  <2> QED
    BY <2>1, <2>2, <2>3 DEF InstructionParts
<1>4. parts \in [1..n -> Seq(Bytes)] /\ At(b, o, FlattenSeq(parts))
  BY PartsAreBytes
<1>5. skip_instructions(c) = d
  BY DEF skip_instructions, InstructionsSkipped
<1> HIDE DEF n, o, items, parts
<1>6. PartsFrom(b, o, n, parts) # {}
  BY <1>1, <1>4, PartsAt
<1>7. PICK f : f \in PartsFrom(b, o, n, parts)
  BY <1>6
<1>8. /\ f \in [0..n -> Nat] /\ f[0] = o /\ f[n] = o + Len(FlattenSeq(parts))
      /\ \A k \in 1..n : f[k] = f[k - 1] + Len(parts[k]) /\ At(b, f[k - 1], parts[k])
  BY <1>7 DEF PartsFrom
<1>9. ASSUME NEW k \in 1..n
      PROVE  /\ InstructionOk(b, f[k - 1]) /\ f[k] = InstructionEnd(b, f[k - 1])
             /\ InstructionAt(b, f[k - 1]) = items[k]
  <2> DEFINE x == f[k - 1]
             i == items[k]
  <2>1. x \in Nat
    <3>1. k - 1 \in 0..n
      BY <1>1
    <3> QED
      BY <1>8, <3>1
  <2>2. i \in InstructionType /\ Len(i.accounts) < Word /\ Len(i.data) < Word
    BY <1>3
  <2>3. At(b, x, InstructionBytes(i)) /\ f[k] = x + Len(InstructionBytes(i))
    BY <1>3, <1>8
  <2> HIDE DEF x, i
  <2>4. /\ InstructionOk(b, x) /\ InstructionAt(b, x) = i
        /\ InstructionEnd(b, x) = x + Len(InstructionBytes(i))
    BY <2>1, <2>2, <2>3, InstructionIsAt
  <2> QED
    BY <2>3, <2>4 DEF x, i
<1>10. f \in InstructionWalks(b, o, n)
  BY <1>8, <1>9 DEF InstructionWalks
<1>11. d \in Cursors(b) /\ d.ok /\ d.offset = f[n]
  <2>1. f \in InstructionWalks(b, c.offset, n)
    BY <1>10 DEF o
  <2> QED
    BY <1>1, <2>1, InstructionsForward
<1>12. /\ all.c.ok /\ all.items \in Seq(InstructionType) /\ Len(all.items) = n
       /\ \A k \in 1..n : all.items[k] = InstructionAt(b, f[k - 1])
  BY <1>1, <1>10, InstructionIterated
<1> HIDE DEF d, all
<1>13. all.items = items
  <2> DEFINE read == all.items
  <2>1. /\ read \in Seq(InstructionType) /\ Len(read) = Len(items)
        /\ \A k \in 1..Len(read) : read[k] = items[k]
    BY <1>2, <1>9, <1>12
  <2> HIDE DEF read
  <2>2. read = items
    BY <1>2, <2>1, SeqEqual
  <2> QED
    BY <2>2 DEF read
<1> QED
  BY <1>5, <1>8, <1>11, <1>12, <1>13 DEF n, o, items, parts, all

(* So are its lookups, and their indexes are counted.                      *)
LEMMA LookupsWritten ==
  ASSUME NEW b \in Seq(Bytes), NEW c \in Cursors(b), c.ok, NEW m, WellFormed(m),
         c.value = Len(m.lookups), At(b, c.offset, FlattenSeq(LookupParts(m)))
  PROVE  LET t == skip_lookups(c)
             all == Repeat(NextLookup, [c |-> Cursor(b, c.offset), items |-> <<>>], c.value)
         IN  /\ t.c \in Cursors(b) /\ t.c.ok
             /\ t.c.offset = c.offset + Len(FlattenSeq(LookupParts(m)))
             /\ Totals(m.lookups, TRUE, t.writable) # {}
             /\ Totals(m.lookups, FALSE, t.readonly) # {}
             /\ all.c.ok /\ all.items = m.lookups /\ m.lookups \in Seq(LookupItems)
<1> DEFINE n == c.value
           o == c.offset
           items == m.lookups
           parts == LookupParts(m)
           t == LookupsSkipped([c |-> c, writable |-> 0, readonly |-> 0], n)
           all == Repeat(NextLookup, [c |-> Cursor(b, o), items |-> <<>>], n)
<1>1. n \in Nat /\ o \in Nat
  BY FieldsAre
<1>2. items \in Seq(LookupType) /\ Len(items) = n
  BY MessageTypes
<1>3. \A k \in 1..n : /\ items[k] \in LookupType /\ parts[k] = LookupBytes(items[k])
                      /\ Len(items[k].writable) < Word /\ Len(items[k].readonly) < Word
  <2> SUFFICES ASSUME NEW k \in 1..n
               PROVE  /\ items[k] \in LookupType /\ parts[k] = LookupBytes(items[k])
                      /\ Len(items[k].writable) < Word /\ Len(items[k].readonly) < Word
    OBVIOUS
  <2>1. k \in 1..Len(m.lookups)
    BY <1>2
  <2>2. items[k] \in LookupType
    BY <1>2, ElementOfSeq
  <2>3. Len(m.lookups[k].writable) < Word /\ Len(m.lookups[k].readonly) < Word
    BY <2>1 DEF WellFormed
  <2> QED
    BY <2>1, <2>2, <2>3 DEF LookupParts
<1>4. parts \in [1..n -> Seq(Bytes)] /\ At(b, o, FlattenSeq(parts))
  BY PartsAreBytes
<1>5. skip_lookups(c) = t
  BY DEF skip_lookups, LookupsSkipped
<1> HIDE DEF n, o, items, parts
<1>6. PartsFrom(b, o, n, parts) # {}
  BY <1>1, <1>4, PartsAt
<1>7. PICK f : f \in PartsFrom(b, o, n, parts)
  BY <1>6
<1>8. /\ f \in [0..n -> Nat] /\ f[0] = o /\ f[n] = o + Len(FlattenSeq(parts))
      /\ \A k \in 1..n : f[k] = f[k - 1] + Len(parts[k]) /\ At(b, f[k - 1], parts[k])
  BY <1>7 DEF PartsFrom
<1>9. ASSUME NEW k \in 1..n
      PROVE  /\ LookupOk(b, f[k - 1]) /\ f[k] = LookupEnd(b, f[k - 1])
             /\ LookupAt(b, f[k - 1]) = items[k]
  <2> DEFINE x == f[k - 1]
             l == items[k]
  <2>1. x \in Nat
    <3>1. k - 1 \in 0..n
      BY <1>1
    <3> QED
      BY <1>8, <3>1
  <2>2. l \in LookupType /\ Len(l.writable) < Word /\ Len(l.readonly) < Word
    BY <1>3
  <2>3. At(b, x, LookupBytes(l)) /\ f[k] = x + Len(LookupBytes(l))
    BY <1>3, <1>8
  <2> HIDE DEF x, l
  <2>4. /\ LookupOk(b, x) /\ LookupAt(b, x) = l
        /\ LookupEnd(b, x) = x + Len(LookupBytes(l))
    BY <2>1, <2>2, <2>3, LookupIsAt
  <2> QED
    BY <2>3, <2>4 DEF x, l
<1>10. f \in LookupWalks(b, o, n)
  BY <1>8, <1>9 DEF LookupWalks
<1>11. t.c.ok /\ t.c.offset = f[n]
  <2>1. f \in LookupWalks(b, c.offset, n)
    BY <1>10 DEF o
  <2> QED
    BY <1>1, <2>1, LookupsForward
<1>12. /\ all.c.ok /\ all.items \in Seq(LookupItems) /\ Len(all.items) = n
       /\ \A k \in 1..n : all.items[k] = LookupAt(b, f[k - 1])
  BY <1>1, <1>10, LookupIterated
<1>13. /\ t.c \in Cursors(b)
       /\ t.c.ok => LookupsTo(b, c, n, t) # {}
  BY <1>1, LookupsSkippedIs
<1> HIDE DEF t, all
<1>14. all.items = items
  <2> DEFINE read == all.items
  <2>1. /\ read \in Seq(LookupItems) /\ Len(read) = Len(items)
        /\ \A k \in 1..Len(read) : read[k] = items[k]
    BY <1>2, <1>9, <1>12
  <2> HIDE DEF read
  <2>2. read = items
    BY <1>2, <2>1, SeqEqual
  <2> QED
    BY <2>2 DEF read
<1>15. PICK g : g \in LookupsTo(b, c, n, t)
  BY <1>11, <1>13
<1>16. /\ g \in LookupWalks(b, o, n)
       /\ Totals(LookupsAt(b, g, n), TRUE, t.writable) # {}
       /\ Totals(LookupsAt(b, g, n), FALSE, t.readonly) # {}
  BY <1>15 DEF LookupsTo, o
<1>17. LookupsAt(b, g, n) = items
  <2>1. \A k \in 1..n : all.items[k] = LookupAt(b, g[k - 1])
    BY <1>1, <1>16, LookupIterated DEF all
  <2>2. LookupsAt(b, g, n) \in Seq(LookupItems) /\ Len(LookupsAt(b, g, n)) = n
    BY <1>1, <1>16, LookupsAtIs
  <2>3. \A k \in 1..n : LookupsAt(b, g, n)[k] = LookupAt(b, g[k - 1])
    BY DEF LookupsAt
  <2> DEFINE read == LookupsAt(b, g, n)
  <2>4. /\ read \in Seq(LookupItems) /\ Len(read) = Len(items)
        /\ \A k \in 1..Len(read) : read[k] = items[k]
    BY <1>2, <1>14, <2>1, <2>2, <2>3
  <2> HIDE DEF read
  <2>5. read = items
    BY <1>2, <2>4, SeqEqual
  <2> QED
    BY <2>5 DEF read
<1>18. items \in Seq(LookupItems)
  BY <1>12, <1>14
<1> QED
  BY <1>5, <1>8, <1>11, <1>12, <1>13, <1>14, <1>16, <1>17, <1>18 DEF n, o, items, parts, all

(* The keys of a message are where static_account looks for them.          *)
LEMMA KeysWritten ==
  ASSUME NEW b \in Seq(Bytes), NEW o \in Nat, NEW m, WellFormed(m),
         At(b, o, FlattenSeq(KeyParts(m)))
  PROVE  /\ Len(FlattenSeq(KeyParts(m))) = Len(m.keys) * KeyLength
         /\ \A k \in 1..Len(m.keys) :
              Slice(b, o + (k - 1) * KeyLength, o + k * KeyLength) = m.keys[k]
<1> DEFINE n == Len(m.keys)
           keys == m.keys
           parts == KeyParts(m)
           size == KeyLength
           total == Len(FlattenSeq(parts))
<1>1. n \in Nat /\ keys \in Seq(Keys) /\ size \in Nat
  BY MessageTypes, CountsFit, SizesAssumption
<1>2. \A k \in 1..n : parts[k] = keys[k] /\ keys[k] \in Keys
  BY <1>1, ElementOfSeq DEF KeyParts
<1>3. \A k \in 1..n : parts[k] \in Seq(Bytes) /\ Len(parts[k]) = size
  BY <1>2, KeysAreBytes
<1>4. parts \in [1..n -> Seq(Bytes)] /\ At(b, o, FlattenSeq(parts))
  BY PartsAreBytes
<1> HIDE DEF n, keys, parts, size
<1>5. total \in Nat
  <2>1. Len(parts) = n /\ parts \in Seq(Seq(Bytes))
    BY <1>1, <1>4, FunctionIsSeq
  <2>2. FlattenSeq(parts) \in Seq(Bytes)
    BY <2>1, FlattenIs
  <2> QED
    BY <2>2, LenProperties
<1>6. PartsFrom(b, o, n, parts) # {}
  BY <1>1, <1>4, PartsAt
<1>7. PICK f : f \in PartsFrom(b, o, n, parts)
  BY <1>6
<1>8. /\ f \in [0..n -> Nat] /\ f[0] = o /\ f[n] = o + total
      /\ \A k \in 1..n : f[k] = f[k - 1] + Len(parts[k]) /\ At(b, f[k - 1], parts[k])
  BY <1>7 DEF PartsFrom
<1> HIDE DEF total
<1> DEFINE T == {k \in Nat : k <= n => f[k] = o + k * size}
<1>9. 0 \in T
  <2>1. 0 * size = 0
    BY <1>1
  <2> QED
    BY <1>8, <2>1
<1>10. \A k \in Nat : k \in T => k + 1 \in T
  <2> SUFFICES ASSUME NEW k \in Nat, k \in T, k + 1 <= n
               PROVE  f[k + 1] = o + (k + 1) * size
    OBVIOUS
  <2> DEFINE j == k + 1
             p == k * size
             q == j * size
  <2>1. j \in 1..n /\ j - 1 = k /\ f[k] = o + p
    <3>1. j \in 1..n /\ j - 1 = k
      OBVIOUS
    <3>2. k <= n
      BY <1>1
    <3>3. f[k] = o + p
      BY <3>2
    <3> QED
      BY <3>1, <3>3
  <2>2. p \in Nat /\ q = p + size
    BY <1>1
  <2> HIDE DEF j, p, q
  <2>3. f[j] = f[k] + size
    BY <1>3, <1>8, <2>1
  <2>4. f[j] = o + q
    BY <1>1, <2>1, <2>2, <2>3
  <2> QED
    BY <2>4 DEF j, q
<1> HIDE DEF T
<1>11. Nat \subseteq T
  BY <1>9, <1>10, Induction
<1>12. \A k \in 0..n : f[k] = o + k * size
  BY <1>11 DEF T
<1>13. total = n * size
  <2> DEFINE p == n * size
  <2>1. p \in Nat /\ f[n] = o + p
    BY <1>1, <1>12
  <2> HIDE DEF p
  <2>2. total = p
    BY <1>5, <1>8, <2>1
  <2> QED
    BY <2>2 DEF p
<1>14. ASSUME NEW k \in 1..n
       PROVE  Slice(b, o + (k - 1) * size, o + k * size) = keys[k]
  <2> DEFINE x == f[k - 1]
             aKey == parts[k]
  <2>1. k - 1 \in 0..n /\ k \in 0..n
    BY <1>1
  <2>2. x \in Nat /\ aKey \in Seq(Bytes) /\ Len(aKey) = size /\ At(b, x, aKey)
    BY <1>3, <1>8, <2>1
  <2>3. x = o + (k - 1) * size
    BY <1>12, <2>1
  <2>4. x + size = o + k * size
    BY <1>3, <1>8, <1>12, <2>1
  <2>5. aKey = keys[k]
    BY <1>2
  <2> HIDE DEF x, aKey
  <2>6. Slice(b, x, x + Len(aKey)) = aKey
    BY <2>2, AtSlice
  <2> QED
    BY <2>2, <2>3, <2>4, <2>5, <2>6
<1> QED
  BY <1>13, <1>14 DEF n, keys, parts, size, total

(* A header is read from its three bytes, behind a marker in a v0 message. *)
LEMMA HeaderReads ==
  ASSUME NEW b \in Seq(Bytes), NEW marked \in BOOLEAN, (IF marked THEN 4 ELSE 3) <= Len(b)
  PROVE  LET prefix == Cursor(b, 0)
             signers == read_u8(IF marked THEN read_u8(prefix) ELSE prefix)
             readonly_signed == read_u8(signers)
             readonly_unsigned == read_u8(readonly_signed)
         IN  readonly_unsigned.ok
<1> DEFINE prefix == Cursor(b, 0)
           first == read_u8(prefix)
           start == IF marked THEN first ELSE prefix
           signers == read_u8(start)
           readonly_signed == read_u8(signers)
           readonly_unsigned == read_u8(readonly_signed)
           end == IF marked THEN 4 ELSE 3
<1>1. prefix \in Cursors(b) /\ prefix.ok /\ prefix.offset = 0
  BY CursorIs
<1>2. end \in {3, 4} /\ Len(b) \in Nat /\ end <= Len(b)
  BY LenProperties
<1> HIDE DEF prefix
<1>3. first \in Cursors(b) /\ first.ok /\ first.offset = 1
  BY <1>1, <1>2, ReadByteIs DEF Moved
<1> HIDE DEF first
<1>4. start \in Cursors(b) /\ start.ok /\ start.offset = end - 3
  BY <1>1, <1>3
<1> HIDE DEF start, end
<1>5. signers \in Cursors(b) /\ signers.ok /\ signers.offset = end - 2
  <2>1. start.offset + 1 = end - 2 /\ start.offset + 1 <= Len(b)
    BY <1>2, <1>4
  <2>2. signers \in Cursors(b) /\ signers.ok
    BY <1>4, <2>1, ReadByteIs
  <2>3. signers.offset = start.offset + 1
    BY <1>4, <2>2, ReadByteIs DEF Moved
  <2> QED
    BY <2>1, <2>2, <2>3
<1> HIDE DEF signers
<1>6. readonly_signed \in Cursors(b) /\ readonly_signed.ok /\ readonly_signed.offset = end - 1
  BY <1>2, <1>5, ReadByteIs DEF Moved
<1> HIDE DEF readonly_signed
<1>7. readonly_unsigned.ok
  BY <1>2, <1>6, ReadByteIs DEF Moved
<1> QED
  BY <1>7 DEF readonly_signed, signers, start, first, prefix

(* What is written there is the header of the message, and the first byte  *)
(* tells its version.                                                      *)
LEMMA HeaderWritten ==
  ASSUME NEW b \in Seq(Bytes), NEW m, WellFormed(m), At(b, 0, HeaderBytes(m))
  PROVE  LET marked == b # <<>> /\ b[1] >= Flag
             end == IF marked THEN 4 ELSE 3
         IN  /\ marked <=> m.version = "v0"
             /\ marked => b[1] = Flag
             /\ end <= Len(b) /\ Len(HeaderBytes(m)) = end
             /\ b[end - 2] = m.header.signers /\ b[end - 1] = m.header.readonly_signed
             /\ b[end] = m.header.readonly_unsigned
<1> DEFINE marked == b # <<>> /\ b[1] >= Flag
           end == IF marked THEN 4 ELSE 3
           h == <<m.header.signers, m.header.readonly_signed, m.header.readonly_unsigned>>
           s == HeaderBytes(m)
<1>1. /\ m.version \in {"legacy", "v0"} /\ Len(b) \in Nat
      /\ m.header.signers \in Bytes /\ m.header.readonly_signed \in Bytes
      /\ m.header.readonly_unsigned \in Bytes
  BY MessageTypes, LenProperties
<1>2. Flag \in Nat /\ Flag \in Bytes /\ Bytes \subseteq Nat
  BY FlagIs DEF Bytes, U8
<1>3. Len(s) <= Len(b) /\ \A k \in 1..Len(s) : b[k] = s[k]
  <2>1. s \in Seq(Bytes)
    BY PartsAreBytes
  <2>2. Len(s) \in Nat
    BY <2>1, LenProperties
  <2>3. 0 + Len(s) <= Len(b) /\ \A k \in 1..Len(s) : b[0 + k] = s[k]
    BY DEF At
  <2> QED
    BY <1>1, <2>2, <2>3
<1>4. CASE m.version = "v0"
  <2>1. s = <<Flag>> \o h
    BY <1>4 DEF HeaderBytes
  <2> DEFINE one == <<Flag>>
  <2>2. /\ one \in Seq(Bytes) /\ Len(one) = 1 /\ one[1] = Flag /\ s = one \o h
        /\ h \in Seq(Bytes) /\ Len(h) = 3 /\ h[1] = m.header.signers
        /\ h[2] = m.header.readonly_signed /\ h[3] = m.header.readonly_unsigned
    BY <1>1, <1>2, <2>1
  <2> HIDE DEF one, h
  <2>21. /\ Len(one \o h) = Len(one) + Len(h)
         /\ \A i \in 1..Len(one) : (one \o h)[i] = one[i]
         /\ \A i \in 1..Len(h) : (one \o h)[Len(one) + i] = h[i]
    <3> DEFINE S == Bytes
    <3>1. one \in Seq(S) /\ h \in Seq(S)
      BY <2>2
    <3> HIDE DEF S
    <3> QED
      BY ONLY <3>1, ConcatIs
  <2>22. /\ Len(s) = 1 + 3 /\ s[1] = one[1]
         /\ s[1 + 1] = h[1] /\ s[1 + 2] = h[2] /\ s[1 + 3] = h[3]
    <3>1. 1 \in 1..1 /\ 1 \in 1..3 /\ 2 \in 1..3 /\ 3 \in 1..3
      OBVIOUS
    <3>2. Len(one) = 1 /\ Len(h) = 3 /\ s = one \o h
      BY <2>2
    <3> QED
      BY ONLY <2>21, <3>1, <3>2
  <2>3. /\ Len(s) = 4 /\ s[1] = Flag /\ s[2] = m.header.signers
        /\ s[3] = m.header.readonly_signed /\ s[4] = m.header.readonly_unsigned
    BY <2>2, <2>22
  <2> HIDE DEF s
  <2>4. /\ 4 <= Len(b) /\ b[1] = Flag /\ b[2] = m.header.signers
        /\ b[3] = m.header.readonly_signed /\ b[4] = m.header.readonly_unsigned
    BY <1>3, <2>3
  <2>5. b # <<>>
    BY <2>4
  <2>6. marked
    BY <1>2, <2>4, <2>5
  <2> QED
    BY <1>4, <2>3, <2>4, <2>6 DEF s
<1>5. CASE m.version = "legacy"
  <2>1. s = <<>> \o h
    BY <1>5 DEF HeaderBytes
  <2>2. s = h
    BY <1>1, <2>1
  <2>3. /\ Len(s) = 3 /\ s[1] = m.header.signers
        /\ s[2] = m.header.readonly_signed /\ s[3] = m.header.readonly_unsigned
    BY <2>2
  <2> HIDE DEF s
  <2>4. /\ 3 <= Len(b) /\ b[1] = m.header.signers
        /\ b[2] = m.header.readonly_signed /\ b[3] = m.header.readonly_unsigned
    BY <1>3, <2>3
  <2>5. m.header.signers < Flag
    BY <1>5 DEF WellFormed
  <2>6. ~marked
    <3>1. b[1] \in Nat /\ b[1] < Flag
      BY <1>1, <1>2, <2>4, <2>5
    <3>2. ~(b[1] >= Flag)
      BY <1>2, <3>1
    <3> QED
      BY <3>2
  <2>7. m.version # "v0"
    BY <1>5
  <2> QED
    BY <2>3, <2>4, <2>6, <2>7 DEF s
<1> QED
  BY <1>1, <1>4, <1>5

(* A count is read as it was written.                                      *)
LEMMA ShortvecWritten ==
  ASSUME NEW b \in Seq(Bytes), NEW c \in Cursors(b), c.ok, NEW value \in Nat, value < Word,
         At(b, c.offset, Shortvec(value))
  PROVE  LET d == read_shortvec(c)
         IN  /\ d \in Cursors(b) /\ d.ok /\ d.value = value
             /\ d.offset = c.offset + Len(Shortvec(value))
<1> DEFINE d == read_shortvec(c)
           o == c.offset
<1>1. o \in Nat
  BY FieldsAre
<1>2. /\ d \in Cursors(b) /\ (d.ok <=> c.ok /\ Readable(b, o)) /\ Moved(c, d, Length(b, o))
      /\ d.ok => d.value = Value(b, o)
  BY ReadShortvecIs
<1> HIDE DEF d, o
<1>3. At(b, o, Shortvec(value))
  BY DEF o
<1>4. Readable(b, o) /\ Value(b, o) = value /\ Length(b, o) = Len(Shortvec(value))
  BY <1>1, <1>3, ShortvecAt
<1> QED
  BY <1>2, <1>4 DEF d, o, Moved

(* The number of lookups is written into v0 messages only.                 *)
LookupsBytes(m) ==
  IF m.version = "v0" THEN Shortvec(Len(m.lookups)) \o FlattenSeq(LookupParts(m)) ELSE <<>>

(* It is read as it was written, and so are the lookups behind it.         *)
LEMMA LookupCountWritten ==
  ASSUME NEW b \in Seq(Bytes), NEW c \in Cursors(b), c.ok, NEW m, WellFormed(m),
         NEW marked \in BOOLEAN, marked <=> m.version = "v0",
         At(b, c.offset, LookupsBytes(m)), c.offset + Len(LookupsBytes(m)) = Len(b)
  PROVE  LET d == read_lookup_count(c, marked)
         IN  /\ d \in Cursors(b) /\ d.ok /\ d.value = Len(m.lookups)
             /\ At(b, d.offset, FlattenSeq(LookupParts(m)))
             /\ d.offset + Len(FlattenSeq(LookupParts(m))) = Len(b)
             /\ d.offset = IF m.version = "v0" THEN c.offset + shortvec_len(d.value)
                                               ELSE c.offset
<1> DEFINE d == read_lookup_count(c, marked)
           n == Len(m.lookups)
           s == Shortvec(n)
           t == FlattenSeq(LookupParts(m))
           o == c.offset
<1>1. n \in Nat /\ n < Word /\ o \in Nat /\ Len(b) \in Nat /\ c \in Cursors(b)
  BY CountsFit, FieldsAre, LenProperties
<1>2. LookupParts(m) \in Seq(Seq(Bytes)) /\ Len(LookupParts(m)) = n
  BY <1>1, PartsAreBytes, FunctionIsSeq
<1>3. t \in Seq(Bytes)
  BY <1>2, FlattenIs
<1>4. s \in Seq(Bytes) /\ Len(s) = shortvec_len(n)
  BY <1>1, ShortvecIsBytes
<1>5. m.version \in {"legacy", "v0"}
  BY MessageTypes
<1>6. CASE m.version = "v0"
  <2>1. /\ b \in Seq(Bytes) /\ o \in Nat /\ s \in Seq(Bytes) /\ t \in Seq(Bytes)
        /\ At(b, o, s \o t)
    BY <1>1, <1>3, <1>4, <1>6 DEF LookupsBytes
  <2>2. o + Len(s \o t) = Len(b)
    BY <1>6 DEF LookupsBytes
  <2>3. d = read_shortvec(c)
    BY <1>6 DEF read_lookup_count
  <2> HIDE DEF s, t, o, n, d
  <2>4. /\ At(b, o, s) /\ At(b, o + Len(s), t)
        /\ Len(s) \in Nat /\ Len(t) \in Nat /\ Len(s \o t) = Len(s) + Len(t)
    BY ONLY <2>1, AtSplit
  <2>5. At(b, c.offset, Shortvec(n))
    BY <2>4 DEF o, s
  <2>6. /\ read_shortvec(c) \in Cursors(b) /\ read_shortvec(c).ok
        /\ read_shortvec(c).value = n /\ read_shortvec(c).offset = o + Len(s)
    BY <1>1, <2>5, ShortvecWritten DEF o, s
  <2>7. /\ d \in Cursors(b) /\ d.ok /\ d.value = n /\ d.offset = o + Len(s)
    BY <2>3, <2>6
  <2>8. At(b, d.offset, t) /\ d.offset + Len(t) = Len(b)
    BY <1>1, <2>2, <2>4, <2>7
  <2> QED
    BY <1>4, <1>6, <2>7, <2>8 DEF d, n, t, o
<1>7. CASE m.version = "legacy"
  <2>1. m.lookups = <<>>
    BY <1>7 DEF WellFormed
  <2>2. n = 0
    BY <2>1
  <2>3. LookupParts(m) = <<>>
    BY <1>2, <2>2
  <2>4. t = <<>>
    BY <2>3, <1>2, FlattenIs
  <2>5. LookupsBytes(m) = <<>>
    BY <1>7 DEF LookupsBytes
  <2>6. d = [c EXCEPT !.value = 0]
    BY <1>7 DEF read_lookup_count
  <2> HIDE DEF d
  <2>7. d \in Cursors(b) /\ d.ok /\ d.value = 0 /\ d.offset = o
    BY <2>6 DEF Cursors
  <2>8. At(b, d.offset, t) /\ d.offset + Len(t) = Len(b)
    BY <2>4, <2>5, <2>7
  <2> QED
    BY <1>7, <2>2, <2>7, <2>8 DEF d
<1> QED
  BY <1>5, <1>6, <1>7

(* The product of the key count and the key length does not wrap.          *)
LEMMA KeyBytesAre ==
  ASSUME NEW n \in Nat, n * KeyLength < Word
  PROVE  KeyBytes(n) = n * KeyLength /\ n * KeyLength \in Nat
<1> DEFINE p == n * KeyLength
           w == Word
<1>1. p \in Nat /\ w \in Nat /\ p < w
  BY SizesAssumption, FlagIs
<1>2. KeyBytes(n) = p % w
  BY DEF KeyBytes
<1> HIDE DEF p, w
<1>3. p % w = p
  BY <1>1
<1> QED
  BY <1>1, <1>2, <1>3 DEF p

(* The accounts of a message are as many as are counted.                   *)
LEMMA AccountsCounted ==
  ASSUME NEW m, m.keys \in Seq(Keys), m.lookups \in Seq(LookupItems), NEW w, NEW r,
         Totals(m.lookups, TRUE, w) # {}, Totals(m.lookups, FALSE, r) # {}
  PROVE  Len(Accounts(m)) = Len(m.keys) + w + r
<1> DEFINE n == Len(m.keys)
           static(k) == [kind |-> "static", pubkey |-> m.keys[k], signer |-> k <= m.header.signers,
                         writable |-> \/ k <= m.header.signers - m.header.readonly_signed
                                      \/ k > m.header.signers
                                         /\ k <= Len(m.keys) - m.header.readonly_unsigned]
           D == {static(k) : k \in 1..n}
           T == D \cup Refs
           statics == [k \in 1..n |-> static(k)]
           x == FlattenSeq(Loaded(m.lookups, TRUE))
           y == FlattenSeq(Loaded(m.lookups, FALSE))
<1>1. n \in Nat
  BY LenProperties
<1>2. Accounts(m) = statics \o x \o y
  BY AccountsSplit
<1>3. statics \in [1..n -> T]
  OBVIOUS
<1>4. x \in Seq(Refs) /\ Len(x) = w /\ y \in Seq(Refs) /\ Len(y) = r
  <2>1. Loaded(m.lookups, TRUE) \in Seq(Seq(Refs)) /\ Loaded(m.lookups, FALSE) \in Seq(Seq(Refs))
    BY LoadedIs
  <2>2. x \in Seq(Refs) /\ y \in Seq(Refs)
    BY <2>1, FlattenIs
  <2>3. Len(x) = w /\ Len(y) = r
    BY LoadedCount
  <2> QED
    BY <2>2, <2>3
<1>5. Refs \subseteq T
  OBVIOUS
<1> HIDE DEF n, static, D, T, statics, x, y
<1>6. x \in Seq(T) /\ y \in Seq(T)
  BY <1>4, <1>5
<1>7. statics \in Seq(T) /\ Len(statics) = n
  BY <1>1, <1>3, FunctionIsSeq
<1>8. statics \o x \in Seq(T) /\ Len(statics \o x) = n + w
  BY <1>4, <1>6, <1>7, ConcatIs
<1>9. Len(statics \o x \o y) = (n + w) + r
  BY <1>4, <1>6, <1>8, ConcatIs
<1>10. w \in Nat /\ r \in Nat
  BY <1>4, LenProperties
<1> QED
  BY <1>1, <1>2, <1>9, <1>10 DEF n

(* Where the parts of a message are in its serialization.                  *)
LEMMA WrittenAt ==
  ASSUME NEW m, WellFormed(m)
  PROVE  LET b == Serialize(m)
             h == HeaderBytes(m)
             ks == Shortvec(Len(m.keys))
             kt == FlattenSeq(KeyParts(m))
             is == Shortvec(Len(m.instructions))
             it == FlattenSeq(InstructionParts(m))
             rest == LookupsBytes(m)
             keys == Len(h)
             statics == keys + Len(ks)
             blockhash == statics + Len(kt)
             programs == blockhash + KeyLength
             compiled == programs + Len(is)
             lookups == compiled + Len(it)
         IN  /\ b \in Seq(Bytes)
             /\ At(b, 0, h) /\ At(b, keys, ks) /\ At(b, statics, kt)
             /\ At(b, blockhash, m.blockhash) /\ At(b, programs, is) /\ At(b, compiled, it)
             /\ At(b, lookups, rest) /\ lookups + Len(rest) = Len(b)
             /\ keys \in Nat /\ statics \in Nat /\ blockhash \in Nat /\ programs \in Nat
             /\ compiled \in Nat /\ lookups \in Nat
<1> DEFINE b == Serialize(m)
           h == HeaderBytes(m)
           ks == Shortvec(Len(m.keys))
           kt == FlattenSeq(KeyParts(m))
           hash == m.blockhash
           is == Shortvec(Len(m.instructions))
           it == FlattenSeq(InstructionParts(m))
           rest == LookupsBytes(m)
           k == ks \o kt
           i == is \o it
           b1 == h \o k
           b2 == b1 \o hash
           b3 == b2 \o i
<1>1. b = b3 \o rest
  BY SerializedParts DEF LookupsBytes
<1>2. b \in Seq(Bytes) /\ h \in Seq(Bytes) /\ hash \in Seq(Bytes) /\ Len(hash) = KeyLength
  <2>1. m.blockhash \in Keys
    BY DEF WellFormed
  <2> QED
    BY <2>1, SerializedIsBytes, PartsAreBytes, KeysAreBytes
<1>3. /\ ks \in Seq(Bytes) /\ is \in Seq(Bytes)
      /\ Shortvec(Len(m.lookups)) \in Seq(Bytes)
  BY CountsFit, ShortvecIsBytes
<1>4. ASSUME NEW n \in Nat, NEW parts \in [1..n -> Seq(Bytes)]
      PROVE  FlattenSeq(parts) \in Seq(Bytes)
  <2>1. parts \in Seq(Seq(Bytes))
    BY FunctionIsSeq
  <2> QED
    BY <2>1, FlattenIs
<1>5. kt \in Seq(Bytes) /\ it \in Seq(Bytes) /\ FlattenSeq(LookupParts(m)) \in Seq(Bytes)
  BY <1>4, PartsAreBytes, CountsFit
<1>6. rest \in Seq(Bytes)
  <2>1. Shortvec(Len(m.lookups)) \o FlattenSeq(LookupParts(m)) \in Seq(Bytes)
    BY <1>3, <1>5, ConcatProperties
  <2> QED
    BY <2>1 DEF LookupsBytes
<1> HIDE DEF b, h, ks, kt, hash, is, it, rest
<1>7. k \in Seq(Bytes) /\ i \in Seq(Bytes)
  BY <1>3, <1>5, ConcatProperties
<1> HIDE DEF k, i
<1>8. b1 \in Seq(Bytes)
  BY <1>2, <1>7, ConcatProperties
<1> HIDE DEF b1
<1>9. b2 \in Seq(Bytes)
  BY <1>2, <1>8, ConcatProperties
<1> HIDE DEF b2
<1>10. b3 \in Seq(Bytes)
  BY <1>7, <1>9, ConcatProperties
<1> HIDE DEF b3
<1> DEFINE o == 0
<1>11. o \in Nat /\ o = 0
  OBVIOUS
<1> HIDE DEF o
<1>12. At(b, o, b3 \o rest) /\ Len(b) = Len(b3 \o rest)
  BY <1>1, <1>2, <1>11, AtWhole
<1>13. /\ At(b, o, b3) /\ At(b, o + Len(b3), rest)
       /\ Len(b3) \in Nat /\ Len(rest) \in Nat /\ Len(b3 \o rest) = Len(b3) + Len(rest)
  BY <1>2, <1>6, <1>10, <1>11, <1>12, AtSplit
<1>14. At(b, o, b2 \o i)
  BY <1>13 DEF b3
<1>15. /\ At(b, o, b2) /\ At(b, o + Len(b2), i)
       /\ Len(b2) \in Nat /\ Len(i) \in Nat /\ Len(b2 \o i) = Len(b2) + Len(i)
  BY <1>2, <1>7, <1>9, <1>11, <1>14, AtSplit
<1>16. At(b, o, b1 \o hash)
  BY <1>15 DEF b2
<1>17. /\ At(b, o, b1) /\ At(b, o + Len(b1), hash)
       /\ Len(b1) \in Nat /\ Len(hash) \in Nat /\ Len(b1 \o hash) = Len(b1) + Len(hash)
  <2>1. /\ b \in Seq(Bytes) /\ o \in Nat /\ b1 \in Seq(Bytes) /\ hash \in Seq(Bytes)
        /\ At(b, o, b1 \o hash)
    BY <1>2, <1>8, <1>11, <1>16
  <2> QED
    BY ONLY <2>1, AtSplit
<1>18. At(b, o, h \o k)
  BY <1>17 DEF b1
<1>19. /\ At(b, o, h) /\ At(b, o + Len(h), k)
       /\ Len(h) \in Nat /\ Len(k) \in Nat /\ Len(h \o k) = Len(h) + Len(k)
  BY <1>2, <1>7, <1>11, <1>18, AtSplit
<1> DEFINE keys == Len(h)
<1>20. keys \in Nat /\ At(b, keys, ks \o kt)
  BY <1>11, <1>19 DEF k
<1> HIDE DEF keys
<1>21. /\ At(b, keys, ks) /\ At(b, keys + Len(ks), kt)
       /\ Len(ks) \in Nat /\ Len(kt) \in Nat /\ Len(ks \o kt) = Len(ks) + Len(kt)
  BY <1>2, <1>3, <1>5, <1>20, AtSplit
<1> DEFINE statics == keys + Len(ks)
           blockhash == statics + Len(kt)
           programs == blockhash + KeyLength
<1>22. /\ Len(b1) = keys + Len(k) /\ Len(k) = Len(ks) + Len(kt)
       /\ Len(b2) = Len(b1) + Len(hash) /\ Len(b3) = Len(b2) + Len(i)
  BY <1>15, <1>17, <1>19, <1>21 DEF b1, b2, b3, k, keys
<1>23. /\ statics \in Nat /\ blockhash \in Nat /\ programs \in Nat
       /\ Len(b1) = blockhash /\ Len(b2) = programs
  <2>1. Len(hash) = KeyLength /\ Len(hash) \in Nat
    BY <1>2, <1>17
  <2>2. statics \in Nat /\ statics = keys + Len(ks)
    BY <1>20, <1>21
  <2> HIDE DEF statics
  <2>3. blockhash \in Nat /\ blockhash = statics + Len(kt)
    BY <1>21, <2>2
  <2> HIDE DEF blockhash
  <2>4. programs \in Nat /\ programs = blockhash + Len(hash)
    BY <2>1, <2>3
  <2> HIDE DEF programs
  <2>5. Len(b1) = blockhash
    BY <1>20, <1>21, <1>22, <2>2, <2>3
  <2>6. Len(b2) = programs
    BY <1>22, <2>4, <2>5
  <2> QED
    BY <2>2, <2>3, <2>4, <2>5, <2>6
<1> HIDE DEF statics, blockhash, programs
<1>24. At(b, programs, is \o it)
  BY <1>11, <1>15, <1>23 DEF i
<1>25. /\ At(b, programs, is) /\ At(b, programs + Len(is), it)
       /\ Len(is) \in Nat /\ Len(it) \in Nat /\ Len(is \o it) = Len(is) + Len(it)
  BY <1>2, <1>3, <1>5, <1>23, <1>24, AtSplit
<1> DEFINE compiled == programs + Len(is)
           lookups == compiled + Len(it)
<1>26. compiled \in Nat /\ lookups \in Nat /\ Len(b3) = lookups
  <2>1. compiled \in Nat /\ compiled = programs + Len(is)
    BY <1>23, <1>25
  <2> HIDE DEF compiled
  <2>2. lookups \in Nat /\ lookups = compiled + Len(it)
    BY <1>25, <2>1
  <2> HIDE DEF lookups
  <2>3. Len(i) = Len(is) + Len(it)
    BY <1>25 DEF i
  <2>4. Len(b3) = lookups
    <3>1. Len(b3) = programs + Len(i)
      BY <1>22, <1>23
    <3>2. programs \in Nat /\ Len(is) \in Nat /\ Len(it) \in Nat
      BY <1>23, <1>25
    <3> QED
      BY ONLY <2>1, <2>2, <2>3, <3>1, <3>2
  <2> QED
    BY <2>1, <2>2, <2>4
<1> HIDE DEF compiled, lookups
<1>27. At(b, lookups, rest) /\ lookups + Len(rest) = Len(b)
  BY <1>11, <1>12, <1>13, <1>26
<1>28. At(b, 0, h) /\ At(b, blockhash, hash) /\ At(b, statics, kt)
  BY <1>11, <1>17, <1>19, <1>21, <1>23 DEF statics
<1> QED
  BY <1>2, <1>20, <1>21, <1>23, <1>25, <1>26, <1>27, <1>28
     DEF b, h, ks, kt, hash, is, it, rest, keys, statics, blockhash, programs, compiled, lookups

(* A view with the parts of a message where they were written is one of    *)
(* the message: it is accepted, and read as it.                            *)
Written(b, m, v) ==
  /\ v.ok /\ v.input = b /\ v.version = m.version /\ v.header = m.header
  /\ v.static_account_count = Len(m.keys) /\ v.static_accounts_offset \in Nat
  /\ At(b, v.static_accounts_offset, FlattenSeq(KeyParts(m)))
  /\ v.recent_blockhash_offset \in Nat /\ At(b, v.recent_blockhash_offset, m.blockhash)
  /\ LET all == Repeat(NextInstruction,
                       [c |-> Cursor(b, v.instructions_offset), items |-> <<>>],
                       v.instruction_count)
     IN  all.c.ok /\ all.items = m.instructions
  /\ LET all == Repeat(NextLookup, [c |-> Cursor(b, FirstLookup(v)), items |-> <<>>],
                       v.lookup_count)
     IN  all.items = m.lookups
  /\ m.lookups \in Seq(LookupItems)
  /\ Totals(m.lookups, TRUE, v.loaded_writable) # {}
  /\ Totals(m.lookups, FALSE, v.loaded_readonly) # {}

(* Its header and its indexes pass the checks, for the accounts are as     *)
(* many as the view counts.                                                *)
LEMMA WrittenIsValid ==
  ASSUME NEW b \in Seq(Bytes), NEW m, WellFormed(m), NEW v, Written(b, m, v)
  PROVE  valid_header(v.header, v.static_account_count) /\ valid_indexes(v)
<1>1. valid_header(v.header, v.static_account_count)
  BY DEF Written, WellFormed
<1>2. instructions(v).c.ok /\ instructions(v).items = m.instructions
  BY DEF Written, instructions
<1>3. total_account_count(v) = Len(Accounts(m))
  <2>1. m.keys \in Seq(Keys)
    BY MessageTypes
  <2> DEFINE w == v.loaded_writable
             r == v.loaded_readonly
  <2>2. /\ m.lookups \in Seq(LookupItems)
        /\ Totals(m.lookups, TRUE, w) # {} /\ Totals(m.lookups, FALSE, r) # {}
    BY DEF Written
  <2>3. total_account_count(v) = Len(m.keys) + w + r
    BY DEF Written, total_account_count
  <2> HIDE DEF w, r
  <2>4. Len(Accounts(m)) = Len(m.keys) + w + r
    BY <2>1, <2>2, AccountsCounted
  <2> QED
    BY <2>3, <2>4
<1>4. ASSUME NEW i \in 1..Len(m.instructions)
      PROVE  /\ m.instructions[i].program < Len(Accounts(m))
             /\ \A k \in 1..Len(m.instructions[i].accounts) :
                  m.instructions[i].accounts[k] < Len(Accounts(m))
  BY DEF WellFormed
<1> QED
  BY <1>1, <1>2, <1>3, <1>4 DEF valid_indexes

(* What is read from it is the message, field by field.                    *)
LEMMA WrittenIsRead ==
  ASSUME NEW b \in Seq(Bytes), NEW m, WellFormed(m), NEW v, Written(b, m, v),
         EachHasAnIndex(Len(m.keys))
  PROVE  Read(v) = m
<1> DEFINE n == Len(m.keys)
           o == v.static_accounts_offset
           hash == v.recent_blockhash_offset
<1>1. /\ v.input = b /\ v.version = m.version /\ v.header = m.header
      /\ v.static_account_count = n /\ o \in Nat /\ hash \in Nat
      /\ At(b, o, FlattenSeq(KeyParts(m))) /\ At(b, hash, m.blockhash)
  BY DEF Written
<1>2. instructions(v).items = m.instructions /\ address_table_lookups(v).items = m.lookups
  BY DEF Written, instructions, address_table_lookups
<1>3. n \in Nat /\ m.keys \in Seq(Keys)
  BY CountsFit, MessageTypes
<1>4. [k \in 1..v.static_account_count |-> static_account(v, (k - 1) % U8)] = m.keys
  <2>1. ASSUME NEW k \in 1..n
        PROVE  static_account(v, (k - 1) % U8) = m.keys[k]
    <3>0. (k - 1) % U8 = k - 1
      <4>1. k \in Nat /\ 1 <= k /\ EachHasAnIndex(k)
        BY <1>3, FlagIs DEF EachHasAnIndex, U8
      <4> QED
        BY <4>1, IndexIsKept
    <3>1. (k - 1) + 1 = k
      BY <1>3
    <3>2. static_account(v, k - 1) = Slice(b, o + (k - 1) * KeyLength, o + k * KeyLength)
      BY <1>1, <3>1 DEF static_account
    <3> HIDE DEF n, o
    <3>3. \A j \in 1..Len(m.keys) :
            Slice(b, o + (j - 1) * KeyLength, o + j * KeyLength) = m.keys[j]
      BY <1>1, KeysWritten
    <3> QED
      BY <3>0, <3>2, <3>3 DEF n
  <2>2. m.keys = [k \in 1..n |-> m.keys[k]]
    BY <1>3
  <2> QED
    BY <1>1, <2>1, <2>2
<1>5. Slice(v.input, hash, hash + KeyLength) = m.blockhash
  <2> DEFINE s == m.blockhash
  <2>1. s \in Seq(Bytes) /\ Len(s) = KeyLength
    <3>1. m.blockhash \in Keys
      BY DEF WellFormed
    <3> QED
      BY <3>1, KeysAreBytes
  <2>2. At(b, hash, s)
    BY <1>1
  <2> HIDE DEF s, hash
  <2>3. Slice(b, hash, hash + Len(s)) = s
    BY <1>1, <2>1, <2>2, AtSlice
  <2> QED
    BY <1>1, <2>1, <2>3 DEF s
<1>6. m = [version |-> m.version, header |-> m.header, keys |-> m.keys,
           blockhash |-> m.blockhash, instructions |-> m.instructions, lookups |-> m.lookups]
  BY DEF WellFormed
<1>7. Read(v) = [version |-> m.version, header |-> m.header, keys |-> m.keys,
                 blockhash |-> m.blockhash, instructions |-> m.instructions,
                 lookups |-> m.lookups]
  BY <1>1, <1>2, <1>4, <1>5 DEF Read
<1> QED
  BY <1>6, <1>7

(* try_new goes over the serialization of a message part by part, and      *)
(* accepts it.                                                             *)
LEMMA SerializedIsAccepted ==
  ASSUME NEW m, WellFormed(m)
  PROVE  /\ try_new(Serialize(m)).ok
         /\ EachHasAnIndex(Len(m.keys)) => Read(try_new(Serialize(m))) = m
<1> DEFINE b == Serialize(m)
           h == HeaderBytes(m)
           ks == Shortvec(Len(m.keys))
           kt == FlattenSeq(KeyParts(m))
           is == Shortvec(Len(m.instructions))
           it == FlattenSeq(InstructionParts(m))
           rest == LookupsBytes(m)
           o1 == Len(h)
           o2 == o1 + Len(ks)
           o3 == o2 + Len(kt)
           o4 == o3 + KeyLength
           o5 == o4 + Len(is)
           o6 == o5 + Len(it)
<1>1. /\ b \in Seq(Bytes)
      /\ At(b, 0, h) /\ At(b, o1, ks) /\ At(b, o2, kt)
      /\ At(b, o3, m.blockhash) /\ At(b, o4, is) /\ At(b, o5, it)
      /\ At(b, o6, rest) /\ o6 + Len(rest) = Len(b)
      /\ o1 \in Nat /\ o2 \in Nat /\ o3 \in Nat /\ o4 \in Nat /\ o5 \in Nat /\ o6 \in Nat
  BY WrittenAt
<1>2. o2 = o1 + Len(ks) /\ o3 = o2 + Len(kt) /\ o4 = o3 + KeyLength
      /\ o5 = o4 + Len(is) /\ o6 = o5 + Len(it)
  OBVIOUS
<1>3. o1 = Len(HeaderBytes(m))
  OBVIOUS
<1> HIDE DEF b, h, ks, kt, is, it, rest, o1, o2, o3, o4, o5, o6
<1> DEFINE marked == b # <<>> /\ b[1] >= Flag
           prefix == Cursor(b, 0)
           signers == read_u8(IF marked THEN read_u8(prefix) ELSE prefix)
           readonly_signed == read_u8(signers)
           readonly_unsigned == read_u8(readonly_signed)
           header == [signers |-> signers.value,
                      readonly_signed |-> readonly_signed.value,
                      readonly_unsigned |-> readonly_unsigned.value]
           keys == read_shortvec(readonly_unsigned)
           blockhash == skip_keys(keys)
           behind == skip(blockhash, KeyLength)
           programs == read_shortvec(behind)
           compiled == skip_instructions(programs)
           tables == read_lookup_count(compiled, marked)
           looked_up == skip_lookups(tables)
           v == [ok |-> TRUE, input |-> b, version |-> IF marked THEN "v0" ELSE "legacy",
                 header |-> header,
                 static_accounts_offset |-> keys.offset, static_account_count |-> keys.value,
                 recent_blockhash_offset |-> blockhash.offset,
                 instructions_offset |-> programs.offset, instruction_count |-> programs.value,
                 lookups_offset |-> compiled.offset, lookup_count |-> tables.value,
                 loaded_writable |-> looked_up.writable, loaded_readonly |-> looked_up.readonly,
                 minimal |-> looked_up.c.minimal]
           end == IF marked THEN 4 ELSE 3
<1>4. try_new(b) = IF marked => b[1] = Flag THEN Accepted(v, looked_up.c) ELSE Rejected
  BY DEF try_new
<1>5. /\ v.ok /\ v.input = b /\ v.version = (IF marked THEN "v0" ELSE "legacy")
      /\ v.header = header
      /\ v.static_accounts_offset = keys.offset /\ v.static_account_count = keys.value
      /\ v.recent_blockhash_offset = blockhash.offset
      /\ v.instructions_offset = programs.offset /\ v.instruction_count = programs.value
      /\ v.lookups_offset = compiled.offset /\ v.lookup_count = tables.value
      /\ v.loaded_writable = looked_up.writable /\ v.loaded_readonly = looked_up.readonly
  OBVIOUS
<1> HIDE DEF v
<1>6. /\ marked <=> m.version = "v0"
      /\ marked => b[1] = Flag
      /\ end <= Len(b) /\ o1 = end
      /\ b[end - 2] = m.header.signers /\ b[end - 1] = m.header.readonly_signed
      /\ b[end] = m.header.readonly_unsigned
  <2>1. At(b, 0, HeaderBytes(m))
    BY <1>1 DEF h
  <2> QED
    BY <1>1, <1>3, <2>1, HeaderWritten
<1>7. /\ readonly_unsigned \in Cursors(b) /\ readonly_unsigned.ok
      /\ readonly_unsigned.offset = o1
      /\ signers.value = b[end - 2] /\ readonly_signed.value = b[end - 1]
      /\ readonly_unsigned.value = b[end]
  <2> DEFINE x == marked
  <2>1. x \in BOOLEAN /\ (x <=> b # <<>> /\ b[1] >= Flag) /\ (x => b[1] = Flag)
    BY <1>6
  <2>2. (IF x THEN 4 ELSE 3) <= Len(b)
    BY <1>6
  <2> HIDE DEF x
  <2> DEFINE a == read_u8(IF x THEN read_u8(prefix) ELSE prefix)
             c == read_u8(a)
             d == read_u8(c)
             e == IF x THEN 4 ELSE 3
  <2>3. d.ok
    BY <1>1, <2>1, <2>2, HeaderReads
  <2>4. /\ d \in Cursors(b)
        /\ d.ok => /\ d.offset = e
                   /\ a.value = b[e - 2] /\ c.value = b[e - 1] /\ d.value = b[e]
    BY <1>1, <2>1, MarkedHeader
  <2> QED
    BY <1>6, <2>3, <2>4 DEF x
<1>8. header = m.header
  <2>1. header = [signers |-> m.header.signers, readonly_signed |-> m.header.readonly_signed,
                  readonly_unsigned |-> m.header.readonly_unsigned]
    BY <1>6, <1>7
  <2>2. m.header \in [signers : Bytes, readonly_signed : Bytes, readonly_unsigned : Bytes]
    BY DEF WellFormed
  <2> HIDE DEF header
  <2> QED
    BY <2>1, <2>2
<1>9. v.version = m.version
  <2>1. m.version \in {"legacy", "v0"}
    BY MessageTypes
  <2> QED
    BY <1>5, <1>6, <2>1
<1>91. marked \in BOOLEAN
  OBVIOUS
<1>92. At(b, o1, ks)
  BY <1>1
<1> HIDE DEF signers, readonly_signed, readonly_unsigned, header, marked, end
<1>10. keys \in Cursors(b) /\ keys.ok /\ keys.value = Len(m.keys) /\ keys.offset = o2
  <2> DEFINE n == Len(m.keys)
  <2>1. n \in Nat /\ n < Word
    BY CountsFit
  <2>2. At(b, readonly_unsigned.offset, Shortvec(n))
    BY <1>1, <1>7 DEF ks
  <2> HIDE DEF n
  <2>3. /\ keys \in Cursors(b) /\ keys.ok /\ keys.value = n
        /\ keys.offset = readonly_unsigned.offset + Len(Shortvec(n))
    BY <1>1, <1>7, <2>1, <2>2, ShortvecWritten
  <2> QED
    BY <1>2, <1>7, <2>3 DEF n, ks
<1> HIDE DEF keys
<1>11. Len(kt) = Len(m.keys) * KeyLength /\ KeyBytes(keys.value) = Len(kt) /\ Len(kt) \in Nat
  <2> DEFINE n == Len(m.keys)
  <2>1. n \in Nat /\ n * KeyLength < Word
    BY CountsFit DEF WellFormed
  <2>2. At(b, o2, FlattenSeq(KeyParts(m)))
    BY <1>1 DEF kt
  <2>3. Len(kt) = n * KeyLength
    BY <1>1, <2>2, KeysWritten DEF kt
  <2>4. keys.value = n
    BY <1>10
  <2> HIDE DEF n
  <2>5. KeyBytes(n) = n * KeyLength /\ n * KeyLength \in Nat
    BY <2>1, KeyBytesAre
  <2> QED
    BY <2>3, <2>4, <2>5 DEF n
<1>12. Len(b) \in Nat /\ KeyLength \in Nat /\ o4 <= Len(b) /\ o3 <= Len(b)
  <2>1. m.blockhash \in Seq(Bytes) /\ Len(m.blockhash) = KeyLength
    <3>1. m.blockhash \in Keys
      BY DEF WellFormed
    <3> QED
      BY <3>1, KeysAreBytes
  <2>2. Len(b) \in Nat /\ KeyLength \in Nat
    BY <1>1, LenProperties, SizesAssumption
  <2>3. o3 + KeyLength <= Len(b)
    BY <1>1, <2>1 DEF At
  <2>4. o4 <= Len(b)
    BY <1>2, <2>3
  <2> QED
    BY <1>1, <1>2, <2>2, <2>4
<1>13. blockhash \in Cursors(b) /\ blockhash.ok /\ blockhash.offset = o3
  <2> DEFINE l == Len(kt)
  <2>1. blockhash = skip(keys, l) /\ l \in Nat
    BY <1>11 DEF skip_keys
  <2>2. keys.offset + l = o3
    BY <1>2, <1>10
  <2> HIDE DEF l, blockhash
  <2>3. skip(keys, l) \in Cursors(b) /\ skip(keys, l).ok
    BY <1>1, <1>10, <1>12, <2>1, <2>2, SkipIs
  <2>4. skip(keys, l).offset = keys.offset + l
    BY <1>1, <1>10, <2>1, <2>3, SkipIs DEF Moved
  <2> QED
    BY <2>1, <2>2, <2>3, <2>4
<1> HIDE DEF blockhash
<1>14. behind \in Cursors(b) /\ behind.ok /\ behind.offset = o4
  <2>1. blockhash.offset + KeyLength = o4
    BY <1>2, <1>13
  <2>2. behind \in Cursors(b) /\ behind.ok
    BY <1>1, <1>12, <1>13, <2>1, SkipIs
  <2>3. behind.offset = blockhash.offset + KeyLength
    BY <1>1, <1>12, <1>13, <2>2, SkipIs DEF Moved
  <2> QED
    BY <2>1, <2>2, <2>3
<1> HIDE DEF behind
<1>15. /\ programs \in Cursors(b) /\ programs.ok /\ programs.value = Len(m.instructions)
       /\ programs.offset = o5
  <2> DEFINE n == Len(m.instructions)
  <2>1. n \in Nat /\ n < Word
    BY CountsFit
  <2>2. At(b, behind.offset, Shortvec(n))
    BY <1>1, <1>14 DEF is
  <2> HIDE DEF n
  <2>3. /\ programs \in Cursors(b) /\ programs.ok /\ programs.value = n
        /\ programs.offset = behind.offset + Len(Shortvec(n))
    BY <1>1, <1>14, <2>1, <2>2, ShortvecWritten
  <2> QED
    BY <1>2, <1>14, <2>3 DEF n, is
<1> HIDE DEF programs
<1> DEFINE read == Repeat(NextInstruction, [c |-> Cursor(b, programs.offset), items |-> <<>>],
                          programs.value)
<1>16. /\ compiled \in Cursors(b) /\ compiled.ok /\ compiled.offset = o6
       /\ read.c.ok /\ read.items = m.instructions
  <2>1. At(b, programs.offset, FlattenSeq(InstructionParts(m)))
    BY <1>1, <1>15 DEF it
  <2>2. /\ compiled \in Cursors(b) /\ compiled.ok
        /\ compiled.offset = programs.offset + Len(FlattenSeq(InstructionParts(m)))
        /\ read.c.ok /\ read.items = m.instructions
    BY <1>1, <1>15, <2>1, InstructionsWritten
  <2>3. compiled.offset = programs.offset + Len(it)
    BY <2>2 DEF it
  <2> QED
    BY <1>2, <1>15, <2>2, <2>3
<1> HIDE DEF compiled
<1>17. /\ tables \in Cursors(b) /\ tables.ok /\ tables.value = Len(m.lookups)
       /\ At(b, tables.offset, FlattenSeq(LookupParts(m)))
       /\ tables.offset + Len(FlattenSeq(LookupParts(m))) = Len(b)
       /\ tables.offset = IF m.version = "v0" THEN compiled.offset + shortvec_len(tables.value)
                                              ELSE compiled.offset
  <2>1. /\ At(b, compiled.offset, LookupsBytes(m))
        /\ compiled.offset + Len(LookupsBytes(m)) = Len(b)
    BY <1>1, <1>16 DEF rest
  <2>2. /\ b \in Seq(Bytes) /\ compiled \in Cursors(b) /\ compiled.ok /\ WellFormed(m)
        /\ marked \in BOOLEAN /\ (marked <=> m.version = "v0")
        /\ At(b, compiled.offset, LookupsBytes(m))
        /\ compiled.offset + Len(LookupsBytes(m)) = Len(b)
    BY <1>1, <1>6, <1>16, <1>91, <2>1
  <2> QED
    BY ONLY <2>2, LookupCountWritten DEF tables
<1> HIDE DEF tables
<1> DEFINE found == Repeat(NextLookup, [c |-> Cursor(b, tables.offset), items |-> <<>>],
                           tables.value)
<1>18. /\ looked_up.c \in Cursors(b) /\ looked_up.c.ok
       /\ looked_up.c.offset = tables.offset + Len(FlattenSeq(LookupParts(m)))
       /\ Totals(m.lookups, TRUE, looked_up.writable) # {}
       /\ Totals(m.lookups, FALSE, looked_up.readonly) # {}
       /\ found.items = m.lookups /\ m.lookups \in Seq(LookupItems)
  <2>1. /\ b \in Seq(Bytes) /\ tables \in Cursors(b) /\ tables.ok /\ WellFormed(m)
        /\ tables.value = Len(m.lookups) /\ At(b, tables.offset, FlattenSeq(LookupParts(m)))
    BY <1>1, <1>17
  <2> QED
    BY ONLY <2>1, LookupsWritten DEF looked_up, found
<1> HIDE DEF looked_up, read, found
<1>19. AtEnd(looked_up.c)
  <2>1. looked_up.c.input = b
    BY <1>18, FieldsAre
  <2> QED
    BY <1>17, <1>18, <2>1 DEF AtEnd
<1>20. FirstLookup(v) = tables.offset
  <2>1. m.version \in {"legacy", "v0"}
    BY MessageTypes
  <2> QED
    BY <1>5, <1>9, <1>17, <2>1 DEF FirstLookup
<1>21. Written(b, m, v)
  <2>1. /\ v.ok /\ v.input = b /\ v.version = m.version /\ v.header = m.header
        /\ v.static_account_count = Len(m.keys) /\ v.static_accounts_offset = o2
        /\ v.recent_blockhash_offset = o3
    BY <1>5, <1>8, <1>9, <1>10, <1>13
  <2>2. /\ v.static_accounts_offset \in Nat /\ v.recent_blockhash_offset \in Nat
        /\ At(b, v.static_accounts_offset, FlattenSeq(KeyParts(m)))
        /\ At(b, v.recent_blockhash_offset, m.blockhash)
    BY <1>1, <2>1 DEF kt
  <2>3. LET all == Repeat(NextInstruction,
                          [c |-> Cursor(b, v.instructions_offset), items |-> <<>>],
                          v.instruction_count)
        IN  all.c.ok /\ all.items = m.instructions
    BY <1>5, <1>16 DEF read
  <2>4. LET all == Repeat(NextLookup, [c |-> Cursor(b, FirstLookup(v)), items |-> <<>>],
                          v.lookup_count)
        IN  all.items = m.lookups
    BY <1>5, <1>18, <1>20 DEF found
  <2>5. /\ m.lookups \in Seq(LookupItems)
        /\ Totals(m.lookups, TRUE, v.loaded_writable) # {}
        /\ Totals(m.lookups, FALSE, v.loaded_readonly) # {}
    BY <1>5, <1>18
  <2> QED
    BY <2>1, <2>2, <2>3, <2>4, <2>5 DEF Written
<1>22. valid_header(v.header, v.static_account_count) /\ valid_indexes(v)
  BY <1>1, <1>21, WrittenIsValid
<1>23. try_new(b) = v
  BY <1>4, <1>6, <1>19, <1>22 DEF Accepted, marked
<1>24. v.ok /\ (EachHasAnIndex(Len(m.keys)) => Read(v) = m)
  BY <1>1, <1>5, <1>21, WrittenIsRead
<1> QED
  BY <1>23, <1>24 DEF b

(* Every message that a host can have, serialized and not damaged, is      *)
(* accepted in every state that has parsed it, and what the view reads is  *)
(* that message, if each of its keys has an index.                         *)
THEOREM EveryMessageIsAccepted == Spec => []MessagesAreAccepted
<1>1. Inv => MessagesAreAccepted
  <2> SUFFICES ASSUME Inv, message # NoMessage, view # Unparsed
               PROVE  /\ view.ok
                      /\ EachHasAnIndex(Len(message.keys)) => Read(view) = message
    BY DEF MessagesAreAccepted
  <2>1. /\ message \in Messages /\ input = Serialize(message) /\ view = try_new(input)
    BY DEF Inv
  <2>2. WellFormed(message)
    BY <2>1, MessagesAssumption
  <2>3. /\ try_new(Serialize(message)).ok
        /\ EachHasAnIndex(Len(message.keys)) => Read(try_new(Serialize(message))) = message
    BY <2>2, SerializedIsAccepted
  <2> QED
    BY <2>1, <2>3
<1> QED
  BY <1>1, Invariance, PTL
=============================================================================
