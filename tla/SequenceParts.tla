--------------------------- MODULE SequenceParts ---------------------------
(***************************************************************************)
(* Sequences put together and taken apart by positions, and the runs of    *)
(* loops over them: what the proofs about payloads, messages and texts     *)
(* rest on.                                                                *)
(***************************************************************************)
EXTENDS Integers, Sequences, SequencesExt, SequenceTheorems, WellFoundedInduction, TLAPS

(* A function of the right domain is a sequence.                           *)
LEMMA FunctionIsSeq ==
  ASSUME NEW S, NEW n \in Nat, NEW f \in [1..n -> S]
  PROVE  f \in Seq(S) /\ Len(f) = n
<1>1. f \in Seq(S)
  OBVIOUS
<1> QED
  BY <1>1, LenProperties

(* What stands where in a concatenation.                                   *)
LEMMA ConcatIs ==
  ASSUME NEW S, NEW s \in Seq(S), NEW t \in Seq(S)
  PROVE  /\ s \o t \in Seq(S) /\ Len(s) \in Nat /\ Len(t) \in Nat
         /\ Len(s \o t) = Len(s) + Len(t)
         /\ \A i \in 1..Len(s) : (s \o t)[i] = s[i]
         /\ \A i \in 1..Len(t) : (s \o t)[Len(s) + i] = t[i]
<1> DEFINE w == s \o t
<1>1. /\ w \in Seq(S) /\ Len(s) \in Nat /\ Len(t) \in Nat /\ Len(w) = Len(s) + Len(t)
      /\ \A i \in 1..(Len(s) + Len(t)) : w[i] = IF i <= Len(s) THEN s[i] ELSE t[i - Len(s)]
  BY ConcatProperties, LenProperties
<1> HIDE DEF w
<1>2. \A i \in 1..Len(t) :
        /\ Len(s) + i \in 1..(Len(s) + Len(t)) /\ ~(Len(s) + i <= Len(s))
        /\ Len(s) + i - Len(s) = i
  BY <1>1
<1>3. /\ \A i \in 1..Len(s) : w[i] = s[i]
      /\ \A i \in 1..Len(t) : w[Len(s) + i] = t[i]
  BY <1>1, <1>2
<1> QED
  BY <1>1, <1>3 DEF w

(* A sequence found in another one is cut out of it.                       *)
LEMMA PartIs ==
  ASSUME NEW S, NEW w \in Seq(S), NEW part \in Seq(S), NEW m \in Nat,
         m + Len(part) <= Len(w), \A i \in 1..Len(part) : w[m + i] = part[i]
  PROVE  SubSeq(w, m + 1, m + Len(part)) = part
<1> DEFINE n == m + Len(part)
           cut == SubSeq(w, m + 1, n)
<1>1. Len(w) \in Nat /\ Len(part) \in Nat /\ n \in Nat
  BY LenProperties
<1>2. \A i \in (m + 1)..n : w[i] \in S
  BY <1>1, ElementOfSeq
<1>3. /\ cut \in Seq(S) /\ Len(cut) = IF m + 1 <= n THEN n - (m + 1) + 1 ELSE 0
      /\ \A i \in 1..(n - (m + 1) + 1) : cut[i] = w[m + 1 + i - 1]
  <2> HIDE DEF n
  <2> QED
    BY <1>1, <1>2, SubSeqProperties
<1> HIDE DEF cut
<1>4. Len(cut) = Len(part) /\ \A i \in 1..Len(part) : cut[i] = w[m + i]
  <2>1. n - (m + 1) + 1 = Len(part) /\ \A i \in 1..Len(part) : m + 1 + i - 1 = m + i
    BY <1>1
  <2> QED
    BY <1>1, <1>3, <2>1
<1> QED
  BY <1>3, <1>4, SeqEqual DEF cut

(* A part of the first of two sequences is the same part of their          *)
(* concatenation.                                                          *)
LEMMA PartOfFirst ==
  ASSUME NEW S, NEW s \in Seq(S), NEW t \in Seq(S), NEW m \in Nat, NEW n \in 0..Len(s)
  PROVE  SubSeq(s \o t, m + 1, n) = SubSeq(s, m + 1, n)
<1> DEFINE w == s \o t
<1>1. /\ w \in Seq(S) /\ Len(s) \in Nat /\ n \in Nat /\ Len(s) <= Len(w)
      /\ \A i \in 1..Len(s) : w[i] = s[i]
  BY ConcatIs
<1> HIDE DEF w
<1>2. \A i \in (m + 1)..n : i \in 1..Len(s) /\ w[i] = s[i] /\ w[i] \in S /\ s[i] \in S
  BY <1>1, ElementOfSeq
<1>3. /\ SubSeq(w, m + 1, n) \in Seq(S)
      /\ Len(SubSeq(w, m + 1, n)) = IF m + 1 <= n THEN n - (m + 1) + 1 ELSE 0
      /\ \A i \in 1..(n - (m + 1) + 1) : SubSeq(w, m + 1, n)[i] = w[m + 1 + i - 1]
  BY <1>1, <1>2, SubSeqProperties
<1>4. /\ SubSeq(s, m + 1, n) \in Seq(S)
      /\ Len(SubSeq(s, m + 1, n)) = IF m + 1 <= n THEN n - (m + 1) + 1 ELSE 0
      /\ \A i \in 1..(n - (m + 1) + 1) : SubSeq(s, m + 1, n)[i] = s[m + 1 + i - 1]
  BY <1>1, <1>2, SubSeqProperties
<1>5. \A i \in 1..(n - (m + 1) + 1) : m + 1 + i - 1 \in (m + 1)..n
  BY <1>1
<1>6. \A i \in 1..Len(SubSeq(w, m + 1, n)) : SubSeq(w, m + 1, n)[i] = SubSeq(s, m + 1, n)[i]
  BY <1>1, <1>2, <1>3, <1>4, <1>5
<1> QED
  BY <1>3, <1>4, <1>6, SeqEqual DEF w

(* What a rounded-down quotient is.                                        *)
LEMMA Quotient ==
  ASSUME NEW a \in Nat, NEW b \in Nat \ {0}
  PROVE  a \div b \in Nat /\ (a \div b) * b <= a /\ a < (a \div b) * b + b
OBVIOUS

(* Multiples of the same number are ordered as their factors.              *)
LEMMA Products ==
  ASSUME NEW b \in Nat, NEW j \in Nat, NEW k \in Nat, j <= k
  PROVE  j * b \in Nat /\ k * b \in Nat /\ j * b <= k * b
OBVIOUS

(* Two parts that meet are one part.                                       *)
LEMMA PartsJoin ==
  ASSUME NEW S, NEW w \in Seq(S), NEW m \in Nat, NEW n \in Nat, m <= n, n <= Len(w)
  PROVE  SubSeq(w, 1, m) \o SubSeq(w, m + 1, n) = SubSeq(w, 1, n)
<1> DEFINE a == SubSeq(w, 1, m)
           b == SubSeq(w, m + 1, n)
           c == SubSeq(w, 1, n)
<1>1. Len(w) \in Nat /\ \A i \in 1..n : w[i] \in S
  BY LenProperties, ElementOfSeq
<1>2. a \in Seq(S) /\ Len(a) = m /\ \A i \in 1..m : a[i] = w[i]
  BY <1>1, SubSeqProperties
<1>3. c \in Seq(S) /\ Len(c) = n /\ \A i \in 1..n : c[i] = w[i]
  BY <1>1, SubSeqProperties
<1>4. b \in Seq(S) /\ Len(b) = n - m /\ \A i \in 1..(n - m) : b[i] = w[m + i]
  <2>1. \A i \in (m + 1)..n : w[i] \in S
    BY <1>1
  <2>2. /\ b \in Seq(S) /\ Len(b) = IF m + 1 <= n THEN n - (m + 1) + 1 ELSE 0
        /\ \A i \in 1..(n - (m + 1) + 1) : b[i] = w[m + 1 + i - 1]
    BY <1>1, <2>1, SubSeqProperties
  <2>3. n - (m + 1) + 1 = n - m /\ \A i \in 1..(n - m) : m + 1 + i - 1 = m + i
    OBVIOUS
  <2> HIDE DEF b
  <2> QED
    BY <2>2, <2>3
<1> HIDE DEF a, b, c
<1>5. /\ a \o b \in Seq(S) /\ Len(a \o b) = n
      /\ \A i \in 1..m : (a \o b)[i] = a[i]
      /\ \A i \in 1..(n - m) : (a \o b)[m + i] = b[i]
  <2>1. /\ a \o b \in Seq(S) /\ Len(a \o b) = Len(a) + Len(b)
        /\ \A i \in 1..Len(a) : (a \o b)[i] = a[i]
        /\ \A i \in 1..Len(b) : (a \o b)[Len(a) + i] = b[i]
    <3>1. a \in Seq(S) /\ b \in Seq(S)
      BY <1>2, <1>4
    <3> QED
      BY ONLY <3>1, ConcatIs
  <2> QED
    BY <1>2, <1>4, <2>1
<1>6. ASSUME NEW i \in 1..n PROVE (a \o b)[i] = c[i]
  <2>1. CASE i \in 1..m
    BY <1>2, <1>3, <1>5, <2>1
  <2>2. CASE i \notin 1..m
    <3>1. i - m \in 1..(n - m) /\ m + (i - m) = i
      BY <2>2
    <3>2. (a \o b)[m + (i - m)] = b[i - m] /\ b[i - m] = w[m + (i - m)]
      BY <1>4, <1>5, <3>1
    <3> QED
      BY <1>3, <3>1, <3>2
  <2> QED
    BY <2>1, <2>2
<1>7. a \o b = c
  BY <1>3, <1>5, <1>6, SeqEqual
<1> QED
  BY <1>7 DEF a, b, c

(* The part from the first to the last is all of it.                       *)
LEMMA WholeIsPart ==
  ASSUME NEW S, NEW w \in Seq(S)
  PROVE  SubSeq(w, 1, Len(w)) = w
<1>1. Len(w) \in Nat /\ \A i \in 1..Len(w) : w[i] \in S
  BY LenProperties, ElementOfSeq
<1>2. /\ SubSeq(w, 1, Len(w)) \in Seq(S) /\ Len(SubSeq(w, 1, Len(w))) = Len(w)
      /\ \A i \in 1..Len(w) : SubSeq(w, 1, Len(w))[i] = w[i]
  BY <1>1, SubSeqProperties
<1> QED
  BY <1>2, SeqEqual

(* What is added at the end says what was added.                           *)
LEMMA SameEnd ==
  ASSUME NEW S, NEW s \in Seq(S), NEW x, NEW y, Append(s, x) = Append(s, y)
  PROVE  x = y
<1> DEFINE T == S \cup {x, y}
<1>1. s \in Seq(T) /\ x \in T /\ y \in T
  OBVIOUS
<1> HIDE DEF T
<1>2. Append(s, x)[Len(s) + 1] = x /\ Append(s, y)[Len(s) + 1] = y
  BY <1>1, AppendProperties
<1> QED
  BY <1>2

(* Two concatenations are the same when their parts are, and only then if  *)
(* the first parts are of one length.                                      *)
LEMMA SameParts ==
  ASSUME NEW S, NEW s \in Seq(S), NEW t \in Seq(S), NEW u \in Seq(S), NEW v \in Seq(S),
         Len(s) = Len(u), s \o t = u \o v
  PROVE  s = u /\ t = v
<1> DEFINE a == s \o t
           b == u \o v
<1>1. /\ Len(s) \in Nat /\ Len(t) \in Nat /\ Len(a) = Len(s) + Len(t)
      /\ \A i \in 1..Len(s) : a[i] = s[i]
      /\ \A i \in 1..Len(t) : a[Len(s) + i] = t[i]
  BY ONLY s \in Seq(S), t \in Seq(S), ConcatIs
<1>2. /\ Len(u) \in Nat /\ Len(v) \in Nat /\ Len(b) = Len(u) + Len(v)
      /\ \A i \in 1..Len(u) : b[i] = u[i]
      /\ \A i \in 1..Len(v) : b[Len(u) + i] = v[i]
  BY ONLY u \in Seq(S), v \in Seq(S), ConcatIs
<1>3. a = b
  OBVIOUS
<1> HIDE DEF a, b
<1>4. Len(t) = Len(v)
  BY <1>1, <1>2, <1>3
<1>5. \A i \in 1..Len(s) : s[i] = u[i]
  BY <1>1, <1>2, <1>3
<1>6. \A i \in 1..Len(t) : t[i] = v[i]
  BY <1>1, <1>2, <1>3, <1>4
<1>7. s = u
  BY <1>5, SeqEqual
<1>8. t = v
  BY <1>4, <1>6, SeqEqual
<1> QED
  BY <1>7, <1>8

-----------------------------------------------------------------------------
(* Induction over the numbers, for a set.                                  *)
LEMMA Induction ==
  ASSUME NEW T, 0 \in T, \A n \in Nat : n \in T => n + 1 \in T
  PROVE  Nat \subseteq T
<1> DEFINE R == OpToRel(<, Nat)
           U == Nat \ T
<1> SUFFICES ASSUME U # {} PROVE FALSE
  OBVIOUS
<1>1. IsWellFoundedOn(R, Nat)
  BY NatLessThanWellFounded
<1>2. U \subseteq Nat
  OBVIOUS
<1> HIDE DEF R, U
<1>3. PICK x \in U : \A y \in U : ~(<<y, x>> \in R)
  BY <1>1, <1>2, WFMin
<1>4. \A a, b \in Nat : a < b => <<a, b>> \in R
  BY DEF R, OpToRel
<1>5. x \in Nat /\ x # 0
  BY DEF U
<1>6. x - 1 \in Nat /\ (x - 1) + 1 = x
  BY <1>5
<1>7. x - 1 \in U
  BY <1>5, <1>6 DEF U
<1>8. <<x - 1, x>> \in R
  BY <1>4, <1>5, <1>6
<1> QED
  BY <1>3, <1>7, <1>8

(* The runs of a loop whose k-th step is steps[k].                         *)
LoopRuns(S, steps, s0, n) ==
  {f \in [0..n -> S] : f[0] = s0 /\ \A k \in 1..n : f[k] = steps[k][f[k - 1]]}

(* A loop with a step for each turn has a run.                             *)
LEMMA LoopRun ==
  ASSUME NEW S, NEW s0 \in S, NEW n \in Nat, NEW steps \in [1..n -> [S -> S]]
  PROVE  LoopRuns(S, steps, s0, n) # {}
<1> DEFINE T == {m \in Nat : m <= n => LoopRuns(S, steps, s0, m) # {}}
<1>1. 0 \in T
  <2> DEFINE f == [k \in 0..0 |-> s0]
  <2>1. f \in LoopRuns(S, steps, s0, 0)
    BY DEF LoopRuns
  <2> QED
    BY <2>1
<1>2. \A m \in Nat : m \in T => m + 1 \in T
  <2> SUFFICES ASSUME NEW m \in Nat, m + 1 <= n, NEW f \in LoopRuns(S, steps, s0, m)
               PROVE  \E g : g \in LoopRuns(S, steps, s0, m + 1)
    OBVIOUS
  <2> DEFINE g == [k \in 0..(m + 1) |-> IF k <= m THEN f[k] ELSE steps[m + 1][f[m]]]
  <2>1. /\ m + 1 \in 0..(m + 1) /\ ~(m + 1 <= m) /\ (m + 1) - 1 = m /\ m \in 0..m
        /\ m + 1 \in 1..n
        /\ \A k \in 0..m : k \in 0..(m + 1) /\ k <= m
        /\ \A k \in 1..m : k - 1 \in 0..m /\ k \in 0..m
        /\ \A k \in 1..(m + 1) : k \in 1..m \/ k = m + 1
        /\ \A k \in 0..(m + 1) : k \in 0..m \/ k = m + 1
    OBVIOUS
  <2>2. f \in [0..m -> S] /\ f[0] = s0 /\ \A k \in 1..m : f[k] = steps[k][f[k - 1]]
    BY DEF LoopRuns
  <2>3. steps[m + 1] \in [S -> S] /\ f[m] \in S
    BY <2>1, <2>2
  <2>4. steps[m + 1][f[m]] \in S
    BY <2>3
  <2>5. g \in [0..(m + 1) -> S]
    BY <2>2, <2>4
  <2>6. g[m + 1] = steps[m + 1][f[m]] /\ \A k \in 0..m : g[k] = f[k]
    BY <2>1
  <2> HIDE DEF g
  <2>7. \A k \in 1..(m + 1) : g[k] = steps[k][g[k - 1]]
    BY <2>1, <2>2, <2>6
  <2>8. g \in LoopRuns(S, steps, s0, m + 1)
    BY <2>2, <2>5, <2>6, <2>7 DEF LoopRuns
  <2> QED
    BY <2>8
<1> HIDE DEF T
<1>3. Nat \subseteq T
  BY <1>1, <1>2, Induction
<1> QED
  BY <1>3 DEF T

(* What a recursive definition chooses is a run, when the loop stays in S. *)
LEMMA ChosenRun ==
  ASSUME NEW S, NEW s0 \in S, NEW n \in Nat, NEW steps \in [1..n -> [S -> S]],
         NEW D, NEW g \in [0..n -> D], g[0] = s0,
         \A k \in 1..n : g[k - 1] \in S => g[k] = steps[k][g[k - 1]]
  PROVE  g \in LoopRuns(S, steps, s0, n)
<1> DEFINE T == {k \in Nat : k <= n => g[k] \in S}
<1>1. 0 \in T
  OBVIOUS
<1>2. \A k \in Nat : k \in T => k + 1 \in T
  <2> SUFFICES ASSUME NEW k \in Nat, k \in T, k + 1 <= n
               PROVE  g[k + 1] \in S
    OBVIOUS
  <2>1. k + 1 \in 1..n /\ (k + 1) - 1 = k
    OBVIOUS
  <2>4. k <= n
    OBVIOUS
  <2>5. g[k] \in S
    BY <2>4
  <2>2. g[k + 1] = steps[k + 1][g[k]]
    BY <2>1, <2>5
  <2>3. steps[k + 1] \in [S -> S]
    BY <2>1
  <2> QED
    BY <2>2, <2>3, <2>5
<1> HIDE DEF T
<1>3. Nat \subseteq T
  BY <1>1, <1>2, Induction
<1>4. \A k \in 0..n : g[k] \in S
  BY <1>3 DEF T
<1>5. \A k \in 1..n : g[k] = steps[k][g[k - 1]]
  <2>1. \A k \in 1..n : k - 1 \in 0..n
    OBVIOUS
  <2> QED
    BY <1>4, <2>1
<1>6. g \in [0..n -> S]
  BY <1>4
<1> QED
  BY <1>5, <1>6 DEF LoopRuns

(* Runs of loops with the same steps agree as far as these go.             *)
LEMMA SameRuns ==
  ASSUME NEW S, NEW T0, NEW s0, NEW m \in Nat, NEW n \in Nat, m <= n,
         NEW a, NEW b, \A k \in 1..m : a[k] = b[k],
         NEW f \in LoopRuns(S, a, s0, m), NEW g \in LoopRuns(T0, b, s0, n)
  PROVE  \A k \in 0..m : f[k] = g[k]
<1> DEFINE T == {k \in Nat : k <= m => f[k] = g[k]}
<1>1. 0 \in T
  BY DEF LoopRuns
<1>2. \A k \in Nat : k \in T => k + 1 \in T
  <2> SUFFICES ASSUME NEW k \in Nat, k + 1 <= m, f[k] = g[k]
               PROVE  f[k + 1] = g[k + 1]
    BY DEF T
  <2>1. k + 1 \in 1..m /\ k + 1 \in 1..n /\ (k + 1) - 1 = k
    OBVIOUS
  <2>2. f[k + 1] = a[k + 1][f[k]] /\ g[k + 1] = b[k + 1][g[k]]
    BY <2>1 DEF LoopRuns
  <2> QED
    BY <2>1, <2>2
<1> HIDE DEF T
<1>3. Nat \subseteq T
  BY <1>1, <1>2, Induction
<1> QED
  BY <1>3 DEF T

(* Sequences joined one after the other.                                   *)
Joining(S, seqs) == [k \in 1..Len(seqs) |-> [x \in Seq(S) |-> x \o seqs[k]]]

(* The steps of that loop.                                                 *)
LEMMA JoiningIs ==
  ASSUME NEW S, NEW seqs \in Seq(Seq(S))
  PROVE  /\ Len(seqs) \in Nat /\ <<>> \in Seq(S)
         /\ \A k \in 1..Len(seqs) : seqs[k] \in Seq(S)
         /\ Joining(S, seqs) \in [1..Len(seqs) -> [Seq(S) -> Seq(S)]]
         /\ \A k \in 1..Len(seqs) : \A x \in Seq(S) : Joining(S, seqs)[k][x] = x \o seqs[k]
<1>1. Len(seqs) \in Nat /\ \A k \in 1..Len(seqs) : seqs[k] \in Seq(S)
  BY LenProperties, ElementOfSeq
<1>2. ASSUME NEW k \in 1..Len(seqs)
      PROVE  [x \in Seq(S) |-> x \o seqs[k]] \in [Seq(S) -> Seq(S)]
  BY <1>1, ConcatProperties
<1> QED
  BY <1>1, <1>2 DEF Joining

(* A run of that loop joins one sequence at a time.                        *)
LEMMA JoiningRun ==
  ASSUME NEW S, NEW seqs \in Seq(Seq(S)),
         NEW f \in LoopRuns(Seq(S), Joining(S, seqs), <<>>, Len(seqs))
  PROVE  /\ f \in [0..Len(seqs) -> Seq(S)] /\ f[0] = <<>>
         /\ \A k \in 1..Len(seqs) : f[k] = f[k - 1] \o seqs[k]
<1> DEFINE n == Len(seqs)
<1>1. n \in Nat
  BY JoiningIs
<1>2. /\ f \in [0..n -> Seq(S)] /\ f[0] = <<>>
      /\ \A k \in 1..n : f[k] = Joining(S, seqs)[k][f[k - 1]]
  BY DEF LoopRuns
<1>3. \A k \in 1..n : \A x \in Seq(S) : Joining(S, seqs)[k][x] = x \o seqs[k]
  BY JoiningIs
<1> HIDE DEF n
<1>4. \A k \in 1..n : k - 1 \in 0..n
  BY <1>1
<1>5. \A k \in 1..n : f[k - 1] \in Seq(S)
  BY <1>2, <1>4
<1>6. \A k \in 1..n : f[k] = f[k - 1] \o seqs[k]
  BY <1>2, <1>3, <1>5
<1> QED
  BY <1>2, <1>6 DEF n

(* FlattenSeq is the last state of such a run.                             *)
LEMMA FlattenRun ==
  ASSUME NEW S, NEW seqs \in Seq(Seq(S))
  PROVE  \E f \in LoopRuns(Seq(S), Joining(S, seqs), <<>>, Len(seqs)) :
            FlattenSeq(seqs) = f[Len(seqs)]
<1> DEFINE n == Len(seqs)
           Is(g) == g = [k \in 1..n |-> IF k = 1 THEN seqs[k] ELSE g[k - 1] \o seqs[k]]
           h == CHOOSE g : Is(g)
<1>1. n \in Nat /\ <<>> \in Seq(S) /\ \A k \in 1..n : seqs[k] \in Seq(S)
  BY JoiningIs
<1>2. LoopRuns(Seq(S), Joining(S, seqs), <<>>, n) # {}
  BY <1>1, JoiningIs, LoopRun
<1>3. PICK f : f \in LoopRuns(Seq(S), Joining(S, seqs), <<>>, n)
  BY <1>2
<1>4. f \in [0..n -> Seq(S)] /\ f[0] = <<>> /\ \A k \in 1..n : f[k] = f[k - 1] \o seqs[k]
  BY <1>3, JoiningRun
<1>5. CASE n = 0
  <2>1. seqs = <<>>
    BY <1>5, EmptySeq
  <2>2. FlattenSeq(seqs) = seqs
    BY <1>5 DEF FlattenSeq
  <2> QED
    BY <1>3, <1>4, <1>5, <2>1, <2>2
<1>6. CASE n # 0
  <2> DEFINE g == [k \in 1..n |-> f[k]]
  <2>1. Is(g)
    <3>1. \A k \in 1..n : g[k] = IF k = 1 THEN seqs[k] ELSE g[k - 1] \o seqs[k]
      <4>0. 1 \in 1..n /\ 1 - 1 = 0
        BY ONLY <1>1, <1>6
      <4>3. f[1] = f[0] \o seqs[1] /\ seqs[1] \in Seq(S)
        BY ONLY <1>1, <1>4, <4>0
      <4>1. f[1] = seqs[1]
        BY <1>4, <4>3, ConcatEmptySeq
      <4>2. ASSUME NEW k \in 1..n, k # 1
            PROVE  f[k] = g[k - 1] \o seqs[k]
        <5>1. k - 1 \in 1..n
          BY <4>2
        <5> QED
          BY <1>4, <5>1
      <4> QED
        BY <4>1, <4>2
    <3> QED
      BY <3>1
  <2>2. Is(h)
    BY <2>1
  <2>3. FlattenSeq(seqs) = h[n]
    BY <1>6 DEF FlattenSeq
  <2> HIDE DEF h
  <2>4. \A k \in 1..n : h[k] = IF k = 1 THEN seqs[k] ELSE h[k - 1] \o seqs[k]
    BY <2>2
  <2> DEFINE T == {k \in Nat : k + 1 <= n => h[k + 1] = f[k + 1]}
  <2>5. 0 \in T
    <3>0. 1 \in 1..n /\ 1 - 1 = 0
      BY ONLY <1>1, <1>6
    <3>1. f[1] = f[0] \o seqs[1] /\ seqs[1] \in Seq(S)
      BY ONLY <1>1, <1>4, <3>0
    <3>2. f[1] = seqs[1]
      BY <1>4, <3>1, ConcatEmptySeq
    <3>3. h[1] = f[1]
      BY <2>4, <3>0, <3>2
    <3> QED
      BY <3>0, <3>3
  <2>6. \A k \in Nat : k \in T => k + 1 \in T
    <3> SUFFICES ASSUME NEW k \in Nat, k \in T, (k + 1) + 1 <= n
                 PROVE  h[(k + 1) + 1] = f[(k + 1) + 1]
      OBVIOUS
    <3>1. /\ k + 1 <= n /\ (k + 1) + 1 \in 1..n /\ (k + 1) + 1 # 1 /\ ((k + 1) + 1) - 1 = k + 1
      BY <1>1
    <3>2. h[k + 1] = f[k + 1]
      BY <3>1
    <3> DEFINE j == (k + 1) + 1
    <3>3. h[j] = h[j - 1] \o seqs[j]
      BY <2>4, <3>1
    <3>4. f[j] = f[j - 1] \o seqs[j]
      BY <1>4, <3>1
    <3> QED
      BY <3>1, <3>2, <3>3, <3>4
  <2> HIDE DEF T
  <2>7. Nat \subseteq T
    BY <2>5, <2>6, Induction
  <2>8. n - 1 \in T /\ (n - 1) + 1 = n
    BY <1>1, <1>6, <2>7
  <2>9. h[n] = f[n]
    BY <2>8 DEF T
  <2> QED
    BY <1>3, <2>3, <2>9
<1> QED
  BY <1>5, <1>6

(* FlattenSeq by its recurrence.                                           *)
LEMMA FlattenIs ==
  ASSUME NEW S, NEW seqs \in Seq(Seq(S))
  PROVE  /\ FlattenSeq(seqs) \in Seq(S)
         /\ FlattenSeq(<<>>) = <<>>
         /\ \A x \in Seq(S) : FlattenSeq(Append(seqs, x)) = FlattenSeq(seqs) \o x
<1>1. Len(seqs) \in Nat
  BY LenProperties
<1>2. PICK f \in LoopRuns(Seq(S), Joining(S, seqs), <<>>, Len(seqs)) :
             FlattenSeq(seqs) = f[Len(seqs)]
  BY FlattenRun
<1>3. FlattenSeq(seqs) \in Seq(S)
  <2>1. Len(seqs) \in 0..Len(seqs) /\ f \in [0..Len(seqs) -> Seq(S)]
    BY <1>1 DEF LoopRuns
  <2> QED
    BY <1>2, <2>1
<1>4. FlattenSeq(<<>>) = <<>>
  BY DEF FlattenSeq
<1>5. ASSUME NEW x \in Seq(S)
      PROVE  FlattenSeq(Append(seqs, x)) = FlattenSeq(seqs) \o x
  <2> DEFINE more == Append(seqs, x)
             n == Len(seqs)
             m == Len(more)
  <2>1. /\ more \in Seq(Seq(S)) /\ m = n + 1 /\ m \in Nat /\ n \in Nat /\ n <= m
        /\ more[m] = x /\ \A k \in 1..n : more[k] = seqs[k] /\ k \in 1..m
    BY <1>1, AppendProperties
  <2> HIDE DEF more
  <2>2. PICK g \in LoopRuns(Seq(S), Joining(S, more), <<>>, m) : FlattenSeq(more) = g[m]
    BY <2>1, FlattenRun
  <2>3. \A k \in 1..n : Joining(S, seqs)[k] = Joining(S, more)[k]
    BY <2>1 DEF Joining
  <2>4. \A k \in 0..n : f[k] = g[k]
    <3> DEFINE a == Joining(S, seqs)
               b == Joining(S, more)
               none == <<>>
               all == Seq(S)
    <3>1. /\ f \in LoopRuns(all, a, none, n) /\ g \in LoopRuns(all, b, none, m)
          /\ m \in Nat /\ n \in Nat /\ n <= m /\ \A k \in 1..n : a[k] = b[k]
      BY <2>1, <2>3
    <3> HIDE DEF a, b, m, n, none, all
    <3> QED
      BY <3>1, SameRuns
  <2>5. n \in 0..n /\ n \in 0..m /\ m \in 1..m /\ m - 1 = n
    BY <2>1
  <2>6. \A k \in 1..m : g[k] = g[k - 1] \o more[k]
    BY <2>1, <2>2, JoiningRun
  <2>7. g[m] = g[n] \o x
    BY <2>1, <2>5, <2>6
  <2>8. g[n] = f[n]
    BY <2>4, <2>5
  <2> QED
    BY <1>2, <2>2, <2>7, <2>8 DEF more
<1> QED
  BY <1>3, <1>4, <1>5
=============================================================================
