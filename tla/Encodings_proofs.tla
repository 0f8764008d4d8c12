--------------------------- MODULE Encodings_proofs ---------------------------
(***************************************************************************)
(* Proofs about the encodings, for every length of words, keys and         *)
(* addresses, every base, all messages, requests and payloads.             *)
(*                                                                         *)
(* What a hash or a signature binds is what the ABI encoding under it      *)
(* tells apart, so the first half is about the encoding: digits, words,    *)
(* heads and tails.  Facts about the recursive definitions in it are       *)
(* proved by least counterexamples.                                        *)
(***************************************************************************)
EXTENDS Encodings, SequenceTheorems, FiniteSetTheorems, WellFoundedInduction, TLAPS

-----------------------------------------------------------------------------
(* Flattened sequences.                                                    *)

\* F joins the first n members of s.
Joins(F, s, n) ==
    F = [i \in 1..n |-> IF i = 1 THEN s[i] ELSE F[i - 1] \o s[i]]

\* A set of natural numbers that is not empty has a least member.
LEMMA LeastNumber ==
    ASSUME NEW T \in SUBSET Nat, T # {}
    PROVE  \E n \in T : \A m \in T : n <= m
<1>1. PICK n \in T : \A m \in T : ~(<<m, n>> \in OpToRel(<, Nat))
    BY NatLessThanWellFounded, WFMin
<1>2. ASSUME NEW m \in T PROVE n <= m
    <2>1. ~(<<m, n>> \in {ss \in Nat \X Nat : ss[1] < ss[2]})
        BY <1>1 DEF OpToRel
    <2>2. ~(m < n)
        BY <2>1
    <2> QED BY <2>2
<1> QED BY <1>2

\* Every prefix of a sequence can be joined.
LEMMA JoinsExist ==
    ASSUME NEW s, NEW n \in Nat
    PROVE  \E F : Joins(F, s, n)
<1> DEFINE T == {k \in Nat : ~\E F : Joins(F, s, k)}
<1> SUFFICES ASSUME T # {} PROVE FALSE
    OBVIOUS
<1>1. PICK k \in T : \A m \in T : k <= m
    <2>1. T \in SUBSET Nat
        OBVIOUS
    <2> HIDE DEF T
    <2> QED BY <2>1, LeastNumber
<1>2. CASE k = 0
    <2>1. Joins([i \in 1..0 |-> s[i]], s, 0)
        BY DEF Joins
    <2> QED BY <1>1, <1>2, <2>1
<1>3. CASE k # 0
    <2>1. k - 1 \in Nat /\ k - 1 \notin T
        BY <1>1, <1>3
    <2>2. PICK F : Joins(F, s, k - 1)
        BY <2>1
    <2> DEFINE last == IF k = 1 THEN s[k] ELSE F[k - 1] \o s[k]
               G == [i \in 1..k |-> IF i = k THEN last ELSE F[i]]
    <2>3. \A i \in 1..(k - 1) : F[i] = IF i = 1 THEN s[i] ELSE F[i - 1] \o s[i]
        BY <2>2 DEF Joins
    <2>4. \A i \in 1..k : G[i] = IF i = 1 THEN s[i] ELSE G[i - 1] \o s[i]
        <3> SUFFICES ASSUME NEW i \in 1..k
                     PROVE  G[i] = IF i = 1 THEN s[i] ELSE G[i - 1] \o s[i]
            OBVIOUS
        <3>1. CASE i = k
            <4>1. k # 1 => G[k - 1] = F[k - 1]
                BY <1>3
            <4> QED BY <3>1, <4>1
        <3>2. CASE i # k
            <4>1. i \in 1..(k - 1) /\ G[i] = F[i]
                BY <3>2
            <4>2. i # 1 => i - 1 \in 1..k /\ i - 1 # k /\ G[i - 1] = F[i - 1]
                BY <3>2
            <4> QED BY <2>3, <4>1, <4>2
        <3> QED BY <3>1, <3>2
    <2>5. G = [i \in 1..k |-> G[i]]
        OBVIOUS
    <2> HIDE DEF G
    <2>6. Joins(G, s, k)
        BY <2>4, <2>5 DEF Joins
    <2> QED BY <1>1, <2>6
<1> QED BY <1>2, <1>3

\* What FlattenSeq computes.
LEMMA Flattened ==
    ASSUME NEW s, Len(s) \in Nat \ {0}
    PROVE  \E F : Joins(F, s, Len(s)) /\ FlattenSeq(s) = F[Len(s)]
<1> DEFINE F == CHOOSE G : G = [i \in 1..Len(s) |-> IF i = 1 THEN s[i] ELSE G[i - 1] \o s[i]]
<1>1. FlattenSeq(s) = F[Len(s)]
    BY DEF FlattenSeq
<1>2. Joins(F, s, Len(s))
    <2>1. PICK G : Joins(G, s, Len(s))
        BY JoinsExist
    <2> QED BY <2>1 DEF Joins
<1> QED BY <1>1, <1>2

\* Its members are members of the sequences it is made of.
LEMMA FlattenType ==
    ASSUME NEW S, NEW s \in Seq(Seq(S))
    PROVE  FlattenSeq(s) \in Seq(S)
<1>1. CASE Len(s) = 0
    <2>1. FlattenSeq(s) = s /\ s = <<>>
        BY <1>1, EmptySeq DEF FlattenSeq
    <2> QED BY <2>1, EmptySeq
<1>2. CASE Len(s) # 0
    <2>1. Len(s) \in Nat \ {0} /\ \A i \in 1..Len(s) : s[i] \in Seq(S)
        BY <1>2, LenProperties
    <2>2. PICK F : Joins(F, s, Len(s)) /\ FlattenSeq(s) = F[Len(s)]
        BY <2>1, Flattened
    <2> DEFINE T == {k \in 1..Len(s) : F[k] \notin Seq(S)}
    <2> SUFFICES ASSUME T # {} PROVE FALSE
        BY <2>1, <2>2
    <2>3. PICK k \in T : \A m \in T : k <= m
        <3>1. T \in SUBSET Nat
            BY <2>1
        <3> HIDE DEF T
        <3> QED BY <3>1, LeastNumber
    <2>4. F[k] = IF k = 1 THEN s[k] ELSE F[k - 1] \o s[k]
        BY <2>2 DEF Joins
    <2>5. CASE k = 1
        BY <2>1, <2>3, <2>4, <2>5
    <2>6. CASE k # 1
        <3>1. k - 1 \in 1..Len(s) /\ k - 1 \notin T
            BY <2>1, <2>3, <2>6
        <3>2. F[k - 1] \in Seq(S) /\ s[k] \in Seq(S)
            BY <2>1, <3>1
        <3>3. F[k - 1] \o s[k] \in Seq(S)
            BY <3>2, ConcatProperties
        <3> QED BY <2>3, <2>4, <2>6, <3>3
    <2> QED BY <2>5, <2>6
<1> QED BY <1>1, <1>2

\* Joining step by step.
LEMMA FlattenSteps ==
    ASSUME NEW s, NEW n \in Nat \ {0}, Len(s) = n
    PROVE  \E F : /\ FlattenSeq(s) = F[n]
                 /\ \A i \in 1..n : F[i] = IF i = 1 THEN s[i] ELSE F[i - 1] \o s[i]
<1>1. PICK F : Joins(F, s, Len(s)) /\ FlattenSeq(s) = F[Len(s)]
    BY Flattened
<1> QED BY <1>1 DEF Joins

\* No sequence.
LEMMA FlattenNone == FlattenSeq(<<>>) = <<>>
BY DEF FlattenSeq

\* Three sequences, joined.
LEMMA FlattenThree ==
    ASSUME NEW s, Len(s) = 3
    PROVE  FlattenSeq(s) = (s[1] \o s[2]) \o s[3]
<1>1. 3 \in Nat \ {0}
    OBVIOUS
<1>2. PICK F : /\ FlattenSeq(s) = F[3]
               /\ \A i \in 1..3 : F[i] = IF i = 1 THEN s[i] ELSE F[i - 1] \o s[i]
    BY <1>1, FlattenSteps
<1>3. F[1] = s[1] /\ F[2] = F[1] \o s[2] /\ F[3] = F[2] \o s[3]
    BY <1>2
<1> QED BY <1>2, <1>3

\* Four sequences, joined.
LEMMA FlattenFour ==
    ASSUME NEW s, Len(s) = 4
    PROVE  FlattenSeq(s) = ((s[1] \o s[2]) \o s[3]) \o s[4]
<1>1. 4 \in Nat \ {0}
    OBVIOUS
<1>2. PICK F : /\ FlattenSeq(s) = F[4]
               /\ \A i \in 1..4 : F[i] = IF i = 1 THEN s[i] ELSE F[i - 1] \o s[i]
    BY <1>1, FlattenSteps
<1>3. F[1] = s[1] /\ F[2] = F[1] \o s[2] /\ F[3] = F[2] \o s[3] /\ F[4] = F[3] \o s[4]
    BY <1>2
<1> QED BY <1>2, <1>3

-----------------------------------------------------------------------------
(* Bytes as the digits of a number, and as words.                          *)

\* v holds the value of every prefix of b up to n.
Digits(v, b, n) ==
    v = [k \in 0..n |-> IF k = 0 THEN 0 ELSE v[k - 1] * BASE + b[k]]

\* Every prefix has a value.
LEMMA DigitsExist ==
    ASSUME NEW b, NEW n \in Nat
    PROVE  \E v : Digits(v, b, n)
<1> DEFINE T == {k \in Nat : ~\E v : Digits(v, b, k)}
<1> SUFFICES ASSUME T # {} PROVE FALSE
    OBVIOUS
<1>1. PICK n0 \in T : \A m \in T : n0 <= m
    <2>1. T \in SUBSET Nat
        OBVIOUS
    <2> HIDE DEF T
    <2> QED BY <2>1, LeastNumber
<1>2. CASE n0 = 0
    <2> DEFINE G == [k \in 0..0 |-> 0]
    <2>1. \A k \in 0..0 : G[k] = IF k = 0 THEN 0 ELSE G[k - 1] * BASE + b[k]
        OBVIOUS
    <2>2. G = [k \in 0..0 |-> G[k]]
        OBVIOUS
    <2> HIDE DEF G
    <2>3. Digits(G, b, 0)
        BY <2>1, <2>2 DEF Digits
    <2> QED BY <1>1, <1>2, <2>3
<1>3. CASE n0 # 0
    <2>1. n0 - 1 \in Nat /\ n0 - 1 \notin T
        BY <1>1, <1>3
    <2>2. PICK v : Digits(v, b, n0 - 1)
        BY <2>1
    <2> DEFINE G == [k \in 0..n0 |-> IF k = n0 THEN v[n0 - 1] * BASE + b[n0] ELSE v[k]]
    <2>3. \A k \in 0..(n0 - 1) : v[k] = IF k = 0 THEN 0 ELSE v[k - 1] * BASE + b[k]
        BY <2>2 DEF Digits
    <2>4. \A k \in 0..n0 : G[k] = IF k = 0 THEN 0 ELSE G[k - 1] * BASE + b[k]
        <3> SUFFICES ASSUME NEW k \in 0..n0
                     PROVE  G[k] = IF k = 0 THEN 0 ELSE G[k - 1] * BASE + b[k]
            OBVIOUS
        <3>1. CASE k = n0
            <4>1. G[n0 - 1] = v[n0 - 1] /\ G[n0] = v[n0 - 1] * BASE + b[n0]
                BY <1>3
            <4> QED BY <1>3, <3>1, <4>1
        <3>2. CASE k # n0
            <4>1. k \in 0..(n0 - 1) /\ G[k] = v[k]
                BY <3>2
            <4>2. k # 0 => G[k - 1] = v[k - 1]
                BY <3>2
            <4> QED BY <2>3, <4>1, <4>2
        <3> QED BY <3>1, <3>2
    <2>5. G = [k \in 0..n0 |-> G[k]]
        OBVIOUS
    <2> HIDE DEF G
    <2>6. Digits(G, b, n0)
        BY <2>4, <2>5 DEF Digits
    <2> QED BY <1>1, <2>6
<1> QED BY <1>2, <1>3

\* What Value computes: the values of the prefixes are natural numbers, each the
\* one before it times the base and a digit more.
LEMMA ValueOfPrefixes ==
    ASSUME NEW b \in Seq(Byte)
    PROVE  \E v : /\ Value(b) = v[Len(b)]
                  /\ v[0] = 0
                  /\ \A k \in 0..Len(b) : v[k] \in Nat
                  /\ \A k \in 1..Len(b) : v[k] = v[k - 1] * BASE + b[k]
<1> DEFINE v == CHOOSE u : u = [k \in 0..Len(b) |-> IF k = 0 THEN 0 ELSE u[k - 1] * BASE + b[k]]
<1>1. Value(b) = v[Len(b)]
    BY DEF Value
<1>2. Digits(v, b, Len(b))
    <2>1. Len(b) \in Nat
        BY LenProperties
    <2>2. PICK u : Digits(u, b, Len(b))
        BY <2>1, DigitsExist
    <2> QED BY <2>2 DEF Digits
<1> HIDE DEF v
<1>3. /\ \A k \in 0..Len(b) : v[k] = IF k = 0 THEN 0 ELSE v[k - 1] * BASE + b[k]
      /\ Len(b) \in Nat
    BY <1>2 DEF Digits
<1>4. /\ v[0] = 0
      /\ \A k \in 1..Len(b) : v[k] = v[k - 1] * BASE + b[k]
    BY <1>3
<1>5. \A k \in 0..Len(b) : v[k] \in Nat
    <2> DEFINE T == {k \in 0..Len(b) : v[k] \notin Nat}
    <2> SUFFICES ASSUME T # {} PROVE FALSE
        OBVIOUS
    <2>1. PICK k \in T : \A m \in T : k <= m
        <3>1. T \in SUBSET Nat
            BY <1>3
        <3> HIDE DEF T
        <3> QED BY <3>1, LeastNumber
    <2>2. k # 0
        BY <1>4
    <2>3. k \in 1..Len(b) /\ k - 1 \in 0..Len(b) /\ k - 1 \notin T
        BY <1>3, <2>1, <2>2
    <2>4. v[k - 1] \in Nat /\ b[k] \in Nat /\ BASE \in Nat
        BY <2>3, AbiAssumption DEF Byte
    <2>5. v[k - 1] * BASE \in Nat
        BY <2>4
    <2>6. v[k] \in Nat
        BY <1>4, <2>3, <2>4, <2>5
    <2> QED BY <2>6
<1> QED BY <1>1, <1>4, <1>5

\* A value is a natural number.
LEMMA ValueType ==
    ASSUME NEW b \in Seq(Byte)
    PROVE  Value(b) \in Nat
<1>1. PICK v : /\ Value(b) = v[Len(b)]
               /\ \A k \in 0..Len(b) : v[k] \in Nat
    BY ValueOfPrefixes
<1> QED BY <1>1

\* The last digit and the rest are determined by the number.
LEMMA LastDigit ==
    ASSUME NEW x \in Nat, NEW y \in Nat, NEW d \in Byte, NEW e \in Byte,
           x * BASE + d = y * BASE + e
    PROVE  x = y /\ d = e
BY AbiAssumption DEF Byte

\* Strings of the same number of bytes with the same value are the same.
LEMMA ValueBinds ==
    ASSUME NEW a \in Seq(Byte), NEW b \in Seq(Byte), Len(a) = Len(b), Value(a) = Value(b)
    PROVE  a = b
<1>1. PICK v : /\ Value(a) = v[Len(a)]
               /\ \A k \in 0..Len(a) : v[k] \in Nat
               /\ \A k \in 1..Len(a) : v[k] = v[k - 1] * BASE + a[k]
    BY ValueOfPrefixes
<1>2. PICK w : /\ Value(b) = w[Len(b)]
               /\ \A k \in 0..Len(b) : w[k] \in Nat
               /\ \A k \in 1..Len(b) : w[k] = w[k - 1] * BASE + b[k]
    BY ValueOfPrefixes
<1> DEFINE n == Len(a)
<1>3. n \in Nat /\ n = Len(b) /\ \A k \in 1..n : a[k] \in Byte /\ b[k] \in Byte
    OBVIOUS
<1> HIDE DEF n
<1>4. \A k \in 1..n : v[k] = w[k] => v[k - 1] = w[k - 1] /\ a[k] = b[k]
    <2> SUFFICES ASSUME NEW k \in 1..n, v[k] = w[k]
                 PROVE  v[k - 1] = w[k - 1] /\ a[k] = b[k]
        OBVIOUS
    <2>1. k - 1 \in 0..n /\ v[k - 1] \in Nat /\ w[k - 1] \in Nat
        BY <1>1, <1>2, <1>3 DEF n
    <2>2. v[k - 1] * BASE + a[k] = w[k - 1] * BASE + b[k]
        BY <1>1, <1>2, <1>3 DEF n
    <2> QED BY <1>3, <2>1, <2>2, LastDigit
<1>5. \A k \in 0..n : v[k] = w[k]
    <2> DEFINE T == {j \in 0..n : v[n - j] # w[n - j]}
    <2>1. T = {}
        <3> SUFFICES ASSUME T # {} PROVE FALSE
            OBVIOUS
        <3>1. PICK j \in T : \A m \in T : j <= m
            <4>1. T \in SUBSET Nat
                BY <1>3
            <4> HIDE DEF T
            <4> QED BY <4>1, LeastNumber
        <3>2. v[n] = w[n]
            BY <1>1, <1>2, <1>3 DEF n
        <3>3. j # 0
            <4>1. n - 0 = n /\ v[n - j] # w[n - j]
                BY <1>3, <3>1
            <4> QED BY <3>2, <4>1
        <3>4. j - 1 \in 0..n /\ j - 1 \notin T
            <4>1. j \in 0..n
                OBVIOUS
            <4> HIDE DEF T
            <4> QED BY <1>3, <3>1, <3>3, <4>1
        <3>5. v[n - (j - 1)] = w[n - (j - 1)]
            BY <3>4
        <3>6. n - (j - 1) \in 1..n /\ (n - (j - 1)) - 1 = n - j
            BY <1>3, <3>3
        <3>7. v[n - j] = w[n - j]
            BY <1>4, <3>5, <3>6
        <3> QED BY <3>7
    <2> SUFFICES ASSUME NEW k \in 0..n PROVE v[k] = w[k]
        OBVIOUS
    <2>2. n - k \in 0..n /\ n - (n - k) = k
        BY <1>3
    <2> QED BY <2>1, <2>2
<1>6. \A k \in 1..n : a[k] = b[k]
    BY <1>3, <1>4, <1>5
<1> QED BY <1>3, <1>6, SeqEqual DEF n
Words == [number : Nat]

WordCount(n) == (n + WORD - 1) \div WORD

\* The k-th word of bytes, padded.
PaddedWord(bytes, k) ==
    [i \in 1..WORD |-> IF (k - 1) * WORD + i <= Len(bytes)
                       THEN bytes[(k - 1) * WORD + i] ELSE 0]

\* Functions on 1..n are sequences.
LEMMA FunctionIsSeq ==
    ASSUME NEW S, NEW n \in Nat, NEW f \in [1..n -> S]
    PROVE  f \in Seq(S) /\ Len(f) = n
BY SeqDef

\* A word has WORD bytes.
LEMMA PaddedWordType ==
    ASSUME NEW b \in Seq(Byte), NEW k \in Nat \ {0}
    PROVE  PaddedWord(b, k) \in Seq(Byte) /\ Len(PaddedWord(b, k)) = WORD
<1>1. WORD \in Nat /\ Len(b) \in Nat /\ 0 \in Byte
    BY AbiAssumption DEF Byte
<1>2. ASSUME NEW i \in 1..WORD, (k - 1) * WORD + i <= Len(b)
      PROVE  b[(k - 1) * WORD + i] \in Byte
    <2>1. (k - 1) * WORD \in Nat
        BY <1>1
    <2>2. (k - 1) * WORD + i \in 1..Len(b)
        BY <1>1, <1>2, <2>1
    <2> QED BY <2>2, ElementOfSeq
<1>3. PaddedWord(b, k) \in [1..WORD -> Byte]
    BY <1>1, <1>2 DEF PaddedWord
<1> QED BY <1>1, <1>3, FunctionIsSeq

\* The bytes' words are numbers, as many as the bytes need.
LEMMA ChunksType ==
    ASSUME NEW b \in Seq(Byte)
    PROVE  /\ WordCount(Len(b)) \in Nat
           /\ Chunks(b) \in Seq(Words)
           /\ Len(Chunks(b)) = WordCount(Len(b))
           /\ \A k \in 1..WordCount(Len(b)) : Chunks(b)[k] = Number(Value(PaddedWord(b, k)))
<1> DEFINE n == WordCount(Len(b))
<1>1. n \in Nat
    BY AbiAssumption, LenProperties DEF WordCount
<1>2. Chunks(b) = [k \in 1..n |-> Number(Value(PaddedWord(b, k)))]
    BY DEF Chunks, PaddedWord, WordCount
<1> HIDE DEF n
<1>3. ASSUME NEW k \in 1..n PROVE Number(Value(PaddedWord(b, k))) \in Words
    <2>1. k \in Nat \ {0}
        BY <1>1
    <2>2. Value(PaddedWord(b, k)) \in Nat
        BY <2>1, PaddedWordType, ValueType
    <2> QED BY <2>2 DEF Number, Words
<1>4. Chunks(b) \in [1..n -> Words]
    BY <1>2, <1>3
<1>5. Chunks(b) \in Seq(Words) /\ Len(Chunks(b)) = n
    BY <1>1, <1>4, FunctionIsSeq
<1> QED BY <1>1, <1>2, <1>5 DEF n

\* Where a byte is: in which word, and where in it.
LEMMA PlaceOfByte ==
    ASSUME NEW n \in Nat, NEW i \in 1..n
    PROVE  \E k \in 1..WordCount(n) : \E j \in 1..WORD : (k - 1) * WORD + j = i
<1> DEFINE q == (i - 1) \div WORD
           r == (i - 1) % WORD
<1>1. WORD \in Nat \ {0} /\ i - 1 \in Nat /\ i <= n
    BY AbiAssumption
<1>2. q \in Nat /\ r \in 0..(WORD - 1) /\ i - 1 = q * WORD + r
    BY <1>1
<1>3. (q + 1) * WORD = q * WORD + WORD
    BY <1>1, <1>2
<1>4. (q + 1) * WORD <= n + WORD - 1
    BY <1>1, <1>2, <1>3
<1> HIDE DEF q, r
<1>5. q + 1 <= WordCount(n) /\ WordCount(n) \in Nat
    BY <1>1, <1>2, <1>4 DEF WordCount
<1>6. q + 1 \in 1..WordCount(n) /\ r + 1 \in 1..WORD /\ ((q + 1) - 1) * WORD + (r + 1) = i
    BY <1>1, <1>2, <1>5
<1> QED BY <1>6

\* Strings of the same length that are cut into the same words are the same.
LEMMA ChunksBind ==
    ASSUME NEW a \in Seq(Byte), NEW b \in Seq(Byte), Len(a) = Len(b), Chunks(a) = Chunks(b)
    PROVE  a = b
<1> DEFINE n == Len(a)
<1>1. n \in Nat /\ n = Len(b)
    OBVIOUS
<1>2. ASSUME NEW k \in 1..WordCount(n) PROVE PaddedWord(a, k) = PaddedWord(b, k)
    <2>1. k \in Nat \ {0}
        BY ChunksType
    <2>2. Chunks(a)[k] = Number(Value(PaddedWord(a, k))) /\ Chunks(b)[k] = Number(Value(PaddedWord(b, k)))
        BY ChunksType
    <2>3. Value(PaddedWord(a, k)) = Value(PaddedWord(b, k))
        BY <2>2 DEF Number
    <2> QED BY <2>1, <2>3, PaddedWordType, ValueBinds
<1>3. ASSUME NEW i \in 1..n PROVE a[i] = b[i]
    <2>1. PICK k \in 1..WordCount(n) : \E j \in 1..WORD : (k - 1) * WORD + j = i
        BY <1>1, PlaceOfByte
    <2>2. PICK j \in 1..WORD : (k - 1) * WORD + j = i
        BY <2>1
    <2>3. PaddedWord(a, k)[j] = a[i] /\ PaddedWord(b, k)[j] = b[i]
        BY <1>1, <2>2 DEF PaddedWord
    <2> QED BY <1>2, <2>3
<1> QED BY <1>1, <1>3, SeqEqual
-----------------------------------------------------------------------------
(* Heads and tails.                                                        *)

\* Where the members of a concatenation are.
LEMMA Joined ==
    ASSUME NEW S, NEW a \in Seq(S), NEW b \in Seq(S), NEW c, c = a \o b
    PROVE  /\ c \in Seq(S)
           /\ Len(a) \in Nat /\ Len(b) \in Nat /\ Len(c) = Len(a) + Len(b)
           /\ \A i \in 1..Len(a) : c[i] = a[i]
           /\ \A i \in 1..Len(b) : c[Len(a) + i] = b[i]
<1>1. a \o b \in Seq(S) /\ Len(a \o b) = Len(a) + Len(b)
    BY ConcatProperties
<1>2. Len(a) \in Nat /\ Len(b) \in Nat
    BY LenProperties
<1>3. \A i \in 1..(Len(a) + Len(b)) : (a \o b)[i] = IF i <= Len(a) THEN a[i] ELSE b[i - Len(a)]
    BY ConcatProperties
<1>4. ASSUME NEW i \in 1..Len(a) PROVE (a \o b)[i] = a[i]
    BY <1>2, <1>3
<1>5. ASSUME NEW i \in 1..Len(b) PROVE (a \o b)[Len(a) + i] = b[i]
    <2>1. Len(a) + i \in 1..(Len(a) + Len(b)) /\ ~(Len(a) + i <= Len(a)) /\ (Len(a) + i) - Len(a) = i
        BY <1>2
    <2> QED BY <1>3, <2>1
<1> QED BY <1>1, <1>2, <1>4, <1>5

\* The words of an encoding: the heads, then the tails one after the other.
LEMMA LayoutWords ==
    ASSUME NEW T, NEW tokens \in Seq(T), NEW tails \in Seq(Seq(Words)), Len(tails) = Len(tokens),
           \A i \in 1..Len(tokens) : tokens[i].kind = "word" => tokens[i].word \in Words
    PROVE  LET n == Len(tokens)
               e == Layout(tokens, tails)
           IN /\ n \in Nat
              /\ FlattenSeq(tails) \in Seq(Words)
              /\ e \in Seq(Words)
              /\ Len(e) = n + Len(FlattenSeq(tails))
              /\ \A i \in 1..n : tokens[i].kind = "word" => e[i] = tokens[i].word
              /\ n > 0 /\ tokens[1].kind # "word" => e[1] = Number(n * WORD)
              /\ \A i \in 1..Len(FlattenSeq(tails)) : e[n + i] = FlattenSeq(tails)[i]
<1> DEFINE n == Len(tokens)
           rest == FlattenSeq(tails)
           Offset(i) == WORD * (n + Len(FlattenSeq(SubSeq(tails, 1, i - 1))))
           heads == [i \in 1..n |-> IF tokens[i].kind = "word" THEN tokens[i].word
                                    ELSE Number(Offset(i))]
           e == Layout(tokens, tails)
<1>1. n \in Nat /\ WORD \in Nat /\ DOMAIN tokens = 1..n /\ Len(tails) = n
    BY AbiAssumption, LenProperties
<1>2. rest \in Seq(Words)
    BY FlattenType
<1>3. e = heads \o rest
    BY <1>1 DEF Layout
<1>4. ASSUME NEW i \in 1..n PROVE Offset(i) \in Nat
    <2>1. SubSeq(tails, 1, i - 1) \in Seq(Seq(Words))
        <3>1. 1 \in Int /\ i - 1 \in Int /\ \A j \in 1..(i - 1) : tails[j] \in Seq(Words)
            BY <1>1, LenProperties
        <3> QED BY <3>1, SubSeqProperties
    <2>2. FlattenSeq(SubSeq(tails, 1, i - 1)) \in Seq(Words)
        BY <2>1, FlattenType
    <2>3. Len(FlattenSeq(SubSeq(tails, 1, i - 1))) \in Nat
        BY <2>2, LenProperties
    <2> QED BY <1>1, <2>3
<1>5. n > 0 => Offset(1) = n * WORD
    <2> SUFFICES ASSUME n > 0 PROVE Offset(1) = n * WORD
        OBVIOUS
    <2>1. SubSeq(tails, 1, 1 - 1) = <<>>
        BY SubSeqEmpty
    <2>2. Len(FlattenSeq(SubSeq(tails, 1, 1 - 1))) = 0
        <3>1. FlattenSeq(<<>>) = <<>>
            BY FlattenNone
        <3>2. FlattenSeq(SubSeq(tails, 1, 1 - 1)) = <<>>
            BY <2>1, <3>1
        <3> QED BY <3>2
    <2>3. Offset(1) = WORD * (n + Len(FlattenSeq(SubSeq(tails, 1, 1 - 1))))
        OBVIOUS
    <2>4. WORD * (n + 0) = n * WORD
        BY <1>1
    <2> HIDE DEF Offset, n
    <2> QED BY <2>2, <2>3, <2>4
<1> HIDE DEF rest, Offset
<1>6. heads \in [1..n -> Words]
    BY <1>4 DEF Number, Words
<1>7. \A i \in 1..n : heads[i] = IF tokens[i].kind = "word" THEN tokens[i].word
                                 ELSE Number(Offset(i))
    OBVIOUS
<1> HIDE DEF heads, e
<1>8. heads \in Seq(Words) /\ Len(heads) = n
    BY <1>1, <1>6, FunctionIsSeq
<1> HIDE DEF n
<1>9. /\ e \in Seq(Words)
      /\ Len(e) = n + Len(rest)
      /\ Len(rest) \in Nat
      /\ \A i \in 1..n : e[i] = heads[i]
      /\ \A i \in 1..Len(rest) : e[n + i] = rest[i]
    BY <1>2, <1>3, <1>8, Joined
<1>10. \A i \in 1..n : tokens[i].kind = "word" => e[i] = tokens[i].word
    BY <1>1, <1>7, <1>9
<1>11. n > 0 /\ tokens[1].kind # "word" => e[1] = Number(n * WORD)
    BY <1>1, <1>5, <1>7, <1>9
<1> QED BY <1>1, <1>2, <1>9, <1>10, <1>11 DEF n, e, rest

\* The tail of bytes: their length and their words.
LEMMA TailOfBytes ==
    ASSUME NEW b \in Seq(Byte)
    PROVE  LET t == TailOf(Bytes(b)) IN
           /\ t \in Seq(Words)
           /\ BytesTail(Bytes(b)) = t
           /\ Len(t) = 1 + WordCount(Len(b))
           /\ t[1] = Number(Len(b))
           /\ \A k \in 1..WordCount(Len(b)) : t[1 + k] = Chunks(b)[k]
<1> DEFINE t == TailOf(Bytes(b))
           one == <<Number(Len(b))>>
           c == Chunks(b)
           n == WordCount(Len(b))
<1>1. t = one \o c /\ BytesTail(Bytes(b)) = t
    BY DEF TailOf, TupleTail, BytesTail, Bytes
<1>2. n \in Nat /\ c \in Seq(Words) /\ Len(c) = n
    BY ChunksType
<1>3. one \in Seq(Words) /\ Len(one) = 1 /\ one[1] = Number(Len(b))
    BY LenProperties DEF Number, Words
<1> HIDE DEF t, one, c, n
<1>4. /\ t \in Seq(Words)
      /\ Len(t) = 1 + n
      /\ \A i \in 1..1 : t[i] = one[i]
      /\ \A k \in 1..n : t[1 + k] = c[k]
    <2>1. /\ t \in Seq(Words)
          /\ Len(t) = Len(one) + Len(c)
          /\ \A i \in 1..Len(one) : t[i] = one[i]
          /\ \A k \in 1..Len(c) : t[Len(one) + k] = c[k]
        <3>1. one \in Seq(Words) /\ c \in Seq(Words) /\ t = one \o c
            BY <1>1, <1>2, <1>3
        <3> QED BY <3>1, Joined
    <2> QED BY <1>2, <1>3, <2>1
<1>5. t[1] = Number(Len(b))
    BY <1>3, <1>4
<1> QED BY <1>1, <1>4, <1>5 DEF t, n, c

\* Words have no tail.
LEMMA TailOfWords ==
    /\ \A n : Uint(n).kind = "word" /\ Uint(n).word = Number(n) /\ TailOf(Uint(n)) = <<>>
    /\ \A a : /\ AddressToken(a).kind = "word" /\ AddressToken(a).word = Number(Value(a))
              /\ TailOf(AddressToken(a)) = <<>>
    /\ \A b : Bytes(b).kind = "bytes"
    /\ \A n : BytesTail(Uint(n)) = <<>>
BY DEF TailOf, TupleTail, BytesTail, Uint, AddressToken, Bytes
\* The words of an encoded request.
LEMMA EncodedRequest ==
    ASSUME NEW c \in Nat, NEW x \in Seq(Byte), NEW s \in Seq(Byte)
    PROVE  LET e == encode(<<Uint(c), Bytes(x), AddressToken(s)>>) IN
           /\ e[1] = Number(c)
           /\ e[3] = Number(Value(s))
           /\ e[4] = Number(Len(x))
           /\ \A k \in 1..WordCount(Len(x)) : e[4 + k] = Chunks(x)[k]
<1> DEFINE t1 == Uint(c)
           t2 == Bytes(x)
           t3 == AddressToken(s)
           tokens == <<t1, t2, t3>>
           none == <<>>
           tail == TailOf(t2)
           tails == [i \in DOMAIN tokens |-> TailOf(tokens[i])]
           e == Layout(tokens, tails)
           n == WordCount(Len(x))
<1>1. /\ tail \in Seq(Words) /\ Len(tail) = 1 + n /\ n \in Nat
      /\ tail[1] = Number(Len(x))
      /\ \A k \in 1..n : tail[1 + k] = Chunks(x)[k]
    BY TailOfBytes, ChunksType
<1>2. /\ t1.kind = "word" /\ t1.word = Number(c) /\ TailOf(t1) = none
      /\ t2.kind = "bytes"
      /\ t3.kind = "word" /\ t3.word = Number(Value(s)) /\ TailOf(t3) = none
    BY TailOfWords
<1>3. t1.word \in Words /\ t3.word \in Words
    BY <1>2, ValueType DEF Number, Words
<1>4. none \in Seq(Words) /\ none \o tail = tail /\ tail \o none = tail
    BY <1>1, EmptySeq, ConcatEmptySeq
<1> HIDE DEF t1, t2, t3, n, none, tail
<1>5. /\ tokens \in Seq({t1, t2, t3}) /\ Len(tokens) = 3 /\ DOMAIN tokens = 1..3
      /\ tokens[1] = t1 /\ tokens[2] = t2 /\ tokens[3] = t3
    OBVIOUS
<1> HIDE DEF tokens
<1>6. /\ tails = [i \in 1..3 |-> TailOf(tokens[i])]
      /\ tails[1] = none /\ tails[2] = tail /\ tails[3] = none
    BY <1>2, <1>5 DEF tail
<1> HIDE DEF tails
<1>7. \A i \in 1..3 : tails[i] \in Seq(Words)
    BY <1>1, <1>4, <1>6
<1>8. tails \in Seq(Seq(Words)) /\ Len(tails) = 3
    <2>1. tails \in [1..3 -> Seq(Words)]
        BY <1>6, <1>7
    <2> QED BY <2>1, FunctionIsSeq
<1>9. FlattenSeq(tails) = (none \o tail) \o none
    BY <1>6, <1>8, FlattenThree
<1>10. FlattenSeq(tails) = tail
    BY <1>4, <1>9
<1>11. \A i \in 1..3 : tokens[i].kind = "word" => tokens[i].word \in Words
    BY <1>2, <1>3, <1>5
<1>12. /\ \A i \in 1..3 : tokens[i].kind = "word" => e[i] = tokens[i].word
       /\ \A i \in 1..Len(tail) : e[3 + i] = tail[i]
    <2>1. /\ \A i \in 1..Len(tokens) : tokens[i].kind = "word" => e[i] = tokens[i].word
          /\ \A i \in 1..Len(FlattenSeq(tails)) : e[Len(tokens) + i] = FlattenSeq(tails)[i]
        BY <1>5, <1>8, <1>11, LayoutWords
    <2> QED BY <1>5, <1>10, <2>1
<1> HIDE DEF e
<1>13. e[1] = Number(c) /\ e[3] = Number(Value(s))
    BY <1>2, <1>5, <1>12
<1>14. e[3 + 1] = tail[1] /\ \A k \in 1..n : e[3 + (1 + k)] = tail[1 + k]
    BY <1>1, <1>12
<1>15. e[4] = Number(Len(x)) /\ \A k \in 1..n : e[4 + k] = Chunks(x)[k]
    <2>1. \A k \in 1..n : 3 + (1 + k) = 4 + k
        BY <1>1
    <2> QED BY <1>1, <1>14, <2>1
<1>16. e = encode(<<Uint(c), Bytes(x), AddressToken(s)>>)
    BY DEF e, tails, tokens, t1, t2, t3, encode
<1> QED BY <1>13, <1>15, <1>16 DEF n
DelegationTokens(p, d, a, slot) == <<Bytes(p), Bytes(d), AddressToken(a), Uint(slot)>>

\* The words that tell delegations apart.
DelegationWords(e, p, d, a, slot) ==
    /\ e \in Seq(Words) /\ Len(e) > 0
    /\ e[1] = Number(4 * WORD)
    /\ e[3] = Number(Value(a))
    /\ e[4] = Number(slot)
    /\ \A k \in 1..WordCount(Len(d)) : e[6 + WordCount(Len(p)) + k] = Chunks(d)[k]

\* The words of an encoded delegation.
LEMMA EncodedDelegation ==
    ASSUME NEW p \in Seq(Byte), NEW d \in Seq(Byte), NEW a \in Seq(Byte), NEW slot \in Nat,
           NEW e, e = encode(DelegationTokens(p, d, a, slot))
    PROVE  DelegationWords(e, p, d, a, slot)
<1> DEFINE t1 == Bytes(p)
           t2 == Bytes(d)
           t3 == AddressToken(a)
           t4 == Uint(slot)
           tokens == <<t1, t2, t3, t4>>
           none == <<>>
           tail1 == TailOf(t1)
           tail2 == TailOf(t2)
           both == tail1 \o tail2
           tails == [i \in DOMAIN tokens |-> TailOf(tokens[i])]
           l == Layout(tokens, tails)
           n == WordCount(Len(p))
           m == WordCount(Len(d))
<1>1. e = l
    BY DEF encode, DelegationTokens
<1>2. /\ tail1 \in Seq(Words) /\ Len(tail1) = 1 + n /\ n \in Nat
      /\ tail2 \in Seq(Words) /\ Len(tail2) = 1 + m /\ m \in Nat
      /\ \A k \in 1..m : tail2[1 + k] = Chunks(d)[k]
    BY TailOfBytes, ChunksType
<1>3. /\ t1.kind = "bytes" /\ t2.kind = "bytes"
      /\ t3.kind = "word" /\ t3.word = Number(Value(a)) /\ TailOf(t3) = none
      /\ t4.kind = "word" /\ t4.word = Number(slot) /\ TailOf(t4) = none
    BY TailOfWords
<1>4. t3.word \in Words /\ t4.word \in Words
    BY <1>3, ValueType DEF Number, Words
<1> HIDE DEF tail1, tail2, n, m
<1>5. /\ both \in Seq(Words)
      /\ Len(both) = (1 + n) + (1 + m)
      /\ \A i \in 1..(1 + m) : both[(1 + n) + i] = tail2[i]
    <2>1. tail1 \in Seq(Words) /\ tail2 \in Seq(Words) /\ both = tail1 \o tail2
        BY <1>2
    <2>2. /\ both \in Seq(Words)
          /\ Len(both) = Len(tail1) + Len(tail2)
          /\ \A i \in 1..Len(tail2) : both[Len(tail1) + i] = tail2[i]
        BY <2>1, Joined
    <2> HIDE DEF both
    <2> QED BY <1>2, <2>2
<1> HIDE DEF both
<1>6. none \in Seq(Words) /\ both \o none = both
    BY <1>5, EmptySeq, ConcatEmptySeq
<1> HIDE DEF t1, t2, t3, t4, none
<1>7. /\ tokens \in Seq({t1, t2, t3, t4}) /\ Len(tokens) = 4 /\ DOMAIN tokens = 1..4
      /\ tokens[1] = t1 /\ tokens[2] = t2 /\ tokens[3] = t3 /\ tokens[4] = t4
    OBVIOUS
<1> HIDE DEF tokens
<1>8. /\ tails = [i \in 1..4 |-> TailOf(tokens[i])]
      /\ tails[1] = tail1 /\ tails[2] = tail2 /\ tails[3] = none /\ tails[4] = none
    BY <1>3, <1>7 DEF tail1, tail2
<1> HIDE DEF tails
<1>9. tails \in Seq(Seq(Words)) /\ Len(tails) = 4
    <2>1. \A i \in 1..4 : tails[i] \in Seq(Words)
        <3>1. tail1 \in Seq(Words) /\ tail2 \in Seq(Words) /\ none \in Seq(Words)
            BY <1>2, <1>6
        <3>2. tails[1] = tail1 /\ tails[2] = tail2 /\ tails[3] = none /\ tails[4] = none
            BY <1>8
        <3> QED BY <3>1, <3>2
    <2>2. tails \in [1..4 -> Seq(Words)]
        BY <1>8, <2>1
    <2> QED BY <2>2, FunctionIsSeq
<1>10. FlattenSeq(tails) = both
    <2>1. FlattenSeq(tails) = ((tail1 \o tail2) \o none) \o none
        BY <1>8, <1>9, FlattenFour
    <2>2. FlattenSeq(tails) = (both \o none) \o none
        BY <2>1 DEF both
    <2> QED BY <1>6, <2>2
<1>11. \A i \in 1..4 : tokens[i].kind = "word" => tokens[i].word \in Words
    BY <1>3, <1>4, <1>7
<1>12. /\ e \in Seq(Words)
       /\ Len(e) = 4 + Len(both)
       /\ \A i \in 1..4 : tokens[i].kind = "word" => e[i] = tokens[i].word
       /\ 4 > 0 /\ tokens[1].kind # "word" => e[1] = Number(4 * WORD)
       /\ \A i \in 1..Len(both) : e[4 + i] = both[i]
    <2>1. /\ l \in Seq(Words)
          /\ Len(l) = Len(tokens) + Len(FlattenSeq(tails))
          /\ \A i \in 1..Len(tokens) : tokens[i].kind = "word" => l[i] = tokens[i].word
          /\ Len(tokens) > 0 /\ tokens[1].kind # "word" => l[1] = Number(Len(tokens) * WORD)
          /\ \A i \in 1..Len(FlattenSeq(tails)) : l[Len(tokens) + i] = FlattenSeq(tails)[i]
        <3>1. /\ Len(tails) = Len(tokens)
              /\ \A i \in 1..Len(tokens) : tokens[i].kind = "word" => tokens[i].word \in Words
            BY <1>7, <1>9, <1>11
        <3>2. tokens \in Seq({t1, t2, t3, t4}) /\ tails \in Seq(Seq(Words))
            BY <1>7, <1>9
        <3> QED BY <3>1, <3>2, LayoutWords
    <2> HIDE DEF l
    <2> QED BY <1>1, <1>7, <1>10, <2>1
<1>13. e[1] = Number(4 * WORD) /\ e[3] = Number(Value(a)) /\ e[4] = Number(slot)
    BY <1>3, <1>7, <1>12
<1>14. ASSUME NEW k \in 1..m PROVE e[6 + n + k] = Chunks(d)[k]
    <2>1. /\ 1 + k \in 1..(1 + m)
          /\ (1 + n) + (1 + k) \in 1..Len(both)
          /\ 4 + ((1 + n) + (1 + k)) = 6 + n + k
        BY <1>2, <1>5
    <2>2. e[6 + n + k] = both[(1 + n) + (1 + k)]
        BY <1>12, <2>1
    <2> QED BY <1>2, <1>5, <2>1, <2>2
<1>15. Len(e) > 0
    BY <1>2, <1>5, <1>12
<1> QED BY <1>12, <1>13, <1>14, <1>15 DEF n, m, DelegationWords
\* The tail of a constraint: a tuple of a word and bytes.
LEMMA TailOfConstraint ==
    ASSUME NEW n \in Nat, NEW b \in Seq(Byte)
    PROVE  LET t == Tuple(<<Uint(n), Bytes(b)>>) IN
           t.kind = "tuple" /\ TupleTail(t) \in Seq(Words)
<1> DEFINE t1 == Uint(n)
           t2 == Bytes(b)
           tokens == <<t1, t2>>
           tails == [i \in DOMAIN tokens |-> BytesTail(tokens[i])]
<1>1. /\ t1.kind = "word" /\ t1.word = Number(n) /\ BytesTail(t1) = <<>>
      /\ t2.kind = "bytes"
    BY TailOfWords
<1>2. BytesTail(t2) \in Seq(Words)
    BY TailOfBytes
<1>3. BytesTail(t1) \in Seq(Words)
    BY <1>1, EmptySeq
<1>4. t1.word \in Words
    BY <1>1 DEF Number, Words
<1> HIDE DEF t1, t2
<1>5. /\ tokens \in Seq({t1, t2}) /\ Len(tokens) = 2 /\ DOMAIN tokens = 1..2
      /\ tokens[1] = t1 /\ tokens[2] = t2
    OBVIOUS
<1> HIDE DEF tokens
<1>6. tails \in [1..2 -> Seq(Words)]
    <2>1. \A i \in 1..2 : BytesTail(tokens[i]) \in Seq(Words)
        BY <1>2, <1>3, <1>5
    <2> QED BY <1>5, <2>1
<1>7. tails \in Seq(Seq(Words)) /\ Len(tails) = 2
    BY <1>6, FunctionIsSeq
<1>8. \A i \in 1..2 : tokens[i].kind = "word" => tokens[i].word \in Words
    BY <1>1, <1>4, <1>5
<1> HIDE DEF tails
<1>9. Layout(tokens, tails) \in Seq(Words)
    <2>1. /\ Len(tails) = Len(tokens)
          /\ \A i \in 1..Len(tokens) : tokens[i].kind = "word" => tokens[i].word \in Words
        BY <1>5, <1>7, <1>8
    <2>2. tokens \in Seq({t1, t2}) /\ tails \in Seq(Seq(Words))
        BY <1>5, <1>7
    <2> QED BY <2>1, <2>2, LayoutWords
<1>10. Tuple(tokens).kind = "tuple" /\ TupleTail(Tuple(tokens)) = Layout(tokens, tails)
    BY DEF TupleTail, Tuple, tails
<1> QED BY <1>9, <1>10 DEF tokens, t1, t2

\* The tail of an array whose items have tails.
LEMMA TailOfArray ==
    ASSUME NEW n \in Nat, NEW T, NEW items \in [1..n -> T],
           \A i \in 1..n : items[i].kind # "word" /\ TupleTail(items[i]) \in Seq(Words)
    PROVE  Array(items).kind = "array" /\ TailOf(Array(items)) \in Seq(Words)
<1> DEFINE tails == [i \in DOMAIN items |-> TupleTail(items[i])]
           one == <<Number(Len(items))>>
           rest == Layout(items, tails)
<1>1. items \in Seq(T) /\ Len(items) = n /\ DOMAIN items = 1..n
    BY FunctionIsSeq
<1>2. tails \in [1..n -> Seq(Words)]
    BY <1>1
<1>3. tails \in Seq(Seq(Words)) /\ Len(tails) = n
    BY <1>2, FunctionIsSeq
<1>4. Array(items).kind = "array" /\ TailOf(Array(items)) = one \o rest
    BY DEF TailOf, Array
<1> HIDE DEF tails
<1>5. rest \in Seq(Words)
    <2>1. /\ Len(tails) = Len(items)
          /\ \A i \in 1..Len(items) : items[i].kind = "word" => items[i].word \in Words
        BY <1>1, <1>3
    <2> QED BY <1>1, <1>3, <2>1, LayoutWords
<1>6. one \in Seq(Words)
    BY <1>1 DEF Number, Words
<1> HIDE DEF one, rest
<1>7. one \o rest \in Seq(Words)
    BY <1>5, <1>6, ConcatProperties
<1> QED BY <1>4, <1>7

\* A message of constraints starts with a head of five words.
LEMMA EncodedConstraints ==
    ASSUME NEW m, m.proposer \in Seq(Byte), m.delegate \in Seq(Byte), m.slot \in Nat,
           NEW n \in Nat, DOMAIN m.constraints = 1..n,
           \A i \in 1..n : /\ m.constraints[i].constraint_type \in Nat
                           /\ m.constraints[i].payload \in Seq(Byte),
           NEW k \in Nat, DOMAIN m.receivers = 1..k,
           \A i \in 1..k : m.receivers[i] \in Seq(Byte)
    PROVE  LET e == abi_encode_constraints_message(m) IN
           e \in Seq(Words) /\ Len(e) > 0 /\ e[1] = Number(5 * WORD)
<1> DEFINE constraints == [i \in 1..n |-> Tuple(<<Uint(m.constraints[i].constraint_type),
                                                 Bytes(m.constraints[i].payload)>>)]
           receivers == [i \in 1..k |-> Bytes(m.receivers[i])]
           t1 == Bytes(m.proposer)
           t2 == Bytes(m.delegate)
           t3 == Uint(m.slot)
           t4 == Array(constraints)
           t5 == Array(receivers)
           tokens == <<t1, t2, t3, t4, t5>>
           tails == [i \in DOMAIN tokens |-> TailOf(tokens[i])]
           e == Layout(tokens, tails)
<1>1. e = abi_encode_constraints_message(m)
    BY DEF abi_encode_constraints_message, encode
<1>2. \A i \in 1..n : constraints[i].kind = "tuple" /\ TupleTail(constraints[i]) \in Seq(Words)
    BY TailOfConstraint
<1>3. \A i \in 1..k : receivers[i].kind = "bytes" /\ TupleTail(receivers[i]) \in Seq(Words)
    <2> SUFFICES ASSUME NEW i \in 1..k
                 PROVE  receivers[i].kind = "bytes" /\ TupleTail(receivers[i]) \in Seq(Words)
        OBVIOUS
    <2>1. TupleTail(Bytes(m.receivers[i])) = TailOf(Bytes(m.receivers[i])) /\ Bytes(m.receivers[i]).kind = "bytes"
        BY DEF TailOf, Bytes
    <2>2. TailOf(Bytes(m.receivers[i])) \in Seq(Words)
        BY TailOfBytes
    <2> QED BY <2>1, <2>2
<1>4. t4.kind = "array" /\ TailOf(t4) \in Seq(Words)
    <2>1. constraints \in [1..n -> {constraints[i] : i \in 1..n}]
        OBVIOUS
    <2>2. \A i \in 1..n : constraints[i].kind # "word" /\ TupleTail(constraints[i]) \in Seq(Words)
        BY <1>2
    <2> HIDE DEF constraints
    <2> QED BY <2>1, <2>2, TailOfArray
<1>5. t5.kind = "array" /\ TailOf(t5) \in Seq(Words)
    <2>1. receivers \in [1..k -> {receivers[i] : i \in 1..k}]
        OBVIOUS
    <2>2. \A i \in 1..k : receivers[i].kind # "word" /\ TupleTail(receivers[i]) \in Seq(Words)
        BY <1>3
    <2> HIDE DEF receivers
    <2> QED BY <2>1, <2>2, TailOfArray
<1>6. TailOf(t1) \in Seq(Words) /\ TailOf(t2) \in Seq(Words)
    BY TailOfBytes
<1>7. /\ t1.kind = "bytes"
      /\ t3.kind = "word" /\ t3.word \in Words /\ TailOf(t3) \in Seq(Words)
      /\ t2.kind = "bytes"
    <2>1. /\ t1.kind = "bytes" /\ t2.kind = "bytes" /\ t3.kind = "word"
          /\ t3.word = Number(m.slot) /\ TailOf(t3) = <<>>
        BY TailOfWords
    <2>2. Number(m.slot) \in Words /\ <<>> \in Seq(Words)
        BY EmptySeq DEF Number, Words
    <2> QED BY <2>1, <2>2
<1> HIDE DEF t1, t2, t3, t4, t5
<1>8. /\ tokens \in Seq({t1, t2, t3, t4, t5}) /\ Len(tokens) = 5 /\ DOMAIN tokens = 1..5
      /\ tokens[1] = t1 /\ tokens[2] = t2 /\ tokens[3] = t3 /\ tokens[4] = t4 /\ tokens[5] = t5
    OBVIOUS
<1> HIDE DEF tokens
<1>9. /\ \A i \in 1..5 : TailOf(tokens[i]) \in Seq(Words)
      /\ \A i \in 1..5 : tokens[i].kind = "word" => tokens[i].word \in Words
    BY <1>4, <1>5, <1>6, <1>7, <1>8
<1>10. tails \in [1..5 -> Seq(Words)]
    BY <1>8, <1>9
<1>11. tails \in Seq(Seq(Words)) /\ Len(tails) = 5
    BY <1>10, FunctionIsSeq
<1> HIDE DEF tails
<1>12. /\ e \in Seq(Words)
       /\ FlattenSeq(tails) \in Seq(Words)
       /\ Len(e) = Len(tokens) + Len(FlattenSeq(tails))
       /\ Len(tokens) > 0 /\ tokens[1].kind # "word" => e[1] = Number(Len(tokens) * WORD)
    <2>1. /\ Len(tails) = Len(tokens)
          /\ \A i \in 1..Len(tokens) : tokens[i].kind = "word" => tokens[i].word \in Words
        BY <1>8, <1>9, <1>11
    <2>2. tokens \in Seq({t1, t2, t3, t4, t5}) /\ tails \in Seq(Seq(Words))
        BY <1>8, <1>11
    <2> QED BY <2>1, <2>2, LayoutWords
<1> HIDE DEF e
<1>13. e[1] = Number(5 * WORD)
    BY <1>7, <1>8, <1>12
<1>14. Len(e) > 0
    <2>1. Len(FlattenSeq(tails)) \in Nat
        BY <1>12, LenProperties
    <2> QED BY <1>8, <1>12, <2>1
<1> QED BY <1>1, <1>12, <1>13, <1>14
-----------------------------------------------------------------------------
(* What hashes and roots bind.                                             *)

\* Requests of the same hash are the same, but for the spelling of the slasher.
LEMMA HashBinds ==
    ASSUME NEW q, q.ctype \in Nat, Text(q.payload) \in Seq(Byte), q.slasher.bytes \in Seq(Byte),
           NEW r, r.ctype \in Nat, Text(r.payload) \in Seq(Byte), r.slasher.bytes \in Seq(Byte),
           generate_request_hash(q).ok, generate_request_hash(q) = generate_request_hash(r)
    PROVE  /\ q.ctype = r.ctype
           /\ Text(q.payload) = Text(r.payload)
           /\ q.slasher.bytes = r.slasher.bytes
<1> DEFINE E(w) == encode(<<Uint(w.ctype), Bytes(Text(w.payload)), AddressToken(w.slasher.bytes)>>)
           x == E(q)
           y == E(r)
<1>1. /\ parse_ethereum_address(q.slasher).ok /\ parse_ethereum_address(r.slasher).ok
      /\ hex_encode(keccak256(x)) = hex_encode(keccak256(y))
    BY DEF generate_request_hash, abi_encode_commitment_request, Ok, Err
<1>2. x = y
    <2> HIDE DEF x, y
    <2>1. keccak256(x) = keccak256(y)
        BY <1>1 DEF hex_encode, Hex
    <2>2. keccak256(x)[1] = [digest |-> x] /\ keccak256(y)[1] = [digest |-> y]
        BY DEF keccak256
    <2>3. [digest |-> x] = [digest |-> y]
        BY <2>1, <2>2
    <2>4. [digest |-> x].digest = x /\ [digest |-> y].digest = y
        OBVIOUS
    <2> QED BY <2>3, <2>4
<1>3. Len(q.slasher.bytes) = Len(r.slasher.bytes)
    BY <1>1 DEF parse_ethereum_address, parse_hex_bytes, Ok, Err
<1> DEFINE a == Text(q.payload)
           b == Text(r.payload)
<1>4. /\ x[1] = Number(q.ctype)
      /\ x[3] = Number(Value(q.slasher.bytes))
      /\ x[4] = Number(Len(a))
      /\ \A k \in 1..WordCount(Len(a)) : x[4 + k] = Chunks(a)[k]
    BY EncodedRequest
<1>5. /\ y[1] = Number(r.ctype)
      /\ y[3] = Number(Value(r.slasher.bytes))
      /\ y[4] = Number(Len(b))
      /\ \A k \in 1..WordCount(Len(b)) : y[4 + k] = Chunks(b)[k]
    BY EncodedRequest
<1>6. a \in Seq(Byte) /\ b \in Seq(Byte)
    OBVIOUS
<1> HIDE DEF E, x, y, a, b
<1>7. q.ctype = r.ctype /\ Len(a) = Len(b) /\ Value(q.slasher.bytes) = Value(r.slasher.bytes)
    BY <1>2, <1>4, <1>5 DEF Number
<1>8. q.slasher.bytes = r.slasher.bytes
    BY <1>3, <1>7, ValueBinds
<1>9. Chunks(a) = Chunks(b)
    <2>1. /\ Chunks(a) \in Seq(Words) /\ Chunks(b) \in Seq(Words)
          /\ Len(Chunks(a)) = WordCount(Len(a)) /\ Len(Chunks(b)) = WordCount(Len(b))
        BY <1>6, ChunksType
    <2>2. Len(Chunks(a)) = Len(Chunks(b)) /\ \A k \in 1..Len(Chunks(a)) : Chunks(a)[k] = Chunks(b)[k]
        BY <1>2, <1>4, <1>5, <1>7, <2>1
    <2> QED BY <2>1, <2>2, SeqEqual
<1>10. a = b
    BY <1>6, <1>7, <1>9, ChunksBind
<1> QED BY <1>7, <1>8, <1>10 DEF a, b

\* Equal roots are over equal messages, whatever the domains.
LEMMA RootBinds ==
    ASSUME NEW x \in Seq(Words), NEW y \in Seq(Words), NEW d, NEW c,
           calculate_signing_root(x, d) = calculate_signing_root(y, c)
    PROVE  x = y
<1> DEFINE p == <<[domain |-> d]>>
           q == <<[domain |-> c]>>
           S == Words \cup {[domain |-> d], [domain |-> c]}
           u == p \o x
           v == q \o y
<1>1. u = v
    <2> HIDE DEF u, v
    <2>1. keccak256(u) = keccak256(v)
        BY DEF calculate_signing_root, u, v
    <2>2. keccak256(u)[1] = [digest |-> u] /\ keccak256(v)[1] = [digest |-> v]
        BY DEF keccak256
    <2>3. [digest |-> u] = [digest |-> v]
        BY <2>1, <2>2
    <2>4. [digest |-> u].digest = u /\ [digest |-> v].digest = v
        OBVIOUS
    <2> QED BY <2>3, <2>4
<1>2. p \in Seq(S) /\ q \in Seq(S) /\ Len(p) = 1 /\ Len(q) = 1
    OBVIOUS
<1>3. x \in Seq(S) /\ y \in Seq(S)
    BY SeqMonotonic
<1> HIDE DEF p, q, S
<1>4. /\ Len(u) = Len(p) + Len(x) /\ Len(x) \in Nat
      /\ \A i \in 1..Len(x) : u[Len(p) + i] = x[i]
    <2>1. p \in Seq(S) /\ x \in Seq(S) /\ u = p \o x
        BY <1>2, <1>3
    <2> HIDE DEF u
    <2> QED BY <2>1, Joined
<1>5. /\ Len(v) = Len(q) + Len(y) /\ Len(y) \in Nat
      /\ \A i \in 1..Len(y) : v[Len(q) + i] = y[i]
    <2>1. q \in Seq(S) /\ y \in Seq(S) /\ v = q \o y
        BY <1>2, <1>3
    <2> HIDE DEF v
    <2> QED BY <2>1, Joined
<1> HIDE DEF u, v
<1>6. Len(x) = Len(y)
    BY <1>1, <1>2, <1>4, <1>5
<1>7. \A i \in 1..Len(x) : x[i] = y[i]
    BY <1>1, <1>2, <1>4, <1>5, <1>6
<1> QED BY <1>6, <1>7, SeqEqual

\* The delegate, the account and the slot of a delegation are what was encoded.
LEMMA DelegationBinds ==
    ASSUME NEW m, m.proposer \in Seq(Byte), m.delegate \in Seq(Byte), m.committer.bytes \in Seq(Byte),
           m.slot \in Nat, abi_encode_delegation_message(m).ok,
           NEW n, n.proposer \in Seq(Byte), n.delegate \in Seq(Byte), n.committer.bytes \in Seq(Byte),
           n.slot \in Nat, abi_encode_delegation_message(n).ok,
           Len(m.proposer) = Len(n.proposer), Len(m.delegate) = Len(n.delegate),
           abi_encode_delegation_message(m).value = abi_encode_delegation_message(n).value
    PROVE  m.delegate = n.delegate /\ m.slot = n.slot /\ m.committer.bytes = n.committer.bytes
<1> DEFINE E(w) == encode(DelegationTokens(w.proposer, w.delegate, w.committer.bytes, w.slot))
           x == E(m)
           y == E(n)
<1>1. /\ parse_ethereum_address(m.committer).ok /\ parse_ethereum_address(n.committer).ok
      /\ x = y
    BY DEF abi_encode_delegation_message, DelegationTokens, Ok, Err
<1>2. /\ x = encode(DelegationTokens(m.proposer, m.delegate, m.committer.bytes, m.slot))
      /\ y = encode(DelegationTokens(n.proposer, n.delegate, n.committer.bytes, n.slot))
    OBVIOUS
<1> HIDE DEF E, x, y
<1>3. Len(m.committer.bytes) = Len(n.committer.bytes)
    BY <1>1 DEF parse_ethereum_address, parse_hex_bytes, Ok, Err
<1> DEFINE a == m.delegate
           b == n.delegate
<1>4. /\ x[3] = Number(Value(m.committer.bytes))
      /\ x[4] = Number(m.slot)
      /\ \A i \in 1..WordCount(Len(a)) : x[6 + WordCount(Len(m.proposer)) + i] = Chunks(a)[i]
    <2>1. /\ m.proposer \in Seq(Byte) /\ a \in Seq(Byte) /\ m.committer.bytes \in Seq(Byte)
          /\ m.slot \in Nat
          /\ x = encode(DelegationTokens(m.proposer, a, m.committer.bytes, m.slot))
        BY <1>2
    <2> HIDE DEF a, b
    <2>2. DelegationWords(x, m.proposer, a, m.committer.bytes, m.slot)
        BY ONLY <2>1, EncodedDelegation
    <2> QED BY <2>2 DEF DelegationWords
<1>5. /\ y[3] = Number(Value(n.committer.bytes))
      /\ y[4] = Number(n.slot)
      /\ \A i \in 1..WordCount(Len(b)) : y[6 + WordCount(Len(n.proposer)) + i] = Chunks(b)[i]
    <2>1. /\ n.proposer \in Seq(Byte) /\ b \in Seq(Byte) /\ n.committer.bytes \in Seq(Byte)
          /\ n.slot \in Nat
          /\ y = encode(DelegationTokens(n.proposer, b, n.committer.bytes, n.slot))
        BY <1>2
    <2> HIDE DEF a, b
    <2>2. DelegationWords(y, n.proposer, b, n.committer.bytes, n.slot)
        BY ONLY <2>1, EncodedDelegation
    <2> QED BY <2>2 DEF DelegationWords
<1>6. a \in Seq(Byte) /\ b \in Seq(Byte) /\ Len(a) = Len(b)
    OBVIOUS
<1> HIDE DEF a, b
<1>7. m.slot = n.slot /\ Value(m.committer.bytes) = Value(n.committer.bytes)
    BY <1>1, <1>4, <1>5 DEF Number
<1>8. m.committer.bytes = n.committer.bytes
    BY <1>3, <1>7, ValueBinds
<1>9. Chunks(a) = Chunks(b)
    <2>1. /\ Chunks(a) \in Seq(Words) /\ Chunks(b) \in Seq(Words)
          /\ Len(Chunks(a)) = WordCount(Len(a)) /\ Len(Chunks(b)) = WordCount(Len(b))
        BY <1>6, ChunksType
    <2>2. Len(Chunks(a)) = Len(Chunks(b)) /\ \A i \in 1..Len(Chunks(a)) : Chunks(a)[i] = Chunks(b)[i]
        BY <1>1, <1>4, <1>5, <1>6, <2>1
    <2> QED BY <2>1, <2>2, SeqEqual
<1>10. a = b
    BY <1>6, <1>9, ChunksBind
<1> QED BY <1>7, <1>8, <1>10 DEF a, b
-----------------------------------------------------------------------------
(* The delegations table.                                                  *)

GrantType(m) ==
    /\ m.proposer \in Seq(Byte) /\ Len(m.proposer) = KEY_LEN
    /\ m.delegate \in Seq(Byte) /\ Len(m.delegate) = KEY_LEN
    /\ m.committer \in HexText
    /\ m.slot \in 0..MAX_U64

\* A signature over constraints: what is signed starts with their five offsets.
OverConstraints(s) ==
    \E x \in Seq(Words) : /\ Len(x) > 0 /\ x[1] = Number(5 * WORD)
                          /\ s.over = calculate_signing_root(x, Domain)

\* Who signed what.
SignaturesInv ==
    /\ signed \subseteq Messages
    /\ \A s \in signatures : (\E m \in signed : s = sign_delegation(m)) \/ OverConstraints(s)

\* What proposers sign has the type of a grant.
LEMMA MessagesAreGrants ==
    ASSUME NEW m \in Messages
    PROVE  GrantType(m) /\ abi_encode_delegation_message(m).ok
<1>1. /\ m \in [proposer : Seq(Byte), delegate : Seq(Byte), committer : HexText, slot : 0..MAX_U64]
      /\ Len(m.proposer) = KEY_LEN /\ Len(m.delegate) = KEY_LEN
      /\ parse_ethereum_address(m.committer).ok
    BY EncodingsAssumption
<1>2. GrantType(m)
    BY <1>1 DEF GrantType
<1>3. abi_encode_delegation_message(m).ok
    BY <1>1 DEF abi_encode_delegation_message, Ok
<1> QED BY <1>2, <1>3

\* The words of a grant.
LEMMA GrantWords ==
    ASSUME NEW m, GrantType(m), abi_encode_delegation_message(m).ok
    PROVE  LET e == abi_encode_delegation_message(m).value IN
           e \in Seq(Words) /\ Len(e) > 0 /\ e[1] = Number(4 * WORD)
<1> DEFINE e == abi_encode_delegation_message(m).value
<1>1. e = encode(DelegationTokens(m.proposer, m.delegate, m.committer.bytes, m.slot))
    BY DEF abi_encode_delegation_message, DelegationTokens, Ok, Err
<1>2. m.proposer \in Seq(Byte) /\ m.delegate \in Seq(Byte) /\ m.slot \in Nat
    BY PayloadAssumption DEF GrantType
<1>3. m.committer.bytes \in Seq(Byte)
    BY DEF GrantType, HexText
<1> HIDE DEF e
<1>4. DelegationWords(e, m.proposer, m.delegate, m.committer.bytes, m.slot)
    BY ONLY <1>1, <1>2, <1>3, EncodedDelegation
<1> QED BY <1>4 DEF e, DelegationWords

\* Grants of the same encoding agree, but for the proposer.
LEMMA GrantBinds ==
    ASSUME NEW m, GrantType(m), abi_encode_delegation_message(m).ok,
           NEW n, GrantType(n), abi_encode_delegation_message(n).ok,
           abi_encode_delegation_message(m).value = abi_encode_delegation_message(n).value
    PROVE  m.delegate = n.delegate /\ m.slot = n.slot /\ m.committer.bytes = n.committer.bytes
<1>1. /\ m.proposer \in Seq(Byte) /\ m.delegate \in Seq(Byte) /\ m.slot \in Nat
      /\ n.proposer \in Seq(Byte) /\ n.delegate \in Seq(Byte) /\ n.slot \in Nat
      /\ Len(m.proposer) = Len(n.proposer) /\ Len(m.delegate) = Len(n.delegate)
    BY PayloadAssumption DEF GrantType
<1>2. m.committer.bytes \in Seq(Byte) /\ n.committer.bytes \in Seq(Byte)
    BY DEF GrantType, HexText
<1> QED BY <1>1, <1>2, DelegationBinds

\* A delegation that verifies under a signature in circulation was granted.
LEMMA VerifiedIsGranted ==
    ASSUME SignaturesInv, NEW d, GrantType(d.message), verify_delegation_signature(d),
           d.signature \in signatures
    PROVE  \E m \in signed : SameGrant(m, d.message)
<1> DEFINE n == d.message
           e == abi_encode_delegation_message(n).value
<1>1. /\ abi_encode_delegation_message(n).ok
      /\ d.signature.by = n.proposer
      /\ d.signature.over = calculate_signing_root(e, DELEGATION_DOMAIN_SEPARATOR)
    BY DEF verify_delegation_signature
<1>2. e \in Seq(Words) /\ Len(e) > 0 /\ e[1] = Number(4 * WORD)
    BY <1>1, GrantWords
<1> HIDE DEF e
<1>3. ~OverConstraints(d.signature)
    <2> SUFFICES ASSUME NEW x \in Seq(Words), x[1] = Number(5 * WORD),
                        d.signature.over = calculate_signing_root(x, Domain)
                 PROVE  FALSE
        BY DEF OverConstraints
    <2>1. x = e
        BY <1>1, <1>2, RootBinds
    <2>2. Number(5 * WORD) = Number(4 * WORD)
        BY <1>2, <2>1
    <2>3. 5 * WORD = 4 * WORD
        BY <2>2 DEF Number
    <2> QED BY <2>3, AbiAssumption
<1>4. PICK m \in signed : d.signature = sign_delegation(m)
    BY <1>3 DEF SignaturesInv
<1> DEFINE f == abi_encode_delegation_message(m).value
<1>5. /\ m.proposer = n.proposer
      /\ calculate_signing_root(f, DELEGATION_DOMAIN_SEPARATOR)
           = calculate_signing_root(e, DELEGATION_DOMAIN_SEPARATOR)
    <2>1. /\ d.signature.by = m.proposer
          /\ d.signature.over = calculate_signing_root(f, DELEGATION_DOMAIN_SEPARATOR)
        BY <1>4 DEF sign_delegation, bls_sign
    <2> QED BY <1>1, <2>1
<1>6. m \in Messages
    BY DEF SignaturesInv
<1>7. GrantType(m) /\ abi_encode_delegation_message(m).ok
    BY <1>6, MessagesAreGrants
<1>8. f \in Seq(Words)
    BY <1>7, GrantWords
<1> HIDE DEF f
<1>9. f = e
    BY <1>2, <1>5, <1>8, RootBinds
<1>10. m.delegate = n.delegate /\ m.slot = n.slot /\ m.committer.bytes = n.committer.bytes
    BY <1>1, <1>7, <1>9, GrantBinds DEF e, f
<1> QED BY <1>5, <1>10 DEF SameGrant
\* A row of the table.
DelegationRow(r) ==
    /\ r \in [proposer_pubkey : Seq(Byte), delegate_pubkey : Seq(Byte), committer_address : HexText,
              slot_number : 0..MAX_I64, signature : {r.signature}, is_active : BOOLEAN]
    /\ Len(r.proposer_pubkey) = KEY_LEN /\ Len(r.delegate_pubkey) = KEY_LEN
    /\ chk_address_format(r.committer_address)
    /\ \E m \in signed : SameGrant(m, DelegationOfRow(r).message)

DelegationsInv ==
    /\ \A r \in delegations : DelegationRow(r)
    /\ \A r, q \in delegations :
          r.proposer_pubkey = q.proposer_pubkey /\ r.slot_number = q.slot_number => r = q
-----------------------------------------------------------------------------
(* The commitments table.                                                  *)

RequestOfRow(r) == [ctype |-> r.ctype, payload |-> r.payload, slasher |-> r.slasher]

\* A row of the table: read by the insert as by the handler, hashed and signed as
\* it is stored, for a slot some proposer granted.
CommitmentRow(r) ==
    /\ r \in [request_hash : {r.request_hash}, ctype : {1},
              payload : [form : PayloadForms, slot : Nat, tx : Seq(Byte)], slasher : HexText,
              signature : {r.signature}, slot_number : [ok : {TRUE}, value : 0..MAX_I64],
              processed : BOOLEAN]
    /\ Text(r.payload) \in Seq(Byte)
    /\ chk_address_format(r.slasher)
    /\ parse_inclusion_payload(r.payload) = Ok(InclusionPayload(r.slot_number.value, r.payload.tx))
    /\ generate_request_hash(RequestOfRow(r)) = Ok(r.request_hash)
    /\ LET c == CommitmentOfRow(r).commitment IN
       sign_commitment(c, EcdsaKey, RecoveryId(c)) = Ok(r.signature)
    /\ \E m \in signed : m.slot = r.slot_number.value

CommitmentsInv ==
    /\ \E S : commitments \in Seq(S)
    /\ \A i \in DOMAIN commitments : CommitmentRow(commitments[i])

IInv ==
    SignaturesInv /\ DelegationsInv /\ CommitmentsInv /\ AnswersVerify /\ PostsAreGranted
\* What a client gets is what the gateway wrote.
LEMMA CommitmentRoundTrip ==
    ASSUME NEW ctype, NEW payload, NEW hash, NEW slasher, NEW signature, NEW s,
           s = [commitment |-> [ctype |-> ctype, payload |-> payload, request_hash |-> hash,
                                slasher |-> slasher],
                signature |-> signature]
    PROVE  deserialize_commitment(serialize_commitment(s)) = Ok(s)
<1> DEFINE w == [commitment |-> [ctype |-> ctype, payload |-> hex_encode(payload),
                                 request_hash |-> hash, slasher |-> slasher],
                 signature |-> signature]
<1>1. serialize_commitment(s) = w
    BY DEF serialize_commitment, serialize_payload
<1>2. hex_encode(payload).bytes = payload /\ deserialize_payload(hex_encode(payload)).ok
    BY DEF hex_encode, Hex, deserialize_payload, hex_decode, Ok
<1>3. [w EXCEPT !.commitment.payload = @.bytes] = s
    BY <1>2
<1>4. deserialize_commitment(w) = Ok(s)
    BY <1>2, <1>3 DEF deserialize_commitment
<1> QED BY <1>1, <1>4

\* A commitment the gateway signed verifies.
LEMMA SignatureVerifies ==
    ASSUME NEW c, Text(c.payload) \in Seq(Byte),
           NEW signature, sign_commitment(c, EcdsaKey, RecoveryId(c)) = Ok(signature)
    PROVE  verify_commitment_signature(c, signature, EcdsaKey) = Ok(TRUE)
<1> DEFINE digest == keccak256(abi_encode_commitment(c).value)
           made == [by |-> EcdsaKey, over |-> digest, v |-> 27 + RecoveryId(c)]
<1>1. abi_encode_commitment(c).ok /\ signature = hex_encode(<<made>>)
    BY DEF sign_commitment, Ok, Err
<1>2. RecoveryId(c) \in 0..1
    BY DEF RecoveryId
<1>3. made.by = EcdsaKey /\ made.over = digest /\ made.v = 27 + RecoveryId(c)
    OBVIOUS
<1>4. recovery_id_of(made.v) \in 0..3
    BY <1>2, <1>3 DEF recovery_id_of
<1> HIDE DEF made
<1>5. parse_hex_bytes(signature, SIGNATURE_LEN) = Ok(<<made>>)
    BY <1>1 DEF parse_hex_bytes, hex_decode, hex_encode, Hex, SIGNATURE_LEN, Ok
<1>6. Ok(<<made>>).ok /\ Ok(<<made>>).value[1] = made
    BY DEF Ok
<1> QED BY <1>1, <1>3, <1>4, <1>5, <1>6 DEF verify_commitment_signature

\* What AnswersVerify says of one answer.
AnswerVerifies(a) ==
    LET got == deserialize_commitment(a.got) IN
    /\ got.ok
    /\ verify_commitment_signature(got.value.commitment, got.value.signature, EcdsaKey) = Ok(TRUE)
    /\ got.value.commitment.request_hash = a.asked
    /\ generate_request_hash([ctype   |-> got.value.commitment.ctype,
                              payload |-> got.value.commitment.payload,
                              slasher |-> got.value.commitment.slasher]) = Ok(a.asked)

\* An answer from a row of the table is good.
LEMMA RowAnswers ==
    ASSUME NEW r, CommitmentRow(r), NEW by
    PROVE  AnswerVerifies([asked |-> r.request_hash, by |-> by,
                           got |-> serialize_commitment(CommitmentOfRow(r))])
<1> DEFINE c == [ctype |-> r.ctype, payload |-> r.payload, request_hash |-> r.request_hash,
                 slasher |-> r.slasher]
           s == [commitment |-> c, signature |-> r.signature]
<1>1. CommitmentOfRow(r) = s /\ CommitmentOfRow(r).commitment = c
    BY DEF CommitmentOfRow
<1>2. deserialize_commitment(serialize_commitment(s)) = Ok(s)
    BY CommitmentRoundTrip
<1>3. /\ s.commitment = c /\ s.signature = r.signature
      /\ c.ctype = r.ctype /\ c.payload = r.payload /\ c.request_hash = r.request_hash
      /\ c.slasher = r.slasher
      /\ Ok(s).ok /\ Ok(s).value = s
    BY DEF Ok
<1> HIDE DEF c, s
<1>4. verify_commitment_signature(c, r.signature, EcdsaKey) = Ok(TRUE)
    <2>1. Text(c.payload) \in Seq(Byte) /\ sign_commitment(c, EcdsaKey, RecoveryId(c)) = Ok(r.signature)
        BY <1>1, <1>3 DEF CommitmentRow
    <2> QED BY <2>1, SignatureVerifies
<1>5. generate_request_hash([ctype |-> c.ctype, payload |-> c.payload, slasher |-> c.slasher])
        = Ok(r.request_hash)
    BY <1>3 DEF CommitmentRow, RequestOfRow
<1> DEFINE a == [asked |-> r.request_hash, by |-> by,
                 got |-> serialize_commitment(CommitmentOfRow(r))]
<1>6. a.asked = r.request_hash /\ deserialize_commitment(a.got) = Ok(s)
    BY <1>1, <1>2
<1> HIDE DEF a
<1>7. AnswerVerifies(a)
    BY <1>3, <1>4, <1>5, <1>6 DEF AnswerVerifies
<1> QED BY <1>7 DEF a
-----------------------------------------------------------------------------
(* The constraints sent to the relay.                                      *)

SignedMessage(m, signature) == [message |-> m, signature |-> signature]

\* w is the wire form of the message m under signature.
IsWritten(w, m, signature) ==
    Written(w.message) = m /\ w.signature.bytes = <<signature>>

\* The bytes and numbers on the wire are those of the message that was signed.
LEMMA ConstraintsWritten ==
    ASSUME NEW p, NEW d, NEW slot, NEW constraints,
           NEW I, NEW T, NEW receivers \in [I -> T],
           NEW m, m = ConstraintsMessage(p, d, slot, constraints, receivers),
           NEW signature, NEW s, s = SignedMessage(m, signature)
    PROVE  IsWritten(serialize_constraints(s), m, signature)
<1> DEFINE texts == [i \in I |-> hex_encode(receivers[i])]
           n == ConstraintsMessage(hex_encode(p), hex_encode(d), slot, constraints, texts)
           w == [message |-> n, signature |-> hex_encode(<<signature>>)]
<1>1. serialize_constraints(s) = w
    <2>1. [i \in DOMAIN m.receivers |-> serialize_key(m.receivers[i])] = texts
        BY DEF ConstraintsMessage, serialize_key
    <2>2. s.message = m /\ s.signature = signature
        BY DEF SignedMessage
    <2> HIDE DEF texts
    <2>3. [m EXCEPT !.proposer = serialize_key(@), !.delegate = serialize_key(@), !.receivers = texts] = n
        <3>1. m.proposer = p /\ m.delegate = d
            BY DEF ConstraintsMessage
        <3> DEFINE r == [m EXCEPT !.proposer = serialize_key(@), !.delegate = serialize_key(@), !.receivers = texts]
        <3>2. /\ r.proposer = hex_encode(p) /\ r.delegate = hex_encode(d) /\ r.receivers = texts
              /\ r.slot = slot /\ r.constraints = constraints
              /\ DOMAIN r = {"proposer", "delegate", "slot", "constraints", "receivers"}
            BY <3>1 DEF ConstraintsMessage, serialize_key
        <3>3. r = [k \in DOMAIN r |-> r[k]]
            OBVIOUS
        <3> HIDE DEF r
        <3>4. r = n
            BY <3>2, <3>3 DEF ConstraintsMessage
        <3> QED BY <3>4 DEF r
    <2>4. [m EXCEPT !.proposer = serialize_key(@), !.delegate = serialize_key(@),
                    !.receivers = [i \in DOMAIN @ |-> serialize_key(@[i])]] = n
        BY <2>1, <2>3
    <2> HIDE DEF n
    <2> QED BY <2>2, <2>4 DEF serialize_constraints, serialize_signature
<1>2. \A b : hex_encode(b).bytes = b
    BY DEF hex_encode, Hex
<1>3. [i \in DOMAIN texts |-> texts[i].bytes] = receivers
    BY <1>2
<1>4. Written(n) = m
    <2>1. n.proposer.bytes = p /\ n.delegate.bytes = d
        BY <1>2 DEF ConstraintsMessage
    <2>2. n.slot = slot /\ n.constraints = constraints /\ n.receivers = texts
        BY DEF ConstraintsMessage
    <2> HIDE DEF n, texts
    <2> QED BY <1>3, <2>1, <2>2 DEF Written
<1>5. w.message = n /\ w.signature.bytes = <<signature>>
    BY <1>2 DEF SignedMessage
<1> HIDE DEF w, n
<1> QED BY <1>1, <1>4, <1>5 DEF IsWritten

\* The constraint c is the commitment of the row r, for a slot and under an account.
Binds(r, c, slot, account) ==
    /\ r.ctype = c.constraint_type
    /\ Text(r.payload) = c.payload
    /\ r.slasher.bytes = account
    /\ r.slot_number = Ok(slot)
    /\ extract_slot_from_inclusion_payload(r.payload) = Ok(slot)

\* The message m rests on a grant among grants and on commitments among rows.
RestsOn(m, grants, rows) ==
    \E g \in grants :
        /\ g.proposer = m.proposer /\ g.delegate = m.delegate /\ g.slot = m.slot
        /\ \A i \in DOMAIN m.constraints : \E j \in DOMAIN rows :
              Binds(rows[j], m.constraints[i], m.slot, g.committer.bytes)

\* What PostsAreGranted says of one message.
Granted(w, grants, rows) ==
    LET m == Written(w.message) IN
    /\ w.signature.bytes = <<sign_constraints_message(m, OurKey, Domain)>>
    /\ m.receivers = [i \in DOMAIN authorized_builders |-> authorized_builders[i].bytes]
    /\ RestsOn(m, grants, rows)

\* Later grants and commitments leave it so, as does marking rows.
LEMMA GrantedPersists ==
    ASSUME NEW w, NEW grants, NEW rows, Granted(w, grants, rows),
           NEW more, grants \subseteq more, NEW later, DOMAIN rows \subseteq DOMAIN later,
           \A i \in DOMAIN rows :
               /\ later[i].ctype = rows[i].ctype /\ later[i].payload = rows[i].payload
               /\ later[i].slasher = rows[i].slasher
               /\ later[i].slot_number = rows[i].slot_number
    PROVE  Granted(w, more, later)
<1> DEFINE m == Written(w.message)
<1>1. /\ w.signature.bytes = <<sign_constraints_message(m, OurKey, Domain)>>
      /\ m.receivers = [i \in DOMAIN authorized_builders |-> authorized_builders[i].bytes]
      /\ RestsOn(m, grants, rows)
    BY DEF Granted
<1> HIDE DEF m
<1>2. \A i \in DOMAIN rows : \A c, slot, account :
          Binds(rows[i], c, slot, account) => Binds(later[i], c, slot, account)
    BY DEF Binds
<1>3. RestsOn(m, more, later)
    BY <1>1, <1>2 DEF RestsOn
<1> QED BY <1>1, <1>3 DEF Granted, m

\* The rows that are due are rows of the table.
LEMMA DueRowsAreRows ==
    ASSUME NEW S, commitments \in Seq(S), NEW d
    PROVE  DueRows(d) \in Seq({commitments[i] : i \in {j \in DOMAIN commitments : Due(commitments[j], d)}})
<1> DEFINE R == {commitments[i] : i \in {j \in DOMAIN commitments : Due(commitments[j], d)}}
           n == Len(commitments)
           pieces == [i \in 1..n |-> IF Due(commitments[i], d) THEN <<commitments[i]>> ELSE <<>>]
<1>1. n \in Nat /\ DOMAIN commitments = 1..n
    BY LenProperties
<1>2. ASSUME NEW i \in 1..n PROVE pieces[i] \in Seq(R)
    <2>1. CASE Due(commitments[i], d)
        <3>1. pieces[i] = <<commitments[i]>> /\ commitments[i] \in R
            BY <1>1, <2>1
        <3> HIDE DEF R, pieces
        <3> QED BY <3>1
    <2>2. CASE ~Due(commitments[i], d)
        <3>1. pieces[i] = <<>>
            BY <2>2
        <3> QED BY <3>1, EmptySeq
    <2> QED BY <2>1, <2>2
<1>3. DueRows(d) = FlattenSeq(pieces)
    BY <1>1 DEF DueRows
<1>4. pieces = [i \in 1..n |-> pieces[i]]
    OBVIOUS
<1> HIDE DEF R, pieces, n
<1>5. pieces \in [1..n -> Seq(R)]
    BY <1>2, <1>4
<1>6. pieces \in Seq(Seq(R))
    BY <1>1, <1>5, FunctionIsSeq
<1> QED BY <1>3, <1>6, FlattenType DEF R

\* The message of a submission: its signature is over constraints, and it rests
\* on the delegation's grant and on the commitments.
LEMMA SubmissionGranted ==
    ASSUME DelegationsInv, CommitmentsInv, parse_authorized_builders(authorized_builders).ok,
           NEW r \in delegations, NEW d, d = DelegationOfRow(r),
           NEW m, m = ConstraintsMessage(d.message.proposer, d.message.delegate, d.message.slot,
                        [i \in DOMAIN DueRows(d) |-> from_inclusion_commitment(DueRows(d)[i].payload)],
                        parse_authorized_builders(authorized_builders).value),
           NEW signature, signature = sign_constraints_message(m, OurKey, Domain)
    PROVE  /\ OverConstraints(signature)
           /\ Granted(serialize_constraints([message |-> m, signature |-> signature]), signed, commitments)
<1> DEFINE due == DueRows(d)
           n == Len(due)
           k == Len(authorized_builders)
           constraints == [i \in 1..n |-> from_inclusion_commitment(due[i].payload)]
           receivers == [i \in 1..k |-> authorized_builders[i].bytes]
           p == d.message.proposer
           q == d.message.delegate
           slot == d.message.slot
<1>1. PICK S : commitments \in Seq(S)
    BY DEF CommitmentsInv
<1>2. /\ due \in Seq({commitments[i] : i \in {j \in DOMAIN commitments : Due(commitments[j], d)}})
      /\ n \in Nat /\ DOMAIN due = 1..n
    BY <1>1, DueRowsAreRows, LenProperties
<1>3. ASSUME NEW i \in 1..n
      PROVE  \E j \in DOMAIN commitments : /\ due[i] = commitments[j]
                                           /\ CommitmentRow(due[i]) /\ due[i].slot_number = Ok(slot)
                                           /\ due[i].ctype = 1
                                           /\ due[i].slasher = d.message.committer
    <2>1. due[i] \in {commitments[x] : x \in {j \in DOMAIN commitments : Due(commitments[j], d)}}
        BY <1>2, ElementOfSeq
    <2>2. PICK j \in DOMAIN commitments : due[i] = commitments[j] /\ Due(commitments[j], d)
        BY <2>1
    <2>3. CommitmentRow(commitments[j])
        BY DEF CommitmentsInv
    <2>4. /\ commitments[j].slot_number = Ok(slot) /\ commitments[j].ctype = 1
          /\ commitments[j].slasher = d.message.committer
        BY <2>2 DEF Due
    <2> QED BY <2>2, <2>3, <2>4
<1>4. k \in Nat /\ DOMAIN authorized_builders = 1..k /\ \A i \in 1..k : authorized_builders[i] \in HexText
    BY EncodingsAssumption, LenProperties
<1>5. /\ parse_authorized_builders(authorized_builders).value = receivers
      /\ \A i \in 1..k : Len(authorized_builders[i].bytes) = KEY_LEN
    <2>1. \A i \in 1..k : parse_hex_bytes(authorized_builders[i], KEY_LEN).ok
        BY <1>4 DEF parse_authorized_builders, Err
    <2>2. parse_authorized_builders(authorized_builders).value = receivers
        BY <1>4, <2>1 DEF parse_authorized_builders, Ok
    <2> QED BY <2>1, <2>2 DEF parse_hex_bytes, Err
<1>6. \A i \in 1..k : receivers[i] \in Seq(Byte) /\ Len(receivers[i]) = KEY_LEN
    BY <1>4, <1>5 DEF HexText
<1>7. /\ p \in Seq(Byte) /\ Len(p) = KEY_LEN /\ q \in Seq(Byte) /\ Len(q) = KEY_LEN
      /\ slot \in Nat
      /\ \E g \in signed : SameGrant(g, d.message)
    <2>1. DelegationRow(r)
        BY DEF DelegationsInv
    <2>2. p = r.proposer_pubkey /\ q = r.delegate_pubkey /\ slot = as_u64(r.slot_number)
        BY DEF DelegationOfRow
    <2>3. r.slot_number \in Nat
        BY <2>1, PayloadAssumption DEF DelegationRow
    <2>4. slot = r.slot_number
        BY <2>2, <2>3 DEF as_u64
    <2> QED BY <2>1, <2>2, <2>3, <2>4 DEF DelegationRow
<1>8. m = ConstraintsMessage(p, q, slot, constraints, receivers)
    BY <1>2, <1>5
<1> HIDE DEF due, n, k, p, q, slot
<1>9. \A i \in 1..n : /\ constraints[i].constraint_type = 1
                      /\ constraints[i].payload = Text(due[i].payload)
                      /\ constraints[i].payload \in Seq(Byte)
    BY <1>3 DEF from_inclusion_commitment, CommitmentRow
<1>10. DOMAIN constraints = 1..n /\ receivers \in [1..k -> {receivers[i] : i \in 1..k}]
    OBVIOUS
<1> HIDE DEF constraints, receivers
<1>11. /\ m.proposer = p /\ m.delegate = q /\ m.slot = slot
       /\ m.constraints = constraints /\ m.receivers = receivers
    BY <1>8 DEF ConstraintsMessage
<1> DEFINE e == abi_encode_constraints_message(m)
<1>12. e \in Seq(Words) /\ Len(e) > 0 /\ e[1] = Number(5 * WORD)
    <2>1. /\ m.proposer \in Seq(Byte) /\ m.delegate \in Seq(Byte) /\ m.slot \in Nat
          /\ DOMAIN m.constraints = 1..n /\ n \in Nat
          /\ DOMAIN m.receivers = 1..k /\ k \in Nat
        BY <1>2, <1>4, <1>7, <1>10, <1>11
    <2>2. \A i \in 1..n : /\ m.constraints[i].constraint_type \in Nat
                          /\ m.constraints[i].payload \in Seq(Byte)
        BY <1>9, <1>11
    <2>3. \A i \in 1..k : m.receivers[i] \in Seq(Byte)
        BY <1>6, <1>11
    <2> QED BY <2>1, <2>2, <2>3, EncodedConstraints
<1>13. OverConstraints(signature)
    <2> HIDE DEF e
    <2>1. signature.over = calculate_signing_root(e, Domain)
        BY DEF sign_constraints_message, bls_sign, e
    <2> QED BY <1>12, <2>1 DEF OverConstraints
<1> DEFINE s == SignedMessage(m, signature)
           w == serialize_constraints(s)
<1>14. Written(w.message) = m /\ w.signature.bytes = <<signature>>
    <2>1. /\ receivers \in [1..k -> {receivers[i] : i \in 1..k}]
          /\ m = ConstraintsMessage(p, q, slot, constraints, receivers)
          /\ s = SignedMessage(m, signature)
        BY <1>8, <1>10
    <2> HIDE DEF s
    <2>2. IsWritten(serialize_constraints(s), m, signature)
        BY ONLY <2>1, ConstraintsWritten
    <2> QED BY <2>2 DEF IsWritten
<1>15. PICK g \in signed : SameGrant(g, d.message)
    BY <1>7
<1>16. ASSUME NEW i \in DOMAIN m.constraints
       PROVE  \E j \in DOMAIN commitments :
                 Binds(commitments[j], m.constraints[i], m.slot, g.committer.bytes)
    <2>1. i \in 1..n /\ m.constraints[i] = constraints[i] /\ m.slot = slot
        BY <1>10, <1>11
    <2>2. PICK j \in DOMAIN commitments : /\ due[i] = commitments[j]
                                          /\ CommitmentRow(due[i]) /\ due[i].slot_number = Ok(slot)
                                          /\ due[i].ctype = 1
                                          /\ due[i].slasher = d.message.committer
        BY <1>3, <2>1
    <2>3. extract_slot_from_inclusion_payload(due[i].payload) = Ok(slot)
        <3> DEFINE payload == InclusionPayload(slot, due[i].payload.tx)
        <3>1. parse_inclusion_payload(due[i].payload) = Ok(payload)
            BY <2>2 DEF CommitmentRow, Ok
        <3>2. Ok(payload).ok /\ Ok(payload).value = payload /\ payload.slot = slot
            BY DEF Ok, InclusionPayload
        <3> HIDE DEF payload
        <3> QED BY <3>1, <3>2 DEF extract_slot_from_inclusion_payload, SlotOf
    <2>4. due[i].slasher.bytes = g.committer.bytes
        BY <1>15, <2>2 DEF SameGrant
    <2>5. constraints[i].constraint_type = 1 /\ constraints[i].payload = Text(due[i].payload)
        BY <1>9, <2>1
    <2>6. Binds(due[i], constraints[i], slot, g.committer.bytes)
        BY <2>2, <2>3, <2>4, <2>5 DEF Binds
    <2> QED BY <2>1, <2>2, <2>6
<1>17. m.receivers = [i \in DOMAIN authorized_builders |-> authorized_builders[i].bytes]
    BY <1>4, <1>11 DEF receivers
<1>18. RestsOn(m, signed, commitments)
    <2>1. g.proposer = m.proposer /\ g.delegate = m.delegate /\ g.slot = m.slot
        BY <1>11, <1>15 DEF SameGrant, p, q, slot
    <2> QED BY <1>16, <2>1 DEF RestsOn
<1> HIDE DEF s, w
<1>19. Granted(w, signed, commitments)
    BY <1>14, <1>17, <1>18 DEF Granted
<1> QED BY <1>13, <1>19 DEF s, w, SignedMessage
-----------------------------------------------------------------------------
(* The steps.                                                              *)

\* What a relay can offer is typed, under a signature in circulation.
LEMMA OfferedType ==
    ASSUME NEW y \in Offered, y.ok
    PROVE  GrantType(y.value.message) /\ y.value.signature \in signatures
<1>1. PICK o \in Offers, s \in signatures :
        y = deserialize_delegation([o EXCEPT !.signature = [@ EXCEPT !.bytes = <<s>>]])
    BY DEF Offered
<1>2. /\ o \in [proposer : HexText, delegate : HexText, committer : HexText,
                slot : 0..MAX_U64, signature : HexText]
    BY EncodingsAssumption
<1> DEFINE w == [o EXCEPT !.signature = [@ EXCEPT !.bytes = <<s>>]]
<1>3. /\ w.proposer = o.proposer /\ w.delegate = o.delegate /\ w.committer = o.committer
      /\ w.slot = o.slot
      /\ w.signature = [o.signature EXCEPT !.bytes = <<s>>]
    BY <1>2
<1>4. w.signature.bytes = <<s>>
    BY <1>2, <1>3 DEF HexText
<1> HIDE DEF w
<1> DEFINE m == [proposer |-> w.proposer.bytes, delegate |-> w.delegate.bytes,
                 committer |-> w.committer, slot |-> w.slot]
<1>5. /\ deserialize_key(w.proposer).ok /\ deserialize_key(w.delegate).ok
      /\ y = Ok([message |-> m, signature |-> w.signature.bytes[1]])
    BY <1>1 DEF deserialize_delegation, Err, w
<1>6. y.value.message = m /\ y.value.signature = s
    BY <1>4, <1>5 DEF Ok
<1>7. Len(w.proposer.bytes) = KEY_LEN /\ Len(w.delegate.bytes) = KEY_LEN
    BY <1>5 DEF deserialize_key, parse_hex_bytes, Err
<1>8. /\ m.proposer \in Seq(Byte) /\ m.delegate \in Seq(Byte)
      /\ m.committer \in HexText /\ m.slot \in 0..MAX_U64
    BY <1>2, <1>3 DEF HexText
<1>9. GrantType(m)
    BY <1>7, <1>8 DEF GrantType
<1> QED BY <1>6, <1>9

\* Two's complement, there and back.
LEMMA SlotRoundTrip ==
    ASSUME NEW slot \in 0..MAX_U64, as_i64(slot) >= 0
    PROVE  as_i64(slot) = slot /\ slot \in 0..MAX_I64 /\ as_u64(as_i64(slot)) = slot
BY PayloadAssumption DEF as_i64, as_u64

\* Storing an offered delegation keeps the table's invariant.
LEMMA SaveKeeps ==
    ASSUME SignaturesInv, DelegationsInv, NEW y \in Offered, y.ok, save_delegation(y.value),
           UNCHANGED signed
    PROVE  DelegationsInv'
<1> DEFINE d == y.value
           row == RowOfDelegation(d)
<1>1. /\ verify_delegation_signature(d)
      /\ chk_address_format(row.committer_address)
      /\ row.slot_number >= 0
      /\ \A r \in delegations : \/ r.proposer_pubkey # row.proposer_pubkey
                                \/ r.slot_number # row.slot_number
      /\ delegations' = delegations \cup {row}
    BY DEF save_delegation, InsertDelegation
<1>2. GrantType(d.message) /\ d.signature \in signatures
    BY OfferedType
<1> HIDE DEF d
<1>3. PICK m \in signed : SameGrant(m, d.message)
    BY <1>1, <1>2, VerifiedIsGranted
<1>4. /\ row.proposer_pubkey = d.message.proposer /\ row.delegate_pubkey = d.message.delegate
      /\ row.committer_address = d.message.committer
      /\ row.slot_number = as_i64(d.message.slot)
      /\ row.signature = d.signature /\ row.is_active = TRUE
    BY DEF RowOfDelegation
<1>5. d.message.slot \in 0..MAX_U64
    BY <1>2 DEF GrantType
<1>6. /\ row.slot_number = d.message.slot /\ row.slot_number \in 0..MAX_I64
      /\ as_u64(row.slot_number) = d.message.slot
    BY <1>1, <1>4, <1>5, SlotRoundTrip
<1>7. row \in [proposer_pubkey : Seq(Byte), delegate_pubkey : Seq(Byte),
               committer_address : HexText, slot_number : 0..MAX_I64,
               signature : {row.signature}, is_active : BOOLEAN]
    <2>1. row = [proposer_pubkey |-> row.proposer_pubkey, delegate_pubkey |-> row.delegate_pubkey,
                 committer_address |-> row.committer_address, slot_number |-> row.slot_number,
                 signature |-> row.signature, is_active |-> row.is_active]
        BY DEF RowOfDelegation
    <2> HIDE DEF row
    <2>2. /\ row.proposer_pubkey \in Seq(Byte) /\ row.delegate_pubkey \in Seq(Byte)
          /\ row.committer_address \in HexText
        BY <1>2, <1>4 DEF GrantType
    <2> QED BY <1>4, <1>6, <2>1, <2>2
<1> HIDE DEF row
<1>8. SameGrant(m, DelegationOfRow(row).message)
    <2> DEFINE n == DelegationOfRow(row).message
    <2>1. /\ n.proposer = d.message.proposer /\ n.delegate = d.message.delegate
          /\ n.slot = d.message.slot /\ n.committer = d.message.committer
        BY <1>4, <1>6 DEF DelegationOfRow
    <2> HIDE DEF n
    <2> QED BY <1>3, <2>1 DEF SameGrant, n
<1>9. Len(row.proposer_pubkey) = KEY_LEN /\ Len(row.delegate_pubkey) = KEY_LEN
    BY <1>2, <1>4 DEF GrantType
<1>10. \A r \in delegations' : DelegationRow(r)'
    <2>1. DelegationRow(row)
        BY <1>1, <1>7, <1>8, <1>9 DEF DelegationRow
    <2>2. \A r \in delegations' : DelegationRow(r)
        BY <1>1, <2>1 DEF DelegationsInv
    <2> QED BY <2>2 DEF DelegationRow
<1>11. \A r, q \in delegations' :
         r.proposer_pubkey = q.proposer_pubkey /\ r.slot_number = q.slot_number => r = q
    BY <1>1 DEF DelegationsInv
<1> QED BY <1>10, <1>11 DEF DelegationsInv

\* So does deactivating what has expired.
LEMMA ExpireKeeps ==
    ASSUME DelegationsInv, NEW slot, deactivate_expired_delegations(slot), UNCHANGED signed
    PROVE  DelegationsInv'
<1> DEFINE After(r) == IF r.slot_number < as_i64(slot) THEN [r EXCEPT !.is_active = FALSE] ELSE r
<1>1. delegations' = {After(r) : r \in delegations}
    BY DEF deactivate_expired_delegations
<1>2. ASSUME NEW r \in delegations
      PROVE  /\ DelegationRow(After(r))
             /\ After(r).proposer_pubkey = r.proposer_pubkey
             /\ After(r).slot_number = r.slot_number
    <2>1. DelegationRow(r)
        BY DEF DelegationsInv
    <2> DEFINE q == [r EXCEPT !.is_active = FALSE]
    <2>2. r \in [proposer_pubkey : Seq(Byte), delegate_pubkey : Seq(Byte),
                 committer_address : HexText, slot_number : 0..MAX_I64,
                 signature : {r.signature}, is_active : BOOLEAN]
        BY <2>1 DEF DelegationRow
    <2>3. /\ q.proposer_pubkey = r.proposer_pubkey /\ q.delegate_pubkey = r.delegate_pubkey
          /\ q.committer_address = r.committer_address /\ q.slot_number = r.slot_number
          /\ q.signature = r.signature
          /\ q \in [proposer_pubkey : Seq(Byte), delegate_pubkey : Seq(Byte),
                    committer_address : HexText, slot_number : 0..MAX_I64,
                    signature : {r.signature}, is_active : BOOLEAN]
        BY <2>2
    <2> HIDE DEF q
    <2>4. DelegationOfRow(q) = DelegationOfRow(r)
        BY <2>3 DEF DelegationOfRow
    <2>5. DelegationRow(q)
        BY <2>1, <2>3, <2>4 DEF DelegationRow
    <2> QED BY <2>1, <2>3, <2>5 DEF q
<1> HIDE DEF After
<1>3. \A r \in delegations' : DelegationRow(r)'
    <2>1. \A r \in delegations' : DelegationRow(r)
        BY <1>1, <1>2
    <2> QED BY <2>1 DEF DelegationRow
<1>4. \A r, q \in delegations' :
         r.proposer_pubkey = q.proposer_pubkey /\ r.slot_number = q.slot_number => r = q
    <2> SUFFICES ASSUME NEW r \in delegations, NEW q \in delegations,
                        After(r).proposer_pubkey = After(q).proposer_pubkey,
                        After(r).slot_number = After(q).slot_number
                 PROVE  After(r) = After(q)
        BY <1>1
    <2>1. r.proposer_pubkey = q.proposer_pubkey /\ r.slot_number = q.slot_number
        BY <1>2
    <2> QED BY <2>1 DEF DelegationsInv
<1> QED BY <1>3, <1>4 DEF DelegationsInv
\* A request that parses is typed.
LEMMA ParsedType ==
    ASSUME NEW w \in RequestInputs, NEW parsed, parsed = deserialize_request(w), parsed.ok
    PROVE  /\ parsed.value.ctype \in Nat
           /\ parsed.value.payload \in [form : PayloadForms, slot : Nat, tx : Seq(Byte)]
           /\ parsed.value.slasher \in HexText
           /\ Text(parsed.value.payload) \in Seq(Byte)
           /\ parsed.value = [ctype |-> parsed.value.ctype, payload |-> parsed.value.payload,
                              slasher |-> parsed.value.slasher]
<1>1. w \in [ctype : Nat, payload : PayloadHex, slasher : HexText] /\ Text(w.payload.bytes) \in Seq(Byte)
    BY EncodingsAssumption
<1> DEFINE q == [w EXCEPT !.payload = w.payload.bytes]
<1>2. parsed.value = q
    BY DEF deserialize_request, Ok, Err
<1>3. w.payload.bytes \in [form : PayloadForms, slot : Nat, tx : Seq(Byte)]
    BY <1>1 DEF PayloadHex
<1>4. /\ q.ctype = w.ctype /\ q.payload = w.payload.bytes /\ q.slasher = w.slasher
      /\ q = [ctype |-> w.ctype, payload |-> w.payload.bytes, slasher |-> w.slasher]
    BY <1>1
<1> HIDE DEF q
<1> QED BY <1>1, <1>2, <1>3, <1>4

\* A request the handler accepts, and the row it is stored as.
Accepted(q) ==
    /\ q.ctype = 1
    /\ q.payload \in [form : PayloadForms, slot : Nat, tx : Seq(Byte)]
    /\ q.slasher \in HexText
    /\ Text(q.payload) \in Seq(Byte)
    /\ chk_address_format(q.slasher)
    /\ generate_request_hash(q).ok
    /\ validate_and_extract_slot(q.ctype, q.payload).ok
    /\ verify_delegation_authority(validate_and_extract_slot(q.ctype, q.payload).value,
                                   q.slasher) # {}

CommitmentTo(q) ==
    [ctype |-> q.ctype, payload |-> q.payload, request_hash |-> generate_request_hash(q).value,
     slasher |-> q.slasher]

SignatureOn(c) == sign_commitment(c, EcdsaKey, RecoveryId(c)).value

RowFor(q) ==
    LET c    == CommitmentTo(q)
        slot == extract_slot(c.ctype, c.payload)
    IN [request_hash |-> c.request_hash, ctype |-> c.ctype, payload |-> c.payload,
        slasher |-> c.slasher, signature |-> SignatureOn(c),
        slot_number |-> IF slot.ok THEN IF slot.value <= MAX_I64 THEN slot ELSE NULL ELSE NULL,
        processed |-> FALSE]

\* A stored commitment's row is well formed: the hash of its request is its key,
\* its signature can be checked, and the slot the insert reads again is the one
\* the handler went by.
LEMMA RequestMakesRow ==
    ASSUME SignaturesInv, DelegationsInv, NEW q, Accepted(q)
    PROVE  CommitmentRow(RowFor(q))
<1> DEFINE p == q.payload
           hash == generate_request_hash(q).value
           c == CommitmentTo(q)
           signature == SignatureOn(c)
           slot == extract_slot(c.ctype, c.payload)
           row == RowFor(q)
<1> USE DEF Accepted
<1> HIDE DEF c, signature, slot, row, hash
<1>1. /\ c.ctype = 1 /\ c.payload = p /\ c.request_hash = hash /\ c.slasher = q.slasher
    BY DEF c, hash, CommitmentTo
<1>2. slot = validate_and_extract_slot(q.ctype, q.payload) /\ slot.ok
    BY <1>1 DEF validate_and_extract_slot, slot
<1>3. parse_inclusion_payload(p) = Ok(InclusionPayload(p.slot, p.tx)) /\ slot = Ok(p.slot)
    <2>1. slot = SlotOf(parse_inclusion_payload(p))
        BY <1>1 DEF slot, extract_slot, extract_slot_from_inclusion_payload
    <2>2. parse_inclusion_payload(p).ok
        BY <1>2, <2>1 DEF SlotOf, Err
    <2>3. parse_inclusion_payload(p) = Ok(InclusionPayload(p.slot, p.tx))
        <3>1. \/ json_inclusion(p) = Ok(InclusionPayload(p.slot, p.tx))
              \/ ~json_inclusion(p).ok
            BY DEF json_inclusion, Err
        <3>2. \/ parse_inclusion_payload_rlp(p) = Ok(InclusionPayload(p.slot, p.tx))
              \/ ~parse_inclusion_payload_rlp(p).ok
            BY DEF parse_inclusion_payload_rlp, Err
        <3>3. parse_inclusion_payload(p)
                = IF json_inclusion(p).ok THEN json_inclusion(p) ELSE parse_inclusion_payload_rlp(p)
            BY DEF parse_inclusion_payload
        <3>4. CASE json_inclusion(p).ok
            BY <3>1, <3>3, <3>4
        <3>5. CASE ~json_inclusion(p).ok
            BY <2>2, <3>2, <3>3, <3>5
        <3> QED BY <3>4, <3>5
    <2>4. slot = Ok(p.slot)
        <3>1. /\ Ok(InclusionPayload(p.slot, p.tx)).ok
              /\ Ok(InclusionPayload(p.slot, p.tx)).value.slot = p.slot
            BY DEF Ok, InclusionPayload
        <3> QED BY <2>1, <2>3, <3>1 DEF SlotOf
    <2> QED BY <2>3, <2>4
<1>4. slot.value = p.slot
    BY <1>3 DEF Ok
<1>5. p.slot \in 0..MAX_I64 /\ \E m \in signed : m.slot = p.slot
    <2>1. PICK d \in verify_delegation_authority(p.slot, q.slasher) : TRUE
        BY <1>2, <1>4
    <2>2. d \in get_delegations_for_slot(p.slot) /\ d.message.slot = p.slot
        BY DEF verify_delegation_authority
    <2>3. PICK r \in delegations : d = DelegationOfRow(r)
        BY <2>2 DEF get_delegations_for_slot, Active
    <2>4. DelegationRow(r)
        BY DEF DelegationsInv
    <2>5. r.slot_number \in 0..MAX_I64
        BY <2>4 DEF DelegationRow
    <2>6. d.message.slot = as_u64(r.slot_number)
        BY <2>3 DEF DelegationOfRow
    <2>7. p.slot = r.slot_number
        BY <2>2, <2>5, <2>6, PayloadAssumption DEF as_u64
    <2>8. PICK m \in signed : SameGrant(m, d.message)
        BY <2>3, <2>4 DEF DelegationRow
    <2> QED BY <2>2, <2>5, <2>7, <2>8 DEF SameGrant
<1>6. generate_request_hash(q) = Ok(hash)
    BY DEF hash, generate_request_hash, Ok, Err
<1>7. abi_encode_commitment(c).ok
    <2>1. parse_ethereum_address(q.slasher).ok
        BY DEF generate_request_hash, abi_encode_commitment_request, Err
    <2> DEFINE input == abi_encode_commitment_request(q).value
    <2>2. hash = hex_encode(keccak256(input))
        BY <1>6 DEF generate_request_hash, Ok, Err
    <2> HIDE DEF input
    <2>3. parse_hex_bytes(hash, HASH_LEN).ok
        BY <2>2 DEF parse_hex_bytes, hex_decode, hex_encode, Hex, keccak256, HASH_LEN, Ok
    <2> QED BY <1>1, <2>1, <2>3 DEF abi_encode_commitment, Ok
<1>8. sign_commitment(c, EcdsaKey, RecoveryId(c)) = Ok(signature)
    BY <1>7 DEF signature, SignatureOn, sign_commitment, Ok
<1>9. /\ row.request_hash = hash /\ row.ctype = 1 /\ row.payload = p /\ row.slasher = q.slasher
      /\ row.signature = signature /\ row.slot_number = Ok(p.slot) /\ row.processed = FALSE
    <2>1. slot.value <= MAX_I64
        BY <1>4, <1>5, PayloadAssumption
    <2> QED BY <1>1, <1>2, <1>3, <2>1 DEF row, slot, signature, c, RowFor
<1>10. row = [request_hash |-> row.request_hash, ctype |-> row.ctype, payload |-> row.payload,
              slasher |-> row.slasher, signature |-> row.signature,
              slot_number |-> row.slot_number, processed |-> row.processed]
    BY DEF row, RowFor
<1>11. CommitmentOfRow(row).commitment = c
    BY <1>9 DEF CommitmentOfRow, c, hash, CommitmentTo
<1>12. generate_request_hash(RequestOfRow(row)) = Ok(hash)
    <2>1. /\ RequestOfRow(row).ctype = q.ctype /\ RequestOfRow(row).payload = q.payload
          /\ RequestOfRow(row).slasher = q.slasher
        BY <1>9 DEF RequestOfRow
    <2>2. abi_encode_commitment_request(RequestOfRow(row)) = abi_encode_commitment_request(q)
        BY <2>1 DEF abi_encode_commitment_request
    <2> QED BY <1>6, <2>2 DEF generate_request_hash
<1>13. row.slot_number.value = p.slot /\ row.slot_number \in [ok : {TRUE}, value : 0..MAX_I64]
    <2>1. Ok(p.slot).value = p.slot /\ Ok(p.slot) \in [ok : {TRUE}, value : 0..MAX_I64]
        BY <1>5 DEF Ok
    <2> QED BY <1>9, <2>1
<1>14. row \in [request_hash : {row.request_hash}, ctype : {1},
                payload : [form : PayloadForms, slot : Nat, tx : Seq(Byte)], slasher : HexText,
                signature : {row.signature}, slot_number : [ok : {TRUE}, value : 0..MAX_I64],
                processed : BOOLEAN]
    <2>1. /\ row.payload \in [form : PayloadForms, slot : Nat, tx : Seq(Byte)]
          /\ row.slasher \in HexText /\ row.ctype \in {1} /\ row.processed \in BOOLEAN
        BY <1>9
    <2> HIDE DEF p
    <2> QED BY ONLY <1>10, <1>13, <2>1
<1> HIDE DEF p
<1>15. Text(row.payload) \in Seq(Byte) /\ chk_address_format(row.slasher)
    BY <1>9 DEF p
<1>16. parse_inclusion_payload(row.payload)
         = Ok(InclusionPayload(row.slot_number.value, row.payload.tx))
    BY <1>3, <1>9, <1>13 DEF p
<1>17. LET x == CommitmentOfRow(row).commitment IN
       sign_commitment(x, EcdsaKey, RecoveryId(x)) = Ok(row.signature)
    BY <1>8, <1>9, <1>11
<1>18. generate_request_hash(RequestOfRow(row)) = Ok(row.request_hash)
    BY <1>9, <1>12
<1>19. \E m \in signed : m.slot = row.slot_number.value
    BY <1>5, <1>13
<1> QED BY ONLY <1>14, <1>15, <1>16, <1>17, <1>18, <1>19 DEF CommitmentRow, row
\* AnswersVerify and PostsAreGranted, one answer and one message at a time.
LEMMA OneByOne ==
    /\ AnswersVerify <=> \A a \in answers : AnswerVerifies(a)
    /\ PostsAreGranted <=> \A w \in posted : Granted(w, signed, commitments)
BY DEF AnswersVerify, AnswerVerifies, PostsAreGranted, Granted, RestsOn, Binds

\* A commitment request adds a well-formed row and answers with it.
LEMMA RequestAdds ==
    ASSUME SignaturesInv, DelegationsInv, CommitmentRequest
    PROVE  \E row : /\ CommitmentRow(row)
                    /\ commitments' = Append(commitments, row)
                    /\ answers' = answers \cup {[asked |-> row.request_hash, by |-> "request",
                                                 got |-> serialize_commitment(CommitmentOfRow(row))]}
                    /\ UNCHANGED <<signed, signatures, delegations, posted>>
<1>1. PICK w \in RequestInputs : commitment_request(w)
    BY DEF CommitmentRequest
<1> DEFINE parsed == deserialize_request(w)
           q == parsed.value
           valid == validate_and_extract_slot(q.ctype, q.payload)
           hash == generate_request_hash(q)
           c == CommitmentTo(q)
           s == [commitment |-> c, signature |-> SignatureOn(c)]
<1>2. /\ parsed.ok /\ q.ctype = 1 /\ valid.ok /\ hash.ok
      /\ \E d \in verify_delegation_authority(valid.value, q.slasher) :
           find_signing_key_for_committer(d.message.committer)
      /\ chk_address_format(q.slasher)
      /\ save_commitment(s)
      /\ answers' = answers \cup {[asked |-> hash.value, by |-> "request",
                                   got |-> serialize_commitment(s)]}
      /\ UNCHANGED <<signed, signatures, delegations, posted>>
    BY <1>1 DEF commitment_request, CommitmentTo, SignatureOn
<1>3. /\ q.payload \in [form : PayloadForms, slot : Nat, tx : Seq(Byte)]
      /\ q.slasher \in HexText /\ Text(q.payload) \in Seq(Byte)
    BY <1>2, ParsedType
<1>4. commitments' = Append(commitments, RowFor(q))
    <2>1. s.commitment = c /\ s.signature = SignatureOn(c)
        OBVIOUS
    <2> HIDE DEF c, s
    <2>2. save_commitment(s)
        BY <1>2
    <2> QED BY <2>1, <2>2 DEF save_commitment, RowFor, c
<1>5. CommitmentRow(RowFor(q))
    <2>1. Accepted(q)
        BY <1>2, <1>3 DEF Accepted
    <2> HIDE DEF q
    <2> QED BY <2>1, RequestMakesRow
<1>6. CommitmentOfRow(RowFor(q)) = s /\ RowFor(q).request_hash = hash.value
    BY DEF CommitmentOfRow, RowFor, CommitmentTo
<1> HIDE DEF s, q
<1> QED BY <1>2, <1>4, <1>5, <1>6

\* CommitmentRow is about the granted slots and no other state.
LEMMA RowsPersist ==
    ASSUME NEW r, CommitmentRow(r), signed \subseteq signed'
    PROVE  CommitmentRow(r)'
BY DEF CommitmentRow

\* Marking rows as processed leaves them well formed.
LEMMA ProcessedRow ==
    ASSUME NEW r, CommitmentRow(r), NEW q, q = [r EXCEPT !.processed = TRUE]
    PROVE  /\ CommitmentRow(q)
           /\ q.ctype = r.ctype /\ q.payload = r.payload
           /\ q.slasher = r.slasher /\ q.slot_number = r.slot_number
<1>1. r \in [request_hash : {r.request_hash}, ctype : {1},
             payload : [form : PayloadForms, slot : Nat, tx : Seq(Byte)], slasher : HexText,
             signature : {r.signature}, slot_number : [ok : {TRUE}, value : 0..MAX_I64],
             processed : BOOLEAN]
    BY DEF CommitmentRow
<1> DEFINE P == [form : PayloadForms, slot : Nat, tx : Seq(Byte)]
           N == [ok : {TRUE}, value : 0..MAX_I64]
<1> HIDE DEF P, N
<1>2. r \in [request_hash : {r.request_hash}, ctype : {1}, payload : P, slasher : HexText,
             signature : {r.signature}, slot_number : N, processed : BOOLEAN]
    BY <1>1 DEF P, N
<1>3. /\ q.request_hash = r.request_hash /\ q.ctype = r.ctype /\ q.payload = r.payload
      /\ q.slasher = r.slasher /\ q.signature = r.signature /\ q.slot_number = r.slot_number
      /\ q \in [request_hash : {r.request_hash}, ctype : {1}, payload : P, slasher : HexText,
                signature : {r.signature}, slot_number : N, processed : BOOLEAN]
    BY ONLY <1>2, q = [r EXCEPT !.processed = TRUE]
<1>4. CommitmentOfRow(q) = CommitmentOfRow(r) /\ RequestOfRow(q) = RequestOfRow(r)
    BY ONLY <1>3 DEF CommitmentOfRow, RequestOfRow
<1>5. q \in [request_hash : {q.request_hash}, ctype : {1},
             payload : [form : PayloadForms, slot : Nat, tx : Seq(Byte)], slasher : HexText,
             signature : {q.signature}, slot_number : [ok : {TRUE}, value : 0..MAX_I64],
             processed : BOOLEAN]
    BY ONLY <1>3 DEF P, N
<1>6. /\ Text(r.payload) \in Seq(Byte)
      /\ chk_address_format(r.slasher)
      /\ parse_inclusion_payload(r.payload) = Ok(InclusionPayload(r.slot_number.value, r.payload.tx))
      /\ generate_request_hash(RequestOfRow(r)) = Ok(r.request_hash)
      /\ LET c == CommitmentOfRow(r).commitment IN
         sign_commitment(c, EcdsaKey, RecoveryId(c)) = Ok(r.signature)
      /\ \E m \in signed : m.slot = r.slot_number.value
    BY DEF CommitmentRow
<1>7. CommitmentRow(q)
    BY ONLY <1>3, <1>4, <1>5, <1>6 DEF CommitmentRow
<1> QED BY <1>3, <1>7
\* A commitment request keeps the invariant.
LEMMA RequestKeeps ==
    ASSUME IInv, CommitmentRequest
    PROVE  IInv'
<1>1. SignaturesInv /\ DelegationsInv /\ CommitmentsInv /\ AnswersVerify /\ PostsAreGranted
    BY DEF IInv
<1>2. PICK row : /\ CommitmentRow(row)
                 /\ commitments' = Append(commitments, row)
                 /\ answers' = answers \cup {[asked |-> row.request_hash, by |-> "request",
                                              got |-> serialize_commitment(CommitmentOfRow(row))]}
                 /\ UNCHANGED <<signed, signatures, delegations, posted>>
    BY <1>1, RequestAdds
<1>3. PICK S : commitments \in Seq(S)
    BY <1>1 DEF CommitmentsInv
<1> DEFINE n == Len(commitments)
<1>4. /\ n \in Nat /\ DOMAIN commitments = 1..n
      /\ commitments' \in Seq(S \cup {row}) /\ DOMAIN commitments' = 1..(n + 1)
      /\ \A i \in 1..n : commitments'[i] = commitments[i]
      /\ commitments'[n + 1] = row
    <2>1. n \in Nat /\ DOMAIN commitments = 1..n
        BY <1>3, LenProperties
    <2>2. commitments \in Seq(S \cup {row}) /\ row \in S \cup {row}
        BY <1>3, SeqMonotonic
    <2>3. /\ Append(commitments, row) \in Seq(S \cup {row})
          /\ Len(Append(commitments, row)) = n + 1
          /\ \A i \in 1..n : Append(commitments, row)[i] = commitments[i]
          /\ Append(commitments, row)[n + 1] = row
        BY <2>2, AppendProperties
    <2>4. DOMAIN Append(commitments, row) = 1..(n + 1)
        BY <2>3, LenProperties
    <2> QED BY <1>2, <2>1, <2>3, <2>4
<1>5. SignaturesInv' /\ DelegationsInv'
    BY <1>1, <1>2 DEF SignaturesInv, OverConstraints, DelegationsInv, DelegationRow
<1>6. CommitmentsInv'
    <2>1. \A i \in DOMAIN commitments' : CommitmentRow(commitments'[i])
        BY <1>1, <1>2, <1>4 DEF CommitmentsInv
    <2>2. \E T : commitments' \in Seq(T)
        BY <1>4
    <2> QED BY <1>2, <2>1, <2>2 DEF CommitmentsInv, CommitmentRow
<1>7. AnswersVerify'
    <2>1. \A a \in answers : AnswerVerifies(a)
        BY <1>1, OneByOne
    <2>2. AnswerVerifies([asked |-> row.request_hash, by |-> "request",
                          got |-> serialize_commitment(CommitmentOfRow(row))])
        BY <1>2, RowAnswers
    <2>3. \A a \in answers' : AnswerVerifies(a)
        BY <1>2, <2>1, <2>2
    <2> QED BY <2>3 DEF AnswersVerify, AnswerVerifies
<1>8. PostsAreGranted'
    <2>1. \A w \in posted : Granted(w, signed, commitments)
        BY <1>1, OneByOne
    <2>2. DOMAIN commitments \subseteq DOMAIN commitments'
        BY <1>4
    <2>3. \A i \in DOMAIN commitments : commitments'[i] = commitments[i]
        BY <1>4
    <2>4. \A w \in posted : Granted(w, signed, commitments')
        BY <2>1, <2>2, <2>3, GrantedPersists
    <2> QED BY <1>2, <2>4 DEF PostsAreGranted, Granted, RestsOn, Binds
<1> QED BY <1>5, <1>6, <1>7, <1>8 DEF IInv

\* So does reading a commitment back.
LEMMA ResultKeeps ==
    ASSUME IInv, CommitmentResult
    PROVE  IInv'
<1>1. PICK i \in DOMAIN commitments : \E s \in get_commitment_by_hash(commitments[i].request_hash) :
        answers' = answers \cup {[asked |-> commitments[i].request_hash, by |-> "result",
                                  got |-> serialize_commitment(s)]}
    BY DEF CommitmentResult
<1>2. PICK s \in get_commitment_by_hash(commitments[i].request_hash) :
        answers' = answers \cup {[asked |-> commitments[i].request_hash, by |-> "result",
                                  got |-> serialize_commitment(s)]}
    BY <1>1
<1>3. PICK j \in DOMAIN commitments : /\ commitments[j].request_hash = commitments[i].request_hash
                                      /\ s = CommitmentOfRow(commitments[j])
    BY DEF get_commitment_by_hash
<1>4. CommitmentRow(commitments[j])
    BY DEF IInv, CommitmentsInv
<1>5. AnswerVerifies([asked |-> commitments[i].request_hash, by |-> "result",
                      got |-> serialize_commitment(s)])
    <2>1. AnswerVerifies([asked |-> commitments[j].request_hash, by |-> "result",
                          got |-> serialize_commitment(CommitmentOfRow(commitments[j]))])
        BY <1>4, RowAnswers
    <2> QED BY <1>3, <2>1
<1>6. AnswersVerify'
    <2>1. \A a \in answers : AnswerVerifies(a)
        BY OneByOne DEF IInv
    <2>2. \A a \in answers' : AnswerVerifies(a)
        BY <1>2, <1>5, <2>1
    <2> QED BY <2>2 DEF AnswersVerify, AnswerVerifies
<1>7. UNCHANGED <<signed, signatures, delegations, commitments, posted>>
    BY DEF CommitmentResult
<1>8. SignaturesInv' /\ DelegationsInv' /\ CommitmentsInv'
    BY <1>7 DEF IInv, SignaturesInv, OverConstraints, DelegationsInv, DelegationRow, CommitmentsInv, CommitmentRow
<1>9. PostsAreGranted'
    BY <1>7 DEF IInv, PostsAreGranted
<1> QED BY <1>6, <1>8, <1>9 DEF IInv

\* So does a submission.
LEMMA SubmissionKeeps ==
    ASSUME IInv, ProcessDelegation
    PROVE  IInv'
<1>1. SignaturesInv /\ DelegationsInv /\ CommitmentsInv /\ AnswersVerify /\ PostsAreGranted
    BY DEF IInv
<1> DEFINE Message(d) ==
               ConstraintsMessage(d.message.proposer, d.message.delegate, d.message.slot,
                   [i \in DOMAIN DueRows(d) |-> from_inclusion_commitment(DueRows(d)[i].payload)],
                   parse_authorized_builders(authorized_builders).value)
           Signature(d) == sign_constraints_message(Message(d), OurKey, Domain)
           Marked(d) == [i \in DOMAIN commitments |->
                            IF Due(commitments[i], d)
                            THEN [commitments[i] EXCEPT !.processed = TRUE] ELSE commitments[i]]
<1>2. /\ parse_authorized_builders(authorized_builders).ok
      /\ UNCHANGED <<signed, delegations, answers>>
    BY DEF ProcessDelegation
<1>3. PICK r \in Active :
        /\ posted' = posted \cup {serialize_constraints([message |-> Message(DelegationOfRow(r)),
                                                         signature |-> Signature(DelegationOfRow(r))])}
        /\ signatures' = signatures \cup {Signature(DelegationOfRow(r))}
        /\ commitments' = Marked(DelegationOfRow(r))
    BY DEF ProcessDelegation
<1> DEFINE d == DelegationOfRow(r)
           w == serialize_constraints([message |-> Message(d), signature |-> Signature(d)])
<1>4. OverConstraints(Signature(d)) /\ Granted(w, signed, commitments)
    <2>1. r \in delegations
        BY DEF Active
    <2> QED BY <1>1, <1>2, <2>1, SubmissionGranted
<1> HIDE DEF d, w, Signature, Message
<1>5. posted' = posted \cup {w} /\ signatures' = signatures \cup {Signature(d)} /\ commitments' = Marked(d)
    BY <1>3 DEF d, w
<1>6. SignaturesInv'
    <2>1. \A s \in signatures' : (\E m \in signed : s = sign_delegation(m)) \/ OverConstraints(s)
        BY <1>1, <1>4, <1>5 DEF SignaturesInv
    <2> QED BY <1>1, <1>2, <2>1 DEF SignaturesInv, OverConstraints
<1>7. DelegationsInv'
    BY <1>1, <1>2 DEF DelegationsInv, DelegationRow
<1>8. PICK S : commitments \in Seq(S)
    BY <1>1 DEF CommitmentsInv
<1> DEFINE n == Len(commitments)
<1>9. n \in Nat /\ DOMAIN commitments = 1..n
    BY <1>8, LenProperties
<1>10. ASSUME NEW i \in 1..n
       PROVE  /\ CommitmentRow(commitments'[i])
              /\ commitments'[i].ctype = commitments[i].ctype
              /\ commitments'[i].payload = commitments[i].payload
              /\ commitments'[i].slasher = commitments[i].slasher
              /\ commitments'[i].slot_number = commitments[i].slot_number
    <2>1. CommitmentRow(commitments[i])
        BY <1>1, <1>9 DEF CommitmentsInv
    <2>2. commitments'[i] = IF Due(commitments[i], d) THEN [commitments[i] EXCEPT !.processed = TRUE]
                            ELSE commitments[i]
        BY <1>5, <1>9
    <2>3. CASE Due(commitments[i], d)
        BY <2>1, <2>2, <2>3, ProcessedRow
    <2>4. CASE ~Due(commitments[i], d)
        BY <2>1, <2>2, <2>4
    <2> QED BY <2>3, <2>4
<1>11. DOMAIN commitments' = 1..n /\ commitments' \in Seq({commitments'[i] : i \in 1..n})
    <2>1. commitments' = [i \in 1..n |-> commitments'[i]]
        BY <1>5, <1>9
    <2>2. commitments' \in [1..n -> {commitments'[i] : i \in 1..n}]
        BY <2>1
    <2> QED BY <1>9, <2>2, FunctionIsSeq
<1>12. CommitmentsInv'
    <2>1. \A i \in DOMAIN commitments' : CommitmentRow(commitments'[i])
        BY <1>10, <1>11
    <2>2. \E T : commitments' \in Seq(T)
        BY <1>11
    <2> QED BY <1>2, <2>1, <2>2 DEF CommitmentsInv, CommitmentRow
<1>13. AnswersVerify'
    BY <1>1, <1>2 DEF AnswersVerify
<1>14. PostsAreGranted'
    <2>1. \A x \in posted : Granted(x, signed, commitments)
        BY <1>1, OneByOne
    <2>2. \A x \in posted' : Granted(x, signed, commitments)
        BY <1>4, <1>5, <2>1
    <2>3. DOMAIN commitments \subseteq DOMAIN commitments'
        BY <1>9, <1>11
    <2>4. \A i \in DOMAIN commitments :
             /\ commitments'[i].ctype = commitments[i].ctype
             /\ commitments'[i].payload = commitments[i].payload
             /\ commitments'[i].slasher = commitments[i].slasher
             /\ commitments'[i].slot_number = commitments[i].slot_number
        BY <1>9, <1>10
    <2>5. \A x \in posted' : Granted(x, signed, commitments')
        BY <2>2, <2>3, <2>4, GrantedPersists
    <2> QED BY <1>2, <2>5 DEF PostsAreGranted, Granted, RestsOn, Binds
<1> QED BY <1>6, <1>7, <1>12, <1>13, <1>14 DEF IInv
-----------------------------------------------------------------------------
(* What follows.                                                           *)

\* A request that has a stored commitment's hash is the one that was committed to.
LEMMA HashesBindNow ==
    ASSUME CommitmentsInv
    PROVE  RequestHashBinds
<1> SUFFICES ASSUME NEW i \in DOMAIN commitments, NEW x \in Hashed,
                    x.hash = Ok(commitments[i].request_hash)
             PROVE  /\ x.request.ctype = commitments[i].ctype
                    /\ Text(x.request.payload) = Text(commitments[i].payload)
                    /\ x.request.slasher.bytes = commitments[i].slasher.bytes
    BY DEF RequestHashBinds
<1> DEFINE r == commitments[i]
           q == x.request
           p == RequestOfRow(r)
<1>1. CommitmentRow(r)
    BY DEF CommitmentsInv
<1>2. q \in Parsed /\ x.hash = generate_request_hash(q)
    BY DEF Hashed
<1>3. PICK w \in RequestInputs : deserialize_request(w).ok /\ q = deserialize_request(w).value
    BY <1>2 DEF Parsed
<1>4. q.ctype \in Nat /\ q.slasher \in HexText /\ Text(q.payload) \in Seq(Byte)
    BY <1>3, ParsedType
<1>5. q.slasher.bytes \in Seq(Byte)
    BY <1>4 DEF HexText
<1>6. /\ r.ctype = 1 /\ r.slasher \in HexText /\ Text(r.payload) \in Seq(Byte)
      /\ generate_request_hash(p) = Ok(r.request_hash)
    BY <1>1 DEF CommitmentRow
<1>7. /\ p.ctype = r.ctype /\ p.payload = r.payload /\ p.slasher = r.slasher
      /\ r.slasher.bytes \in Seq(Byte)
    BY <1>6 DEF RequestOfRow, HexText
<1> HIDE DEF q, p, r
<1>8. generate_request_hash(q).ok /\ generate_request_hash(q) = generate_request_hash(p)
    BY <1>2, <1>6 DEF r, Ok
<1>9. p.ctype \in Nat /\ Text(p.payload) \in Seq(Byte) /\ p.slasher.bytes \in Seq(Byte)
    BY <1>6, <1>7
<1>10. q.ctype = p.ctype /\ Text(q.payload) = Text(p.payload) /\ q.slasher.bytes = p.slasher.bytes
    BY <1>4, <1>5, <1>8, <1>9, HashBinds
<1> QED BY <1>7, <1>10 DEF q, r

\* Every reader of a stored payload reads the same.
LEMMA ReadersAgreeNow ==
    ASSUME CommitmentsInv
    PROVE  ReadersAgree
<1> SUFFICES ASSUME NEW i \in DOMAIN commitments
             PROVE  LET r == commitments[i] IN
                    /\ r.slot_number.ok
                    /\ \E m \in signed : m.slot = r.slot_number.value
                    /\ estimate_gas_for_commitment(r.ctype, r.payload)
                         = Ok(31000 + 16 * Len(r.payload.tx))
    BY DEF ReadersAgree
<1> DEFINE r == commitments[i]
           tx == r.payload.tx
           parsed == parse_inclusion_payload(r.payload)
<1>1. CommitmentRow(r)
    BY DEF CommitmentsInv
<1>2. /\ r.ctype = 1 /\ r.slot_number.ok = TRUE /\ tx \in Seq(Byte)
      /\ \E m \in signed : m.slot = r.slot_number.value
    <2>1. /\ r.ctype \in {1} /\ r.slot_number \in [ok : {TRUE}, value : 0..MAX_I64]
          /\ r.payload \in [form : PayloadForms, slot : Nat, tx : Seq(Byte)]
        BY <1>1 DEF CommitmentRow
    <2>2. \E m \in signed : m.slot = r.slot_number.value
        BY <1>1 DEF CommitmentRow
    <2> HIDE DEF r
    <2> QED BY <2>1, <2>2
<1>3. parsed = Ok(InclusionPayload(r.slot_number.value, tx))
    BY <1>1 DEF CommitmentRow
<1> HIDE DEF r, parsed, tx
<1>4. parsed.ok /\ parsed.value.signed_tx = tx
    BY <1>3 DEF Ok, InclusionPayload
<1>5. estimate_gas_for_commitment(r.ctype, r.payload) = Ok(21000 + 16 * Len(tx) + 10000)
    BY <1>2, <1>4 DEF estimate_gas_for_commitment, parsed
<1>6. 21000 + 16 * Len(tx) + 10000 = 31000 + 16 * Len(tx)
    BY <1>2, LenProperties
<1>7. estimate_gas_for_commitment(r.ctype, r.payload) = Ok(31000 + 16 * Len(tx))
    BY <1>5, <1>6
<1> QED BY <1>2, <1>7 DEF r, tx

\* What is in the table is what was granted.
LEMMA AuthenticNow ==
    ASSUME DelegationsInv
    PROVE  DelegationsAuthentic
BY DEF DelegationsInv, DelegationRow, DelegationsAuthentic

\* A row is found under the slot it is read back with, and under no other.
LEMMA SlotOfRow ==
    ASSUME NEW r, DelegationRow(r), NEW slot \in 0..MAX_U64
    PROVE  r.slot_number = as_i64(slot) <=> DelegationOfRow(r).message.slot = slot
<1>1. r.slot_number \in 0..MAX_I64
    BY DEF DelegationRow
<1>2. DelegationOfRow(r).message.slot = as_u64(r.slot_number)
    BY DEF DelegationOfRow
<1>3. as_u64(r.slot_number) = r.slot_number
    BY <1>1, PayloadAssumption DEF as_u64
<1>4. r.slot_number = as_i64(slot) <=> r.slot_number = slot
    BY <1>1, PayloadAssumption DEF as_i64
<1> QED BY <1>2, <1>3, <1>4

\* The lookups agree.
LEMMA LookupsAgreeNow ==
    ASSUME DelegationsInv
    PROVE  LookupsAgree
<1> SUFFICES ASSUME NEW m \in Messages
             PROVE  LET here == get_delegations_for_slot(m.slot) IN
                    /\ get_delegation_by_proposer_slot(m.proposer, m.slot)
                         = {d \in here : d.message.proposer = m.proposer}
                    /\ Cardinality(get_delegation_by_proposer_slot(m.proposer, m.slot)) <= 1
                    /\ {d \in get_delegations_by_delegate(m.delegate) : d.message.slot = m.slot}
                         = {d \in here : d.message.delegate = m.delegate}
                    /\ \A a \in Committers :
                         delegation_exists_for_slot_and_committer(m.slot, a) =>
                             \E d \in here : normalize_address(d.message.committer) = normalize_address(a)
    BY DEF LookupsAgree
<1> DEFINE here == get_delegations_for_slot(m.slot)
           found == get_delegation_by_proposer_slot(m.proposer, m.slot)
<1>1. m.slot \in 0..MAX_U64
    BY MessagesAreGrants DEF GrantType
<1>2. \A r \in Active : r \in delegations /\ DelegationRow(r)
    BY DEF Active, DelegationsInv
<1>3. \A r : /\ DelegationOfRow(r).message.proposer = r.proposer_pubkey
             /\ DelegationOfRow(r).message.delegate = r.delegate_pubkey
             /\ DelegationOfRow(r).message.committer = r.committer_address
    BY DEF DelegationOfRow
<1>4. \A r \in Active : r.slot_number = as_i64(m.slot) <=> DelegationOfRow(r).message.slot = m.slot
    BY <1>1, <1>2, SlotOfRow
<1>5. found = {d \in here : d.message.proposer = m.proposer}
    BY <1>3 DEF get_delegation_by_proposer_slot, get_delegations_for_slot
<1>6. Cardinality(found) <= 1
    <2>1. \A x, y \in found : x = y
        <3> SUFFICES ASSUME NEW x \in found, NEW y \in found PROVE x = y
            OBVIOUS
        <3>1. PICK r \in Active : /\ r.proposer_pubkey = m.proposer
                                  /\ r.slot_number = as_i64(m.slot) /\ x = DelegationOfRow(r)
            BY DEF get_delegation_by_proposer_slot
        <3>2. PICK q \in Active : /\ q.proposer_pubkey = m.proposer
                                  /\ q.slot_number = as_i64(m.slot) /\ y = DelegationOfRow(q)
            BY DEF get_delegation_by_proposer_slot
        <3>3. r = q
            BY <1>2, <3>1, <3>2 DEF DelegationsInv
        <3> QED BY <3>1, <3>2, <3>3
    <2> HIDE DEF found
    <2>2. CASE found = {}
        BY <2>2, FS_EmptySet
    <2>3. CASE found # {}
        <3>1. PICK x : found = {x}
            BY <2>1, <2>3
        <3> QED BY <3>1, FS_Singleton
    <2> QED BY <2>2, <2>3
<1>7. {d \in get_delegations_by_delegate(m.delegate) : d.message.slot = m.slot}
        = {d \in here : d.message.delegate = m.delegate}
    BY <1>3, <1>4 DEF get_delegations_by_delegate, get_delegations_for_slot
<1>8. ASSUME NEW a \in Committers, delegation_exists_for_slot_and_committer(m.slot, a)
      PROVE  \E d \in here : normalize_address(d.message.committer) = normalize_address(a)
    <2>1. PICK r \in Active : /\ r.slot_number = as_i64(m.slot)
                              /\ LOWER(r.committer_address) = LOWER(a)
        BY <1>8 DEF delegation_exists_for_slot_and_committer
    <2>2. r.committer_address \in HexText /\ a \in HexText
        <3>1. r.committer_address \in HexText
            BY <1>2 DEF DelegationRow
        <3>2. a \in HexText
            BY EncodingsAssumption DEF Committers
        <3> QED BY <3>1, <3>2
    <2>3. \A h \in HexText : LOWER(h).odd = h.odd /\ LOWER(h).bytes = h.bytes
        BY DEF LOWER, HexText
    <2>4. normalize_address(r.committer_address) = normalize_address(a)
        BY <2>1, <2>2, <2>3 DEF normalize_address
    <2>5. DelegationOfRow(r) \in here
        BY <2>1 DEF get_delegations_for_slot
    <2> QED BY <1>3, <2>4, <2>5
<1> QED BY <1>5, <1>6, <1>7, <1>8
-----------------------------------------------------------------------------
(* The theorems.                                                           *)

\* The tables, the signatures in circulation, the answers and what was posted fit
\* together in every state: the inductive invariant of the encodings.
THEOREM EncodingsInvariant == Spec => []IInv
<1>1. Init => IInv
    <2> SUFFICES ASSUME Init PROVE IInv
        OBVIOUS
    <2>1. signed = {} /\ signatures = {} /\ delegations = {} /\ answers = {} /\ posted = {}
        BY DEF Init
    <2>2. commitments \in Seq({}) /\ DOMAIN commitments = {}
        <3>1. commitments = <<>>
            BY DEF Init
        <3>2. <<>> \in Seq({}) /\ Len(<<>>) = 0
            BY EmptySeq
        <3>3. DOMAIN <<>> = 1..0
            BY <3>2, LenProperties
        <3> QED BY <3>1, <3>2, <3>3
    <2> QED BY <2>1, <2>2 DEF IInv, SignaturesInv, DelegationsInv, CommitmentsInv, AnswersVerify,
                              PostsAreGranted
<1>2. IInv /\ [Next]_vars => IInv'
    <2> SUFFICES ASSUME IInv, [Next]_vars PROVE IInv'
        OBVIOUS
    <2>1. CASE ProposerSigns
        <3>1. /\ UNCHANGED <<delegations, commitments, posted, answers>>
              /\ \E m \in Messages \ signed : /\ signed' = signed \cup {m}
                                              /\ signatures' = signatures \cup {sign_delegation(m)}
            BY <2>1 DEF ProposerSigns
        <3>2. SignaturesInv'
            BY <3>1 DEF IInv, SignaturesInv, OverConstraints
        <3>3. DelegationsInv' /\ CommitmentsInv'
            BY <3>1 DEF IInv, DelegationsInv, DelegationRow, CommitmentsInv, CommitmentRow
        <3>4. AnswersVerify' /\ PostsAreGranted'
            <4>1. AnswersVerify'
                BY <3>1 DEF IInv, AnswersVerify
            <4>2. \A w \in posted : Granted(w, signed, commitments)
                BY OneByOne DEF IInv
            <4>3. signed \subseteq signed'
                BY <3>1
            <4>4. \A w \in posted : Granted(w, signed', commitments)
                BY <4>2, <4>3, GrantedPersists
            <4>5. PostsAreGranted'
                BY <3>1, <4>4 DEF PostsAreGranted, Granted, RestsOn, Binds
            <4> QED BY <4>1, <4>5
        <3> QED BY <3>2, <3>3, <3>4 DEF IInv
    <2>2. CASE PollDelegation \/ SaveDelegation
        <3>1. /\ UNCHANGED <<signed, signatures, commitments, posted, answers>>
              /\ \E y \in Offered : y.ok /\ save_delegation(y.value)
            BY <2>2 DEF PollDelegation, SaveDelegation
        <3>2. DelegationsInv'
            BY <3>1, SaveKeeps DEF IInv
        <3>3. SignaturesInv' /\ CommitmentsInv'
            BY <3>1 DEF IInv, SignaturesInv, OverConstraints, CommitmentsInv, CommitmentRow
        <3>4. AnswersVerify' /\ PostsAreGranted'
            <4>1. AnswersVerify'
                BY <3>1 DEF IInv, AnswersVerify
            <4>2. PostsAreGranted'
                BY <3>1 DEF IInv, PostsAreGranted
            <4> QED BY <4>1, <4>2
        <3> QED BY <3>2, <3>3, <3>4 DEF IInv
    <2>3. CASE ExpireDelegations
        <3>1. /\ UNCHANGED <<signed, signatures, commitments, posted, answers>>
              /\ \E r \in Active : deactivate_expired_delegations(as_u64(r.slot_number) + 1)
            BY <2>3 DEF ExpireDelegations
        <3>2. DelegationsInv'
            BY <3>1, ExpireKeeps DEF IInv
        <3>3. SignaturesInv' /\ CommitmentsInv'
            BY <3>1 DEF IInv, SignaturesInv, OverConstraints, CommitmentsInv, CommitmentRow
        <3>4. AnswersVerify' /\ PostsAreGranted'
            <4>1. AnswersVerify'
                BY <3>1 DEF IInv, AnswersVerify
            <4>2. PostsAreGranted'
                BY <3>1 DEF IInv, PostsAreGranted
            <4> QED BY <4>1, <4>2
        <3> QED BY <3>2, <3>3, <3>4 DEF IInv
    <2>4. CASE CommitmentRequest
        BY <2>4, RequestKeeps
    <2>5. CASE CommitmentResult
        BY <2>5, ResultKeeps
    <2>6. CASE ProcessDelegation
        BY <2>6, SubmissionKeeps
    <2>7. CASE UNCHANGED vars
        <3>1. UNCHANGED <<signed, signatures, delegations, commitments, posted, answers>>
            BY <2>7 DEF vars
        <3>2. SignaturesInv'
            BY <3>1 DEF IInv, SignaturesInv, OverConstraints
        <3>3. DelegationsInv'
            BY <3>1 DEF IInv, DelegationsInv, DelegationRow
        <3>4. CommitmentsInv'
            BY <3>1 DEF IInv, CommitmentsInv, CommitmentRow
        <3>5. AnswersVerify' /\ PostsAreGranted'
            <4>1. AnswersVerify'
                BY <3>1 DEF IInv, AnswersVerify
            <4>2. PostsAreGranted'
                BY <3>1 DEF IInv, PostsAreGranted
            <4> QED BY <4>1, <4>2
        <3> QED BY <3>2, <3>3, <3>4, <3>5 DEF IInv
    <2> QED BY <2>1, <2>2, <2>3, <2>4, <2>5, <2>6, <2>7 DEF Next
<1> QED BY <1>1, <1>2, PTL DEF Spec

\* What is in the table is what its proposer signed, whatever a relay puts
\* together from signatures it has seen, the gateway's own over constraints among
\* them: delegations and constraints are told apart by their first word even where
\* their domains are the same.
THEOREM DelegationsAreAuthentic == Spec => []DelegationsAuthentic
<1>1. IInv => DelegationsAuthentic
    BY AuthenticNow DEF IInv
<1> QED BY <1>1, EncodingsInvariant, PTL

\* A request is taken for a duplicate only of itself.
THEOREM HashesBind == Spec => []RequestHashBinds
<1>1. IInv => RequestHashBinds
    BY HashesBindNow DEF IInv
<1> QED BY <1>1, EncodingsInvariant, PTL

\* The client can parse and verify every answer, and it is for its request.
THEOREM AnswersAreVerifiable == Spec => []AnswersVerify
<1>1. IInv => AnswersVerify
    BY DEF IInv
<1> QED BY <1>1, EncodingsInvariant, PTL

\* The handler, the insert, the submission job and the fee engine read the same
\* slot and transaction from a payload.
THEOREM ReadersOfPayloadsAgree == Spec => []ReadersAgree
<1>1. IInv => ReadersAgree
    BY ReadersAgreeNow DEF IInv
<1> QED BY <1>1, EncodingsInvariant, PTL

\* What is posted rests, byte for byte, on a grant its proposer signed and on
\* commitments clients were given under it, and is signed by the gateway.
THEOREM PostsRestOnGrants == Spec => []PostsAreGranted
<1>1. IInv => PostsAreGranted
    BY DEF IInv
<1> QED BY <1>1, EncodingsInvariant, PTL

\* The lookups of the delegations table agree with each other.
THEOREM TableLookupsAgree == Spec => []LookupsAgree
<1>1. IInv => LookupsAgree
    BY LookupsAgreeNow DEF IInv
<1> QED BY <1>1, EncodingsInvariant, PTL
=============================================================================
