------------------------- MODULE SessionFileProofs --------------------------
(***************************************************************************)
(* Proofs about the session file: LoadSession gives back what Save wrote,  *)
(* and on a part of it an error or the keys.  What a loop of the code      *)
(* computes is a recursive function of the model: that it satisfies its    *)
(* recursion, and what follows from it, is proved from the induction       *)
(* principle for sets of naturals.                                         *)
(***************************************************************************)
EXTENDS Octets, SequenceTheorems, WellFoundedInduction, TLAPS

-----------------------------------------------------------------------------
(* Induction and recursion.                                                *)

Below == {p \in Nat \X Nat : p[1] < p[2]}

LEMMA BelowIsWellFounded == IsWellFoundedOn(Below, Nat)
<1>1. Below = OpToRel(<, Nat)
  BY DEF Below, OpToRel
<1> QED
  BY <1>1, NatLessThanWellFounded

(* A set that contains 0 and with each number the next is all of Nat.      *)
LEMMA Induction ==
  ASSUME NEW S \in SUBSET Nat, 0 \in S, \A n \in S : n + 1 \in S
  PROVE  S = Nat
<1> SUFFICES ASSUME Nat \ S # {} PROVE FALSE
  OBVIOUS
<1>1. PICK m \in Nat \ S : \A y \in Nat \ S : ~ (<<y, m>> \in Below)
  <2>1. Nat \ S \subseteq Nat
    OBVIOUS
  <2> QED
    BY <2>1, BelowIsWellFounded, WFMin
<1>2. m # 0 /\ m - 1 \in Nat
  BY <1>1
<1>3. <<m - 1, m>> \in Below
  BY <1>1, <1>2 DEF Below
<1>4. m - 1 \in S
  BY <1>1, <1>2, <1>3
<1>5. (m - 1) + 1 = m
  BY <1>1
<1> QED
  BY <1>1, <1>4, <1>5

(* The function that starts at a and goes on by step.                      *)
IsSteps(g, n, a, step) ==
  g = [i \in 0..n |-> IF i = 0 THEN a ELSE step[<<i, g[i - 1]>>]]
Steps(n, a, step) == CHOOSE g : IsSteps(g, n, a, step)

Stepping(D, n, a, step) == n \in Nat /\ a \in D /\ step \in [(1..n) \X D -> D]

LEMMA Recursion ==
  ASSUME NEW D, NEW n, NEW a, NEW step, Stepping(D, n, a, step)
  PROVE  /\ Steps(n, a, step) \in [0..n -> D]
         /\ Steps(n, a, step)[0] = a
         /\ \A i \in 1..n : Steps(n, a, step)[i] = step[<<i, Steps(n, a, step)[i - 1]>>]
<1> USE DEF Stepping
<1> DEFINE Holds(m) == \E g \in [0..m -> D] : IsSteps(g, m, a, step)
           S == {m \in Nat : m <= n => Holds(m)}
<1>1. 0 \in S
  <2>1. [i \in 0..0 |-> a] \in [0..0 -> D]
    OBVIOUS
  <2>2. IsSteps([i \in 0..0 |-> a], 0, a, step)
    BY DEF IsSteps
  <2> QED
    BY <2>1, <2>2
<1>2. ASSUME NEW m \in S PROVE m + 1 \in S
  <2> SUFFICES ASSUME m + 1 <= n PROVE Holds(m + 1)
    OBVIOUS
  <2>1. PICK g \in [0..m -> D] : IsSteps(g, m, a, step)
    OBVIOUS
  <2> DEFINE h == [i \in 0..m + 1 |-> IF i <= m THEN g[i] ELSE step[<<i, g[m]>>]]
  <2>2. \A i \in 0..m : g[i] \in D /\ i \in 0..m + 1 /\ i <= m
    OBVIOUS
  <2>3. step[<<m + 1, g[m]>>] \in D
    <3>1. m + 1 \in 1..n /\ g[m] \in D
      BY <2>2
    <3> QED
      BY <3>1
  <2>4. h[0] = a
    BY <2>1 DEF IsSteps
  <2>5. \A i \in 0..m + 1 : h[i] \in D
    BY <2>2, <2>3
  <2>6. ASSUME NEW i \in 1..m + 1 PROVE h[i] = step[<<i, h[i - 1]>>]
    <3>1. CASE i <= m
      <4>1. i # 0 /\ i \in 0..m /\ i \in 0..m + 1 /\ i - 1 \in 0..m + 1 /\ i - 1 <= m
        BY <3>1
      <4>2. g[i] = step[<<i, g[i - 1]>>]
        BY <2>1, <4>1 DEF IsSteps
      <4>3. h[i] = g[i] /\ h[i - 1] = g[i - 1]
        BY <3>1, <4>1
      <4> HIDE DEF h
      <4> QED
        BY <4>2, <4>3
    <3>2. CASE i = m + 1
      BY <3>2
    <3> QED
      BY <3>1, <3>2
  <2>7. h \in [0..m + 1 -> D]
    BY <2>5
  <2>8. DOMAIN h = 0..m + 1 /\ h = [i \in DOMAIN h |-> h[i]]
    BY <2>7
  <2>9. IsSteps(h, m + 1, a, step)
    <3> HIDE DEF h
    <3> QED
      BY <2>4, <2>6, <2>8 DEF IsSteps
  <2> HIDE DEF h
  <2> QED
    BY <2>7, <2>9
<1>3. S = Nat
  <2>1. S \in SUBSET Nat
    OBVIOUS
  <2> HIDE DEF S
  <2> QED
    BY <1>1, <1>2, <2>1, Induction
<1>4. \E g : IsSteps(g, n, a, step)
  <2>1. n \in S
    BY <1>3
  <2> QED
    BY <2>1
<1>5. IsSteps(Steps(n, a, step), n, a, step)
  BY <1>4 DEF Steps
<1> DEFINE g == Steps(n, a, step)
<1>6. /\ g = [i \in 0..n |-> IF i = 0 THEN a ELSE step[<<i, g[i - 1]>>]]
      /\ DOMAIN g = 0..n
  <2> HIDE DEF g
  <2>1. IsSteps(g, n, a, step)
    BY <1>5 DEF g
  <2> QED
    BY <2>1 DEF IsSteps
<1> HIDE DEF g
<1>7. g[0] = a /\ \A i \in 1..n : g[i] = step[<<i, g[i - 1]>>]
  BY <1>6
<1>8. \A i \in 0..n : g[i] \in D
  <2> DEFINE T == {i \in Nat : i <= n => g[i] \in D}
  <2>1. 0 \in T
    BY <1>7
  <2>2. ASSUME NEW i \in T PROVE i + 1 \in T
    <3> SUFFICES ASSUME i + 1 <= n PROVE g[i + 1] \in D
      OBVIOUS
    <3>1. g[i] \in D /\ i + 1 \in 1..n /\ (i + 1) - 1 = i
      OBVIOUS
    <3>2. g[i + 1] = step[<<i + 1, g[i]>>]
      BY <1>7, <3>1
    <3> QED
      BY <3>1, <3>2
  <2>3. T = Nat
    <3>1. T \in SUBSET Nat
      OBVIOUS
    <3> HIDE DEF T
    <3> QED
      BY <2>1, <2>2, <3>1, Induction
  <2> QED
    BY <2>3
<1>9. g \in [0..n -> D]
  BY <1>6, <1>8
<1> QED
  BY <1>7, <1>9 DEF g

Follows(f, D, n, a, step) ==
  /\ f = [i \in 0..n |-> f[i]]
  /\ f[0] = a
  /\ \A i \in 1..n : f[i - 1] \in D => f[i] = step[<<i, f[i - 1]>>]

LEMMA OnlySteps ==
  ASSUME NEW D, NEW n, NEW a, NEW step, Stepping(D, n, a, step),
         NEW f, Follows(f, D, n, a, step)
  PROVE  f = Steps(n, a, step)
<1> USE DEF Follows
<1> DEFINE g == Steps(n, a, step)
<1>1. /\ g \in [0..n -> D]
      /\ g[0] = a
      /\ \A i \in 1..n : g[i] = step[<<i, g[i - 1]>>]
  BY Recursion
<1>2. n \in Nat
  BY DEF Stepping
<1> HIDE DEF g
<1> DEFINE T == {i \in Nat : i <= n => f[i] = g[i]}
<1>3. 0 \in T
  BY <1>1
<1>4. ASSUME NEW i \in T PROVE i + 1 \in T
  <2> SUFFICES ASSUME i + 1 <= n PROVE f[i + 1] = g[i + 1]
    OBVIOUS
  <2>1. i + 1 \in 1..n /\ (i + 1) - 1 = i /\ f[i] = g[i] /\ i \in 0..n
    BY <1>2
  <2>2. f[i] \in D
    BY <1>1, <2>1
  <2>3. f[i + 1] = step[<<i + 1, f[i]>>] /\ g[i + 1] = step[<<i + 1, g[i]>>]
    BY <1>1, <2>1, <2>2
  <2> QED
    BY <2>1, <2>3
<1>5. T = Nat
  <2>1. T \in SUBSET Nat
    OBVIOUS
  <2> HIDE DEF T
  <2>2. \A i \in T : i + 1 \in T
    BY <1>4
  <2> QED
    BY <1>3, <2>1, <2>2, Induction
<1>6. \A i \in 0..n : f[i] = g[i]
  BY <1>2, <1>5
<1>7. f = g
  BY <1>1, <1>6
<1> QED
  BY <1>7 DEF g

-----------------------------------------------------------------------------
(* Byte strings.                                                           *)

Str == Seq(Byte)

LEMMA ByteValues == Byte = 0..255 /\ Byte \subseteq Nat
BY ByteAssumption DEF Byte

LEMMA StrValues ==
  ASSUME NEW s \in Str
  PROVE  Len(s) \in Nat /\ \A i \in 1..Len(s) : s[i] \in 0..255 /\ s[i] \in Nat
<1>1. s \in Seq(Byte)
  BY DEF Str
<1>2. Len(s) \in Nat /\ \A i \in 1..Len(s) : s[i] \in Byte
  BY <1>1, LenProperties, ElementOfSeq
<1> QED
  BY <1>2, ByteValues

LEMMA CutSequence ==
  ASSUME NEW S, NEW s \in Seq(S), NEW n \in 0..Len(s)
  PROVE  /\ First(n, s) \in Seq(S) /\ Len(First(n, s)) = n
         /\ After(n, s) \in Seq(S) /\ Len(After(n, s)) = Len(s) - n
         /\ \A i \in 1..n : First(n, s)[i] = s[i]
         /\ \A i \in 1..Len(s) - n : After(n, s)[i] = s[n + i]
         /\ First(n, s) \o After(n, s) = s
<1>1. Len(s) \in Nat /\ \A i \in 1..Len(s) : s[i] \in S
  BY ElementOfSeq, LenProperties
<1>2. /\ First(n, s) \in Seq(S) /\ Len(First(n, s)) = n
      /\ \A i \in 1..n : First(n, s)[i] = s[i]
  BY <1>1, SubSeqProperties DEF First
<1>3. /\ After(n, s) \in Seq(S) /\ Len(After(n, s)) = Len(s) - n
      /\ \A i \in 1..Len(s) - n : After(n, s)[i] = s[n + i]
  <2>1. \A i \in n + 1 .. Len(s) : s[i] \in S
    BY <1>1
  <2>2. /\ SubSeq(s, n + 1, Len(s)) \in Seq(S)
        /\ Len(SubSeq(s, n + 1, Len(s)))
             = IF n + 1 <= Len(s) THEN Len(s) - (n + 1) + 1 ELSE 0
        /\ \A i \in 1..Len(s) - (n + 1) + 1 :
             SubSeq(s, n + 1, Len(s))[i] = s[n + 1 + i - 1]
    BY <1>1, <2>1, SubSeqProperties
  <2> QED
    BY <1>1, <2>2 DEF After
<1>4. First(n, s) \o After(n, s) = s
  <2> HIDE DEF First, After
  <2>1. /\ First(n, s) \o After(n, s) \in Seq(S)
        /\ Len(First(n, s) \o After(n, s)) = Len(s)
        /\ \A i \in 1..Len(s) : (First(n, s) \o After(n, s))[i]
              = IF i <= n THEN First(n, s)[i] ELSE After(n, s)[i - n]
    BY <1>1, <1>2, <1>3, ConcatProperties
  <2>2. \A i \in 1..Len(s) : (First(n, s) \o After(n, s))[i] = s[i]
    BY <1>1, <1>2, <1>3, <2>1
  <2> QED
    BY <2>1, <2>2, SeqEqual
<1> QED
  BY <1>2, <1>3, <1>4

(* What begins a string that begins with a.                                *)
LEMMA Split ==
  ASSUME NEW S, NEW a \in Seq(S), NEW b \in Seq(S), NEW p \in Seq(S),
         NEW q \in Seq(S), p \o q = a \o b, Len(a) <= Len(p)
  PROVE  /\ First(Len(a), p) = a
         /\ After(Len(a), p) \o q = b
<1>1. Len(a) \in 0..Len(p) /\ Len(p) \in Nat
  BY LenProperties
<1>2. /\ First(Len(a), p) \in Seq(S) /\ Len(First(Len(a), p)) = Len(a)
      /\ After(Len(a), p) \in Seq(S)
      /\ \A i \in 1..Len(a) : First(Len(a), p)[i] = p[i]
      /\ First(Len(a), p) \o After(Len(a), p) = p
  BY <1>1, CutSequence
<1>3. \A i \in 1..Len(a) : p[i] = a[i]
  <2>1. \A i \in 1..Len(p) + Len(q) : (p \o q)[i] = IF i <= Len(p) THEN p[i] ELSE q[i - Len(p)]
    BY ConcatProperties
  <2>2. \A i \in 1..Len(a) + Len(b) : (a \o b)[i] = IF i <= Len(a) THEN a[i] ELSE b[i - Len(a)]
    BY ConcatProperties
  <2>3. Len(q) \in Nat /\ Len(b) \in Nat /\ Len(a) \in Nat
    BY LenProperties
  <2> QED
    BY <1>1, <2>1, <2>2, <2>3
<1>4. First(Len(a), p) = a
  BY <1>2, <1>3, SeqEqual
<1>5. After(Len(a), p) \o q = b
  <2>1. /\ Len(After(Len(a), p)) = Len(p) - Len(a)
        /\ \A i \in 1..Len(p) - Len(a) : After(Len(a), p)[i] = p[Len(a) + i]
    BY <1>1, CutSequence
  <2>2. Len(q) \in Nat /\ Len(b) \in Nat /\ Len(a) \in Nat
    BY LenProperties
  <2>3. Len(p) + Len(q) = Len(a) + Len(b)
    BY ConcatProperties
  <2>4. /\ After(Len(a), p) \o q \in Seq(S)
        /\ Len(After(Len(a), p) \o q) = Len(b)
        /\ \A i \in 1..Len(b) : (After(Len(a), p) \o q)[i]
              = IF i <= Len(p) - Len(a) THEN p[Len(a) + i]
                ELSE q[i - (Len(p) - Len(a))]
    <3>1. After(Len(a), p) \in Seq(S)
      BY <1>2
    <3>2. /\ After(Len(a), p) \o q \in Seq(S)
          /\ Len(After(Len(a), p) \o q) = Len(After(Len(a), p)) + Len(q)
          /\ \A i \in 1..Len(After(Len(a), p)) + Len(q) : (After(Len(a), p) \o q)[i]
                = IF i <= Len(After(Len(a), p)) THEN After(Len(a), p)[i]
                  ELSE q[i - Len(After(Len(a), p))]
      BY <3>1, ConcatProperties
    <3> HIDE DEF After
    <3> QED
      BY <1>1, <2>1, <2>2, <2>3, <3>2
  <2>5. \A i \in 1..Len(p) + Len(q) :
          (p \o q)[i] = IF i <= Len(p) THEN p[i] ELSE q[i - Len(p)]
    BY ConcatProperties
  <2>6. \A i \in 1..Len(a) + Len(b) :
          (a \o b)[i] = IF i <= Len(a) THEN a[i] ELSE b[i - Len(a)]
    BY ConcatProperties
  <2>7. ASSUME NEW i \in 1..Len(b)
        PROVE  (After(Len(a), p) \o q)[i] = b[i]
    <3>1. /\ Len(a) + i \in 1..Len(p) + Len(q) /\ Len(a) + i \in 1..Len(a) + Len(b)
          /\ ~ (Len(a) + i <= Len(a)) /\ (Len(a) + i) - Len(a) = i
      BY <2>2, <2>3
    <3>2. (p \o q)[Len(a) + i] = b[i]
      BY <2>6, <3>1
    <3>3. (After(Len(a), p) \o q)[i] = (p \o q)[Len(a) + i]
      <4> DEFINE m == Len(p) - Len(a)
      <4>1. /\ m \in Nat /\ (i <= m <=> Len(a) + i <= Len(p))
            /\ (Len(a) + i) - Len(p) = i - m
        BY <1>1, <2>2
      <4>2. (After(Len(a), p) \o q)[i] = IF i <= m THEN p[Len(a) + i] ELSE q[i - m]
        BY <2>4
      <4>3. (p \o q)[Len(a) + i]
              = IF Len(a) + i <= Len(p) THEN p[Len(a) + i] ELSE q[(Len(a) + i) - Len(p)]
        BY <2>5, <3>1
      <4> HIDE DEF m
      <4>4. CASE i <= m
        BY <4>1, <4>2, <4>3, <4>4
      <4>5. CASE ~ (i <= m)
        BY <4>1, <4>2, <4>3, <4>5
      <4> QED
        BY <4>4, <4>5
    <3> QED
      BY <3>2, <3>3
  <2> QED
    BY <2>4, <2>7, SeqEqual
<1> QED
  BY <1>4, <1>5

LEMMA SplitWhole ==
  ASSUME NEW S, NEW a \in Seq(S), NEW b \in Seq(S)
  PROVE  /\ First(Len(a), a \o b) = a
         /\ After(Len(a), a \o b) = b
<1>1. a \o b \in Seq(S) /\ << >> \in Seq(S) /\ Len(a) <= Len(a \o b)
      /\ (a \o b) \o << >> = a \o b
  BY ConcatProperties, ConcatEmptySeq, LenProperties, EmptySeq
<1>2. /\ First(Len(a), a \o b) = a /\ After(Len(a), a \o b) \o << >> = b
  BY <1>1, Split
<1>3. After(Len(a), a \o b) \in Seq(S)
  <2>1. Len(a) \in 0..Len(a \o b)
    BY <1>1, LenProperties
  <2> QED
    BY <1>1, <2>1, CutSequence
<1> QED
  BY <1>2, <1>3, ConcatEmptySeq

-----------------------------------------------------------------------------
(* Numbers in big-endian order.                                            *)

Of(n)  == {s \in Str : Len(s) = n}

(* The numbers of two and of four bytes end here.                          *)
Limit2 == 65536
Limit4 == 4294967296

Short  == {s \in Str : Len(s) < Limit2}

LEMMA BigEndianType ==
  ASSUME NEW n \in Nat, NEW w \in {1, 2, 4}
  PROVE  BigEndian(n, w) \in Of(w)
<1>1. \A i \in 1..w : (n \div Base^(w - i)) % Base \in 0..255
  <2> SUFFICES ASSUME NEW i \in 1..w PROVE (n \div 256^(w - i)) % 256 \in 0..255
    BY ByteAssumption
  <2>1. w - i \in {0, 1, 2, 3}
    BY SMT
  <2>2. CASE w - i = 0
    BY <2>2, SMT
  <2>3. CASE w - i = 1
    BY <2>3, SMT
  <2>4. CASE w - i = 2
    BY <2>4, SMT
  <2>5. CASE w - i = 3
    BY <2>5, SMT
  <2> QED
    BY <2>1, <2>2, <2>3, <2>4, <2>5
<1>2. BigEndian(n, w) \in [1..w -> 0..255]
  BY <1>1 DEF BigEndian
<1>3. BigEndian(n, w) \in Seq(0..255)
  BY <1>2, SeqDef
<1>4. Len(BigEndian(n, w)) = w
  BY <1>2, <1>3, LenProperties
<1> QED
  BY <1>3, <1>4, ByteValues DEF Of, Str

(* A number is the last of the values reached digit by digit.              *)
Digit(bytes) == [x \in (1..Len(bytes)) \X Nat |-> x[2] * 256 + bytes[x[1]]]
Digits(bytes) == Steps(Len(bytes), 0, Digit(bytes))

LEMMA NumberSteps ==
  ASSUME NEW bytes \in Str
  PROVE  /\ Number(bytes) = Digits(bytes)[Len(bytes)]
         /\ Digits(bytes) \in [0..Len(bytes) -> Nat]
         /\ Digits(bytes)[0] = 0
         /\ \A i \in 1..Len(bytes) :
              Digits(bytes)[i] = Digits(bytes)[i - 1] * 256 + bytes[i]
<1>1. Len(bytes) \in Nat /\ \A i \in 1..Len(bytes) : bytes[i] \in Nat
  BY StrValues
<1>2. Digit(bytes) \in [(1..Len(bytes)) \X Nat -> Nat]
  BY <1>1 DEF Digit
<1> DEFINE g == Digits(bytes)
<1>3. /\ g \in [0..Len(bytes) -> Nat]
      /\ g[0] = 0
      /\ \A i \in 1..Len(bytes) : g[i] = Digit(bytes)[<<i, g[i - 1]>>]
  <2>1. Stepping(Nat, Len(bytes), 0, Digit(bytes))
    BY <1>1, <1>2 DEF Stepping
  <2> QED
    BY <2>1, Recursion DEF Digits
<1> HIDE DEF g
<1>4. \A i \in 1..Len(bytes) : g[i] = g[i - 1] * 256 + bytes[i]
  <2> SUFFICES ASSUME NEW i \in 1..Len(bytes) PROVE g[i] = g[i - 1] * 256 + bytes[i]
    OBVIOUS
  <2>1. g[i - 1] \in Nat
    BY <1>1, <1>3
  <2>2. Digit(bytes)[<<i, g[i - 1]>>] = g[i - 1] * 256 + bytes[i]
    BY <2>1 DEF Digit
  <2> QED
    BY <1>3, <2>2
<1> DEFINE Is(f) == f = [i \in 0..Len(bytes) |->
                          IF i = 0 THEN 0 ELSE f[i - 1] * Base + bytes[i]]
<1>5. Is(g)
  BY <1>1, <1>3, <1>4, ByteAssumption
<1>6. ASSUME NEW f, Is(f) PROVE f = g
  <2>1. f = [i \in 0..Len(bytes) |-> f[i]] /\ f[0] = 0
    BY <1>1, <1>6
  <2>2. ASSUME NEW i \in 1..Len(bytes), f[i - 1] \in Nat
        PROVE  f[i] = Digit(bytes)[<<i, f[i - 1]>>]
    <3>1. f[i] = f[i - 1] * 256 + bytes[i]
      <4>1. i \in 0..Len(bytes) /\ i # 0
        BY <1>1
      <4>2. f[i] = f[i - 1] * Base + bytes[i]
        BY <1>6, <4>1
      <4> QED
        BY <4>2, ByteAssumption
    <3>2. Digit(bytes)[<<i, f[i - 1]>>] = f[i - 1] * 256 + bytes[i]
      BY <2>2 DEF Digit
    <3> QED
      BY <3>1, <3>2
  <2>3. Stepping(Nat, Len(bytes), 0, Digit(bytes))
    BY <1>1, <1>2 DEF Stepping
  <2>4. Follows(f, Nat, Len(bytes), 0, Digit(bytes))
    BY <2>1, <2>2 DEF Follows
  <2> QED
    BY <2>3, <2>4, OnlySteps DEF g, Digits
<1>7. Number(bytes) = (CHOOSE f : Is(f))[Len(bytes)]
  BY DEF Number
<1>8. (CHOOSE f : Is(f)) = g
  <2> HIDE DEF Is
  <2> QED
    BY <1>5, <1>6
<1> QED
  BY <1>3, <1>4, <1>7, <1>8 DEF g

LEMMA NumberValues ==
  ASSUME NEW b \in Str
  PROVE  /\ Number(b) \in Nat
         /\ Len(b) = 1 => Number(b) = b[1]
         /\ Len(b) = 2 => Number(b) = b[1] * 256 + b[2]
         /\ Len(b) = 4 => Number(b) = ((b[1] * 256 + b[2]) * 256 + b[3]) * 256 + b[4]
<1> DEFINE g == Digits(b)
<1>1. /\ g \in [0..Len(b) -> Nat]
      /\ Number(b) = g[Len(b)]
      /\ g[0] = 0
      /\ \A i \in 1..Len(b) : g[i] = g[i - 1] * 256 + b[i]
  BY NumberSteps
<1> HIDE DEF g
<1>2. Len(b) \in Nat /\ \A i \in 1..Len(b) : b[i] \in Nat
  BY StrValues
<1>3. Number(b) \in Nat
  BY <1>1, <1>2
<1>4. ASSUME Len(b) = 1 PROVE Number(b) = b[1]
  <2>1. g[1] = g[0] * 256 + b[1]
    BY <1>1, <1>4
  <2> QED
    BY <1>1, <1>2, <1>4, <2>1
<1>5. ASSUME Len(b) = 2 PROVE Number(b) = b[1] * 256 + b[2]
  <2>1. g[1] = g[0] * 256 + b[1] /\ g[2] = g[1] * 256 + b[2]
    BY <1>1, <1>5
  <2> QED
    BY <1>1, <1>2, <1>5, <2>1
<1>6. ASSUME Len(b) = 4
      PROVE  Number(b) = ((b[1] * 256 + b[2]) * 256 + b[3]) * 256 + b[4]
  <2>1. /\ g[1] = g[0] * 256 + b[1] /\ g[2] = g[1] * 256 + b[2]
        /\ g[3] = g[2] * 256 + b[3] /\ g[4] = g[3] * 256 + b[4]
    BY <1>1, <1>6
  <2>2. b[1] \in Nat
    BY <1>2, <1>6
  <2> QED
    BY <1>1, <1>6, <2>1, <2>2
<1> QED
  BY <1>3, <1>4, <1>5, <1>6

LEMMA NumberOfBigEndian ==
  ASSUME NEW n \in Nat
  PROVE  /\ n < 256 => Number(BigEndian(n, 1)) = n
         /\ n < Limit2 => Number(BigEndian(n, 2)) = n
         /\ n < Limit4 => Number(BigEndian(n, 4)) = n
<1>1. ASSUME n < 256 PROVE Number(BigEndian(n, 1)) = n
  <2>1. BigEndian(n, 1) \in Str /\ Len(BigEndian(n, 1)) = 1
    BY BigEndianType DEF Of
  <2>2. BigEndian(n, 1)[1] = (n \div 256^0) % 256
    BY ByteAssumption DEF BigEndian
  <2>3. 256^0 = 1
    OBVIOUS
  <2> QED
    BY <1>1, <2>1, <2>2, <2>3, NumberValues
<1>2. ASSUME n < Limit2 PROVE Number(BigEndian(n, 2)) = n
  <2>1. BigEndian(n, 2) \in Str /\ Len(BigEndian(n, 2)) = 2
    BY BigEndianType DEF Of
  <2>2. /\ BigEndian(n, 2)[1] = (n \div 256^1) % 256
        /\ BigEndian(n, 2)[2] = (n \div 256^0) % 256
    BY ByteAssumption DEF BigEndian
  <2>3. /\ (n \div 256^1) % 256 = (n \div 256) % 256
        /\ (n \div 256^0) % 256 = n % 256
    BY SMT
  <2>4. PICK a \in Nat, z \in Nat :
          a = n \div 256 /\ z = n % 256 /\ n = a * 256 + z
    BY SMT
  <2>5. a < 256
    BY <1>2, <2>4, SMT DEF Limit2
  <2>6. a % 256 = a
    BY <2>5, SMT
  <2>7. Number(BigEndian(n, 2)) = BigEndian(n, 2)[1] * 256 + BigEndian(n, 2)[2]
    BY <2>1, NumberValues
  <2>8. BigEndian(n, 2)[1] = a /\ BigEndian(n, 2)[2] = z
    BY <2>2, <2>3, <2>4, <2>6
  <2> QED
    BY <2>4, <2>7, <2>8
<1>3. ASSUME n < Limit4 PROVE Number(BigEndian(n, 4)) = n
  <2>1. BigEndian(n, 4) \in Str /\ Len(BigEndian(n, 4)) = 4
    BY BigEndianType DEF Of
  <2>2. /\ BigEndian(n, 4)[1] = (n \div 256^3) % 256
        /\ BigEndian(n, 4)[2] = (n \div 256^2) % 256
        /\ BigEndian(n, 4)[3] = (n \div 256^1) % 256
        /\ BigEndian(n, 4)[4] = (n \div 256^0) % 256
    BY ByteAssumption DEF BigEndian
  <2>3. /\ (n \div 256^3) % 256 = (((n \div 256) \div 256) \div 256) % 256
        /\ (n \div 256^2) % 256 = ((n \div 256) \div 256) % 256
        /\ (n \div 256^1) % 256 = (n \div 256) % 256
        /\ (n \div 256^0) % 256 = n % 256
    BY SMT
  <2>4. PICK a \in Nat, b \in Nat, c \in Nat, w \in Nat, x \in Nat, y \in Nat, z \in Nat :
          /\ a = n \div 256 /\ z = n % 256 /\ n = a * 256 + z
          /\ b = a \div 256 /\ y = a % 256 /\ a = b * 256 + y
          /\ c = b \div 256 /\ x = b % 256 /\ b = c * 256 + x
          /\ w = c % 256
    BY SMT
  <2>5. c < 256
    BY <1>3, <2>4, SMT DEF Limit4
  <2>6. Number(BigEndian(n, 4))
          = ((BigEndian(n, 4)[1] * 256 + BigEndian(n, 4)[2]) * 256
              + BigEndian(n, 4)[3]) * 256 + BigEndian(n, 4)[4]
    BY <2>1, NumberValues
  <2>7. w = c
    BY <2>4, <2>5, SMT
  <2>8. /\ BigEndian(n, 4)[1] = w /\ BigEndian(n, 4)[2] = x
        /\ BigEndian(n, 4)[3] = y /\ BigEndian(n, 4)[4] = z
    BY <2>2, <2>3, <2>4, SMT
  <2> QED
    BY <2>4, <2>6, <2>7, <2>8, SMT
<1> QED
  BY <1>1, <1>2, <1>3

-----------------------------------------------------------------------------
(* One read.                                                               *)

LEMMA EmptyStr == << >> \in Str /\ Len(<< >>) = 0
BY EmptySeq DEF Str

LEMMA OnlyEmpty ==
  ASSUME NEW s \in Str
  PROVE  Len(s) \in Nat /\ (Len(s) = 0 <=> s = << >>)
BY EmptySeq, LenProperties DEF Str

LEMMA JoinStr ==
  ASSUME NEW a \in Str, NEW b \in Str
  PROVE  a \o b \in Str /\ Len(a \o b) = Len(a) + Len(b)
BY ConcatProperties DEF Str

LEMMA ZerosType == ASSUME NEW n \in Nat PROVE Zeros(n) \in Of(n)
<1>1. Zeros(n) \in [1..n -> Byte]
  BY ByteValues DEF Zeros
<1>2. Zeros(n) \in Str
  BY <1>1, SeqDef DEF Str
<1>3. Len(Zeros(n)) = n
  BY <1>1, <1>2, LenProperties DEF Str
<1> QED
  BY <1>2, <1>3 DEF Of

(* What a read returns, and what it leaves, has the right type.            *)
Typed(r, values) == /\ r.err \in BOOLEAN /\ r.rest \in Str
                    /\ ~ r.err => r.val \in values

LEMMA ReadFullType ==
  ASSUME NEW n \in Nat, NEW p \in Str
  PROVE  Typed(ReadFull(n, p), Of(n))
<1>1. Len(p) \in Nat
  BY OnlyEmpty
<1>2. CASE Len(p) < n
  BY <1>2, EmptyStr DEF ReadFull, Failed, Typed
<1>3. CASE ~ (Len(p) < n)
  <2>1. n \in 0..Len(p)
    BY <1>1, <1>3
  <2>2. First(n, p) \in Of(n) /\ After(n, p) \in Str
    BY <2>1, CutSequence DEF Str, Of
  <2> QED
    BY <1>3, <2>2 DEF ReadFull, Got, Typed
<1> QED
  BY <1>2, <1>3

LEMMA ReadType ==
  ASSUME NEW n \in Nat, NEW p \in Str
  PROVE  Typed(Read(n, p), Of(n))
<1>1. Len(p) \in Nat
  BY OnlyEmpty
<1>2. CASE p = << >>
  BY <1>2, EmptyStr DEF Read, Failed, Typed
<1>3. CASE p # << >>
  <2> DEFINE k == IF n < Len(p) THEN n ELSE Len(p)
  <2>1. k \in 0..Len(p) /\ k \in 0..n
    BY <1>1
  <2>2. Read(n, p) = Got(First(k, p) \o Zeros(n - k), After(k, p))
    BY <1>3 DEF Read
  <2> HIDE DEF k
  <2>3. First(k, p) \in Str /\ Len(First(k, p)) = k /\ After(k, p) \in Str
    BY <2>1, CutSequence DEF Str
  <2>4. Zeros(n - k) \in Str /\ Len(Zeros(n - k)) = n - k
    <3>1. n - k \in Nat
      BY <2>1
    <3> QED
      BY <3>1, ZerosType DEF Of
  <2>5. First(k, p) \o Zeros(n - k) \in Of(n)
    <3>1. /\ First(k, p) \o Zeros(n - k) \in Str
          /\ Len(First(k, p) \o Zeros(n - k)) = Len(First(k, p)) + Len(Zeros(n - k))
      BY <2>3, <2>4, JoinStr
    <3>2. k + (n - k) = n
      BY <2>1
    <3> QED
      BY <2>3, <2>4, <3>1, <3>2 DEF Of
  <2> QED
    BY <2>2, <2>3, <2>5 DEF Got, Typed
<1> QED
  BY <1>2, <1>3

LEMMA ReadByteType ==
  ASSUME NEW p \in Str
  PROVE  Typed(ReadByte(p), Of(1)) /\ ~ ReadByte(p).err
<1>1. CASE p = << >>
  <2>1. <<0>> \in Of(1)
    BY ByteValues DEF Of, Str
  <2> QED
    BY <1>1, <2>1 DEF ReadByte, Got, Typed
<1>2. CASE p # << >>
  <2>1. 1 \in 0..Len(p)
    BY <1>2, OnlyEmpty
  <2>2. First(1, p) \in Of(1) /\ After(1, p) \in Str
    BY <2>1, CutSequence DEF Str, Of
  <2> QED
    BY <1>2, <2>2 DEF ReadByte, Got, Typed
<1> QED
  BY <1>1, <1>2

(* What Prefixed does, with the reads the code passes to it.               *)
LEMMA PrefixedRead ==
  ASSUME NEW w, NEW p
  PROVE  Prefixed(w, Read, p)
           = IF ReadFull(w, p).err THEN ReadFull(w, p)
             ELSE Read(Number(ReadFull(w, p).val), ReadFull(w, p).rest)
BY DEF Prefixed, With

LEMMA PrefixedAll ==
  ASSUME NEW w, NEW p
  PROVE  Prefixed(w, ReadFull, p)
           = IF ReadFull(w, p).err THEN ReadFull(w, p)
             ELSE ReadFull(Number(ReadFull(w, p).val), ReadFull(w, p).rest)
BY DEF Prefixed, With

LEMMA U16Read ==
  ASSUME NEW p
  PROVE  readU16LenData(p)
           = IF ReadFull(2, p).err THEN ReadFull(2, p)
             ELSE IF Number(ReadFull(2, p).val) = 0
             THEN Got(<< >>, ReadFull(2, p).rest)
             ELSE Read(Number(ReadFull(2, p).val), ReadFull(2, p).rest)
BY DEF readU16LenData, Prefixed, With

LEMMA U16Type ==
  ASSUME NEW p \in Str
  PROVE  Typed(readU16LenData(p), Short)
<1> DEFINE len == ReadFull(2, p)
           n == Number(len.val)
<1>1. Typed(len, Of(2))
  BY ReadFullType
<1>2. CASE len.err
  BY <1>1, <1>2, U16Read DEF Typed
<1>3. CASE ~ len.err
  <2>1. len.val \in Str /\ Len(len.val) = 2 /\ len.rest \in Str
    BY <1>1, <1>3 DEF Typed, Of
  <2>2. n = len.val[1] * 256 + len.val[2] /\ n \in Nat
    BY <2>1, NumberValues
  <2>3. len.val[1] \in 0..255 /\ len.val[2] \in 0..255
    <3>1. 1 \in 1..Len(len.val) /\ 2 \in 1..Len(len.val)
      BY <2>1
    <3> QED
      BY <2>1, <3>1, ByteValues, ElementOfSeq DEF Str
  <2> HIDE DEF n
  <2>4. n < Limit2
    <3>1. PICK x \in 0..255, y \in 0..255 : x = len.val[1] /\ y = len.val[2]
      BY <2>3
    <3>2. n = x * 256 + y
      BY <2>2, <3>1
    <3> HIDE DEF len
    <3> QED
      BY <3>2, SMT DEF Limit2
  <2>5. CASE n = 0
    <3>1. << >> \in Short
      BY EmptyStr, SMT DEF Short, Limit2
    <3> QED
      BY <1>3, <2>1, <2>5, <3>1, U16Read DEF Typed, Got, n
  <2>6. CASE n # 0
    <3>1. Typed(Read(n, len.rest), Of(n))
      BY <2>1, <2>2, ReadType
    <3>2. Of(n) \subseteq Short
      BY <2>4 DEF Of, Short
    <3>3. readU16LenData(p) = Read(n, len.rest)
      BY <1>3, <2>6, U16Read DEF n
    <3> QED
      BY <3>1, <3>2, <3>3 DEF Typed
  <2> QED
    BY <2>5, <2>6
<1> QED
  BY <1>2, <1>3

(* Data behind a length is as long as the length says.                     *)
LEMMA PrefixedType ==
  ASSUME NEW w \in Nat, NEW p \in Str
  PROVE  Typed(Prefixed(w, Read, p), Str) /\ Typed(Prefixed(w, ReadFull, p), Str)
<1> DEFINE len == ReadFull(w, p)
<1>1. Typed(len, Of(w))
  BY ReadFullType
<1>2. /\ len.err => Prefixed(w, Read, p) = len /\ Prefixed(w, ReadFull, p) = len
      /\ ~ len.err => /\ Prefixed(w, Read, p) = Read(Number(len.val), len.rest)
                      /\ Prefixed(w, ReadFull, p) = ReadFull(Number(len.val), len.rest)
  BY PrefixedRead, PrefixedAll
<1> HIDE DEF len
<1>3. CASE len.err
  BY <1>1, <1>2, <1>3 DEF Typed
<1>4. CASE ~ len.err
  <2>1. len.val \in Str /\ len.rest \in Str
    BY <1>1, <1>4 DEF Typed, Of
  <2>2. Number(len.val) \in Nat
    BY <2>1, NumberValues
  <2>3. /\ Typed(Read(Number(len.val), len.rest), Of(Number(len.val)))
        /\ Typed(ReadFull(Number(len.val), len.rest), Of(Number(len.val)))
    BY <2>1, <2>2, ReadType, ReadFullType
  <2> QED
    BY <1>2, <1>4, <2>3 DEF Typed, Of
<1> QED
  BY <1>3, <1>4

LEMMA SkipType ==
  ASSUME NEW n \in Nat, NEW p \in Str
  PROVE  Typed(Skip(n, p), {<< >>}) /\ ~ Skip(n, p).err
<1>1. Len(p) \in Nat /\ \A i \in n + 1 .. Len(p) : p[i] \in Byte
  BY OnlyEmpty, ElementOfSeq DEF Str
<1>2. SubSeq(p, n + 1, Len(p)) \in Seq(Byte)
  BY <1>1, SubSeqProperties
<1> QED
  BY <1>2 DEF Skip, After, Got, Typed, Str

-----------------------------------------------------------------------------
(* Reads of what was written, up to the byte at which it is cut off.       *)

(* p is left of w when q is cut off its end.                               *)
Begins(p, q, w) == p \in Str /\ q \in Str /\ p \o q = w

(* A read got all of a and left, of what follows, b without q.             *)
Taken(r, a, b, q) == ~ r.err /\ r.val = a /\ Begins(r.rest, q, b)

(* A read met the end of its input.                                        *)
Missed(r) == r.err \/ r.rest = << >>

LEMMA BeginsWhole == ASSUME NEW w \in Str PROVE Begins(w, << >>, w)
BY EmptyStr, ConcatEmptySeq DEF Begins, Str

LEMMA NothingCut ==
  ASSUME NEW p, NEW w \in Str, Begins(p, << >>, w)
  PROVE  p = w
BY ConcatEmptySeq DEF Begins, Str

LEMMA TakeWhole ==
  ASSUME NEW a \in Str, NEW b \in Str, NEW p, NEW q, Begins(p, q, a \o b),
         Len(a) <= Len(p)
  PROVE  First(Len(a), p) = a /\ Begins(After(Len(a), p), q, b)
<1>1. p \in Str /\ q \in Str /\ p \o q = a \o b
  BY DEF Begins
<1>2. First(Len(a), p) = a /\ After(Len(a), p) \o q = b
  BY <1>1, Split DEF Str
<1>3. After(Len(a), p) \in Str
  <2>1. Len(a) \in 0..Len(p)
    BY <1>1, OnlyEmpty
  <2> QED
    BY <1>1, <2>1, CutSequence DEF Str
<1> QED
  BY <1>1, <1>2, <1>3 DEF Begins

LEMMA Regroup ==
  ASSUME NEW a \in Str, NEW b \in Str, NEW c \in Str
  PROVE  (a \o b) \o c = a \o (b \o c)
BY ConcatAssociative DEF Str

LEMMA ReadFullOf ==
  ASSUME NEW a \in Str, NEW b \in Str, NEW p, NEW q, Begins(p, q, a \o b)
  PROVE  /\ Len(a) <= Len(p) => Taken(ReadFull(Len(a), p), a, b, q)
         /\ Len(p) < Len(a) => ReadFull(Len(a), p).err
<1>1. Len(a) \in Nat /\ Len(p) \in Nat
  BY OnlyEmpty DEF Begins
<1>2. ASSUME Len(a) <= Len(p) PROVE Taken(ReadFull(Len(a), p), a, b, q)
  <2>1. First(Len(a), p) = a /\ Begins(After(Len(a), p), q, b)
    BY <1>2, TakeWhole
  <2>2. ReadFull(Len(a), p) = Got(First(Len(a), p), After(Len(a), p))
    BY <1>1, <1>2 DEF ReadFull
  <2> QED
    BY <2>1, <2>2 DEF Got, Taken
<1>3. ASSUME Len(p) < Len(a) PROVE ReadFull(Len(a), p).err
  BY <1>3 DEF ReadFull, Failed
<1> QED
  BY <1>2, <1>3

LEMMA ReadOf ==
  ASSUME NEW a \in Str, NEW b \in Str, NEW p, NEW q, Begins(p, q, a \o b),
         a # << >>
  PROVE  /\ Len(a) <= Len(p) => Taken(Read(Len(a), p), a, b, q)
         /\ Len(p) < Len(a) => Missed(Read(Len(a), p))
<1>1. Len(a) \in Nat /\ Len(p) \in Nat /\ Len(a) # 0 /\ p \in Str
  BY OnlyEmpty DEF Begins
<1>2. ASSUME Len(a) <= Len(p) PROVE Taken(Read(Len(a), p), a, b, q)
  <2>1. First(Len(a), p) = a /\ Begins(After(Len(a), p), q, b)
    BY <1>2, TakeWhole
  <2>2. p # << >>
    BY <1>1, <1>2, OnlyEmpty
  <2>3. Read(Len(a), p) = Got(First(Len(a), p) \o Zeros(0), After(Len(a), p))
    <3>1. (IF Len(a) < Len(p) THEN Len(a) ELSE Len(p)) = Len(a) /\ Len(a) - Len(a) = 0
      BY <1>1, <1>2
    <3> QED
      BY <2>2, <3>1 DEF Read
  <2>4. Zeros(0) = << >>
    <3>1. Zeros(0) \in Str /\ Len(Zeros(0)) = 0
      BY ZerosType DEF Of
    <3> QED
      BY <3>1, OnlyEmpty
  <2>5. a \o << >> = a
    BY ConcatEmptySeq DEF Str
  <2>6. Read(Len(a), p) = Got(a, After(Len(a), p))
    BY <2>1, <2>3, <2>4, <2>5
  <2> QED
    BY <2>1, <2>6 DEF Got, Taken
<1>3. ASSUME Len(p) < Len(a) PROVE Missed(Read(Len(a), p))
  <2>1. CASE p = << >>
    BY <2>1 DEF Read, Failed, Missed
  <2>2. CASE p # << >>
    <3>1. Read(Len(a), p) = Got(First(Len(p), p) \o Zeros(Len(a) - Len(p)), After(Len(p), p))
      <4>1. (IF Len(a) < Len(p) THEN Len(a) ELSE Len(p)) = Len(p)
        BY <1>1, <1>3
      <4> QED
        BY <2>2, <4>1 DEF Read
    <3>2. After(Len(p), p) \in Str /\ Len(After(Len(p), p)) = 0
      <4>1. Len(p) \in 0..Len(p) /\ Len(p) - Len(p) = 0
        BY <1>1
      <4> QED
        BY <1>1, <4>1, CutSequence DEF Str
    <3> QED
      BY <3>1, <3>2, OnlyEmpty DEF Got, Missed
  <2> QED
    BY <2>1, <2>2
<1> QED
  BY <1>2, <1>3

LEMMA ReadByteOf ==
  ASSUME NEW a \in Of(1), NEW b \in Str, NEW p, NEW q, Begins(p, q, a \o b)
  PROVE  /\ p # << >> => Taken(ReadByte(p), a, b, q)
         /\ p = << >> => ReadByte(p) = Got(<<0>>, << >>)
<1>1. a \in Str /\ Len(a) = 1 /\ p \in Str /\ Len(p) \in Nat
  BY OnlyEmpty DEF Begins, Of
<1>2. ASSUME p # << >> PROVE Taken(ReadByte(p), a, b, q)
  <2>1. Len(a) <= Len(p)
    BY <1>1, <1>2, OnlyEmpty
  <2>2. First(1, p) = a /\ Begins(After(1, p), q, b)
    BY <1>1, <2>1, TakeWhole
  <2> QED
    BY <1>2, <2>2 DEF ReadByte, Got, Taken
<1>3. ASSUME p = << >> PROVE ReadByte(p) = Got(<<0>>, << >>)
  BY <1>3 DEF ReadByte
<1> QED
  BY <1>2, <1>3

(* Data behind its length in two bytes, and in four.                       *)
LEMMA U16Of ==
  ASSUME NEW d \in Short, NEW b \in Str, NEW p, NEW q,
         Begins(p, q, writeU16LenData(d) \o b)
  PROVE  /\ Len(d) + 2 <= Len(p) => Taken(readU16LenData(p), d, b, q)
         /\ Len(p) < Len(d) + 2 => Missed(readU16LenData(p))
<1> DEFINE a == BigEndian(Len(d), 2)
           len == ReadFull(2, p)
<1>1. d \in Str /\ Len(d) \in Nat /\ Len(d) < Limit2 /\ p \in Str /\ Len(p) \in Nat
  BY OnlyEmpty DEF Short, Begins
<1>2. a \in Str /\ Len(a) = 2 /\ Number(a) = Len(d)
  BY <1>1, BigEndianType, NumberOfBigEndian DEF Of
<1> HIDE DEF a
<1>3. d \o b \in Str /\ Begins(p, q, a \o (d \o b))
  BY <1>1, <1>2, Regroup, JoinStr DEF writeU16LenData, a
<1>4. /\ 2 <= Len(p) => Taken(len, a, d \o b, q)
      /\ Len(p) < 2 => len.err
  <2>1. /\ Len(a) <= Len(p) => Taken(ReadFull(Len(a), p), a, d \o b, q)
        /\ Len(p) < Len(a) => ReadFull(Len(a), p).err
    BY <1>2, <1>3, ReadFullOf
  <2> QED
    BY <1>2, <2>1
<1>5. 2 <= Len(p) => Len(len.rest) = Len(p) - 2
  <2> SUFFICES ASSUME 2 <= Len(p) PROVE Len(len.rest) = Len(p) - 2
    OBVIOUS
  <2>1. 2 \in 0..Len(p)
    BY <1>1
  <2>2. Len(After(2, p)) = Len(p) - 2
    BY <1>1, <2>1, CutSequence DEF Str
  <2> QED
    BY <1>1, <2>2 DEF ReadFull, Got
<1> HIDE DEF len
<1>6. /\ len.err => readU16LenData(p) = len
      /\ ~ len.err => readU16LenData(p) = IF Number(len.val) = 0 THEN Got(<< >>, len.rest)
                                          ELSE Read(Number(len.val), len.rest)
  BY U16Read DEF len
<1>7. CASE Len(p) < 2
  BY <1>1, <1>4, <1>6, <1>7 DEF Missed
<1>8. CASE 2 <= Len(p) /\ d = << >>
  <2>1. ~ len.err /\ len.val = a /\ Begins(len.rest, q, d \o b) /\ Len(d) = 0
    BY <1>4, <1>8, EmptyStr DEF Taken
  <2>2. readU16LenData(p) = Got(d, len.rest)
    BY <1>2, <1>6, <1>8, <2>1
  <2>3. d \o b = b
    BY <1>8, ConcatEmptySeq DEF Str
  <2>4. Taken(readU16LenData(p), d, b, q)
    BY <2>1, <2>2, <2>3 DEF Taken, Got
  <2> QED
    BY <1>1, <1>8, <2>1, <2>4
<1>9. CASE 2 <= Len(p) /\ d # << >>
  <2>1. ~ len.err /\ len.val = a /\ Begins(len.rest, q, d \o b) /\ Len(d) # 0
    BY <1>1, <1>4, <1>9, OnlyEmpty DEF Taken
  <2>2. readU16LenData(p) = Read(Len(d), len.rest)
    BY <1>2, <1>6, <2>1
  <2>3. /\ Len(d) <= Len(len.rest) => Taken(Read(Len(d), len.rest), d, b, q)
        /\ Len(len.rest) < Len(d) => Missed(Read(Len(d), len.rest))
    BY <1>1, <1>9, <2>1, ReadOf
  <2>4. Len(len.rest) = Len(p) - 2
    BY <1>5, <1>9
  <2> QED
    BY <1>1, <2>2, <2>3, <2>4
<1> QED
  BY <1>1, <1>7, <1>8, <1>9

LEMMA U32Of ==
  ASSUME NEW d \in Str, d # << >>, Len(d) < Limit4, NEW b \in Str, NEW p, NEW q,
         Begins(p, q, writeU32LenData(d) \o b)
  PROVE  /\ Len(d) + 4 <= Len(p) => Taken(Prefixed(4, Read, p), d, b, q)
         /\ Len(p) < Len(d) + 4 => Missed(Prefixed(4, Read, p))
<1> DEFINE a == BigEndian(Len(d), 4)
           len == ReadFull(4, p)
<1>1. Len(d) \in Nat /\ p \in Str /\ Len(p) \in Nat
  BY OnlyEmpty DEF Begins
<1>2. a \in Str /\ Len(a) = 4 /\ Number(a) = Len(d)
  BY <1>1, BigEndianType, NumberOfBigEndian DEF Of
<1> HIDE DEF a
<1>3. d \o b \in Str /\ Begins(p, q, a \o (d \o b))
  BY <1>1, <1>2, Regroup, JoinStr DEF writeU32LenData, a
<1>4. /\ 4 <= Len(p) => Taken(len, a, d \o b, q)
      /\ Len(p) < 4 => len.err
  <2>1. /\ Len(a) <= Len(p) => Taken(ReadFull(Len(a), p), a, d \o b, q)
        /\ Len(p) < Len(a) => ReadFull(Len(a), p).err
    BY <1>2, <1>3, ReadFullOf
  <2> QED
    BY <1>2, <2>1
<1>5. 4 <= Len(p) => Len(len.rest) = Len(p) - 4
  <2> SUFFICES ASSUME 4 <= Len(p) PROVE Len(len.rest) = Len(p) - 4
    OBVIOUS
  <2>1. 4 \in 0..Len(p)
    BY <1>1
  <2>2. Len(After(4, p)) = Len(p) - 4
    <3>1. p \in Seq(Byte)
      BY <1>1 DEF Str
    <3> QED
      BY <2>1, <3>1, CutSequence
  <2>3. ~ (Len(p) < 4)
    BY <1>1
  <2> QED
    BY <2>2, <2>3 DEF ReadFull, Got
<1>6. /\ len.err => Prefixed(4, Read, p) = len
      /\ ~ len.err => Prefixed(4, Read, p) = Read(Number(len.val), len.rest)
  BY PrefixedRead
<1> HIDE DEF len
<1>7. CASE Len(p) < 4
  BY <1>1, <1>4, <1>6, <1>7 DEF Missed
<1>8. CASE 4 <= Len(p)
  <2>1. ~ len.err /\ len.val = a /\ Begins(len.rest, q, d \o b)
    BY <1>4, <1>8 DEF Taken
  <2>2. Prefixed(4, Read, p) = Read(Len(d), len.rest)
    BY <1>2, <1>6, <2>1
  <2>3. /\ Len(d) <= Len(len.rest) => Taken(Read(Len(d), len.rest), d, b, q)
        /\ Len(len.rest) < Len(d) => Missed(Read(Len(d), len.rest))
    BY <2>1, ReadOf
  <2>4. /\ Len(d) + 4 <= Len(p) => Len(d) <= Len(len.rest)
        /\ Len(p) < Len(d) + 4 => Len(len.rest) < Len(d)
    BY <1>1, <1>5, <1>8
  <2> QED
    BY <2>2, <2>3, <2>4
<1> QED
  BY <1>1, <1>7, <1>8

-----------------------------------------------------------------------------
(* A structure, field by field.                                            *)

(* The fields of tickets, of records and of the hello the client reads,    *)
(* and those that the parser shows.                                        *)
RecordNames ==
  {"ticketType", "ticketLifeTime", "ticketAgeAdd", "reversed", "nonce", "ticket",
   "length", "count", "type", "version", "data", "packLen", "flag",
   "protocolVersion", "cipherSuites", "random to array index", "ecPoint"}
ShownNames ==
  {"Total Length", "Flag", "Protocol Version", "Cipher Suites", "Cipher Suite",
   "Client Random", "Timestamp", "Extensions Length", "Extensions",
   "Extension Length", "Marker", "Count", "Ticket", "Key Length", "Key Flag",
   "EC Point", "Negotiated Cipher Suite", "Server Random", "Extension",
   "Array Index", "Server EC Public Key", "Length", "Type", "ECDSA Signature",
   "Verify Data", "Raw Data", "Extension Flag", "Inner Length", "Flag1", "Flag2",
   "Data Type", "Cmd ID", "Payload", "Nonce", "Ticket Data", "Trailing Magic"}
Names   == RecordNames \cup ShownNames
Hows    == {"number", "all", "byte", "skip", "u16", "data", "all data"}
Fields  == [name : Names, how : Hows, width : Nat]
Readers == [rest : Str, err : BOOLEAN, out : Seq(Names \X Str)]

LEMMA FieldRead ==
  ASSUME NEW f \in Fields, NEW p
  PROVE  /\ f.how = "number" => ReadField(f, p) = ReadFull(f.width, p)
         /\ f.how = "byte"   => ReadField(f, p) = ReadByte(p)
         /\ f.how = "skip"   => ReadField(f, p) = Skip(f.width, p)
         /\ f.how = "u16"    => ReadField(f, p) = readU16LenData(p)
         /\ f.how = "data"   => ReadField(f, p) = Prefixed(f.width, Read, p)
BY DEF ReadField, Fields

LEMMA FieldAll ==
  ASSUME NEW f \in Fields, NEW p
  PROVE  /\ f.how = "all" => ReadField(f, p) = ReadFull(f.width, p)
         /\ f.how = "all data" => ReadField(f, p) = Prefixed(f.width, ReadFull, p)
BY DEF ReadField, Fields

LEMMA FieldType ==
  ASSUME NEW f \in Fields, NEW p \in Str
  PROVE  Typed(ReadField(f, p), Str)
<1>1. f.width \in Nat /\ f.how \in Hows
  BY DEF Fields
<1>2. Typed(ReadFull(f.width, p), Str) /\ Typed(ReadByte(p), Str)
  BY <1>1, ReadFullType, ReadByteType DEF Typed, Of
<1>3. Typed(readU16LenData(p), Str)
  BY U16Type DEF Typed, Short
<1>4. Typed(Skip(f.width, p), Str)
  BY <1>1, SkipType, EmptyStr DEF Typed
<1>5. Typed(Prefixed(f.width, Read, p), Str) /\ Typed(Prefixed(f.width, ReadFull, p), Str)
  BY <1>1, PrefixedType
<1>6. CASE f.how = "number" \/ f.how = "all" \/ f.how = "byte"
  BY <1>2, <1>6, FieldRead, FieldAll
<1>7. CASE f.how = "skip" \/ f.how = "u16"
  BY <1>3, <1>4, <1>7, FieldRead
<1>8. CASE f.how = "data" \/ f.how = "all data"
  BY <1>5, <1>8, FieldRead, FieldAll
<1> QED
  BY <1>1, <1>6, <1>7, <1>8 DEF Hows

LEMMA AdvanceIs ==
  ASSUME NEW f, NEW r
  PROVE  Advance(f, r) = [rest |-> ReadField(f, r.rest).rest,
                          err  |-> ReadField(f, r.rest).err,
                          out  |-> IF ReadField(f, r.rest).err THEN r.out
                                   ELSE Append(r.out, <<f.name, ReadField(f, r.rest).val>>)]
BY DEF Advance, With

LEMMA AdvanceType ==
  ASSUME NEW f \in Fields, NEW r \in Readers
  PROVE  Advance(f, r) \in Readers
<1>1. r.rest \in Str /\ f.name \in Names /\ r.out \in Seq(Names \X Str)
  BY DEF Readers, Fields
<1> DEFINE got == ReadField(f, r.rest)
<1>2. Typed(got, Str)
  BY <1>1, FieldType
<1> HIDE DEF got
<1>3. ASSUME ~ got.err PROVE Append(r.out, <<f.name, got.val>>) \in Seq(Names \X Str)
  <2>1. <<f.name, got.val>> \in Names \X Str
    BY <1>1, <1>2, <1>3 DEF Typed
  <2> QED
    BY <1>1, <2>1, AppendProperties
<1>4. Advance(f, r) = [rest |-> got.rest, err |-> got.err,
                       out |-> IF got.err THEN r.out
                               ELSE Append(r.out, <<f.name, got.val>>)]
  BY AdvanceIs DEF got
<1> QED
  BY <1>1, <1>2, <1>3, <1>4 DEF Typed, Readers

ScanStep(fields) ==
  [x \in (1..Len(fields)) \X Readers |->
     IF x[2].err THEN x[2] ELSE Advance(fields[x[1]], x[2])]
Scanned(fields, r) == Steps(Len(fields), r, ScanStep(fields))

LEMMA ScanSteps ==
  ASSUME NEW fields \in Seq(Fields), NEW r \in Readers
  PROVE  /\ Scan(fields, r) = Scanned(fields, r)[Len(fields)]
         /\ Scanned(fields, r) \in [0..Len(fields) -> Readers]
         /\ Scanned(fields, r)[0] = r
         /\ \A i \in 1..Len(fields) :
              Scanned(fields, r)[i]
                = IF Scanned(fields, r)[i - 1].err THEN Scanned(fields, r)[i - 1]
                  ELSE Advance(fields[i], Scanned(fields, r)[i - 1])
<1> DEFINE n == Len(fields)
           g == Scanned(fields, r)
<1>1. n \in Nat /\ \A i \in 1..n : fields[i] \in Fields
  BY LenProperties, ElementOfSeq
<1>2. \A i \in 1..n, s \in Readers :
        /\ ScanStep(fields)[<<i, s>>] = IF s.err THEN s ELSE Advance(fields[i], s)
        /\ ScanStep(fields)[<<i, s>>] \in Readers
  BY <1>1, AdvanceType DEF ScanStep
<1>3. ScanStep(fields) \in [(1..n) \X Readers -> Readers]
  BY <1>1, AdvanceType DEF ScanStep
<1>4. Stepping(Readers, n, r, ScanStep(fields))
  BY <1>1, <1>3 DEF Stepping
<1>5. /\ g \in [0..n -> Readers]
      /\ g[0] = r
      /\ \A i \in 1..n : g[i] = ScanStep(fields)[<<i, g[i - 1]>>]
  BY <1>4, Recursion DEF Scanned
<1> HIDE DEF g
<1>6. \A i \in 1..n : g[i - 1] \in Readers
  BY <1>1, <1>5
<1>7. \A i \in 1..n : g[i] = IF g[i - 1].err THEN g[i - 1] ELSE Advance(fields[i], g[i - 1])
  BY <1>2, <1>5, <1>6
<1> DEFINE Once(i, s) == With(s, LAMBDA t : IF t.err THEN t ELSE Advance(fields[i], t))
           Is(f) == f = [i \in 0..n |-> IF i = 0 THEN r ELSE Once(i, f[i - 1])]
<1>8. \A s, i : Once(i, s) = IF s.err THEN s ELSE Advance(fields[i], s)
  BY DEF With
<1> HIDE DEF Once
<1>9. Is(g)
  <2>1. \A i \in 0..n : g[i] = IF i = 0 THEN r ELSE Once(i, g[i - 1])
    BY <1>1, <1>5, <1>7, <1>8
  <2> QED
    BY <1>5, <2>1
<1>10. ASSUME NEW f, Is(f) PROVE f = g
  <2>1. f = [i \in 0..n |-> f[i]] /\ f[0] = r
    BY <1>1, <1>10
  <2>2. ASSUME NEW i \in 1..n, f[i - 1] \in Readers
        PROVE  f[i] = ScanStep(fields)[<<i, f[i - 1]>>]
    <3>1. f[i] = IF f[i - 1].err THEN f[i - 1] ELSE Advance(fields[i], f[i - 1])
      BY <1>1, <1>8, <1>10
    <3> QED
      BY <1>2, <2>2, <3>1
  <2>3. Follows(f, Readers, n, r, ScanStep(fields))
    BY <2>1, <2>2 DEF Follows
  <2> QED
    BY <1>4, <2>3, OnlySteps DEF g, Scanned
<1>11. Scan(fields, r) = (CHOOSE f : Is(f))[n]
  BY DEF Scan, Once
<1>12. (CHOOSE f : Is(f)) = g
  <2> HIDE DEF Is
  <2> QED
    BY <1>9, <1>10
<1> QED
  BY <1>5, <1>7, <1>11, <1>12 DEF g

LEMMA ReaderType == ASSUME NEW p \in Str PROVE Reader(p) \in Readers
<1>1. << >> \in Seq(Names \X Str)
  BY EmptySeq
<1> QED
  BY <1>1 DEF Reader, Readers

(* The read of the i-th field, and what a scan has when it gets that far.  *)
ReadAt(fields, r, i) == ReadField(fields[i], Scanned(fields, r)[i - 1].rest)

ScannedTo(fields, p, i) ==
  LET g == Scanned(fields, Reader(p))
  IN  /\ Len(g[i].out) = i
      /\ \A j \in 1..i :
           /\ ~ ReadAt(fields, Reader(p), j).err
           /\ g[i].out[j] = <<fields[j].name, ReadAt(fields, Reader(p), j).val>>
           /\ g[j].rest = ReadAt(fields, Reader(p), j).rest

LEMMA ScanStepOf ==
  ASSUME NEW fields \in Seq(Fields), NEW p \in Str, NEW i \in 1..Len(fields)
  PROVE  LET g == Scanned(fields, Reader(p))
             got == ReadAt(fields, Reader(p), i)
         IN  /\ g[i - 1] \in Readers /\ g[i] \in Readers
             /\ g[i - 1].err => g[i].err
             /\ ~ g[i - 1].err =>
                  /\ g[i].err = got.err
                  /\ g[i].rest = got.rest
                  /\ ~ got.err => g[i].out = Append(g[i - 1].out, <<fields[i].name, got.val>>)
<1> DEFINE g == Scanned(fields, Reader(p))
           got == ReadAt(fields, Reader(p), i)
<1>1. Len(fields) \in Nat
  BY LenProperties
<1>2. Reader(p) \in Readers
  BY ReaderType
<1>3. /\ g \in [0..Len(fields) -> Readers]
      /\ g[i] = IF g[i - 1].err THEN g[i - 1] ELSE Advance(fields[i], g[i - 1])
  BY <1>2, ScanSteps
<1>4. got = ReadField(fields[i], g[i - 1].rest)
  BY DEF ReadAt
<1> HIDE DEF g, got
<1>5. g[i - 1] \in Readers /\ g[i] \in Readers
  BY <1>1, <1>3
<1>6. Advance(fields[i], g[i - 1])
        = [rest |-> got.rest, err |-> got.err,
           out  |-> IF got.err THEN g[i - 1].out
                    ELSE Append(g[i - 1].out, <<fields[i].name, got.val>>)]
  BY <1>4, AdvanceIs
<1>7. CASE g[i - 1].err
  BY <1>3, <1>5, <1>7 DEF g, got
<1>8. CASE ~ g[i - 1].err
  <2>1. g[i] = Advance(fields[i], g[i - 1])
    BY <1>3, <1>8
  <2>2. /\ g[i].err = got.err /\ g[i].rest = got.rest
        /\ g[i].out = IF got.err THEN g[i - 1].out
                      ELSE Append(g[i - 1].out, <<fields[i].name, got.val>>)
    BY <1>6, <2>1
  <2>3. ~ got.err => g[i].out = Append(g[i - 1].out, <<fields[i].name, got.val>>)
    BY <2>2
  <2> QED
    BY <1>5, <1>8, <2>2, <2>3 DEF g, got
<1> QED
  BY <1>7, <1>8

LEMMA ScanOut ==
  ASSUME NEW fields \in Seq(Fields), NEW p \in Str
  PROVE  \A i \in 0..Len(fields) :
           ~ Scanned(fields, Reader(p))[i].err => ScannedTo(fields, p, i)
<1> DEFINE g == Scanned(fields, Reader(p))
           got(i) == ReadAt(fields, Reader(p), i)
           T == {i \in Nat : i <= Len(fields) => (~ g[i].err => ScannedTo(fields, p, i))}
<1>1. Len(fields) \in Nat
  BY LenProperties
<1>2. g[0] = Reader(p)
  BY ReaderType, ScanSteps
<1>3. 0 \in T
  <2>1. Len(g[0].out) = 0
    BY <1>2, EmptySeq DEF Reader
  <2> HIDE DEF g
  <2> QED
    BY <2>1 DEF ScannedTo, g
<1>4. ASSUME NEW i \in T PROVE i + 1 \in T
  <2> SUFFICES ASSUME i + 1 <= Len(fields), ~ g[i + 1].err
               PROVE  ScannedTo(fields, p, i + 1)
    OBVIOUS
  <2>1. i + 1 \in 1..Len(fields) /\ (i + 1) - 1 = i /\ i <= Len(fields) /\ i \in Nat
    BY <1>1
  <2>2. /\ g[i] \in Readers
        /\ g[i].err => g[i + 1].err
        /\ ~ g[i].err =>
             /\ g[i + 1].err = got(i + 1).err
             /\ g[i + 1].rest = got(i + 1).rest
             /\ ~ got(i + 1).err =>
                  g[i + 1].out = Append(g[i].out, <<fields[i + 1].name, got(i + 1).val>>)
    BY <2>1, ScanStepOf
  <2>3. ScannedTo(fields, p, i)
    BY <2>1, <2>2
  <2>4. /\ Len(g[i].out) = i
        /\ \A j \in 1..i : /\ ~ got(j).err
                           /\ g[i].out[j] = <<fields[j].name, got(j).val>>
                           /\ g[j].rest = got(j).rest
    BY <2>3 DEF ScannedTo
  <2> HIDE DEF g, got
  <2>5. /\ ~ got(i + 1).err /\ g[i + 1].rest = got(i + 1).rest
        /\ g[i + 1].out = Append(g[i].out, <<fields[i + 1].name, got(i + 1).val>>)
    BY <2>2
  <2> DEFINE new == <<fields[i + 1].name, got(i + 1).val>>
  <2>6. g[i].out \in Seq(Names \X Str)
    BY <2>2 DEF Readers
  <2> HIDE DEF new
  <2>7. /\ Len(g[i + 1].out) = i + 1
        /\ g[i + 1].out[i + 1] = new
        /\ \A j \in 1..i : g[i + 1].out[j] = g[i].out[j]
    <3>1. g[i + 1].out = Append(g[i].out, new)
      BY <2>5 DEF new
    <3> QED
      BY <2>1, <2>4, <2>6, <3>1
  <2>8. \A j \in 1..i + 1 : /\ ~ got(j).err
                            /\ g[i + 1].out[j] = <<fields[j].name, got(j).val>>
                            /\ g[j].rest = got(j).rest
    <3> SUFFICES ASSUME NEW j \in 1..i + 1
                 PROVE  /\ ~ got(j).err
                        /\ g[i + 1].out[j] = <<fields[j].name, got(j).val>>
                        /\ g[j].rest = got(j).rest
      OBVIOUS
    <3>1. CASE j = i + 1
      BY <2>5, <2>7, <3>1 DEF new
    <3>2. CASE j \in 1..i
      BY <2>4, <2>7, <3>2
    <3> QED
      BY <2>1, <3>1, <3>2
  <2> QED
    BY <2>7, <2>8 DEF ScannedTo, g, got
<1>5. T = Nat
  <2>1. T \in SUBSET Nat
    OBVIOUS
  <2> HIDE DEF T
  <2> QED
    BY <1>3, <1>4, <2>1, Induction
<1> QED
  BY <1>1, <1>5

(* The value under a name that occurs once.                                *)
LEMMA ValueOf ==
  ASSUME NEW r, NEW k \in 1..Len(r.out), Len(r.out) \in Nat,
         \A i \in 1..Len(r.out) : r.out[i][1] = r.out[k][1] => i = k
  PROVE  Value(r, r.out[k][1]) = r.out[k][2]
<1> DEFINE name == r.out[k][1]
           I == {i \in 1..Len(r.out) : r.out[i][1] = name}
<1>1. I = {k} /\ k \in Nat
  OBVIOUS
<1>2. Max({k}) = k
  BY <1>1 DEF Max
<1> HIDE DEF name
<1>3. SelectLastInSeq(r.out, LAMBDA f : f[1] = name) = IF I # {} THEN Max(I) ELSE 0
  BY DEF SelectLastInSeq
<1> HIDE DEF I
<1>4. SelectLastInSeq(r.out, LAMBDA f : f[1] = name) = k
  BY <1>1, <1>2, <1>3
<1>5. Value(r, name) = r.out[k][2]
  BY <1>4 DEF Value
<1> QED
  BY <1>5 DEF name

-----------------------------------------------------------------------------
(* A ticket.                                                               *)

TicketRecords ==
  [ticketType : Of(1), ticketLifeTime : Of(4), ticketAgeAdd : Short,
   reversed : Of(4), nonce : Short, ticket : Short]

LEMMA TicketFieldsAre ==
  /\ TicketFields \in Seq(Fields) /\ Len(TicketFields) = 6
  /\ TicketFields[1] = Field("ticketType", "byte", 1)
  /\ TicketFields[2] = Field("ticketLifeTime", "number", 4)
  /\ TicketFields[3] = Field("ticketAgeAdd", "u16", 2)
  /\ TicketFields[4] = Field("reversed", "number", 4)
  /\ TicketFields[5] = Field("nonce", "u16", 2)
  /\ TicketFields[6] = Field("ticket", "u16", 2)
  /\ TicketNames = {"ticketType", "ticketLifeTime", "ticketAgeAdd", "reversed",
                    "nonce", "ticket"}
<1>1. /\ Len(TicketFields) = 6
      /\ TicketFields[1] = Field("ticketType", "byte", 1)
      /\ TicketFields[2] = Field("ticketLifeTime", "number", 4)
      /\ TicketFields[3] = Field("ticketAgeAdd", "u16", 2)
      /\ TicketFields[4] = Field("reversed", "number", 4)
      /\ TicketFields[5] = Field("nonce", "u16", 2)
      /\ TicketFields[6] = Field("ticket", "u16", 2)
      /\ DOMAIN TicketFields = 1..6
  BY DEF TicketFields
<1>2. /\ Field("ticketType", "byte", 1) \in Fields
      /\ Field("ticketLifeTime", "number", 4) \in Fields
      /\ Field("ticketAgeAdd", "u16", 2) \in Fields
      /\ Field("reversed", "number", 4) \in Fields
      /\ Field("nonce", "u16", 2) \in Fields
      /\ Field("ticket", "u16", 2) \in Fields
  BY DEF Field, Fields, Names, RecordNames, Hows
<1>3. TicketFields \in Seq(Fields)
  BY <1>2 DEF TicketFields
<1>4. TicketNames = {TicketFields[i].name : i \in 1..6}
  BY <1>1 DEF TicketNames
<1>5. /\ TicketFields[1].name = "ticketType" /\ TicketFields[2].name = "ticketLifeTime"
      /\ TicketFields[3].name = "ticketAgeAdd" /\ TicketFields[4].name = "reversed"
      /\ TicketFields[5].name = "nonce" /\ TicketFields[6].name = "ticket"
  BY <1>1 DEF Field
<1>6. 1..6 = {1, 2, 3, 4, 5, 6}
  OBVIOUS
<1>7. TicketNames = {"ticketType", "ticketLifeTime", "ticketAgeAdd", "reversed",
                     "nonce", "ticket"}
  BY <1>4, <1>5, <1>6
<1> QED
  BY <1>1, <1>3, <1>7

(* What readSessionTicket reads, field by field.                           *)
At(p, i) == Scanned(TicketFields, Reader(p))[i - 1].rest

LEMMA TicketFieldsRead ==
  ASSUME NEW p \in Str, NEW i \in 1..6
  PROVE  /\ At(p, i) \in Str
         /\ ReadAt(TicketFields, Reader(p), i)
              = IF i = 1 THEN ReadByte(At(p, i))
                ELSE IF i \in {2, 4} THEN ReadFull(4, At(p, i))
                ELSE readU16LenData(At(p, i))
<1>1. At(p, i) \in Str
  BY TicketFieldsAre, ScanStepOf DEF At, Readers
<1>2. ReadAt(TicketFields, Reader(p), i) = ReadField(TicketFields[i], At(p, i))
  BY DEF ReadAt, At
<1>3. /\ TicketFields[i] \in Fields
      /\ TicketFields[i].how = IF i = 1 THEN "byte" ELSE IF i \in {2, 4} THEN "number" ELSE "u16"
      /\ i \in {2, 4} => TicketFields[i].width = 4
  <2>1. TicketFields[i] \in Fields
    BY TicketFieldsAre, ElementOfSeq
  <2>2. i \in {1, 2, 3, 4, 5, 6}
    OBVIOUS
  <2> QED
    BY <2>1, <2>2, TicketFieldsAre DEF Field
<1> QED
  BY <1>1, <1>2, <1>3, FieldRead

(* readSessionTicket fails, or returns a ticket: the values read.          *)
LEMMA TicketParsed ==
  ASSUME NEW p \in Str
  PROVE  LET g == Scanned(TicketFields, Reader(p))
             got(i) == ReadAt(TicketFields, Reader(p), i)
         IN  /\ readSessionTicket(p).err = g[6].err
             /\ ~ g[6].err =>
                  /\ \A i \in 1..6 : ~ got(i).err
                  /\ readSessionTicket(p).rest = g[6].rest
                  /\ readSessionTicket(p).val \in TicketRecords
                  /\ readSessionTicket(p).val =
                       [ticketType |-> got(1).val, ticketLifeTime |-> got(2).val,
                        ticketAgeAdd |-> got(3).val, reversed |-> got(4).val,
                        nonce |-> got(5).val, ticket |-> got(6).val]
<1> DEFINE g == Scanned(TicketFields, Reader(p))
           got(i) == ReadAt(TicketFields, Reader(p), i)
<1>1. Scan(TicketFields, Reader(p)) = g[6] /\ g[6] \in Readers
  <2>1. /\ Scan(TicketFields, Reader(p)) = g[Len(TicketFields)]
        /\ g \in [0..Len(TicketFields) -> Readers]
    BY TicketFieldsAre, ReaderType, ScanSteps
  <2> HIDE DEF g
  <2> QED
    BY <2>1, TicketFieldsAre
<1>2. readSessionTicket(p) = IF g[6].err THEN Failed(g[6].rest)
        ELSE Got([name \in TicketNames |-> Value(g[6], name)], g[6].rest)
  <2> HIDE DEF g
  <2> QED
    BY <1>1 DEF readSessionTicket, With
<1>3. readSessionTicket(p).err = g[6].err
  <2> HIDE DEF g
  <2>1. g[6].err \in BOOLEAN
    BY <1>1 DEF Readers
  <2>2. CASE g[6].err
    BY <1>2, <2>2 DEF Failed
  <2>3. CASE ~ g[6].err
    <3>1. readSessionTicket(p).err = FALSE
      BY <1>2, <2>3 DEF Got
    <3>2. g[6].err = FALSE
      BY <2>1, <2>3
    <3> QED
      BY <3>1, <3>2
  <2> QED
    BY <2>2, <2>3
<1>4. ASSUME ~ g[6].err
      PROVE  /\ \A i \in 1..6 : ~ got(i).err
             /\ readSessionTicket(p).rest = g[6].rest
             /\ readSessionTicket(p).val \in TicketRecords
             /\ readSessionTicket(p).val =
                  [ticketType |-> got(1).val, ticketLifeTime |-> got(2).val,
                   ticketAgeAdd |-> got(3).val, reversed |-> got(4).val,
                   nonce |-> got(5).val, ticket |-> got(6).val]
  <2>1. ScannedTo(TicketFields, p, 6)
    <3>1. \A i \in 0..Len(TicketFields) : ~ g[i].err => ScannedTo(TicketFields, p, i)
      BY TicketFieldsAre, ScanOut
    <3> HIDE DEF g
    <3> QED
      BY <1>4, <3>1, TicketFieldsAre
  <2>2. /\ Len(g[6].out) = 6
        /\ \A i \in 1..6 : /\ ~ got(i).err
                           /\ g[6].out[i] = <<TicketFields[i].name, got(i).val>>
    BY <2>1 DEF ScannedTo
  <2>3. /\ got(1).val \in Of(1)
        /\ got(2).val \in Of(4) /\ got(4).val \in Of(4)
        /\ got(3).val \in Short /\ got(5).val \in Short /\ got(6).val \in Short
    <3>1. /\ Typed(got(1), Of(1)) /\ Typed(got(2), Of(4)) /\ Typed(got(4), Of(4))
          /\ Typed(got(3), Short) /\ Typed(got(5), Short) /\ Typed(got(6), Short)
      BY TicketFieldsRead, ReadByteType, ReadFullType, U16Type
    <3> QED
      BY <2>2, <3>1 DEF Typed
  <2> HIDE DEF g, got
  <2>4. /\ g[6].out[1][1] = "ticketType" /\ g[6].out[2][1] = "ticketLifeTime"
        /\ g[6].out[3][1] = "ticketAgeAdd" /\ g[6].out[4][1] = "reversed"
        /\ g[6].out[5][1] = "nonce" /\ g[6].out[6][1] = "ticket"
        /\ \A i \in 1..6 : g[6].out[i][2] = got(i).val
    BY <2>2, TicketFieldsAre DEF Field
  <2>5. 1..6 = {1, 2, 3, 4, 5, 6}
    OBVIOUS
  <2>6. /\ Value(g[6], "ticketType") = got(1).val
        /\ Value(g[6], "ticketLifeTime") = got(2).val
        /\ Value(g[6], "ticketAgeAdd") = got(3).val
        /\ Value(g[6], "reversed") = got(4).val
        /\ Value(g[6], "nonce") = got(5).val
        /\ Value(g[6], "ticket") = got(6).val
    <3>1. \A i, k \in 1..6 : g[6].out[i][1] = g[6].out[k][1] => i = k
      BY <2>4, <2>5
    <3>2. ASSUME NEW k \in 1..6
          PROVE  Value(g[6], g[6].out[k][1]) = g[6].out[k][2]
      <4>1. /\ k \in 1..Len(g[6].out) /\ Len(g[6].out) \in Nat
            /\ \A i \in 1..Len(g[6].out) : g[6].out[i][1] = g[6].out[k][1] => i = k
        BY <2>2, <3>1
      <4> QED
        BY <4>1, ValueOf
    <3>3. \A k \in 1..6 : Value(g[6], g[6].out[k][1]) = got(k).val
      BY <2>4, <3>2
    <3> QED
      BY <2>4, <3>3
  <2>7. [name \in TicketNames |-> Value(g[6], name)]
          = [ticketType |-> got(1).val, ticketLifeTime |-> got(2).val,
             ticketAgeAdd |-> got(3).val, reversed |-> got(4).val,
             nonce |-> got(5).val, ticket |-> got(6).val]
    BY <2>6, TicketFieldsAre
  <2>8. readSessionTicket(p) = Got([name \in TicketNames |-> Value(g[6], name)], g[6].rest)
    BY <1>2, <1>4
  <2> QED
    BY <2>2, <2>3, <2>7, <2>8 DEF Got, TicketRecords
<1> QED
  BY <1>3, <1>4

(* Reads of what is there whole.                                           *)
Exactly(r, a, b) == ~ r.err /\ r.val = a /\ r.rest = b

LEMMA U16Written ==
  ASSUME NEW d \in Short
  PROVE  writeU16LenData(d) \in Str /\ Len(writeU16LenData(d)) = Len(d) + 2
<1>1. d \in Str /\ Len(d) \in Nat
  BY OnlyEmpty DEF Short
<1> DEFINE a == BigEndian(Len(d), 2)
<1>2. a \in Str /\ Len(a) = 2
  BY <1>1, BigEndianType DEF Of
<1> HIDE DEF a
<1>3. a \o d \in Str /\ Len(a \o d) = Len(a) + Len(d)
  BY <1>1, <1>2, JoinStr
<1>4. Len(a) + Len(d) = Len(d) + 2
  BY <1>1, <1>2
<1> QED
  BY <1>3, <1>4 DEF writeU16LenData, a

LEMMA ReadWhole ==
  ASSUME NEW a \in Str, NEW b \in Str
  PROVE  /\ a \in Of(1) => Exactly(ReadByte(a \o b), a, b)
         /\ a \in Of(4) => Exactly(ReadFull(4, a \o b), a, b)
         /\ a \in Short => Exactly(readU16LenData(writeU16LenData(a) \o b), a, b)
<1>1. \A r, v : Taken(r, v, b, << >>) => Exactly(r, v, b)
  BY NothingCut DEF Taken, Exactly
<1>2. /\ a \o b \in Str /\ Len(a \o b) = Len(a) + Len(b)
      /\ Len(a) \in Nat /\ Len(b) \in Nat
  BY JoinStr, OnlyEmpty
<1>3. Begins(a \o b, << >>, a \o b)
  BY <1>2, BeginsWhole
<1>4. ASSUME a \in Of(1) PROVE Exactly(ReadByte(a \o b), a, b)
  <2>1. a \o b # << >>
    BY <1>2, <1>4, EmptyStr DEF Of
  <2> QED
    BY <1>1, <1>3, <1>4, <2>1, ReadByteOf
<1>5. ASSUME a \in Of(4) PROVE Exactly(ReadFull(4, a \o b), a, b)
  <2>1. Len(a) = 4 /\ Len(a) <= Len(a \o b)
    BY <1>2, <1>5 DEF Of
  <2> QED
    BY <1>1, <1>3, <2>1, ReadFullOf
<1>6. ASSUME a \in Short PROVE Exactly(readU16LenData(writeU16LenData(a) \o b), a, b)
  <2> DEFINE w == writeU16LenData(a)
  <2>1. w \in Str /\ Len(w) = Len(a) + 2
    BY <1>6, U16Written
  <2> HIDE DEF w
  <2>2. w \o b \in Str /\ Len(w \o b) = Len(w) + Len(b)
    BY <2>1, JoinStr
  <2>3. Begins(w \o b, << >>, w \o b)
    BY <2>2, BeginsWhole
  <2>4. Len(a) + 2 <= Len(w \o b)
    BY <1>2, <2>1, <2>2
  <2>5. Taken(readU16LenData(w \o b), a, b, << >>)
    BY <1>6, <2>3, <2>4, U16Of DEF w
  <2> QED
    BY <1>1, <2>5 DEF w
<1> QED
  BY <1>4, <1>5, <1>6

(* The scan goes on when a read succeeds.                                  *)
LEMMA TicketGoesOn ==
  ASSUME NEW p \in Str, NEW i \in 1..6, NEW a, NEW b,
         ~ Scanned(TicketFields, Reader(p))[i - 1].err,
         Exactly(ReadAt(TicketFields, Reader(p), i), a, b)
  PROVE  /\ ~ Scanned(TicketFields, Reader(p))[i].err
         /\ Scanned(TicketFields, Reader(p))[i].rest = b
BY ScanStepOf, TicketFieldsAre DEF Exactly

LEMMA SmallEnough ==
  ASSUME NEW x \in Nat, NEW y \in Nat, NEW z \in Nat,
         x < Limit2, y < Limit2, z < Limit2
  PROVE  x + y + z + 15 < Limit4
BY SMT DEF Limit2, Limit4

LEMMA TicketWritten ==
  ASSUME NEW t \in TicketRecords
  PROVE  /\ serializeTicket(t) \in Str /\ serializeTicket(t) # << >>
         /\ Len(serializeTicket(t)) < Limit4
         /\ ~ readSessionTicket(serializeTicket(t)).err
         /\ readSessionTicket(serializeTicket(t)).val = t
<1> DEFINE w1 == t.ticketType
           w2 == t.ticketLifeTime
           w3 == writeU16LenData(t.ticketAgeAdd)
           w4 == t.reversed
           w5 == writeU16LenData(t.nonce)
           w6 == writeU16LenData(t.ticket)
           p  == serializeTicket(t)
           b5 == w6 \o << >>
           b4 == w5 \o b5
           b3 == w4 \o b4
           b2 == w3 \o b3
           b1 == w2 \o b2
<1>1. /\ t.ticketType \in Of(1) /\ t.ticketLifeTime \in Of(4) /\ t.reversed \in Of(4)
      /\ t.ticketAgeAdd \in Short /\ t.nonce \in Short /\ t.ticket \in Short
  BY DEF TicketRecords
<1>2. /\ w1 \in Str /\ Len(w1) = 1 /\ w2 \in Str /\ Len(w2) = 4
      /\ w4 \in Str /\ Len(w4) = 4
  BY <1>1 DEF Of
<1>3. t.ticketAgeAdd \in Str /\ t.nonce \in Str /\ t.ticket \in Str
  BY <1>1 DEF Short
<1>0. PICK x \in Nat, y \in Nat, z \in Nat :
        /\ x = Len(t.ticketAgeAdd) /\ y = Len(t.nonce) /\ z = Len(t.ticket)
        /\ x < Limit2 /\ y < Limit2 /\ z < Limit2
  <2>1. \A d \in Short : Len(d) \in Nat /\ Len(d) < Limit2
    BY OnlyEmpty DEF Short
  <2> QED
    BY <1>1, <2>1
<1>4. /\ w3 \in Str /\ Len(w3) = x + 2
      /\ w5 \in Str /\ Len(w5) = y + 2
      /\ w6 \in Str /\ Len(w6) = z + 2
  BY <1>0, <1>1, U16Written
<1>5. p = ((((w1 \o w2) \o w3) \o w4) \o w5) \o w6
  BY DEF serializeTicket
<1> HIDE DEF w1, w2, w3, w4, w5, w6, p
<1>6. /\ b5 = w6 /\ b5 \in Str
  BY <1>4, ConcatEmptySeq DEF Str
<1>7. b4 \in Str /\ Len(b4) = y + z + 4
  <2> HIDE DEF b5
  <2>1. w5 \o b5 \in Str /\ Len(w5 \o b5) = Len(w5) + Len(b5)
    BY <1>4, <1>6, JoinStr
  <2>2. Len(w5) + Len(b5) = y + z + 4
    BY <1>4, <1>6, <1>4
  <2> QED
    BY <2>1, <2>2
<1>8. b3 \in Str /\ Len(b3) = y + z + 8
  <2> HIDE DEF b4
  <2>1. w4 \o b4 \in Str /\ Len(w4 \o b4) = Len(w4) + Len(b4)
    BY <1>2, <1>7, JoinStr
  <2>2. Len(w4) + Len(b4) = y + z + 8
    BY <1>2, <1>7
  <2> QED
    BY <2>1, <2>2
<1>9. b2 \in Str /\ Len(b2) = x + y + z + 10
  <2> HIDE DEF b3
  <2>1. w3 \o b3 \in Str /\ Len(w3 \o b3) = Len(w3) + Len(b3)
    BY <1>4, <1>8, JoinStr
  <2>2. Len(w3) + Len(b3) = x + y + z + 10
    BY <1>4, <1>8
  <2> QED
    BY <2>1, <2>2
<1>10. b1 \in Str /\ Len(b1) = x + y + z + 14
  <2> HIDE DEF b2
  <2>1. w2 \o b2 \in Str /\ Len(w2 \o b2) = Len(w2) + Len(b2)
    BY <1>2, <1>9, JoinStr
  <2>2. Len(w2) + Len(b2) = x + y + z + 14
    BY <1>2, <1>9
  <2> QED
    BY <2>1, <2>2
<1>11. w1 \o b1 \in Str /\ Len(w1 \o b1) = x + y + z + 15
  <2> HIDE DEF b1
  <2>1. w1 \o b1 \in Str /\ Len(w1 \o b1) = Len(w1) + Len(b1)
    BY <1>2, <1>10, JoinStr
  <2>2. Len(w1) + Len(b1) = x + y + z + 15
    BY <1>2, <1>10
  <2> QED
    BY <2>1, <2>2
<1>12. p = w1 \o b1
  <2>1. \A v \in Str : (((v \o w3) \o w4) \o w5) \o w6 = v \o (w3 \o (w4 \o (w5 \o w6)))
    <3> SUFFICES ASSUME NEW v \in Str
                 PROVE  (((v \o w3) \o w4) \o w5) \o w6 = v \o (w3 \o (w4 \o (w5 \o w6)))
      OBVIOUS
    <3> DEFINE v3 == v \o w3
               v4 == v3 \o w4
    <3>1. v3 \in Str
      BY <1>4, JoinStr
    <3>2. v4 \in Str
      <4> HIDE DEF v3
      <4> QED
        BY <1>2, <3>1, JoinStr
    <3>3. (v4 \o w5) \o w6 = v4 \o (w5 \o w6)
      <4> HIDE DEF v4
      <4> QED
        BY <1>4, <3>2, Regroup
    <3>4. w5 \o w6 \in Str
      BY <1>4, JoinStr
    <3> DEFINE u5 == w5 \o w6
    <3>5. v4 \o u5 = v3 \o (w4 \o u5)
      <4>1. u5 \in Str /\ w4 \in Str
        BY <1>2, <3>4
      <4> HIDE DEF v3, u5
      <4> QED
        BY <3>1, <4>1, Regroup
    <3>6. w4 \o u5 \in Str
      <4> HIDE DEF u5
      <4> QED
        BY <1>2, <3>4, JoinStr DEF u5
    <3> DEFINE u4 == w4 \o u5
    <3>7. v3 \o u4 = v \o (w3 \o u4)
      <4> HIDE DEF u4
      <4> QED
        BY <1>4, <3>6, Regroup DEF u4
    <3> QED
      BY <3>3, <3>5, <3>7
  <2>2. w1 \o w2 \in Str
    BY <1>2, JoinStr
  <2>3. p = (w1 \o w2) \o b2
    BY <1>5, <1>6, <2>1, <2>2
  <2>4. (w1 \o w2) \o b2 = w1 \o (w2 \o b2)
    <3>1. w1 \in Str /\ w2 \in Str /\ b2 \in Str
      BY <1>2, <1>9
    <3> HIDE DEF b2, w1, w2
    <3> QED
      BY <3>1, Regroup
  <2> QED
    BY <2>3, <2>4
<1> HIDE DEF b1, b2, b3, b4, b5
<1>13. p \in Str /\ p # << >> /\ Len(p) < Limit4
  <2>1. p \in Str /\ Len(p) = x + y + z + 15
    BY <1>11, <1>12
  <2>2. Len(p) # 0
    BY <2>1
  <2>3. Len(p) < Limit4
    BY <1>0, <2>1, SmallEnough
  <2> QED
    BY <2>1, <2>2, <2>3, EmptyStr
<1> DEFINE g == Scanned(TicketFields, Reader(p))
           got(i) == ReadAt(TicketFields, Reader(p), i)
<1>14. ~ g[0].err /\ g[0].rest = w1 \o b1
  <2>1. g[0] = Reader(p)
    BY <1>13, ReaderType, ScanSteps, TicketFieldsAre
  <2> HIDE DEF g
  <2> QED
    BY <1>12, <2>1 DEF Reader
<1>15. /\ got(1) = ReadByte(g[0].rest)
       /\ got(2) = ReadFull(4, g[1].rest)
       /\ got(3) = readU16LenData(g[2].rest)
       /\ got(4) = ReadFull(4, g[3].rest)
       /\ got(5) = readU16LenData(g[4].rest)
       /\ got(6) = readU16LenData(g[5].rest)
  <2>1. \A i \in 1..6 :
          got(i) = IF i = 1 THEN ReadByte(g[i - 1].rest)
                   ELSE IF i \in {2, 4} THEN ReadFull(4, g[i - 1].rest)
                   ELSE readU16LenData(g[i - 1].rest)
    BY <1>13, TicketFieldsRead DEF At
  <2> HIDE DEF g, got
  <2> QED
    BY <2>1
<1>16. \A i \in 1..6 : \A a, b :
         ~ g[i - 1].err /\ Exactly(got(i), a, b) => ~ g[i].err /\ g[i].rest = b
  BY <1>13, TicketGoesOn
<1> HIDE DEF g, got
<1>17. Exactly(got(1), t.ticketType, b1) /\ ~ g[1].err /\ g[1].rest = b1
  <2>1. got(1) = ReadByte(w1 \o b1)
    BY <1>14, <1>15
  <2>2. Exactly(got(1), t.ticketType, b1)
    BY <1>1, <1>2, <1>10, <2>1, ReadWhole DEF w1
  <2> QED
    BY <1>14, <1>16, <2>2
<1>18. Exactly(got(2), t.ticketLifeTime, b2) /\ ~ g[2].err /\ g[2].rest = b2
  <2>1. got(2) = ReadFull(4, w2 \o b2)
    BY <1>15, <1>17 DEF b1
  <2>2. Exactly(got(2), t.ticketLifeTime, b2)
    BY <1>1, <1>2, <1>9, <2>1, ReadWhole DEF w2
  <2> QED
    BY <1>16, <1>17, <2>2
<1>19. Exactly(got(3), t.ticketAgeAdd, b3) /\ ~ g[3].err /\ g[3].rest = b3
  <2>1. got(3) = readU16LenData(w3 \o b3)
    BY <1>15, <1>18 DEF b2
  <2>2. Exactly(got(3), t.ticketAgeAdd, b3)
    BY <1>1, <1>3, <1>8, <2>1, ReadWhole DEF w3
  <2> QED
    BY <1>16, <1>18, <2>2
<1>20. Exactly(got(4), t.reversed, b4) /\ ~ g[4].err /\ g[4].rest = b4
  <2>1. got(4) = ReadFull(4, w4 \o b4)
    BY <1>15, <1>19 DEF b3
  <2>2. Exactly(got(4), t.reversed, b4)
    BY <1>1, <1>2, <1>7, <2>1, ReadWhole DEF w4
  <2> QED
    BY <1>16, <1>19, <2>2
<1>21. Exactly(got(5), t.nonce, b5) /\ ~ g[5].err /\ g[5].rest = b5
  <2>1. got(5) = readU16LenData(w5 \o b5)
    BY <1>15, <1>20 DEF b4
  <2>2. Exactly(got(5), t.nonce, b5)
    BY <1>1, <1>3, <1>6, <2>1, ReadWhole DEF w5
  <2> QED
    BY <1>16, <1>20, <2>2
<1>22. Exactly(got(6), t.ticket, << >>) /\ ~ g[6].err
  <2>1. got(6) = readU16LenData(w6 \o << >>)
    BY <1>15, <1>21 DEF b5
  <2>2. Exactly(got(6), t.ticket, << >>)
    BY <1>1, <1>3, <2>1, EmptyStr, ReadWhole DEF w6
  <2> QED
    BY <1>16, <1>21, <2>2
<1>23. ~ readSessionTicket(p).err /\ readSessionTicket(p).val = t
  <2>1. /\ readSessionTicket(p).err = g[6].err
        /\ readSessionTicket(p).val =
             [ticketType |-> got(1).val, ticketLifeTime |-> got(2).val,
              ticketAgeAdd |-> got(3).val, reversed |-> got(4).val,
              nonce |-> got(5).val, ticket |-> got(6).val]
    BY <1>13, <1>22, TicketParsed DEF g, got
  <2>2. t = [ticketType |-> t.ticketType, ticketLifeTime |-> t.ticketLifeTime,
             ticketAgeAdd |-> t.ticketAgeAdd, reversed |-> t.reversed,
             nonce |-> t.nonce, ticket |-> t.ticket]
    BY DEF TicketRecords
  <2> QED
    BY <1>17, <1>18, <1>19, <1>20, <1>21, <1>22, <2>1, <2>2 DEF Exactly
<1> QED
  BY <1>13, <1>23 DEF p

-----------------------------------------------------------------------------
(* Tickets one after the other.                                            *)

TicketReaders == [rest : Str, err : BOOLEAN, out : Seq(TicketRecords)]

LEMMA ReadTicketIs ==
  ASSUME NEW r \in TicketReaders, ~ r.err
  PROVE  LET data == Prefixed(4, Read, r.rest)
             ticket == readSessionTicket(data.val)
         IN  /\ readTicket(r) \in TicketReaders
             /\ data.err \/ ticket.err => readTicket(r).err
             /\ ~ data.err /\ ~ ticket.err =>
                  /\ ~ readTicket(r).err
                  /\ readTicket(r).rest = data.rest
                  /\ readTicket(r).out = Append(r.out, ticket.val)
                  /\ ticket.val \in TicketRecords
<1> DEFINE data == Prefixed(4, Read, r.rest)
           ticket == readSessionTicket(data.val)
<1> SUFFICES /\ readTicket(r) \in TicketReaders
             /\ data.err \/ ticket.err => readTicket(r).err
             /\ ~ data.err /\ ~ ticket.err =>
                  /\ ~ readTicket(r).err
                  /\ readTicket(r).rest = data.rest
                  /\ readTicket(r).out = Append(r.out, ticket.val)
                  /\ ticket.val \in TicketRecords
  OBVIOUS
<1>1. r.rest \in Str /\ r.err = FALSE /\ r.out \in Seq(TicketRecords)
      /\ r = [rest |-> r.rest, err |-> r.err, out |-> r.out]
  BY DEF TicketReaders
<1>2. Typed(data, Str)
  BY <1>1, PrefixedType
<1>3. readTicket(r) =
        IF data.err THEN [r EXCEPT !.err = TRUE]
        ELSE IF ticket.err THEN [r EXCEPT !.err = TRUE]
        ELSE [r EXCEPT !.rest = data.rest, !.out = Append(@, ticket.val)]
  BY DEF readTicket, With
<1> HIDE DEF data
<1>4. /\ [r EXCEPT !.err = TRUE] \in TicketReaders
      /\ [r EXCEPT !.err = TRUE].err
  BY <1>1 DEF TicketReaders
<1>5. CASE data.err
  <2> HIDE DEF ticket
  <2>1. readTicket(r) = [r EXCEPT !.err = TRUE]
    BY <1>3, <1>5
  <2> QED
    BY <1>4, <1>5, <2>1
<1>6. CASE ~ data.err
  <2>1. data.rest \in Str /\ data.val \in Str
    BY <1>2, <1>6 DEF Typed
  <2>2. ticket.err \in BOOLEAN /\ (~ ticket.err => ticket.val \in TicketRecords)
    <3>1. Scanned(TicketFields, Reader(data.val)) \in [0..6 -> Readers]
      BY <2>1, ScanSteps, ReaderType, TicketFieldsAre
    <3>2. Scanned(TicketFields, Reader(data.val))[6].err \in BOOLEAN
      BY <3>1 DEF Readers
    <3> QED
      BY <2>1, <3>2, TicketParsed
  <2> HIDE DEF ticket
  <2>3. CASE ticket.err
    <3>1. readTicket(r) = [r EXCEPT !.err = TRUE]
      BY <1>3, <1>6, <2>3
    <3> QED
      BY <1>4, <2>3, <3>1
  <2>4. CASE ~ ticket.err
    <3>1. Append(r.out, ticket.val) \in Seq(TicketRecords)
      BY <1>1, <2>2, <2>4, AppendProperties
    <3>2. readTicket(r) = [rest |-> data.rest, err |-> FALSE,
                           out |-> Append(r.out, ticket.val)]
      BY <1>1, <1>3, <1>6, <2>4
    <3>3. readTicket(r) \in TicketReaders
      BY <2>1, <3>1, <3>2 DEF TicketReaders
    <3>4. /\ readTicket(r).err = FALSE
          /\ readTicket(r).rest = data.rest
          /\ readTicket(r).out = Append(r.out, ticket.val)
      BY <3>2
    <3> QED
      BY <1>6, <2>2, <2>4, <3>3, <3>4
  <2> QED
    BY <2>3, <2>4
<1> QED
  BY <1>5, <1>6

(* The reader after each ticket.                                           *)
TicketStep(n) ==
  [x \in (1..n) \X TicketReaders |-> IF x[2].err THEN x[2] ELSE readTicket(x[2])]
TicketsTo(n, r) == Steps(n, r, TicketStep(n))

LEMMA RepeatSteps ==
  ASSUME NEW n \in Nat, NEW r \in TicketReaders
  PROVE  /\ Repeat(n, readTicket, r) = TicketsTo(n, r)[n]
         /\ TicketsTo(n, r) \in [0..n -> TicketReaders]
         /\ TicketsTo(n, r)[0] = r
         /\ \A i \in 1..n : TicketsTo(n, r)[i]
              = IF TicketsTo(n, r)[i - 1].err THEN TicketsTo(n, r)[i - 1]
                ELSE readTicket(TicketsTo(n, r)[i - 1])
<1> DEFINE g == TicketsTo(n, r)
<1>1. \A s \in TicketReaders : ~ s.err => readTicket(s) \in TicketReaders
  BY ReadTicketIs
<1>2. TicketStep(n) \in [(1..n) \X TicketReaders -> TicketReaders]
  BY <1>1 DEF TicketStep
<1>3. \A i \in 1..n, s \in TicketReaders :
        TicketStep(n)[<<i, s>>] = IF s.err THEN s ELSE readTicket(s)
  BY DEF TicketStep
<1>4. Stepping(TicketReaders, n, r, TicketStep(n))
  BY <1>2 DEF Stepping
<1>5. /\ g \in [0..n -> TicketReaders]
      /\ g[0] = r
      /\ \A i \in 1..n : g[i] = TicketStep(n)[<<i, g[i - 1]>>]
  BY <1>4, Recursion DEF TicketsTo
<1> HIDE DEF g
<1>6. \A i \in 1..n : g[i - 1] \in TicketReaders
  BY <1>5
<1>7. \A i \in 1..n : g[i] = IF g[i - 1].err THEN g[i - 1] ELSE readTicket(g[i - 1])
  BY <1>3, <1>5, <1>6
<1> DEFINE Once(s) == With(s, LAMBDA t : IF t.err THEN t ELSE readTicket(t))
           Is(f) == f = [i \in 0..n |-> IF i = 0 THEN r ELSE Once(f[i - 1])]
<1>8. \A s : Once(s) = IF s.err THEN s ELSE readTicket(s)
  BY DEF With
<1> HIDE DEF Once
<1>9. Is(g)
  <2>1. \A i \in 0..n : g[i] = IF i = 0 THEN r ELSE Once(g[i - 1])
    BY <1>5, <1>7, <1>8
  <2> QED
    BY <1>5, <2>1
<1>10. ASSUME NEW f, Is(f) PROVE f = g
  <2>1. f = [i \in 0..n |-> f[i]] /\ f[0] = r
    BY <1>10
  <2>2. ASSUME NEW i \in 1..n, f[i - 1] \in TicketReaders
        PROVE  f[i] = TicketStep(n)[<<i, f[i - 1]>>]
    <3>1. f[i] = IF f[i - 1].err THEN f[i - 1] ELSE readTicket(f[i - 1])
      BY <1>8, <1>10
    <3> QED
      BY <1>3, <2>2, <3>1
  <2>3. Follows(f, TicketReaders, n, r, TicketStep(n))
    BY <2>1, <2>2 DEF Follows
  <2> QED
    BY <1>4, <2>3, OnlySteps DEF g, TicketsTo
<1>11. Repeat(n, readTicket, r) = (CHOOSE f : Is(f))[n]
  BY DEF Repeat, Once
<1>12. (CHOOSE f : Is(f)) = g
  <2> HIDE DEF Is
  <2> QED
    BY <1>9, <1>10
<1> QED
  BY <1>5, <1>7, <1>11, <1>12 DEF g

(* Strings joined one after the other.                                     *)
JoinStep(seqs) == [x \in (1..Len(seqs)) \X Str |-> x[2] \o seqs[x[1]]]
Joined(seqs) == Steps(Len(seqs), << >>, JoinStep(seqs))

LEMMA JoinSteps ==
  ASSUME NEW seqs \in Seq(Str)
  PROVE  /\ FlattenSeq(seqs) = Joined(seqs)[Len(seqs)]
         /\ Joined(seqs) \in [0..Len(seqs) -> Str]
         /\ Joined(seqs)[0] = << >>
         /\ \A i \in 1..Len(seqs) : Joined(seqs)[i] = Joined(seqs)[i - 1] \o seqs[i]
<1> DEFINE n == Len(seqs)
           g == Joined(seqs)
<1>1. n \in Nat /\ \A i \in 1..n : seqs[i] \in Str
  BY LenProperties, ElementOfSeq
<1>2. JoinStep(seqs) \in [(1..n) \X Str -> Str]
  BY <1>1, JoinStr DEF JoinStep
<1>3. Stepping(Str, n, << >>, JoinStep(seqs))
  BY <1>1, <1>2, EmptyStr DEF Stepping
<1>4. /\ g \in [0..n -> Str]
      /\ g[0] = << >>
      /\ \A i \in 1..n : g[i] = JoinStep(seqs)[<<i, g[i - 1]>>]
  BY <1>3, Recursion DEF Joined
<1> HIDE DEF g
<1>5. \A i \in 1..n, s \in Str : JoinStep(seqs)[<<i, s>>] = s \o seqs[i]
  BY DEF JoinStep
<1>6. \A i \in 1..n : g[i - 1] \in Str
  BY <1>1, <1>4
<1>7. \A i \in 1..n : g[i] = g[i - 1] \o seqs[i]
  BY <1>4, <1>5, <1>6
<1>8. FlattenSeq(seqs) = g[n]
  <2>1. CASE n = 0
    <3>1. seqs = << >>
      BY <2>1, EmptySeq, LenProperties
    <3> QED
      BY <1>4, <2>1, <3>1 DEF FlattenSeq
  <2>2. CASE n # 0
    <3> DEFINE Is(f) == f = [i \in 1..n |-> IF i = 1 THEN seqs[i] ELSE f[i - 1] \o seqs[i]]
               h == [i \in 1..n |-> g[i]]
    <3>1. FlattenSeq(seqs) = (CHOOSE f : Is(f))[n]
      BY <2>2 DEF FlattenSeq
    <3>2. g[1] = seqs[1]
      <4>1. 1 \in 1..n /\ 1 - 1 = 0
        BY <1>1, <2>2
      <4>2. seqs[1] \in Seq(Byte)
        BY <1>1, <4>1 DEF Str
      <4>3. << >> \o seqs[1] = seqs[1]
        BY <4>2, ConcatEmptySeq
      <4> QED
        BY <1>4, <1>7, <4>1, <4>3
    <3>3. Is(h)
      <4>1. \A i \in 1..n : h[i] = IF i = 1 THEN seqs[i] ELSE h[i - 1] \o seqs[i]
        <5> SUFFICES ASSUME NEW i \in 1..n
                     PROVE  h[i] = IF i = 1 THEN seqs[i] ELSE h[i - 1] \o seqs[i]
          OBVIOUS
        <5>1. CASE i = 1
          BY <3>2, <5>1
        <5>2. CASE i # 1
          <6>1. i - 1 \in 1..n
            BY <1>1, <5>2
          <6>2. h[i] = g[i] /\ h[i - 1] = g[i - 1]
            BY <6>1
          <6> HIDE DEF h
          <6> QED
            BY <1>7, <5>2, <6>2
        <5> QED
          BY <5>1, <5>2
      <4> QED
        BY <4>1
    <3>4. ASSUME NEW f, Is(f) PROVE f = h
      <4>1. /\ f = [i \in 1..n |-> f[i]]
            /\ \A i \in 1..n : f[i] = IF i = 1 THEN seqs[i] ELSE f[i - 1] \o seqs[i]
        BY <3>4
      <4>6. f[1] = seqs[1] /\ \A i \in 2..n : f[i] = f[i - 1] \o seqs[i]
        <5>1. 1 \in 1..n /\ \A i \in 2..n : i \in 1..n /\ i # 1
          BY <1>1, <2>2
        <5> QED
          BY <4>1, <5>1
      <4> DEFINE T == {i \in Nat : i + 1 <= n => f[i + 1] = g[i + 1]}
      <4>2. 0 \in T
        BY <3>2, <4>6
      <4>3. ASSUME NEW i \in T PROVE i + 1 \in T
        <5> SUFFICES ASSUME (i + 1) + 1 <= n PROVE f[(i + 1) + 1] = g[(i + 1) + 1]
          OBVIOUS
        <5>1. /\ (i + 1) + 1 \in 2..n /\ (i + 1) + 1 \in 1..n /\ ((i + 1) + 1) - 1 = i + 1
              /\ f[i + 1] = g[i + 1]
          BY <1>1
        <5> QED
          BY <1>7, <4>6, <5>1
      <4>4. T = Nat
        <5>1. T \in SUBSET Nat
          OBVIOUS
        <5> HIDE DEF T
        <5> QED
          BY <4>2, <4>3, <5>1, Induction
      <4>5. \A i \in 1..n : f[i] = g[i]
        <5> SUFFICES ASSUME NEW i \in 1..n PROVE f[i] = g[i]
          OBVIOUS
        <5>1. i - 1 \in Nat /\ (i - 1) + 1 = i /\ i <= n
          BY <1>1
        <5>2. i - 1 \in T
          BY <4>4, <5>1
        <5> QED
          BY <5>1, <5>2
      <4> QED
        BY <4>1, <4>5
    <3>5. (CHOOSE f : Is(f)) = h
      <4> HIDE DEF Is, h
      <4> QED
        BY <3>3, <3>4
    <3>6. FlattenSeq(seqs) = h[n] /\ n \in 1..n
      <4>1. n \in 1..n
        BY <1>1, <2>2
      <4> HIDE DEF Is, h, n
      <4> QED
        BY <3>1, <3>5, <4>1
    <3> QED
      BY <3>6
  <2> QED
    BY <2>1, <2>2
<1> QED
  BY <1>4, <1>7, <1>8 DEF g

(* What has been joined begins what will be.                               *)
Prefix(a, b) == \E z \in Str : b = a \o z

LEMMA PrefixGrows ==
  ASSUME NEW a \in Str, NEW b, NEW s \in Str, Prefix(a, b)
  PROVE  Prefix(a, b \o s)
<1>1. PICK z \in Str : b = a \o z
  BY DEF Prefix
<1>2. b \o s = a \o (z \o s) /\ z \o s \in Str
  BY <1>1, Regroup, JoinStr
<1> QED
  BY <1>2 DEF Prefix

LEMMA PrefixSelf == ASSUME NEW a \in Str PROVE Prefix(a, a)
BY EmptyStr, ConcatEmptySeq DEF Prefix, Str

LEMMA JoinedBegins ==
  ASSUME NEW seqs \in Seq(Str)
  PROVE  \A i \in 0..Len(seqs) : Prefix(Joined(seqs)[i], Joined(seqs)[Len(seqs)])
<1> DEFINE n == Len(seqs)
           g == Joined(seqs)
<1>1. /\ g \in [0..n -> Str] /\ g[0] = << >>
      /\ \A i \in 1..n : g[i] = g[i - 1] \o seqs[i]
  BY JoinSteps
<1>2. n \in Nat /\ \A i \in 1..n : seqs[i] \in Str
  BY LenProperties, ElementOfSeq
<1> HIDE DEF g, n
<1> SUFFICES ASSUME NEW i \in 0..n PROVE Prefix(g[i], g[n])
  BY DEF g, n
<1> DEFINE T == {m \in Nat : i + m <= n => Prefix(g[i], g[i + m])}
<1>3. 0 \in T
  <2>1. g[i] \in Str /\ i + 0 = i
    BY <1>1, <1>2
  <2> QED
    BY <2>1, PrefixSelf
<1>4. ASSUME NEW m \in T PROVE m + 1 \in T
  <2> SUFFICES ASSUME i + (m + 1) <= n PROVE Prefix(g[i], g[i + (m + 1)])
    OBVIOUS
  <2>1. /\ i + (m + 1) \in 1..n /\ (i + (m + 1)) - 1 = i + m /\ i + m <= n
        /\ g[i] \in Str
    BY <1>1, <1>2
  <2>2. Prefix(g[i], g[i + m])
    BY <2>1
  <2>3. g[i + (m + 1)] = g[i + m] \o seqs[i + (m + 1)] /\ seqs[i + (m + 1)] \in Str
    BY <1>1, <1>2, <2>1
  <2> QED
    BY <2>1, <2>2, <2>3, PrefixGrows
<1>5. T = Nat
  <2>1. T \in SUBSET Nat
    OBVIOUS
  <2> HIDE DEF T
  <2> QED
    BY <1>3, <1>4, <2>1, Induction
<1>6. n - i \in Nat /\ i + (n - i) = n /\ n <= n
  BY <1>2
<1>7. n - i \in T
  BY <1>5, <1>6
<1> QED
  BY <1>6, <1>7

-----------------------------------------------------------------------------
(* The tickets of a session: what is left of them after the i-th, and what *)
(* has been read by then.                                                  *)

Serialized(ts) == [i \in DOMAIN ts |-> writeU32LenData(serializeTicket(ts[i]))]
Rest(seqs, i) == After(Len(Joined(seqs)[i]), Joined(seqs)[Len(seqs)])

LEMMA RestOf ==
  ASSUME NEW seqs \in Seq(Str)
  PROVE  /\ Rest(seqs, 0) = FlattenSeq(seqs) /\ FlattenSeq(seqs) \in Str
         /\ \A i \in 0..Len(seqs) :
              /\ Rest(seqs, i) \in Str
              /\ FlattenSeq(seqs) = Joined(seqs)[i] \o Rest(seqs, i)
         /\ \A i \in 1..Len(seqs) : Rest(seqs, i - 1) = seqs[i] \o Rest(seqs, i)
<1> DEFINE n == Len(seqs)
           g == Joined(seqs)
<1>1. /\ g \in [0..n -> Str] /\ g[0] = << >> /\ FlattenSeq(seqs) = g[n]
      /\ \A i \in 1..n : g[i] = g[i - 1] \o seqs[i]
      /\ \A i \in 0..n : Prefix(g[i], g[n])
  BY JoinSteps, JoinedBegins
<1>2. n \in Nat /\ \A i \in 1..n : seqs[i] \in Str
  BY LenProperties, ElementOfSeq
<1>3. \A i : Rest(seqs, i) = After(Len(g[i]), g[n])
  BY DEF Rest
<1> HIDE DEF g, n
<1>4. \A a \in Str, b \in Str : After(Len(a), a \o b) = b
  BY SplitWhole DEF Str
<1>5. ASSUME NEW i \in 0..n
      PROVE  Rest(seqs, i) \in Str /\ g[n] = g[i] \o Rest(seqs, i)
  <2>1. PICK z \in Str : g[n] = g[i] \o z
    BY <1>1, <1>5 DEF Prefix
  <2>2. g[i] \in Str
    BY <1>1
  <2>3. Rest(seqs, i) = z
    BY <1>3, <1>4, <2>1, <2>2
  <2> QED
    BY <2>1, <2>3
<1>6. Rest(seqs, 0) = g[n] /\ g[n] \in Str
  <2>2. 0 \in 0..n /\ n \in 0..n
    BY <1>2
  <2>1. g[n] \in Str /\ Rest(seqs, 0) \in Str /\ g[n] = << >> \o Rest(seqs, 0)
    BY <1>1, <1>5, <2>2
  <2> QED
    BY <2>1, ConcatEmptySeq DEF Str
<1>7. ASSUME NEW i \in 1..n
      PROVE  Rest(seqs, i - 1) = seqs[i] \o Rest(seqs, i)
  <2>1. i - 1 \in 0..n /\ i \in 0..n /\ seqs[i] \in Str
    BY <1>2
  <2>2. g[i - 1] \in Str /\ Rest(seqs, i) \in Str
    BY <1>1, <1>5, <2>1
  <2> DEFINE x == seqs[i] \o Rest(seqs, i)
  <2>3. g[n] = (g[i - 1] \o seqs[i]) \o Rest(seqs, i)
    BY <1>1, <1>5, <2>1
  <2>4. (g[i - 1] \o seqs[i]) \o Rest(seqs, i) = g[i - 1] \o x
    BY <2>1, <2>2, Regroup
  <2>5. x \in Str
    BY <2>1, <2>2, JoinStr
  <2> HIDE DEF x
  <2>6. g[n] = g[i - 1] \o x
    BY <2>3, <2>4
  <2>7. Rest(seqs, i - 1) = x
    BY <1>3, <1>4, <2>2, <2>5, <2>6
  <2> QED
    BY <2>7 DEF x
<1> QED
  BY <1>1, <1>5, <1>6, <1>7 DEF g, n

LEMMA WrittenType ==
  ASSUME NEW ts \in Seq(TicketRecords)
  PROVE  /\ Serialized(ts) \in Seq(Str) /\ Len(Serialized(ts)) = Len(ts)
         /\ \A i \in 1..Len(ts) :
              /\ ts[i] \in TicketRecords
              /\ Serialized(ts)[i] = writeU32LenData(serializeTicket(ts[i]))
<1>1. /\ Len(ts) \in Nat /\ DOMAIN ts = 1..Len(ts)
      /\ \A i \in 1..Len(ts) : ts[i] \in TicketRecords
  BY LenProperties, ElementOfSeq
<1>2. ASSUME NEW t \in TicketRecords
      PROVE  writeU32LenData(serializeTicket(t)) \in Str
  <2> DEFINE d == serializeTicket(t)
  <2>1. d \in Str /\ Len(d) \in Nat
    BY TicketWritten, OnlyEmpty
  <2> HIDE DEF d
  <2>2. BigEndian(Len(d), 4) \in Str
    BY <2>1, BigEndianType DEF Of
  <2> QED
    BY <2>1, <2>2, JoinStr DEF writeU32LenData, d
<1>3. Serialized(ts) \in [1..Len(ts) -> Str]
  BY <1>1, <1>2 DEF Serialized
<1>4. Serialized(ts) \in Seq(Str) /\ Len(Serialized(ts)) = Len(ts)
  BY <1>1, <1>3, SeqDef, LenProperties
<1> QED
  BY <1>1, <1>4 DEF Serialized

(* i tickets read, all of them as they were written; or the input ended in *)
(* the last of them.                                                       *)
AllRead(ts, q, i, r) ==
  /\ Len(r.out) = i
  /\ \A j \in 1..i : r.out[j] = ts[j]
  /\ Begins(r.rest, q, Rest(Serialized(ts), i))

Ended(ts, i, r) ==
  /\ i # 0 /\ Len(r.out) = i
  /\ \A j \in 1..i - 1 : r.out[j] = ts[j]
  /\ r.rest = << >>

SoFar(ts, q, i, r) ==
  /\ ~ r.err => AllRead(ts, q, i, r) \/ Ended(ts, i, r)
  /\ q = << >> => ~ r.err /\ AllRead(ts, q, i, r)

LEMMA NothingToRead == Prefixed(4, Read, << >>).err
<1>1. ReadFull(4, << >>).err
  BY EmptyStr DEF ReadFull, Failed
<1> QED
  BY <1>1, PrefixedRead

LEMMA OneTicket ==
  ASSUME NEW ts \in Seq(TicketRecords), NEW q, NEW i \in 1..Len(ts),
         NEW r \in TicketReaders, ~ r.err, SoFar(ts, q, i - 1, r)
  PROVE  SoFar(ts, q, i, readTicket(r))
<1> DEFINE data == Prefixed(4, Read, r.rest)
           ticket == readSessionTicket(data.val)
           s == readTicket(r)
           d == serializeTicket(ts[i])
           b == Rest(Serialized(ts), i)
<1>1. /\ ts[i] \in TicketRecords /\ b \in Str /\ Len(ts) \in Nat /\ i - 1 \in Nat
      /\ Rest(Serialized(ts), i - 1) = writeU32LenData(d) \o b
  <2>1. /\ Serialized(ts) \in Seq(Str) /\ Len(Serialized(ts)) = Len(ts)
        /\ ts[i] \in TicketRecords /\ Serialized(ts)[i] = writeU32LenData(d)
    BY WrittenType
  <2>2. Len(ts) \in Nat
    BY LenProperties
  <2>3. i \in 0..Len(Serialized(ts)) /\ i \in 1..Len(Serialized(ts)) /\ i - 1 \in Nat
    BY <2>1, <2>2
  <2> HIDE DEF d
  <2>4. b \in Str /\ Rest(Serialized(ts), i - 1) = Serialized(ts)[i] \o b
    BY <2>1, <2>3, RestOf
  <2> QED
    BY <2>1, <2>2, <2>3, <2>4
<1>2. /\ d \in Str /\ d # << >> /\ Len(d) < Limit4 /\ Len(d) \in Nat
      /\ ~ readSessionTicket(d).err /\ readSessionTicket(d).val = ts[i]
  BY <1>1, TicketWritten, OnlyEmpty
<1>3. /\ data.err \/ ticket.err => s.err
      /\ ~ data.err /\ ~ ticket.err =>
           /\ ~ s.err /\ s.rest = data.rest /\ s.out = Append(r.out, ticket.val)
           /\ ticket.val \in TicketRecords
  BY ReadTicketIs
<1>4. r.out \in Seq(TicketRecords) /\ r.rest \in Str
  BY DEF TicketReaders
<1> HIDE DEF data, ticket, s, d, b
<1>5. ASSUME ~ data.err, ~ ticket.err, Len(r.out) = i - 1
      PROVE  /\ Len(s.out) = i /\ s.out[i] = ticket.val
             /\ \A j \in 1..i - 1 : s.out[j] = r.out[j]
  <2>1. s.out = Append(r.out, ticket.val) /\ ticket.val \in TicketRecords
    BY <1>3, <1>5
  <2> QED
    BY <1>1, <1>4, <1>5, <2>1
<1>6. CASE AllRead(ts, q, i - 1, r)
  <2>1. /\ Len(r.out) = i - 1 /\ \A j \in 1..i - 1 : r.out[j] = ts[j]
        /\ Begins(r.rest, q, writeU32LenData(d) \o b)
    BY <1>1, <1>6 DEF AllRead
  <2>2. /\ Len(d) + 4 <= Len(r.rest) => Taken(data, d, b, q)
        /\ Len(r.rest) < Len(d) + 4 => Missed(data)
    BY <1>1, <1>2, <2>1, U32Of DEF data
  <2>3. ASSUME Taken(data, d, b, q) PROVE ~ s.err /\ AllRead(ts, q, i, s)
    <3>1. ~ data.err /\ data.val = d /\ Begins(data.rest, q, b)
      BY <2>3 DEF Taken
    <3>2. ~ ticket.err /\ ticket.val = ts[i]
      BY <1>2, <3>1 DEF ticket
    <3>3. ~ s.err /\ s.rest = data.rest
      BY <1>3, <3>1, <3>2
    <3>4. /\ Len(s.out) = i /\ s.out[i] = ts[i]
          /\ \A j \in 1..i - 1 : s.out[j] = ts[j]
      BY <1>5, <2>1, <3>1, <3>2
    <3>5. \A j \in 1..i : s.out[j] = ts[j]
      BY <1>1, <3>4
    <3> QED
      BY <3>1, <3>3, <3>4, <3>5 DEF AllRead, b
  <2>4. ASSUME Missed(data), ~ s.err PROVE Ended(ts, i, s)
    <3>1. ~ data.err /\ ~ ticket.err /\ data.rest = << >>
      BY <1>3, <2>4 DEF Missed
    <3>2. s.rest = << >>
      BY <1>3, <3>1
    <3>3. Len(s.out) = i /\ \A j \in 1..i - 1 : s.out[j] = ts[j]
      BY <1>5, <2>1, <3>1
    <3> QED
      BY <3>2, <3>3 DEF Ended
  <2>5. ASSUME q = << >> PROVE Len(d) + 4 <= Len(r.rest)
    <3> DEFINE w == writeU32LenData(d)
    <3>1. w \in Str /\ Len(w) = 4 + Len(d)
      <4> DEFINE a == BigEndian(Len(d), 4)
      <4>1. a \in Str /\ Len(a) = 4
        BY <1>2, BigEndianType DEF Of
      <4> HIDE DEF a
      <4>2. a \o d \in Str /\ Len(a \o d) = Len(a) + Len(d)
        BY <1>2, <4>1, JoinStr
      <4> QED
        BY <4>1, <4>2 DEF writeU32LenData, a
    <3> HIDE DEF w
    <3>2. w \o b \in Str /\ Len(w \o b) = Len(w) + Len(b) /\ Len(b) \in Nat
      BY <1>1, <3>1, JoinStr, OnlyEmpty
    <3>3. r.rest = w \o b
      BY <2>1, <2>5, <3>2, NothingCut DEF w
    <3> QED
      BY <1>2, <3>1, <3>2, <3>3
  <2>6. Len(r.rest) \in Nat
    BY <1>4, OnlyEmpty
  <2>7. CASE Len(d) + 4 <= Len(r.rest)
    BY <2>2, <2>3, <2>7 DEF SoFar, s
  <2>8. CASE Len(r.rest) < Len(d) + 4
    <3>1. q # << >>
      BY <1>2, <2>5, <2>6, <2>8
    <3> QED
      BY <2>2, <2>4, <2>8, <3>1 DEF SoFar, s
  <2> QED
    BY <1>2, <2>6, <2>7, <2>8
<1>7. CASE ~ AllRead(ts, q, i - 1, r)
  <2>1. r.rest = << >> /\ q # << >>
    BY <1>7 DEF SoFar, Ended
  <2>2. s.err
    BY <1>3, <2>1, NothingToRead DEF data
  <2> QED
    BY <2>1, <2>2 DEF SoFar, s
<1> QED
  BY <1>6, <1>7

LEMMA TicketLoop ==
  ASSUME NEW ts \in Seq(TicketRecords), NEW p, NEW q,
         Begins(p, q, FlattenSeq(Serialized(ts)))
  PROVE  /\ Repeat(Len(ts), readTicket, Reader(p)) \in TicketReaders
         /\ SoFar(ts, q, Len(ts), Repeat(Len(ts), readTicket, Reader(p)))
<1> DEFINE n == Len(ts)
           g == TicketsTo(n, Reader(p))
           T == {i \in Nat : i <= n => SoFar(ts, q, i, g[i])}
<1>1. n \in Nat /\ p \in Str
  BY LenProperties DEF Begins
<1>2. Reader(p) \in TicketReaders
  BY <1>1, EmptySeq DEF Reader, TicketReaders
<1>3. /\ Repeat(n, readTicket, Reader(p)) = g[n]
      /\ g \in [0..n -> TicketReaders]
      /\ g[0] = Reader(p)
      /\ \A i \in 1..n : g[i] = IF g[i - 1].err THEN g[i - 1] ELSE readTicket(g[i - 1])
  BY <1>1, <1>2, RepeatSteps
<1>4. Begins(p, q, Rest(Serialized(ts), 0))
  BY WrittenType, RestOf
<1> HIDE DEF g, n
<1>5. 0 \in T
  <2>1. /\ g[0].err = FALSE /\ g[0].rest = p /\ Len(g[0].out) = 0
    BY <1>3 DEF Reader
  <2>2. AllRead(ts, q, 0, g[0])
    BY <1>4, <2>1 DEF AllRead
  <2> QED
    BY <2>1, <2>2 DEF SoFar
<1>6. ASSUME NEW i \in T PROVE i + 1 \in T
  <2> SUFFICES ASSUME i + 1 <= n PROVE SoFar(ts, q, i + 1, g[i + 1])
    OBVIOUS
  <2>1. i + 1 \in 1..n /\ (i + 1) - 1 = i /\ i <= n /\ i \in 0..n
    BY <1>1
  <2>2. SoFar(ts, q, i, g[i]) /\ g[i] \in TicketReaders
    BY <1>3, <2>1
  <2>3. g[i + 1] = IF g[i].err THEN g[i] ELSE readTicket(g[i])
    BY <1>3, <2>1
  <2>4. CASE g[i].err
    BY <2>2, <2>3, <2>4 DEF SoFar
  <2>5. CASE ~ g[i].err
    <3>1. SoFar(ts, q, i + 1, readTicket(g[i]))
      BY <2>1, <2>2, <2>5, OneTicket DEF n
    <3> QED
      BY <2>3, <2>5, <3>1
  <2> QED
    BY <2>4, <2>5
<1>7. T = Nat
  <2>1. T \in SUBSET Nat
    OBVIOUS
  <2> HIDE DEF T
  <2> QED
    BY <1>5, <1>6, <2>1, Induction
<1>8. SoFar(ts, q, n, g[n]) /\ g[n] \in TicketReaders
  BY <1>1, <1>3, <1>7
<1> QED
  BY <1>3, <1>8 DEF n

-----------------------------------------------------------------------------
(* The tickets of a session, with what is in front of them.                *)

HeadFields == <<Field("length", "number", 4), Field("reversed", "byte", 1),
                Field("count", "byte", 1)>>

LEMMA HeadFieldsAre ==
  /\ HeadFields \in Seq(Fields) /\ Len(HeadFields) = 3
  /\ HeadFields[1] = Field("length", "number", 4)
  /\ HeadFields[2] = Field("reversed", "byte", 1)
  /\ HeadFields[3] = Field("count", "byte", 1)
<1>1. /\ Field("length", "number", 4) \in Fields
      /\ Field("reversed", "byte", 1) \in Fields
      /\ Field("count", "byte", 1) \in Fields
  BY DEF Field, Fields, Names, RecordNames, Hows
<1> QED
  BY <1>1 DEF HeadFields

LEMMA HeadRead ==
  ASSUME NEW p \in Str
  PROVE  LET a == ReadFull(4, p)
             b == ReadByte(a.rest)
             c == ReadByte(b.rest)
         IN  /\ a.err => readNewSessionTicket(p).err
             /\ ~ a.err => readNewSessionTicket(p)
                             = Repeat(Number(c.val), readTicket, Reader(c.rest))
<1> DEFINE a == ReadFull(4, p)
           b == ReadByte(a.rest)
           c == ReadByte(b.rest)
           g == Scanned(HeadFields, Reader(p))
           got(i) == ReadAt(HeadFields, Reader(p), i)
<1>1. /\ Typed(a, Of(4)) /\ Typed(b, Of(1)) /\ Typed(c, Of(1)) /\ ~ b.err /\ ~ c.err
  <2>1. Typed(a, Of(4)) /\ a.rest \in Str
    BY ReadFullType DEF Typed
  <2>2. Typed(b, Of(1)) /\ ~ b.err /\ b.rest \in Str
    BY <2>1, ReadByteType DEF Typed
  <2>3. Typed(c, Of(1)) /\ ~ c.err
    BY <2>2, ReadByteType DEF Typed
  <2> QED
    BY <2>1, <2>2, <2>3
<1>2. /\ g \in [0..3 -> Readers] /\ g[0] = Reader(p)
      /\ Scan(HeadFields, Reader(p)) = g[3]
  <2>1. Reader(p) \in Readers
    BY ReaderType
  <2> HIDE DEF g
  <2> QED
    BY <2>1, ScanSteps, HeadFieldsAre DEF g
<1>3. ASSUME NEW i \in 1..3
      PROVE  /\ g[i - 1].err => g[i].err
             /\ ~ g[i - 1].err => g[i].err = got(i).err /\ g[i].rest = got(i).rest
             /\ got(i) = ReadField(HeadFields[i], g[i - 1].rest)
  <2>1. i \in 1..Len(HeadFields)
    BY HeadFieldsAre
  <2>2. HeadFields \in Seq(Fields)
    BY HeadFieldsAre
  <2> QED
    BY <2>1, <2>2, ScanStepOf DEF ReadAt
<1>4. ~ g[3].err => ScannedTo(HeadFields, p, 3)
  BY HeadFieldsAre, ScanOut
<1>5. readNewSessionTicket(p)
        = IF g[3].err THEN [g[3] EXCEPT !.out = << >>]
          ELSE Repeat(Number(Value(g[3], "count")), readTicket, Reader(g[3].rest))
  <2> HIDE DEF g
  <2> QED
    BY <1>2 DEF readNewSessionTicket, HeadFields, With
<1>6. /\ HeadFields[1].name = "length" /\ HeadFields[2].name = "reversed"
      /\ HeadFields[3].name = "count"
      /\ \A q : /\ ReadField(HeadFields[1], q) = ReadFull(4, q)
                /\ ReadField(HeadFields[2], q) = ReadByte(q)
                /\ ReadField(HeadFields[3], q) = ReadByte(q)
  <2>1. /\ HeadFields[1] \in Fields /\ HeadFields[2] \in Fields /\ HeadFields[3] \in Fields
    <3>1. 1 \in 1..3 /\ 2 \in 1..3 /\ 3 \in 1..3
      OBVIOUS
    <3> QED
      BY <3>1, HeadFieldsAre, ElementOfSeq
  <2> QED
    BY <2>1, HeadFieldsAre, FieldRead DEF Field
<1>7. g[0].err = FALSE /\ g[0].rest = p
  BY <1>2 DEF Reader
<1>8. /\ got(1) = a
      /\ g[1].err = a.err /\ g[1].rest = a.rest
  <2> HIDE DEF g, got, a
  <2>1. got(1) = ReadField(HeadFields[1], g[0].rest)
    BY <1>3
  <2>2. got(1) = a
    BY <1>6, <1>7, <2>1 DEF a
  <2>3. g[1].err = got(1).err /\ g[1].rest = got(1).rest
    BY <1>3, <1>7
  <2> QED
    BY <2>2, <2>3
<1>9. ASSUME a.err PROVE readNewSessionTicket(p).err
  <2> HIDE DEF g, got, a
  <2>1. g[1].err
    BY <1>8, <1>9
  <2>2. g[2].err
    BY <1>3, <2>1
  <2>3. g[3].err
    BY <1>3, <2>2
  <2>4. g[3] \in Readers
    BY <1>2
  <2>5. readNewSessionTicket(p) = [g[3] EXCEPT !.out = << >>]
    BY <1>5, <2>3
  <2> QED
    BY <2>3, <2>4, <2>5 DEF Readers
<1>10. ASSUME ~ a.err
       PROVE  readNewSessionTicket(p) = Repeat(Number(c.val), readTicket, Reader(c.rest))
  <2> HIDE DEF g, got, a, b, c
  <2>1. got(2) = b /\ g[2].err = b.err /\ g[2].rest = b.rest
    <3>1. got(2) = ReadField(HeadFields[2], g[1].rest) /\ ~ g[1].err
      BY <1>3, <1>8, <1>10
    <3>2. got(2) = b
      BY <1>6, <1>8, <3>1 DEF b
    <3>3. g[2].err = got(2).err /\ g[2].rest = got(2).rest
      BY <1>3, <3>1
    <3> QED
      BY <3>2, <3>3
  <2>2. got(3) = c /\ g[3].err = c.err /\ g[3].rest = c.rest
    <3>1. got(3) = ReadField(HeadFields[3], g[2].rest) /\ ~ g[2].err
      BY <1>1, <1>3, <2>1
    <3>2. got(3) = c
      BY <1>6, <2>1, <3>1 DEF c
    <3>3. g[3].err = got(3).err /\ g[3].rest = got(3).rest
      BY <1>3, <3>1
    <3> QED
      BY <3>2, <3>3
  <2>3. ~ g[3].err
    BY <1>1, <2>2
  <2>4. /\ Len(g[3].out) = 3
        /\ \A j \in 1..3 : g[3].out[j] = <<HeadFields[j].name, got(j).val>>
    BY <1>4, <2>3 DEF ScannedTo, g, got
  <2>5. /\ g[3].out[1][1] = "length" /\ g[3].out[2][1] = "reversed"
        /\ g[3].out[3][1] = "count" /\ g[3].out[3][2] = c.val
    BY <1>6, <2>2, <2>4
  <2>6. 1..3 = {1, 2, 3}
    OBVIOUS
  <2>7. /\ 3 \in 1..Len(g[3].out) /\ Len(g[3].out) \in Nat
        /\ \A i \in 1..Len(g[3].out) : g[3].out[i][1] = g[3].out[3][1] => i = 3
    BY <2>4, <2>5, <2>6
  <2>8. Value(g[3], g[3].out[3][1]) = g[3].out[3][2]
    BY <2>7, ValueOf
  <2>9. Value(g[3], "count") = c.val
    BY <2>5, <2>8
  <2> QED
    BY <1>5, <2>2, <2>3, <2>9
<1> QED
  BY <1>9, <1>10

(* What a cut leaves of the tickets that were saved: none, or as many, and *)
(* all but the last as they were.                                          *)
Kept(ts, out) ==
  /\ out \in Seq(TicketRecords)
  /\ Len(out) \in {0, Len(ts)}
  /\ \A j \in 1..Len(out) - 1 : out[j] = ts[j]

TicketsBack(ts, q, r) ==
  /\ ~ r.err => Kept(ts, r.out)
  /\ q = << >> => ~ r.err /\ r.out = ts

LEMMA LoopBack ==
  ASSUME NEW ts \in Seq(TicketRecords), NEW p, NEW q,
         Begins(p, q, FlattenSeq(Serialized(ts)))
  PROVE  TicketsBack(ts, q, Repeat(Len(ts), readTicket, Reader(p)))
<1> DEFINE r == Repeat(Len(ts), readTicket, Reader(p))
           n == Len(ts)
<1>1. r \in TicketReaders /\ SoFar(ts, q, n, r) /\ n \in Nat
  BY TicketLoop, LenProperties
<1> HIDE DEF r
<1>2. r.out \in Seq(TicketRecords)
  BY <1>1 DEF TicketReaders
<1>3. ASSUME ~ r.err PROVE Len(r.out) = n /\ \A j \in 1..n - 1 : r.out[j] = ts[j]
  <2>1. AllRead(ts, q, n, r) \/ Ended(ts, n, r)
    BY <1>1, <1>3 DEF SoFar
  <2>2. CASE AllRead(ts, q, n, r)
    BY <1>1, <2>2 DEF AllRead
  <2>3. CASE Ended(ts, n, r)
    BY <2>3 DEF Ended
  <2> QED
    BY <2>1, <2>2, <2>3
<1>4. ASSUME q = << >> PROVE ~ r.err /\ r.out = ts
  <2>1. ~ r.err /\ Len(r.out) = n /\ \A j \in 1..n : r.out[j] = ts[j]
    BY <1>1, <1>4 DEF SoFar, AllRead
  <2> QED
    BY <1>2, <2>1, SeqEqual
<1>5. ~ r.err => Kept(ts, r.out)
  BY <1>2, <1>3 DEF Kept
<1> QED
  BY <1>4, <1>5 DEF TicketsBack, r

LEMMA NoneRead ==
  ASSUME NEW ts \in Seq(TicketRecords), NEW q, q # << >>
  PROVE  TicketsBack(ts, q, Repeat(0, readTicket, Reader(<< >>)))
<1> DEFINE r == Repeat(0, readTicket, Reader(<< >>))
<1>1. Reader(<< >>) \in TicketReaders
  BY EmptySeq, EmptyStr DEF Reader, TicketReaders
<1>2. r = Reader(<< >>)
  <2> DEFINE i == Reader(<< >>)
  <2>1. i \in TicketReaders /\ 0 \in Nat
    BY <1>1
  <2> HIDE DEF i
  <2>2. /\ Repeat(0, readTicket, i) = TicketsTo(0, i)[0]
        /\ TicketsTo(0, i)[0] = i
    BY <2>1, RepeatSteps
  <2> QED
    BY <2>2 DEF i
<1> HIDE DEF r
<1>3. r.out = << >>
  BY <1>2 DEF Reader
<1>4. /\ << >> \in Seq(TicketRecords) /\ Len(<< >>) = 0
      /\ \A j \in 1..Len(<< >>) - 1 : FALSE
  BY EmptySeq
<1>5. Kept(ts, r.out)
  BY <1>3, <1>4 DEF Kept
<1> QED
  BY <1>5 DEF TicketsBack, r

LEMMA TicketsRead ==
  ASSUME NEW ts \in Seq(TicketRecords), Len(ts) < 256, NEW p, NEW q,
         Begins(p, q, serializeTickets(ts))
  PROVE  TicketsBack(ts, q, readNewSessionTicket(p))
<1> DEFINE n == Len(ts)
           f == FlattenSeq(Serialized(ts))
           x == BigEndian(4, 1)
           y == BigEndian(n, 1)
           body == x \o y \o f
           l == BigEndian(Len(body), 4)
           a == ReadFull(4, p)
           b == ReadByte(a.rest)
           c == ReadByte(b.rest)
           r == readNewSessionTicket(p)
<1>1. n \in Nat /\ n < 256 /\ Number(y) = n
  BY LenProperties, NumberOfBigEndian
<1>2. f \in Str /\ x \in Str /\ y \in Str /\ x \in Of(1) /\ y \in Of(1)
  BY <1>1, WrittenType, RestOf, BigEndianType DEF Of
<1>3. serializeTickets(ts) = l \o body
  BY DEF serializeTickets, Serialized
<1> HIDE DEF f, x, y
<1>4. body \in Str /\ body = x \o (y \o f) /\ y \o f \in Str
  BY <1>2, JoinStr, Regroup
<1> HIDE DEF body
<1>5. l \in Str /\ Len(l) = 4
  BY <1>4, OnlyEmpty, BigEndianType DEF Of
<1> HIDE DEF l
<1>6. p \in Str /\ Begins(p, q, l \o body)
  BY <1>3 DEF Begins
<1>7. /\ a.err => r.err
      /\ ~ a.err => r = Repeat(Number(c.val), readTicket, Reader(c.rest))
  BY <1>6, HeadRead
<1>8. /\ 4 <= Len(p) => Taken(a, l, body, q)
      /\ Len(p) < 4 => a.err
  BY <1>4, <1>5, <1>6, ReadFullOf
<1> HIDE DEF a, r
<1>9. CASE Len(p) < 4
  <2>1. r.err
    BY <1>7, <1>8, <1>9
  <2>2. q # << >>
    <3> SUFFICES ASSUME q = << >> PROVE FALSE
      OBVIOUS
    <3>1. l \o body \in Str /\ Len(l \o body) = Len(l) + Len(body) /\ Len(body) \in Nat
      BY <1>4, <1>5, JoinStr, OnlyEmpty
    <3>2. p = l \o body
      BY <1>6, <3>1, NothingCut
    <3> QED
      BY <1>5, <1>9, <3>1, <3>2
  <2> QED
    BY <2>1, <2>2 DEF TicketsBack, r
<1>10. CASE ~ (Len(p) < 4)
  <2>1. ~ a.err /\ Begins(a.rest, q, x \o (y \o f))
    <3>1. Len(p) \in Nat
      BY <1>6, OnlyEmpty
    <3>2. Taken(a, l, body, q)
      BY <1>8, <1>10, <3>1
    <3> QED
      BY <1>4, <3>2 DEF Taken
  <2>2. r = Repeat(Number(c.val), readTicket, Reader(c.rest))
    BY <1>7, <2>1
  <2>3. /\ a.rest # << >> => Taken(b, x, y \o f, q)
        /\ a.rest = << >> => b = Got(<<0>>, << >>)
    BY <1>2, <1>4, <2>1, ReadByteOf
  <2> HIDE DEF b
  <2>4. CASE b.rest = << >>
    <3>1. c = Got(<<0>>, << >>)
      BY <2>4 DEF ReadByte
    <3> HIDE DEF c
    <3>2. c.val = <<0>> /\ c.rest = << >>
      BY <3>1 DEF Got
    <3>3. Number(<<0>>) = 0
      <4>1. <<0>> \in Str /\ Len(<<0>>) = 1
        BY ByteValues DEF Str
      <4> QED
        BY <4>1, NumberValues
    <3>4. r = Repeat(0, readTicket, Reader(<< >>))
      BY <2>2, <3>2, <3>3
    <3>5. q # << >>
      <4> SUFFICES ASSUME q = << >> PROVE FALSE
        OBVIOUS
      <4>1. x \o (y \o f) \in Str /\ x \o (y \o f) # << >>
        <5>1. x \o (y \o f) \in Str /\ Len(x \o (y \o f)) = Len(x) + Len(y \o f)
          BY <1>2, <1>4, JoinStr
        <5>2. Len(x) = 1 /\ Len(y \o f) \in Nat
          BY <1>2, <1>4, OnlyEmpty DEF Of
        <5> QED
          BY <5>1, <5>2, OnlyEmpty
      <4>2. a.rest # << >>
        BY <2>1, <4>1, NothingCut
      <4>3. Begins(b.rest, << >>, y \o f)
        BY <2>3, <4>2 DEF Taken
      <4>4. y \o f = << >>
        BY <1>4, <2>4, <4>3, NothingCut
      <4>5. Len(y \o f) = Len(y) + Len(f) /\ Len(y) = 1 /\ Len(f) \in Nat
        BY <1>2, JoinStr, OnlyEmpty DEF Of
      <4> QED
        BY <4>4, <4>5, EmptyStr
    <3> QED
      BY <3>4, <3>5, NoneRead DEF r
  <2>5. CASE b.rest # << >>
    <3>1. a.rest # << >>
      BY <2>3, <2>5 DEF Got
    <3>2. Begins(b.rest, q, y \o f)
      BY <2>3, <3>1 DEF Taken
    <3>3. Taken(c, y, f, q)
      BY <1>2, <2>5, <3>2, ReadByteOf
    <3> HIDE DEF c
    <3>4. c.val = y /\ Begins(c.rest, q, f)
      BY <3>3 DEF Taken
    <3>5. r = Repeat(n, readTicket, Reader(c.rest))
      BY <1>1, <2>2, <3>4
    <3> QED
      BY <3>4, <3>5, LoopBack DEF r, f
  <2> QED
    BY <2>4, <2>5
<1> QED
  BY <1>9, <1>10

-----------------------------------------------------------------------------
(* A session, and its file.                                                *)

Sessions ==
  [pskAccess : Short, pskRefresh : Short,
   tickets : {ts \in Seq(TicketRecords) : Len(ts) < 256}]

LEMMA SavedTickets ==
  ASSUME NEW ts \in Seq(TicketRecords)
  PROVE  serializeTickets(ts) \in Str
<1> DEFINE f == FlattenSeq(Serialized(ts))
           body == BigEndian(4, 1) \o BigEndian(Len(ts), 1) \o f
<1>1. f \in Str /\ Len(ts) \in Nat
  BY WrittenType, RestOf, LenProperties
<1>2. serializeTickets(ts) = BigEndian(Len(body), 4) \o body
  BY DEF serializeTickets, Serialized
<1> HIDE DEF f
<1>3. body \in Str
  BY <1>1, BigEndianType, JoinStr DEF Of
<1> HIDE DEF body
<1>4. BigEndian(Len(body), 4) \in Str
  BY <1>3, OnlyEmpty, BigEndianType DEF Of
<1> QED
  BY <1>2, <1>3, <1>4, JoinStr

LEMMA U16Kept ==
  ASSUME NEW d \in Short, NEW b \in Str, NEW p, NEW q,
         Begins(p, q, writeU16LenData(d) \o b)
  PROVE  Taken(readU16LenData(p), d, b, q) \/ (Missed(readU16LenData(p)) /\ q # << >>)
<1> DEFINE w == writeU16LenData(d)
<1>1. w \in Str /\ Len(w) = Len(d) + 2 /\ Len(d) \in Nat /\ p \in Str
  BY U16Written, OnlyEmpty DEF Short, Begins
<1>2. /\ Len(d) + 2 <= Len(p) => Taken(readU16LenData(p), d, b, q)
      /\ Len(p) < Len(d) + 2 => Missed(readU16LenData(p))
  BY U16Of
<1> HIDE DEF w
<1>3. Len(p) \in Nat /\ Len(b) \in Nat
  BY <1>1, OnlyEmpty
<1>4. ASSUME q = << >> PROVE Len(d) + 2 <= Len(p)
  <2>1. w \o b \in Str /\ Len(w \o b) = Len(w) + Len(b)
    BY <1>1, JoinStr
  <2>2. p = w \o b
    BY <1>4, <2>1, NothingCut DEF w
  <2> QED
    BY <1>1, <1>3, <2>1, <2>2
<1> QED
  BY <1>1, <1>2, <1>3, <1>4

LEMMA NothingToParse ==
  readU16LenData(<< >>).err /\ readNewSessionTicket(<< >>).err
<1>1. ReadFull(2, << >>).err /\ ReadFull(4, << >>).err /\ << >> \in Str
  BY EmptyStr DEF ReadFull, Failed
<1>2. readU16LenData(<< >>).err
  BY <1>1, U16Read
<1>3. readNewSessionTicket(<< >>).err
  BY <1>1, HeadRead
<1> QED
  BY <1>2, <1>3

LEMMA LoadIs ==
  ASSUME NEW p
  PROVE  LET access  == readU16LenData(p)
             refresh == readU16LenData(access.rest)
             tickets == readNewSessionTicket(refresh.rest)
         IN  LoadSession(p) = Loaded(LoadFails(access, refresh, tickets),
                                     access.val, refresh.val, tickets.out)
BY DEF LoadSession, With

(* LoadSession of what Save wrote gives the session back.  When q is cut   *)
(* off the end of the file, it returns an error and no session, or both    *)
(* keys and, of the tickets, none or as many as there were, all but the    *)
(* last as they were.                                                      *)
THEOREM Loading ==
  ASSUME NEW s \in Sessions, NEW p, NEW q, Begins(p, q, SaveBytes(s))
  PROVE  LET loaded == LoadSession(p)
         IN  /\ loaded.err => loaded.session = NoSession
             /\ ~ loaded.err =>
                  /\ loaded.session \in Sessions
                  /\ loaded.session.pskAccess = s.pskAccess
                  /\ loaded.session.pskRefresh = s.pskRefresh
                  /\ Kept(s.tickets, loaded.session.tickets)
             /\ q = << >> => ~ loaded.err /\ loaded.session = s
<1> DEFINE access  == readU16LenData(p)
           refresh == readU16LenData(access.rest)
           tickets == readNewSessionTicket(refresh.rest)
           loaded  == LoadSession(p)
           w1 == writeU16LenData(s.pskAccess)
           w2 == writeU16LenData(s.pskRefresh)
           w3 == serializeTickets(s.tickets)
<1>1. /\ s.pskAccess \in Short /\ s.pskRefresh \in Short
      /\ s.tickets \in Seq(TicketRecords) /\ Len(s.tickets) < 256
      /\ s = [pskAccess |-> s.pskAccess, pskRefresh |-> s.pskRefresh, tickets |-> s.tickets]
  BY DEF Sessions
<1>2. w1 \in Str /\ w2 \in Str /\ w3 \in Str
  BY <1>1, U16Written, SavedTickets
<1>3. loaded = Loaded(LoadFails(access, refresh, tickets),
                      access.val, refresh.val, tickets.out)
  BY LoadIs
<1>4. /\ loaded.err = (access.err \/ refresh.err \/ tickets.err)
      /\ loaded.err => loaded.session = NoSession
      /\ ~ loaded.err =>
           loaded.session = [pskAccess |-> access.val, pskRefresh |-> refresh.val,
                             tickets |-> tickets.out]
  <2> HIDE DEF access, refresh, tickets, loaded
  <2> QED
    BY <1>3 DEF Loaded, LoadFails
<1>5. Begins(p, q, w1 \o (w2 \o w3)) /\ w2 \o w3 \in Str
  <2>1. SaveBytes(s) = (w1 \o w2) \o w3
    BY DEF SaveBytes
  <2> HIDE DEF w1, w2, w3
  <2>2. (w1 \o w2) \o w3 = w1 \o (w2 \o w3)
    BY <1>2, Regroup
  <2>3. Begins(p, q, (w1 \o w2) \o w3)
    BY <2>1
  <2> QED
    BY <1>2, <2>2, <2>3, JoinStr
<1>6. Taken(access, s.pskAccess, w2 \o w3, q) \/ (Missed(access) /\ q # << >>)
  BY <1>1, <1>5, U16Kept
<1>7. ASSUME Taken(access, s.pskAccess, w2 \o w3, q)
      PROVE  Taken(refresh, s.pskRefresh, w3, q) \/ (Missed(refresh) /\ q # << >>)
  <2>1. Begins(access.rest, q, w2 \o w3)
    BY <1>7 DEF Taken
  <2> QED
    BY <1>1, <1>2, <2>1, U16Kept
<1>8. ASSUME Taken(refresh, s.pskRefresh, w3, q)
      PROVE  TicketsBack(s.tickets, q, tickets)
  <2>1. Begins(refresh.rest, q, w3)
    BY <1>8 DEF Taken
  <2> QED
    BY <1>1, <2>1, TicketsRead
<1>9. /\ access.rest = << >> => refresh.err
      /\ refresh.rest = << >> => tickets.err
  BY NothingToParse
<1> HIDE DEF access, refresh, tickets, loaded, w1, w2, w3
<1>10. \/ loaded.err /\ q # << >>
       \/ /\ Taken(access, s.pskAccess, w2 \o w3, q)
          /\ Taken(refresh, s.pskRefresh, w3, q)
  BY <1>4, <1>6, <1>7, <1>9 DEF Missed
<1>11. ASSUME Taken(access, s.pskAccess, w2 \o w3, q),
              Taken(refresh, s.pskRefresh, w3, q)
       PROVE  /\ ~ loaded.err =>
                   /\ loaded.session \in Sessions
                   /\ loaded.session.pskAccess = s.pskAccess
                   /\ loaded.session.pskRefresh = s.pskRefresh
                   /\ Kept(s.tickets, loaded.session.tickets)
              /\ q = << >> => ~ loaded.err /\ loaded.session = s
  <2>1. /\ ~ access.err /\ access.val = s.pskAccess
        /\ ~ refresh.err /\ refresh.val = s.pskRefresh
    BY <1>11 DEF Taken
  <2>2. /\ ~ tickets.err => Kept(s.tickets, tickets.out)
        /\ q = << >> => ~ tickets.err /\ tickets.out = s.tickets
    BY <1>8, <1>11 DEF TicketsBack
  <2>3. ASSUME ~ loaded.err
        PROVE  /\ loaded.session = [pskAccess |-> s.pskAccess, pskRefresh |-> s.pskRefresh,
                                    tickets |-> tickets.out]
               /\ Kept(s.tickets, tickets.out)
               /\ tickets.out \in Seq(TicketRecords) /\ Len(tickets.out) < 256
    <3>1. Kept(s.tickets, tickets.out)
      BY <1>4, <2>2, <2>3
    <3> QED
      BY <1>1, <1>4, <2>1, <2>3, <3>1 DEF Kept
  <2>4. ASSUME ~ loaded.err PROVE loaded.session \in Sessions
    BY <1>1, <2>3, <2>4 DEF Sessions
  <2>5. ASSUME q = << >> PROVE ~ loaded.err /\ loaded.session = s
    <3>1. ~ loaded.err
      BY <1>4, <2>1, <2>2, <2>5
    <3> QED
      BY <1>1, <2>2, <2>3, <2>5, <3>1
  <2> QED
    BY <2>3, <2>4, <2>5
<1> QED
  BY <1>4, <1>10, <1>11 DEF loaded

LEMMA SavedSession ==
  ASSUME NEW s \in Sessions
  PROVE  SaveBytes(s) \in Str
<1>1. /\ s.pskAccess \in Short /\ s.pskRefresh \in Short
      /\ s.tickets \in Seq(TicketRecords)
  BY DEF Sessions
<1> QED
  BY <1>1, U16Written, SavedTickets, JoinStr DEF SaveBytes

LEMMA NothingToLoad == LoadSession(<< >>) = [err |-> TRUE, session |-> NoSession]
<1> DEFINE access  == readU16LenData(<< >>)
           refresh == readU16LenData(access.rest)
           tickets == readNewSessionTicket(refresh.rest)
<1>1. access.err
  BY NothingToParse
<1>2. LoadSession(<< >>) = Loaded(LoadFails(access, refresh, tickets),
                                  access.val, refresh.val, tickets.out)
  BY LoadIs
<1> HIDE DEF access, refresh, tickets
<1>3. LoadFails(access, refresh, tickets) = TRUE
  BY <1>1 DEF LoadFails
<1> QED
  BY <1>2, <1>3 DEF Loaded

LEMMA NoSessionType == NoSession \in Sessions
<1>1. << >> \in Short
  BY EmptyStr, SMT DEF Short, Limit2
<1>2. << >> \in {ts \in Seq(TicketRecords) : Len(ts) < 256}
  BY EmptySeq
<1> QED
  BY <1>1, <1>2 DEF NoSession, Sessions

=============================================================================
