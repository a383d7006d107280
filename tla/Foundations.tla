---------------------------- MODULE Foundations ----------------------------
(***************************************************************************)
(* Facts about numbers and sequences that the proofs of several components *)
(* rest on.                                                                *)
(*                                                                         *)
(* Induction is about sets: what is to be shown of every number is that    *)
(* the set of the numbers it holds for is all of them.  It comes from the  *)
(* ordering of finite sets by inclusion, which is well-founded.            *)
(* From it follow induction over sequences, and what is to be known of a   *)
(* function given by recursion, and of a fold over a sequence: that it     *)
(* exists, and what one element more makes of it.                          *)
(***************************************************************************)
EXTENDS Integers, Sequences, FiniteSetTheorems, SequenceTheorems, TLAPS

(* A set of numbers that is not empty has a least one.                     *)
LEMMA LeastExists ==
  ASSUME NEW T \in SUBSET Nat, T # {}
  PROVE  \E i \in T : \A j \in T : i <= j
<1> DEFINE Below == {1 .. i : i \in T}
<1>1. \A i \in T : 1 .. i \in FiniteSubsetsOf(Nat)
  BY FS_Interval DEF FiniteSubsetsOf
<1>2. Below \subseteq FiniteSubsetsOf(Nat) /\ Below # {}
  BY <1>1
<1>3. PICK b \in Below : \A d \in Below : <<d, b>> \notin StrictSubsetOrdering(Nat)
  <2>1. IsWellFoundedOn(StrictSubsetOrdering(Nat), FiniteSubsetsOf(Nat))
    BY FS_StrictSubsetOrderingWellFounded
  <2> HIDE DEF Below
  <2> QED BY <1>2, <2>1, WFMin, Zenon
<1>4. PICK i \in T : b = 1 .. i
  OBVIOUS
<1>5. \A j \in T : i <= j
  <2> SUFFICES ASSUME NEW j \in T, j < i PROVE FALSE
    OBVIOUS
  <2>1. 1 .. j \subseteq 1 .. i /\ 1 .. j # 1 .. i
    <3>1. i \in 1 .. i /\ i \notin 1 .. j
      OBVIOUS
    <3> QED BY <3>1
  <2>2. <<1 .. j, 1 .. i>> \in StrictSubsetOrdering(Nat)
    BY <2>1 DEF StrictSubsetOrdering
  <2> QED BY <1>3, <1>4, <2>2
<1> QED BY <1>5

LEMMA FirstOf ==
  ASSUME NEW T \in SUBSET Nat, T # {}
  PROVE  (CHOOSE i \in T : \A j \in T : i <= j) \in T
<1>1. \E i \in T : \A j \in T : i <= j
  BY LeastExists
<1> QED BY <1>1

(* Induction up to a bound.                                                *)
LEMMA UpTo ==
  ASSUME NEW n \in Nat, NEW T, 0 \in T, \A k \in 0 .. n - 1 : k \in T => k + 1 \in T
  PROVE  \A k \in 0 .. n : k \in T
<1> DEFINE Missing == {k \in 0 .. n : k \notin T}
<1> SUFFICES ASSUME Missing # {} PROVE FALSE
  OBVIOUS
<1>1. Missing \in SUBSET Nat
  OBVIOUS
<1>2. PICK m \in Missing : \A j \in Missing : m <= j
  <2> HIDE DEF Missing
  <2> QED BY <1>1, LeastExists
<1>3. m \in 1 .. n /\ m \notin T
  BY <1>2
<1>4. m - 1 \in 0 .. n - 1 /\ (m - 1) + 1 = m /\ ~(m <= m - 1)
  BY <1>3
<1>5. m - 1 \in T
  BY <1>2, <1>4
<1> QED BY <1>3, <1>4, <1>5

(* A set of numbers with an upper bound has a greatest one.                *)
LEMMA GreatestExists ==
  ASSUME NEW T \in SUBSET Nat, T # {}, NEW n \in Nat, \A i \in T : i <= n
  PROVE  \E i \in T : \A j \in T : j <= i
<1> DEFINE Over == {k \in Nat : \A i \in T : i <= k}
<1>1. Over \in SUBSET Nat /\ n \in Over
  OBVIOUS
<1>2. PICK m \in Over : \A k \in Over : m <= k
  <2> HIDE DEF Over
  <2> QED BY <1>1, LeastExists
<1>3. m \in Nat /\ \A i \in T : i <= m
  BY <1>2
<1>4. m \in T
  <2> SUFFICES ASSUME m \notin T PROVE FALSE
    OBVIOUS
  <2>1. \A i \in T : i \in Nat /\ i < m
    BY <1>3
  <2>2. m - 1 \in Nat
    <3>1. PICK i \in T : TRUE
      OBVIOUS
    <3> QED BY <2>1, <3>1, <1>3
  <2>3. m - 1 \in Over
    BY <2>1, <2>2, <1>3
  <2> QED BY <1>2, <1>3, <2>3
<1> QED BY <1>3, <1>4

(* A function can be given by its value at 0 and by each value in terms of *)
(* the one before; and there is only one.                                  *)
Recursive(r, n, A, a, f) ==
  r \in [0 .. n -> A] /\ r[0] = a /\ \A k \in 1 .. n : r[k] = f[<<k, r[k - 1]>>]

LEMMA Recursion ==
  ASSUME NEW A, NEW a \in A, NEW n \in Nat, NEW f \in [(1 .. n) \X A -> A]
  PROVE  \E r : Recursive(r, n, A, a, f)
<1> DEFINE Part(k) == \E r \in [0 .. k -> A] :
                        r[0] = a /\ \A j \in 1 .. k : r[j] = f[<<j, r[j - 1]>>]
           T == {k \in 0 .. n : Part(k)}
<1>1. 0 \in T
  <2>1. [j \in 0 .. 0 |-> a] \in [0 .. 0 -> A] /\ [j \in 0 .. 0 |-> a][0] = a
    OBVIOUS
  <2>2. Part(0)
    <3> DEFINE r == [j \in 0 .. 0 |-> a]
    <3>1. r \in [0 .. 0 -> A] /\ r[0] = a /\ \A j \in 1 .. 0 : r[j] = f[<<j, r[j - 1]>>]
      BY <2>1
    <3> HIDE DEF r
    <3> QED BY <3>1
  <2> QED BY <2>2
<1>2. ASSUME NEW k \in 0 .. n - 1, k \in T PROVE k + 1 \in T
  <2>1. PICK r \in [0 .. k -> A] : r[0] = a /\ \A j \in 1 .. k : r[j] = f[<<j, r[j - 1]>>]
    BY <1>2
  <2> DEFINE v == f[<<k + 1, r[k]>>]
             q == [j \in 0 .. k + 1 |-> IF j = k + 1 THEN v ELSE r[j]]
  <2>2. v \in A
    <3>1. k + 1 \in 1 .. n /\ r[k] \in A
      OBVIOUS
    <3> QED BY <3>1
  <2>3. q \in [0 .. k + 1 -> A]
    <3>1. \A j \in 0 .. k + 1 : j # k + 1 => r[j] \in A
      OBVIOUS
    <3> QED BY <2>2, <3>1
  <2>4. q[0] = a
    BY <2>1
  <2>5. ASSUME NEW j \in 1 .. k + 1 PROVE q[j] = f[<<j, q[j - 1]>>]
    <3>1. j - 1 \in 0 .. k + 1 /\ j - 1 # k + 1 /\ q[j - 1] = r[j - 1]
      OBVIOUS
    <3>2. CASE j = k + 1
      <4>1. q[j] = v /\ j - 1 = k
        BY <3>2
      <4> QED BY <3>1, <3>2, <4>1
    <3>3. CASE j # k + 1
      <4>1. j \in 1 .. k /\ q[j] = r[j]
        BY <3>3
      <4> QED BY <2>1, <3>1, <4>1
    <3> QED BY <3>2, <3>3
  <2> HIDE DEF q
  <2>6. Part(k + 1)
    BY <2>3, <2>4, <2>5
  <2> HIDE DEF Part
  <2> QED BY <2>6
<1> HIDE DEF T
<1>3. \A k \in 0 .. n : k \in T
  BY <1>1, <1>2, UpTo
<1>4. n \in T
  BY <1>3
<1> QED BY <1>4 DEF T, Recursive

Alike(r, q, n) ==
  r[0] = q[0] /\ \A k \in 1 .. n : r[k - 1] = q[k - 1] => r[k] = q[k]

LEMMA OneRecursion ==
  ASSUME NEW n \in Nat, NEW r, NEW q, Alike(r, q, n)
  PROVE  \A k \in 0 .. n : r[k] = q[k]
<1> DEFINE T == {k \in 0 .. n : r[k] = q[k]}
<1>1. 0 \in T
  BY DEF Alike
<1>2. ASSUME NEW k \in 0 .. n - 1, k \in T PROVE k + 1 \in T
  <2>1. k + 1 \in 1 .. n /\ (k + 1) - 1 = k /\ r[k] = q[k]
    BY <1>2
  <2> QED BY <2>1 DEF Alike
<1> HIDE DEF T
<1>3. \A k \in 0 .. n : k \in T
  BY <1>1, <1>2, UpTo
<1> QED BY <1>3 DEF T

-----------------------------------------------------------------------------
(* Sequences.                                                              *)

LEMMA PartOf ==
  ASSUME NEW S, NEW s \in Seq(S), NEW m \in Nat \ {0}, NEW n \in Int, n <= Len(s)
  PROVE  SubSeq(s, m, n) \in Seq(S)
<1>1. \A i \in m .. n : s[i] \in S
  OBVIOUS
<1> QED BY <1>1, SubSeqProperties

(* An element more, or less, at the end of a sequence.                     *)
LEMMA OneMore ==
  ASSUME NEW S, NEW x \in Seq(S), NEW b \in Seq(S),
         NEW n \in 1 .. Len(b), NEW m \in 1 .. n
  PROVE  x \o SubSeq(b, m, n) = Append(x \o SubSeq(b, m, n - 1), b[n])
<1>1. Len(b) \in Nat
  BY LenProperties
<1>2. m \in 1 .. Len(b) /\ n \in m .. Len(b)
  BY <1>1
<1>3. SubSeq(b, m, n) = SubSeq(b, m, n - 1) \o <<b[n]>>
  BY <1>2, SubSeqRecursiveSecond
<1>4. b[n] \in S /\ <<b[n]>> \in Seq(S)
  BY ElementOfSeq
<1>5. SubSeq(b, m, n - 1) \in Seq(S)
  <2>1. m \in Nat \ {0} /\ n - 1 \in Int /\ n - 1 <= Len(b)
    BY <1>1, <1>2
  <2> QED BY <2>1, PartOf
<1> DEFINE front == SubSeq(b, m, n - 1)
<1> HIDE DEF front
<1>6. x \o (front \o <<b[n]>>) = (x \o front) \o <<b[n]>>
  BY <1>4, <1>5, ConcatAssociative, SMTT(30) DEF front
<1>7. x \o front \in Seq(S)
  BY <1>5, ConcatProperties DEF front
<1>8. Append(x \o front, b[n]) = (x \o front) \o <<b[n]>>
  BY <1>4, <1>7, AppendIsConcat
<1> QED BY <1>3, <1>6, <1>8 DEF front

LEMMA JoinedToMore ==
  ASSUME NEW S, NEW x \in Seq(S), NEW y \in Seq(S), NEW e \in S
  PROVE  x \o Append(y, e) = Append(x \o y, e)
<1> DEFINE one == <<e>>
<1>1. one \in Seq(S) /\ Append(y, e) = y \o one
  BY AppendIsConcat
<1>2. x \o y \in Seq(S)
  BY ConcatProperties
<1>3. Append(x \o y, e) = (x \o y) \o one
  BY <1>2, AppendIsConcat
<1> HIDE DEF one
<1>4. (x \o y) \o one = x \o (y \o one)
  BY <1>1, ConcatAssociative, SMTT(40)
<1> QED BY <1>1, <1>3, <1>4

LEMMA LastApart ==
  ASSUME NEW S, NEW x \in Seq(S), NEW e \in S
  PROVE  /\ Append(x, e) # <<>> /\ Append(x, e)[Len(Append(x, e))] = e
         /\ SubSeq(Append(x, e), 1, Len(Append(x, e)) - 1) = x
<1> DEFINE y == Append(x, e)
<1>1. Len(x) \in Nat
  BY LenProperties
<1>2. /\ y \in Seq(S) /\ y # <<>> /\ Len(y) = Len(x) + 1
      /\ \A i \in 1 .. Len(x) : y[i] = x[i]
      /\ y[Len(x) + 1] = e
  BY AppendProperties
<1> HIDE DEF y
<1>3. Len(y) - 1 = Len(x)
  BY <1>1, <1>2
<1>4. SubSeq(y, 1, Len(x)) = x
  <2>1. \A i \in 1 .. Len(x) : y[i] \in S
    BY <1>2, ElementOfSeq
  <2> DEFINE z == SubSeq(y, 1, Len(x))
  <2>2. z \in Seq(S) /\ Len(z) = (IF 1 <= Len(x) THEN Len(x) - 1 + 1 ELSE 0)
        /\ \A i \in 1 .. Len(x) - 1 + 1 : z[i] = y[1 + i - 1]
    BY <1>1, <2>1, SubSeqProperties
  <2> HIDE DEF z
  <2>3. Len(z) = Len(x)
    BY <1>1, <2>2
  <2>4. \A i \in 1 .. Len(x) : z[i] = x[i]
    BY <1>1, <1>2, <2>2
  <2>5. z = x
    BY <2>2, <2>3, <2>4, SeqEqual
  <2> QED BY <2>5 DEF z
<1>5. y # <<>> /\ y[Len(y)] = e /\ SubSeq(y, 1, Len(y) - 1) = x
  BY <1>1, <1>2, <1>3, <1>4
<1> QED BY <1>5 DEF y

(* Induction over sequences, from their front to their end.                *)
LEMMA SeqInduction ==
  ASSUME NEW S, NEW T, <<>> \in T,
         \A s \in Seq(S), e \in S : s \in T => Append(s, e) \in T
  PROVE  \A s \in Seq(S) : s \in T
<1> SUFFICES ASSUME NEW s \in Seq(S) PROVE s \in T
  OBVIOUS
<1> DEFINE Front(k) == SubSeq(s, 1, k)
           N == Len(s)
           P == {k \in 0 .. N : Front(k) \in T}
<1>1. N \in Nat
  BY LenProperties
<1>2. 0 \in P
  <2>1. Front(0) = <<>>
    BY SubSeqEmpty
  <2> HIDE DEF Front
  <2> QED BY <1>1, <2>1
<1>3. ASSUME NEW k \in 0 .. N - 1, k \in P PROVE k + 1 \in P
  <2>1. k + 1 \in 1 .. N /\ (k + 1) - 1 = k /\ k \in 0 .. N
    BY <1>1
  <2>2. Front(k) \in T
    BY <1>3
  <2>3. Front(k + 1) = Append(Front(k), s[k + 1])
    <3>1. <<>> \in Seq(S)
      BY EmptySeq
    <3>2. <<>> \o SubSeq(s, 1, k + 1) = Append(<<>> \o SubSeq(s, 1, (k + 1) - 1), s[k + 1])
      BY <2>1, <3>1, OneMore
    <3>3. SubSeq(s, 1, k + 1) \in Seq(S) /\ SubSeq(s, 1, (k + 1) - 1) \in Seq(S)
      <4>1. \A n \in 0 .. N : SubSeq(s, 1, n) \in Seq(S)
        BY <1>1, PartOf
      <4> QED BY <2>1, <4>1
    <3> HIDE DEF N
    <3> QED BY <2>1, <3>2, <3>3, ConcatEmptySeq
  <2>4. Front(k) \in Seq(S) /\ s[k + 1] \in S
    <3>1. \A n \in 0 .. N : SubSeq(s, 1, n) \in Seq(S)
      BY <1>1, PartOf
    <3> QED BY <2>1, <3>1, ElementOfSeq
  <2> HIDE DEF Front, N
  <2>5. Front(k + 1) \in T
    BY <2>2, <2>3, <2>4
  <2> QED BY <1>1, <2>1, <2>5
<1>4. N \in P
  <2> HIDE DEF P
  <2>1. \A k \in 0 .. N : k \in P
    BY <1>1, <1>2, <1>3, UpTo
  <2> QED BY <1>1, <2>1
<1>5. Front(N) = s
  BY SubSeqFull
<1> QED BY <1>4, <1>5

(* What a function makes of the elements of a sequence, one after the      *)
(* other.                                                                  *)
Folding(q, A, S, f, a, s) ==
  /\ q \in [0 .. Len(s) -> A]
  /\ q[0] = a
  /\ \A k \in 1 .. Len(s) : q[k] = f[<<q[k - 1], s[k]>>]

LEMMA FoldExists ==
  ASSUME NEW A, NEW S, NEW a \in A, NEW s \in Seq(S), NEW f \in [A \X S -> A]
  PROVE  \E q : Folding(q, A, S, f, a, s)
<1> DEFINE N == Len(s)
           g == [x \in (1 .. N) \X A |-> f[<<x[2], s[x[1]]>>]]
<1>1. N \in Nat /\ \A k \in 1 .. N : s[k] \in S
  BY LenProperties, ElementOfSeq
<1>2. \A x \in (1 .. N) \X A : <<x[2], s[x[1]]>> \in A \X S
  BY <1>1
<1> HIDE DEF N
<1>3. g \in [(1 .. N) \X A -> A]
  BY <1>2
<1>4. \A k \in 1 .. N, y \in A : g[<<k, y>>] = f[<<y, s[k]>>]
  OBVIOUS
<1> HIDE DEF g
<1>5. PICK q : Recursive(q, N, A, a, g)
  BY <1>1, <1>3, Recursion
<1>6. \A k \in 1 .. N : q[k] = f[<<q[k - 1], s[k]>>]
  <2> SUFFICES ASSUME NEW k \in 1 .. N PROVE q[k] = f[<<q[k - 1], s[k]>>]
    OBVIOUS
  <2>1. q[k - 1] \in A
    <3>1. k - 1 \in 0 .. N
      BY <1>1
    <3> QED BY <1>5, <3>1 DEF Recursive
  <2> QED BY <1>4, <1>5, <2>1 DEF Recursive
<1>7. Folding(q, A, S, f, a, s)
  BY <1>5, <1>6 DEF Folding, Recursive, N
<1> QED BY <1>7

(* One element more is one step more.                                      *)
Further(q, p, A, f, s, e) ==
  q[Len(s)] \in A /\ p[Len(Append(s, e))] = f[<<q[Len(s)], e>>]

LEMMA FoldMore ==
  ASSUME NEW A, NEW S, NEW a \in A, NEW s \in Seq(S), NEW e \in S, NEW f \in [A \X S -> A],
         NEW q, Folding(q, A, S, f, a, s),
         NEW p, Folding(p, A, S, f, a, Append(s, e))
  PROVE  Further(q, p, A, f, s, e)
<1> DEFINE n == Len(s)
           t == Append(s, e)
<1>1. n \in Nat
  BY LenProperties
<1>2. /\ Len(t) = n + 1 /\ t[n + 1] = e
      /\ \A i \in 1 .. n : t[i] = s[i]
  BY AppendProperties
<1> HIDE DEF t, n
<1>3. p[0] = q[0]
  BY DEF Folding
<1>4. ASSUME NEW k \in 1 .. n, p[k - 1] = q[k - 1] PROVE p[k] = q[k]
  <2>1. p[k] = f[<<p[k - 1], t[k]>>]
    <3>1. k \in 1 .. Len(t)
      BY <1>1, <1>2
    <3> QED BY <3>1 DEF Folding, t
  <2>2. q[k] = f[<<q[k - 1], s[k]>>]
    BY DEF Folding, n
  <2> QED BY <1>2, <1>4, <2>1, <2>2
<1>5. p[n] = q[n]
  <2> DEFINE T == {k \in 0 .. n : p[k] = q[k]}
  <2>1. 0 \in T
    BY <1>1, <1>3
  <2>2. ASSUME NEW k \in 0 .. n - 1, k \in T PROVE k + 1 \in T
    <3>1. k + 1 \in 1 .. n /\ (k + 1) - 1 = k /\ p[k] = q[k]
      BY <1>1, <2>2
    <3> QED BY <1>1, <1>4, <3>1
  <2> HIDE DEF T
  <2>3. \A k \in 0 .. n : k \in T
    BY <1>1, <2>1, <2>2, UpTo
  <2> QED BY <1>1, <2>3 DEF T
<1>6. p[n + 1] = f[<<p[n], e>>]
  <2>1. n + 1 \in 1 .. Len(t) /\ (n + 1) - 1 = n
    BY <1>1, <1>2
  <2>2. p[n + 1] = f[<<p[(n + 1) - 1], t[n + 1]>>]
    BY <2>1 DEF Folding, t
  <2> QED BY <1>2, <2>1, <2>2
<1>7. q[n] \in A
  BY <1>1 DEF Folding, n
<1>8. p[Len(t)] = f[<<q[n], e>>]
  BY <1>2, <1>5, <1>6
<1> QED BY <1>7, <1>8 DEF Further, n, t

(* Whatever follows the same function has the same values.                 *)
Follows(d, A, f, a, s) ==
  /\ d[0] = a
  /\ \A k \in 1 .. Len(s) : d[k - 1] \in A => d[k] = f[<<d[k - 1], s[k]>>]

SameEnd(d, q, s) == d[Len(s)] = q[Len(s)]

LEMMA FoldSame ==
  ASSUME NEW A, NEW S, NEW a \in A, NEW s \in Seq(S), NEW f \in [A \X S -> A],
         NEW q, Folding(q, A, S, f, a, s),
         NEW d, Follows(d, A, f, a, s)
  PROVE  SameEnd(d, q, s)
<1> DEFINE n == Len(s)
           T == {k \in 0 .. n : d[k] = q[k]}
<1>1. n \in Nat
  BY LenProperties
<1> HIDE DEF n
<1>2. 0 \in T
  BY <1>1 DEF Folding, Follows
<1>3. ASSUME NEW k \in 0 .. n - 1, k \in T PROVE k + 1 \in T
  <2>1. k + 1 \in 1 .. n /\ (k + 1) - 1 = k /\ d[k] = q[k] /\ k \in 0 .. n
    BY <1>1, <1>3
  <2>2. q[k] \in A
    BY <2>1 DEF Folding, n
  <2>3. d[k + 1] = f[<<d[k], s[k + 1]>>]
    <3>1. d[(k + 1) - 1] \in A => d[k + 1] = f[<<d[(k + 1) - 1], s[k + 1]>>]
      BY <2>1 DEF Follows, n
    <3> QED BY <2>1, <2>2, <3>1
  <2>4. q[k + 1] = f[<<q[(k + 1) - 1], s[k + 1]>>]
    BY <2>1 DEF Folding, n
  <2> QED BY <1>1, <2>1, <2>3, <2>4
<1> HIDE DEF T
<1>4. \A k \in 0 .. n : k \in T
  BY <1>1, <1>2, <1>3, UpTo
<1>5. d[n] = q[n]
  BY <1>1, <1>4 DEF T
<1> QED BY <1>5 DEF SameEnd, n
=============================================================================
