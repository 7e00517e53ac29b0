---------------------------- MODULE ListTheorems ----------------------------
(***************************************************************************)
(* Facts about lists: their sums, and what is left of a list that grows or *)
(* loses an element.  The sums, and at the end induction over lists, rest  *)
(* on induction over the natural numbers in the form that speaks of a set, *)
(* which is first shown from what is known of finite sets.                 *)
(***************************************************************************)
EXTENDS Sums, SequencesExt, FiniteSetTheorems, SequenceTheorems, TLAPS

\* A set that has 0 and the successor of each of its members has every number: else,
\* for a number that is missing, the successor would map the finite set of the members
\* below it into itself without 0.
LEMMA SetInduction ==
  ASSUME NEW S, 0 \in S, \A n \in Nat : n \in S => n + 1 \in S
  PROVE  \A n \in Nat : n \in S
<1> SUFFICES ASSUME NEW n \in Nat, n \notin S PROVE FALSE
  OBVIOUS
<1> DEFINE T == S \cap (0..n)
<1>1. IsFiniteSet(0..n)
  BY FS_Interval
<1>2. IsFiniteSet(T)
  BY <1>1, FS_Subset
<1>3. 0 \in T
  OBVIOUS
<1>4. IsFiniteSet(T \ {0}) /\ Cardinality(T \ {0}) = Cardinality(T) - 1
  BY <1>2, <1>3, FS_RemoveElement
<1>5. \A x \in T : x + 1 \in T \ {0}
  OBVIOUS
<1> DEFINE f == [x \in T |-> x + 1]
<1>6. f \in [T -> T \ {0}]
  BY <1>5
<1>7. \A x, y \in T : f[x] = f[y] => x = y
  OBVIOUS
<1>8. f \in Injection(T, T \ {0})
  BY <1>6, <1>7 DEF Injection, IsInjective
<1>9. Cardinality(T) <= Cardinality(T \ {0})
  BY <1>2, <1>4, <1>8, FS_Injection DEF ExistsInjection
<1>10. Cardinality(T) \in Nat
  BY <1>2, FS_CardinalityType
<1> QED
  BY <1>4, <1>9, <1>10

\* A sequence over a set is one over any larger set.
LEMMA SeqOfLarger ==
  ASSUME NEW A, NEW B, A \subseteq B, NEW q \in Seq(A)
  PROVE  q \in Seq(B)
<1>1. Len(q) \in Nat /\ q \in [1..Len(q) -> A]
  BY LenProperties
<1>2. q \in [1..Len(q) -> B]
  BY <1>1
<1> QED
  BY <1>1, <1>2, SeqDef

----------------------------------------------------------------------------

\* f lists the sums of the beginnings of q, f[k] that of its first k elements.
PartialSums(q, f) ==
  /\ f \in [0..Len(q) -> Int]
  /\ f[0] = 0
  /\ \A k \in 1..Len(q) : f[k] = f[k - 1] + q[k]

\* There is such a list.
LEMMA PartialSumsExist == ASSUME NEW q \in Seq(Int) PROVE \E f : PartialSums(q, f)
<1> DEFINE Upto(n, f) == /\ f \in [0..n -> Int] /\ f[0] = 0
                         /\ \A k \in 1..n : f[k] = f[k - 1] + q[k]
           S == {n \in Nat : n <= Len(q) => \E f : Upto(n, f)}
<1>0. Len(q) \in Nat /\ \A k \in 1..Len(q) : q[k] \in Int
  OBVIOUS
<1>1. 0 \in S
  <2> DEFINE g == [k \in 0..0 |-> 0]
  <2>1. g \in [0..0 -> Int] /\ g[0] = 0
    OBVIOUS
  <2>2. \A k \in 1..0 : g[k] = g[k - 1] + q[k]
    OBVIOUS
  <2> HIDE DEF g
  <2>3. Upto(0, g)
    BY <2>1, <2>2
  <2> HIDE DEF Upto
  <2> QED
    BY <2>3
<1> HIDE DEF Upto
<1>2. ASSUME NEW n \in Nat, n \in S PROVE n + 1 \in S
  <2> SUFFICES ASSUME n + 1 <= Len(q) PROVE \E f : Upto(n + 1, f)
    OBVIOUS
  <2>1. PICK f : Upto(n, f)
    BY <1>0, <1>2
  <2>2. n + 1 \in 1..Len(q) /\ q[n + 1] \in Int
    BY <1>0
  <2> DEFINE g == [k \in 0..(n + 1) |-> IF k = n + 1 THEN f[n] + q[n + 1] ELSE f[k]]
  <2>3. g \in [0..(n + 1) -> Int]
    BY <2>1, <2>2 DEF Upto
  <2>4. g[0] = 0
    BY <2>1 DEF Upto
  <2>5. ASSUME NEW k \in 1..(n + 1) PROVE g[k] = g[k - 1] + q[k]
    <3>1. k - 1 \in 0..n /\ g[k - 1] = f[k - 1]
      OBVIOUS
    <3>2. CASE k = n + 1
      BY <3>1, <3>2
    <3>3. CASE k # n + 1
      <4>1. k \in 1..n /\ g[k] = f[k]
        BY <3>3
      <4> QED
        BY <2>1, <3>1, <4>1 DEF Upto
    <3> QED
      BY <3>2, <3>3
  <2>6. Upto(n + 1, g)
    BY <2>3, <2>4, <2>5 DEF Upto
  <2> QED
    BY <2>6
<1> HIDE DEF S
<1>3. Len(q) \in S
  BY <1>0, <1>1, <1>2, SetInduction
<1> QED
  BY <1>0, <1>3 DEF S, Upto, PartialSums

\* SumSeq is the last of the partial sums, whichever way they were found.
THEOREM SumIsLastPartialSum ==
  ASSUME NEW q \in Seq(Int), NEW f, PartialSums(q, f)
  PROVE  SumSeq(q) = f[Len(q)] /\ SumSeq(q) \in Int
<1> DEFINE Eq(h) == h = [k \in 0..Len(q) |-> IF k = 0 THEN 0 ELSE h[k - 1] + q[k]]
           sum == CHOOSE h : Eq(h)
<1>0. Len(q) \in Nat
  OBVIOUS
<1>1. Eq(f)
  BY <1>0 DEF PartialSums
<1>2. Eq(sum)
  BY <1>1
<1> HIDE DEF sum
<1> DEFINE S == {n \in Nat : n <= Len(q) => sum[n] = f[n]}
<1>3. 0 \in S
  BY <1>0, <1>2 DEF PartialSums
<1>4. ASSUME NEW n \in Nat, n \in S PROVE n + 1 \in S
  <2> SUFFICES ASSUME n + 1 <= Len(q) PROVE sum[n + 1] = f[n + 1]
    OBVIOUS
  <2>1. n + 1 \in 1..Len(q) /\ n + 1 \in 0..Len(q) /\ (n + 1) - 1 = n /\ n <= Len(q) /\ n + 1 # 0
    BY <1>0
  <2>2. sum[n + 1] = sum[n] + q[n + 1]
    BY <1>2, <2>1
  <2> QED
    BY <1>4, <2>1, <2>2 DEF PartialSums
<1> HIDE DEF S
<1>5. Len(q) \in S
  BY <1>0, <1>3, <1>4, SetInduction
<1>6. SumSeq(q) = sum[Len(q)]
  BY DEF SumSeq, sum
<1> QED
  BY <1>0, <1>5, <1>6 DEF S, PartialSums

\* The sum of the empty sequence, and of a sequence with one element more at its end.
THEOREM SumEmpty == SumSeq(<<>>) = 0
<1>1. PICK f : PartialSums(<<>>, f)
  BY PartialSumsExist, EmptySeq
<1>2. <<>> \in Seq(Int) /\ Len(<<>>) = 0
  OBVIOUS
<1>3. SumSeq(<<>>) = f[Len(<<>>)]
  BY <1>1, <1>2, SumIsLastPartialSum
<1> QED
  BY <1>1, <1>2, <1>3 DEF PartialSums

\* A sum grows by the element that is appended,
THEOREM SumAppend ==
  ASSUME NEW q \in Seq(Int), NEW x \in Int
  PROVE  SumSeq(Append(q, x)) = SumSeq(q) + x
<1> DEFINE r == Append(q, x)  n == Len(q)
<1>0. /\ n \in Nat /\ r \in Seq(Int) /\ Len(r) = n + 1
      /\ \A k \in 1..n : r[k] = q[k]
      /\ r[n + 1] = x
  BY AppendProperties
<1>1. PICK f : PartialSums(r, f)
  BY <1>0, PartialSumsExist
<1> HIDE DEF r, n
<1> DEFINE g == [k \in 0..n |-> f[k]]
<1>2. /\ f \in [0..(n + 1) -> Int] /\ f[0] = 0
      /\ \A k \in 1..(n + 1) : f[k] = f[k - 1] + r[k]
  BY <1>0, <1>1 DEF PartialSums
<1>3. g \in [0..n -> Int] /\ g[0] = 0
  BY <1>0, <1>2
<1>4. \A k \in 1..n : g[k] = g[k - 1] + q[k]
  BY <1>0, <1>2
<1>5. PartialSums(q, g)
  BY <1>3, <1>4 DEF PartialSums, n
<1>6. SumSeq(q) = g[n] /\ SumSeq(r) = f[n + 1]
  BY <1>0, <1>1, <1>5, SumIsLastPartialSum DEF n
<1>7. f[n + 1] = f[n] + x /\ g[n] = f[n]
  BY <1>0, <1>2
<1> QED
  BY <1>6, <1>7 DEF r

\* The sum is an integer, and taking out one element takes it from the sum.
THEOREM SumType == ASSUME NEW q \in Seq(Int) PROVE SumSeq(q) \in Int
BY PartialSumsExist, SumIsLastPartialSum

\* and falls by an element that is taken out.
THEOREM SumWithout ==
  ASSUME NEW q \in Seq(Int), NEW r \in Seq(Int), NEW i \in 1..Len(q), Len(r) = Len(q) - 1,
         \A k \in 1..(Len(q) - 1) : r[k] = IF k < i THEN q[k] ELSE q[k + 1]
  PROVE  SumSeq(r) = SumSeq(q) - q[i]
<1> DEFINE n == Len(q)
<1>0. n \in Nat /\ n > 0 /\ i \in 1..n /\ q[i] \in Int
  OBVIOUS
<1>1. PICK f : PartialSums(q, f)
  BY PartialSumsExist
<1>2. /\ f \in [0..n -> Int] /\ f[0] = 0
      /\ \A k \in 1..n : f[k] = f[k - 1] + q[k]
  BY <1>1 DEF PartialSums
<1>i. (\A k \in 0..n : f[k] \in Int) /\ (\A k \in 1..n : q[k] \in Int)
  <2>1. \A k \in 1..n : q[k] \in Int
    OBVIOUS
  <2> HIDE DEF n
  <2> QED
    BY <1>2, <2>1
<1> DEFINE g == [k \in 0..(n - 1) |-> IF k < i THEN f[k] ELSE f[k + 1] - q[i]]
<1>3. g \in [0..(n - 1) -> Int] /\ g[0] = 0
  <2> HIDE DEF n
  <2>1. \A k \in 0..(n - 1) : k \in 0..n /\ k + 1 \in 0..n
    BY <1>0
  <2>2. \A k \in 0..(n - 1) : f[k] \in Int /\ f[k + 1] - q[i] \in Int
    BY <1>0, <1>i, <2>1
  <2>3. 0 \in 0..(n - 1) /\ 0 < i
    BY <1>0
  <2>4. g[0] = 0
    BY <1>2, <2>3
  <2> QED
    BY <2>2, <2>4
<1>4. ASSUME NEW k \in 1..(n - 1) PROVE g[k] = g[k - 1] + r[k]
  <2>a. f[k + 1] \in Int /\ f[k] \in Int /\ f[k - 1] \in Int /\ q[k] \in Int /\ q[k + 1] \in Int
    <3>1. k + 1 \in 0..n /\ k \in 0..n /\ k - 1 \in 0..n /\ k \in 1..n /\ k + 1 \in 1..n
      BY <1>0
    <3> HIDE DEF n
    <3> QED
      BY <1>i, <3>1
  <2>0. k - 1 \in 0..(n - 1) /\ k \in 0..(n - 1) /\ k \in 1..n /\ k + 1 \in 1..n /\ (k + 1) - 1 = k
        /\ (k - 1) + 1 = k
    BY <1>0
  <2>1. CASE k < i
    <3>1. k - 1 < i
      BY <1>0, <2>1
    <3>2. g[k] = f[k] /\ g[k - 1] = f[k - 1] /\ r[k] = q[k]
      BY <2>0, <2>1, <3>1
    <3> QED
      BY <1>2, <2>0, <3>2
  <2>2. CASE k = i
    <3>1. g[k] = f[k + 1] - q[i] /\ g[k - 1] = f[k - 1] /\ r[k] = q[k + 1]
      BY <1>0, <2>0, <2>2
    <3>2. f[k + 1] = f[k] + q[k + 1] /\ f[k] = f[k - 1] + q[k]
      BY <1>2, <2>0
    <3>3. q[i] = q[k]
      BY <2>2
    <3> HIDE DEF n, g
    <3> QED
      BY <2>a, <3>1, <3>2, <3>3, SMTT(30)
  <2>3. CASE k > i
    <3>1. ~(k < i) /\ ~(k - 1 < i)
      BY <1>0, <2>0, <2>3
    <3>2. g[k] = f[k + 1] - q[i] /\ g[k - 1] = f[k] - q[i] /\ r[k] = q[k + 1]
      BY <2>0, <3>1
    <3>3. f[k + 1] = f[k] + q[k + 1]
      BY <1>2, <2>0
    <3> HIDE DEF n, g
    <3> QED
      BY <1>0, <2>a, <3>2, <3>3, SMTT(30)
  <2> QED
    BY <1>0, <2>1, <2>2, <2>3
<1>5. PartialSums(r, g)
  <2> HIDE DEF g
  <2> QED
    BY <1>3, <1>4 DEF PartialSums
<1>6. SumSeq(q) = f[n] /\ SumSeq(r) = g[n - 1]
  BY <1>1, <1>5, SumIsLastPartialSum
<1>7. g[n - 1] = f[n] - q[i]
  <2>1. CASE n - 1 < i
    <3>1. n = i /\ g[n - 1] = f[n - 1]
      BY <1>0, <2>1
    <3>2. n \in 1..n /\ n \in 0..n /\ n - 1 \in 0..n
      BY <1>0
    <3> HIDE DEF n, g
    <3>3. f[n] = f[n - 1] + q[n] /\ f[n - 1] \in Int /\ f[n] \in Int
      BY <1>2, <1>i, <3>2
    <3> QED
      BY <1>0, <3>1, <3>3
  <2>2. CASE ~(n - 1 < i)
    BY <1>0, <2>2
  <2> QED
    BY <2>1, <2>2
<1> QED
  BY <1>6, <1>7

\* A sum of natural numbers is one, and is no less than any of them.
THEOREM SumNat ==
  ASSUME NEW q \in Seq(Nat)
  PROVE  SumSeq(q) \in Nat /\ \A i \in 1..Len(q) : q[i] <= SumSeq(q)
<1>1. ASSUME NEW r \in Seq(Nat) PROVE SumSeq(r) \in Nat
  <2>0. r \in Seq(Int) /\ Len(r) \in Nat
    OBVIOUS
  <2>1. PICK f : PartialSums(r, f)
    BY <2>0, PartialSumsExist
  <2> DEFINE S == {n \in Nat : n <= Len(r) => f[n] \in Nat}
  <2>2. 0 \in S
    BY <2>1 DEF PartialSums
  <2>3. ASSUME NEW n \in Nat, n \in S PROVE n + 1 \in S
    <3> SUFFICES ASSUME n + 1 <= Len(r) PROVE f[n + 1] \in Nat
      OBVIOUS
    <3>1. n + 1 \in 1..Len(r) /\ (n + 1) - 1 = n /\ n <= Len(r) /\ r[n + 1] \in Nat
      BY <2>0
    <3>2. f[n + 1] = f[n] + r[n + 1]
      BY <2>1, <3>1 DEF PartialSums
    <3> QED
      BY <2>3, <3>1, <3>2
  <2> HIDE DEF S
  <2>4. Len(r) \in S
    BY <2>0, <2>2, <2>3, SetInduction
  <2>5. SumSeq(r) = f[Len(r)]
    BY <2>0, <2>1, SumIsLastPartialSum
  <2> QED
    BY <2>0, <2>4, <2>5 DEF S
<1>2. ASSUME NEW i \in 1..Len(q) PROVE q[i] <= SumSeq(q)
  <2> DEFINE r == [k \in 1..(Len(q) - 1) |-> IF k < i THEN q[k] ELSE q[k + 1]]
  <2>1. /\ Len(q) \in Nat /\ Len(q) - 1 \in Nat /\ q[i] \in Nat /\ q \in Seq(Int)
        /\ \A k \in 1..Len(q) : q[k] \in Nat
    OBVIOUS
  <2>2. r \in [1..(Len(q) - 1) -> Nat]
    BY <2>1
  <2>3. r \in Seq(Nat) /\ Len(r) = Len(q) - 1
    BY <2>1, <2>2, SeqDef, LenProperties
  <2>4. r \in Seq(Int)
    BY <2>3
  <2>5. SumSeq(r) = SumSeq(q) - q[i]
    BY <2>1, <2>3, <2>4, SumWithout
  <2>6. SumSeq(r) \in Nat /\ SumSeq(q) \in Nat
    BY <1>1, <2>3
  <2> QED
    BY <2>1, <2>5, <2>6
<1> QED
  BY <1>1, <1>2

----------------------------------------------------------------------------
\* The list without its k-th element.
LEMMA RemoveAtFacts ==
  ASSUME NEW S, NEW s \in Seq(S), NEW k \in 1..Len(s)
  PROVE  /\ RemoveAt(s, k) \in Seq(S)
         /\ Len(RemoveAt(s, k)) = Len(s) - 1
         /\ \A j \in 1..(Len(s) - 1) :
              RemoveAt(s, k)[j] = IF j < k THEN s[j] ELSE s[j + 1]
<1> DEFINE l == SubSeq(s, 1, k - 1)  r == SubSeq(s, k + 1, Len(s))
<1>1. /\ l \in Seq(S) /\ Len(l) = k - 1
      /\ \A j \in 1..(k - 1) : l[j] = s[j]
  OBVIOUS
<1>2. /\ r \in Seq(S) /\ Len(r) = Len(s) - k
      /\ \A j \in 1..(Len(s) - k) : r[j] = s[j + k]
  OBVIOUS
<1>3. RemoveAt(s, k) = l \o r
  BY DEF RemoveAt
<1> HIDE DEF l, r
<1>4. /\ l \o r \in Seq(S) /\ Len(l \o r) = Len(s) - 1
      /\ \A j \in 1..(Len(s) - 1) : (l \o r)[j] = IF j <= Len(l) THEN l[j] ELSE r[j - Len(l)]
  BY <1>1, <1>2, ConcatProperties
<1>5. ASSUME NEW j \in 1..(Len(s) - 1)
      PROVE  (l \o r)[j] = IF j < k THEN s[j] ELSE s[j + 1]
  <2>1. CASE j < k
    BY <1>1, <1>4, <2>1
  <2>2. CASE ~(j < k)
    <3>1. ~(j <= Len(l)) /\ j - Len(l) = j - (k - 1) /\ j - (k - 1) \in 1..(Len(s) - k)
          /\ (j - (k - 1)) + k = j + 1
      BY <1>1, <2>2
    <3> QED
      BY <1>2, <1>4, <2>2, <3>1
  <2> QED
    BY <2>1, <2>2
<1> QED
  BY <1>3, <1>4, <1>5

\* A sequence that goes on is read as before.
LEMMA HeadTailOfConcat ==
  ASSUME NEW S, NEW s \in Seq(S), NEW t \in Seq(S), s # <<>>
  PROVE  s \o t # <<>> /\ Head(s \o t) = Head(s) /\ Tail(s \o t) = Tail(s) \o t
<1>1. /\ s \o t \in Seq(S) /\ Len(s \o t) = Len(s) + Len(t) /\ Len(s) \in Nat \ {0} /\ Len(t) \in Nat
      /\ \A i \in 1..(Len(s) + Len(t)) : (s \o t)[i] = IF i <= Len(s) THEN s[i] ELSE t[i - Len(s)]
  BY ConcatProperties, EmptySeq
<1>2. s \o t # <<>> /\ Head(s \o t) = Head(s)
  BY <1>1
<1>3. /\ Tail(s) \in Seq(S) /\ Len(Tail(s)) = Len(s) - 1
      /\ \A i \in 1..(Len(s) - 1) : Tail(s)[i] = s[i + 1]
  BY <1>1
<1>4. /\ Tail(s \o t) \in Seq(S) /\ Len(Tail(s \o t)) = Len(s) + Len(t) - 1
      /\ \A i \in 1..(Len(s) + Len(t) - 1) : Tail(s \o t)[i] = (s \o t)[i + 1]
  BY <1>1, <1>2
<1>5. /\ Tail(s) \o t \in Seq(S) /\ Len(Tail(s) \o t) = Len(s) - 1 + Len(t)
      /\ \A i \in 1..(Len(s) - 1 + Len(t)) :
           (Tail(s) \o t)[i] = IF i <= Len(s) - 1 THEN Tail(s)[i] ELSE t[i - (Len(s) - 1)]
  BY <1>3, ConcatProperties
<1>6. \A i \in 1..(Len(s) + Len(t) - 1) : Tail(s \o t)[i] = (Tail(s) \o t)[i]
  <2> SUFFICES ASSUME NEW i \in 1..(Len(s) + Len(t) - 1) PROVE Tail(s \o t)[i] = (Tail(s) \o t)[i]
    OBVIOUS
  <2>1. Tail(s \o t)[i] = IF i + 1 <= Len(s) THEN s[i + 1] ELSE t[(i + 1) - Len(s)]
    BY <1>1, <1>4
  <2>2. (Tail(s) \o t)[i] = IF i <= Len(s) - 1 THEN s[i + 1] ELSE t[i - (Len(s) - 1)]
    BY <1>1, <1>3, <1>5
  <2>3. (i + 1) - Len(s) = i - (Len(s) - 1) /\ (i + 1 <= Len(s) <=> i <= Len(s) - 1)
    BY <1>1
  <2> QED
    BY <2>1, <2>2, <2>3
<1> QED
  BY <1>1, <1>2, <1>4, <1>5, <1>6, SeqEqual

\* What an appended element does to the members of a list and to their being distinct.
LEMMA AppendFacts ==
  ASSUME NEW A, NEW q \in Seq(A), NEW x \in A
  PROVE  /\ Append(q, x) \in Seq(A) /\ Len(Append(q, x)) = Len(q) + 1 /\ Append(q, x) # <<>>
         /\ ToSet(Append(q, x)) = ToSet(q) \cup {x}
         /\ x \notin ToSet(q) /\ IsInjective(q) => IsInjective(Append(q, x))
<1>1. /\ Append(q, x) \in Seq(A) /\ Len(Append(q, x)) = Len(q) + 1 /\ Append(q, x) # <<>>
      /\ Len(q) \in Nat /\ DOMAIN q = 1..Len(q) /\ DOMAIN Append(q, x) = 1..(Len(q) + 1)
      /\ Append(q, x)[Len(q) + 1] = x /\ \A k \in 1..Len(q) : Append(q, x)[k] = q[k]
  OBVIOUS
<1>2. ToSet(Append(q, x)) = ToSet(q) \cup {x}
  BY <1>1 DEF ToSet
<1>3. ASSUME x \notin ToSet(q), IsInjective(q) PROVE IsInjective(Append(q, x))
  <2>1. \A k \in 1..Len(q) : q[k] # x
    BY <1>1, <1>3 DEF ToSet
  <2>2. \A j, k \in 1..Len(q) : q[j] = q[k] => j = k
    BY <1>1, <1>3 DEF IsInjective
  <2>3. \A k \in 1..(Len(q) + 1) : k \in 1..Len(q) \/ k = Len(q) + 1
    BY <1>1
  <2> QED
    BY <1>1, <2>1, <2>2, <2>3 DEF IsInjective
<1> QED
  BY <1>1, <1>2, <1>3

\* What the loss of its head does to them.
LEMMA TailFacts ==
  ASSUME NEW A, NEW q \in Seq(A), q # <<>>
  PROVE  /\ Tail(q) \in Seq(A) /\ Len(Tail(q)) = Len(q) - 1 /\ ToSet(Tail(q)) \subseteq ToSet(q)
         /\ IsInjective(q) => IsInjective(Tail(q))
         /\ ToSet(q) \subseteq ToSet(Tail(q)) \cup {Head(q)}
<1>1. /\ Tail(q) \in Seq(A) /\ Len(Tail(q)) = Len(q) - 1 /\ Len(q) \in Nat \ {0}
      /\ DOMAIN q = 1..Len(q) /\ DOMAIN Tail(q) = 1..(Len(q) - 1)
      /\ \A k \in 1..(Len(q) - 1) : Tail(q)[k] = q[k + 1]
      /\ Head(q) = q[1]
  OBVIOUS
<1>2. ToSet(Tail(q)) \subseteq ToSet(q)
  BY <1>1 DEF ToSet
<1>3. IsInjective(q) => IsInjective(Tail(q))
  BY <1>1 DEF IsInjective
<1>4. ToSet(q) \subseteq ToSet(Tail(q)) \cup {Head(q)}
  <2> SUFFICES ASSUME NEW k \in 1..Len(q), k # 1 PROVE q[k] \in ToSet(Tail(q))
    BY <1>1 DEF ToSet
  <2>1. k - 1 \in 1..(Len(q) - 1) /\ (k - 1) + 1 = k
    BY <1>1
  <2>2. Tail(q)[k - 1] = q[k]
    BY <1>1, <2>1
  <2> QED
    BY <1>1, <2>1, <2>2 DEF ToSet
<1> QED
  BY <1>1, <1>2, <1>3, <1>4

----------------------------------------------------------------------------
(***************************************************************************)
(* Induction over lists, and more of how lists grow and shrink.            *)
(***************************************************************************)
\* Induction over lists, for a set of lists.
LEMMA ListInduction ==
  ASSUME NEW A, NEW P, <<>> \in P, \A q \in Seq(A), x \in A : q \in P => Append(q, x) \in P
  PROVE  \A q \in Seq(A) : q \in P
<1> DEFINE S == {n \in Nat : \A q \in Seq(A) : Len(q) = n => q \in P}
<1>1. 0 \in S
  <2>1. \A q \in Seq(A) : Len(q) = 0 => q = <<>>
    BY EmptySeq
  <2> QED
    BY <2>1
<1>2. ASSUME NEW n \in Nat, n \in S PROVE n + 1 \in S
  <2> SUFFICES ASSUME NEW q \in Seq(A), Len(q) = n + 1 PROVE q \in P
    OBVIOUS
  <2> DEFINE f == SubSeq(q, 1, n)
  <2>1. f \in Seq(A) /\ Len(f) = n /\ (\A k \in 1..n : f[k] = q[k]) /\ q[n + 1] \in A
    OBVIOUS
  <2> HIDE DEF f
  <2>2. /\ Append(f, q[n + 1]) \in Seq(A) /\ Len(Append(f, q[n + 1])) = n + 1
        /\ \A k \in 1..(n + 1) : Append(f, q[n + 1])[k] = q[k]
    BY <2>1
  <2>3. Append(f, q[n + 1]) = q
    BY <2>2, SeqEqual
  <2>4. f \in P
    BY <1>2, <2>1
  <2> QED
    BY <2>1, <2>3, <2>4
<1> HIDE DEF S
<1>3. \A n \in Nat : n \in S
  BY <1>1, <1>2, SetInduction
<1>4. \A q \in Seq(A) : Len(q) \in Nat
  OBVIOUS
<1> QED
  BY <1>3, <1>4 DEF S

\* Taking one element away and then an earlier one is the same as taking the earlier one
\* and then the other, which has moved one place down.
LEMMA RemoveTwo ==
  ASSUME NEW S, NEW l \in Seq(S), NEW a \in 1..Len(l), NEW b \in 1..Len(l), b < a
  PROVE  /\ RemoveAt(RemoveAt(l, a), b) = RemoveAt(RemoveAt(l, b), a - 1)
         /\ RemoveAt(l, a)[b] = l[b] /\ RemoveAt(l, b)[a - 1] = l[a]
<1> DEFINE n == Len(l)  x == RemoveAt(l, a)  y == RemoveAt(l, b)
<1>0. n \in Nat /\ a \in 1..n /\ b \in 1..n
  OBVIOUS
<1>1. /\ x \in Seq(S) /\ Len(x) = n - 1
      /\ \A j \in 1..(n - 1) : x[j] = IF j < a THEN l[j] ELSE l[j + 1]
  BY RemoveAtFacts
<1>2. /\ y \in Seq(S) /\ Len(y) = n - 1
      /\ \A j \in 1..(n - 1) : y[j] = IF j < b THEN l[j] ELSE l[j + 1]
  BY RemoveAtFacts
<1> HIDE DEF x, y, n
<1>3. b \in 1..(n - 1) /\ a - 1 \in 1..(n - 1)
  BY <1>0
<1>4. /\ RemoveAt(x, b) \in Seq(S) /\ Len(RemoveAt(x, b)) = n - 2
      /\ \A j \in 1..(n - 2) : RemoveAt(x, b)[j] = IF j < b THEN x[j] ELSE x[j + 1]
  <2>1. b \in 1..Len(x) /\ Len(x) - 1 = n - 2
    BY <1>0, <1>1, <1>3
  <2> QED
    BY <1>1, <2>1, RemoveAtFacts, ZenonT(60)
<1>5. /\ RemoveAt(y, a - 1) \in Seq(S) /\ Len(RemoveAt(y, a - 1)) = n - 2
      /\ \A j \in 1..(n - 2) : RemoveAt(y, a - 1)[j] = IF j < a - 1 THEN y[j] ELSE y[j + 1]
  <2>1. a - 1 \in 1..Len(y) /\ Len(y) - 1 = n - 2
    BY <1>0, <1>2, <1>3
  <2> QED
    BY <1>2, <2>1, RemoveAtFacts
<1>6. ASSUME NEW j \in 1..(n - 2) PROVE RemoveAt(x, b)[j] = RemoveAt(y, a - 1)[j]
  <2>0. j \in 1..(n - 1) /\ j + 1 \in 1..(n - 1)
    BY <1>0
  <2>1. CASE j < b
    BY <1>0, <1>1, <1>2, <1>4, <1>5, <2>0, <2>1
  <2>2. CASE b <= j /\ j < a - 1
    BY <1>0, <1>1, <1>2, <1>4, <1>5, <2>0, <2>2
  <2>3. CASE a - 1 <= j
    BY <1>0, <1>1, <1>2, <1>4, <1>5, <2>0, <2>3
  <2> QED
    BY <1>0, <2>1, <2>2, <2>3
<1>7. RemoveAt(x, b) = RemoveAt(y, a - 1)
  BY <1>4, <1>5, <1>6, SeqEqual
<1>8. x[b] = l[b] /\ y[a - 1] = l[a]
  BY <1>0, <1>1, <1>2, <1>3
<1> QED
  BY <1>7, <1>8 DEF x, y

\* A list grows at its end.
LEMMA AppendToConcat ==
  ASSUME NEW S, NEW q \in Seq(S), NEW l \in Seq(S), NEW x \in S
  PROVE  q \o Append(l, x) = Append(q \o l, x) /\ q \o l \in Seq(S)
<1>1. /\ q \o l \in Seq(S) /\ Len(q \o l) = Len(q) + Len(l) /\ Len(q) \in Nat /\ Len(l) \in Nat
      /\ \A i \in 1..(Len(q) + Len(l)) : (q \o l)[i] = IF i <= Len(q) THEN q[i] ELSE l[i - Len(q)]
  BY ConcatProperties
<1> DEFINE m == Append(l, x)  a == Append(q \o l, x)  n == Len(q) + Len(l) + 1
<1>2. m \in Seq(S) /\ Len(m) = Len(l) + 1 /\ m[Len(l) + 1] = x /\ \A i \in 1..Len(l) : m[i] = l[i]
  OBVIOUS
<1>3. a \in Seq(S) /\ Len(a) = n /\ a[n] = x /\ \A i \in 1..(n - 1) : a[i] = (q \o l)[i]
  BY <1>1
<1> HIDE DEF m, a
<1>4. /\ q \o m \in Seq(S) /\ Len(q \o m) = n
      /\ \A i \in 1..n : (q \o m)[i] = IF i <= Len(q) THEN q[i] ELSE m[i - Len(q)]
  <2>1. /\ q \o m \in Seq(S) /\ Len(q \o m) = Len(q) + Len(m)
        /\ \A i \in 1..(Len(q) + Len(m)) : (q \o m)[i] = IF i <= Len(q) THEN q[i] ELSE m[i - Len(q)]
    BY <1>2, ConcatProperties
  <2>2. Len(q) + Len(m) = n
    BY <1>1, <1>2
  <2> QED
    BY <2>1, <2>2
<1>5. ASSUME NEW i \in 1..n PROVE (q \o m)[i] = a[i]
  <2>1. CASE i <= Len(q)
    BY <1>1, <1>3, <1>4, <2>1
  <2>2. CASE i > Len(q) /\ i < n
    <3>1. i - Len(q) \in 1..Len(l) /\ i \in 1..(n - 1) /\ i \in 1..(Len(q) + Len(l))
      BY <1>1, <2>2
    <3>2. ~(i <= Len(q))
      BY <1>1, <2>2
    <3> QED
      BY <1>1, <1>2, <1>3, <1>4, <3>1, <3>2
  <2>3. CASE i = n
    <3>1. i - Len(q) = Len(l) + 1 /\ ~(i <= Len(q))
      BY <1>1, <2>3
    <3> QED
      BY <1>2, <1>3, <1>4, <2>3, <3>1
  <2>4. i <= Len(q) \/ (i > Len(q) /\ i < n) \/ i = n
    BY <1>1
  <2> QED
    BY <2>1, <2>2, <2>3, <2>4
<1>6. q \o m = a
  BY <1>3, <1>4, <1>5, SeqEqual
<1> QED
  BY <1>1, <1>6 DEF m, a

\* A list without repetitions stays so when an element is taken out.
LEMMA InjectiveWithout ==
  ASSUME NEW S, NEW q \in Seq(S), IsInjective(q), NEW k \in 1..Len(q)
  PROVE  IsInjective(RemoveAt(q, k)) /\ ToSet(RemoveAt(q, k)) \subseteq ToSet(q)
<1> DEFINE r == RemoveAt(q, k)  n == Len(q)
<1>0. n \in Nat /\ \A i, j \in 1..n : q[i] = q[j] => i = j
  BY DEF IsInjective
<1>1. /\ r \in Seq(S) /\ Len(r) = n - 1
      /\ \A j \in 1..(n - 1) : r[j] = IF j < k THEN q[j] ELSE q[j + 1]
  BY RemoveAtFacts
<1> HIDE DEF r
<1>2. ASSUME NEW i \in 1..(n - 1), NEW j \in 1..(n - 1), r[i] = r[j] PROVE i = j
  <2>1. i \in 1..n /\ j \in 1..n /\ i + 1 \in 1..n /\ j + 1 \in 1..n
    BY <1>0
  <2>2. CASE i < k /\ j < k
    BY <1>0, <1>1, <1>2, <2>1, <2>2
  <2>3. CASE ~(i < k) /\ j < k
    <3>1. q[i + 1] = q[j]
      BY <1>1, <1>2, <2>3
    <3>2. i + 1 = j
      BY <1>0, <2>1, <3>1
    <3> QED
      BY <2>3, <3>2
  <2>4. CASE i < k /\ ~(j < k)
    <3>1. q[i] = q[j + 1]
      BY <1>1, <1>2, <2>4
    <3>2. i = j + 1
      BY <1>0, <2>1, <3>1
    <3> QED
      BY <2>4, <3>2
  <2>5. CASE ~(i < k) /\ ~(j < k)
    <3>1. q[i + 1] = q[j + 1]
      BY <1>1, <1>2, <2>5
    <3>2. i + 1 = j + 1
      BY <1>0, <2>1, <3>1
    <3> QED
      BY <3>2
  <2> QED
    BY <2>2, <2>3, <2>4, <2>5
<1>3. DOMAIN r = 1..(n - 1) /\ DOMAIN q = 1..n
  BY <1>0, <1>1
<1>4. IsInjective(r)
  BY <1>2, <1>3 DEF IsInjective
<1>5. ToSet(r) \subseteq ToSet(q)
  <2>1. ASSUME NEW j \in 1..(n - 1) PROVE r[j] \in ToSet(q)
    <3>1. j \in 1..n /\ j + 1 \in 1..n
      BY <1>0
    <3> QED
      BY <1>1, <1>3, <3>1 DEF ToSet
  <2> QED
    BY <1>3, <2>1 DEF ToSet
<1> QED
  BY <1>4, <1>5 DEF r

\* A set of numbers that is not empty has a least one.
LEMMA MinFacts ==
  ASSUME NEW S, S \subseteq Nat, S # {}
  PROVE  Min(S) \in S /\ \A y \in S : Min(S) <= y
<1> SUFFICES \E m \in S : \A y \in S : m <= y
  BY DEF Min
<1> SUFFICES ASSUME \A m \in S : \E y \in S : y < m PROVE FALSE
  <2>1. \A m, y \in S : (m <= y) \/ (y < m)
    OBVIOUS
  <2> QED
    BY <2>1
<1> DEFINE T == {n \in Nat : \A k \in 0..n : k \notin S}
<1>1. 0 \in T
  <2>1. 0 \notin S
    OBVIOUS
  <2>2. \A k \in 0..0 : k = 0
    OBVIOUS
  <2> QED
    BY <2>1, <2>2
<1>2. ASSUME NEW n \in Nat, n \in T PROVE n + 1 \in T
  <2>1. \A k \in 0..n : k \notin S
    BY <1>2
  <2>2. n + 1 \notin S
    <3> SUFFICES ASSUME n + 1 \in S PROVE FALSE
      OBVIOUS
    <3>1. PICK y \in S : y < n + 1
      OBVIOUS
    <3>2. y \in 0..n
      BY <3>1
    <3> QED
      BY <2>1, <3>2
  <2>3. \A k \in 0..(n + 1) : k \in 0..n \/ k = n + 1
    OBVIOUS
  <2> QED
    BY <2>1, <2>2, <2>3
<1> HIDE DEF T
<1>3. \A n \in Nat : n \in T
  BY <1>1, <1>2, SetInduction
<1>4. \A n \in Nat : n \notin S
  <2>1. \A n \in Nat : n \in 0..n
    OBVIOUS
  <2> QED
    BY <1>3, <2>1 DEF T
<1> QED
  BY <1>4

\* What follows the first n elements of a list.
Beyond(q, n) == SubSeq(q, n + 1, Len(q))

\* The elements of the rest, ...
LEMMA BeyondFacts ==
  ASSUME NEW S, NEW q \in Seq(S), NEW n \in 0..Len(q)
  PROVE  /\ Beyond(q, n) \in Seq(S) /\ Len(Beyond(q, n)) = Len(q) - n
         /\ \A i \in 1..(Len(q) - n) : Beyond(q, n)[i] = q[n + i]
<1> DEFINE m == n + 1  l == Len(q)
<1>1. l \in Nat /\ n \in Nat /\ m \in Int /\ n <= l
  OBVIOUS
<1>2. \A i \in m..l : q[i] \in S
  <2>1. \A i \in m..l : i \in 1..l
    BY <1>1
  <2> QED
    BY <2>1
<1>3. m = n + 1
  OBVIOUS
<1>l. l = Len(q)
  OBVIOUS
<1> HIDE DEF m, l
<1>4. /\ SubSeq(q, m, l) \in Seq(S) /\ Len(SubSeq(q, m, l)) = IF m <= l THEN l - m + 1 ELSE 0
      /\ \A i \in 1..(l - m + 1) : SubSeq(q, m, l)[i] = q[m + i - 1]
  BY <1>1, <1>2, SubSeqProperties
<1>5. l - m + 1 = l - n /\ (m <= l \/ l - n = 0) /\ \A i \in 1..(l - n) : m + i - 1 = n + i
  BY <1>1, <1>3
<1>6. Beyond(q, n) = SubSeq(q, m, l)
  BY <1>3, <1>l DEF Beyond
<1> QED
  BY <1>4, <1>5, <1>6, <1>l

\* ... and how it shrinks.
LEMMA BeyondSteps ==
  ASSUME NEW S, NEW q \in Seq(S)
  PROVE  /\ Beyond(q, 0) = q /\ Beyond(q, Len(q)) = <<>>
         /\ \A n \in 0..(Len(q) - 1) : 1 \in 1..Len(Beyond(q, n)) /\ Beyond(q, n + 1) = RemoveAt(Beyond(q, n), 1)
<1> DEFINE l == Len(q)
<1>0. l \in Nat /\ 0 \in 0..l /\ l \in 0..l
  OBVIOUS
<1>1. Beyond(q, 0) = q
  <2>1. Beyond(q, 0) \in Seq(S) /\ Len(Beyond(q, 0)) = l - 0 /\ \A i \in 1..(l - 0) : Beyond(q, 0)[i] = q[0 + i]
    BY <1>0, BeyondFacts
  <2>2. l - 0 = l /\ \A i \in 1..l : 0 + i = i
    BY <1>0
  <2>3. \A i \in 1..l : Beyond(q, 0)[i] = q[i]
    BY <2>1, <2>2
  <2> QED
    BY <2>1, <2>2, <2>3, SeqEqual
<1>2. Beyond(q, l) = <<>>
  <2>1. Beyond(q, l) \in Seq(S) /\ Len(Beyond(q, l)) = l - l
    BY <1>0, BeyondFacts
  <2> QED
    BY <1>0, <2>1, EmptySeq
<1>3. ASSUME NEW n \in 0..(l - 1) PROVE 1 \in 1..Len(Beyond(q, n)) /\ Beyond(q, n + 1) = RemoveAt(Beyond(q, n), 1)
  <2> DEFINE a == Beyond(q, n)  b == Beyond(q, n + 1)  k == n + 1
  <2>0. n \in 0..l /\ k \in 0..l /\ n \in Nat
    BY <1>0
  <2>1. a \in Seq(S) /\ Len(a) = l - n /\ \A i \in 1..(l - n) : a[i] = q[n + i]
    BY <2>0, BeyondFacts
  <2>2. b \in Seq(S) /\ Len(b) = l - k /\ \A i \in 1..(l - k) : b[i] = q[k + i]
    <3> HIDE DEF k
    <3>1. Beyond(q, k) \in Seq(S) /\ Len(Beyond(q, k)) = l - k /\ \A i \in 1..(l - k) : Beyond(q, k)[i] = q[k + i]
      BY <2>0, BeyondFacts
    <3> QED
      BY <3>1 DEF k
  <2> HIDE DEF a, b
  <2>3. 1 \in 1..Len(a)
    BY <1>0, <2>1
  <2>4. /\ RemoveAt(a, 1) \in Seq(S) /\ Len(RemoveAt(a, 1)) = Len(a) - 1
        /\ \A j \in 1..(Len(a) - 1) : RemoveAt(a, 1)[j] = IF j < 1 THEN a[j] ELSE a[j + 1]
    BY <2>1, <2>3, RemoveAtFacts
  <2>5. Len(a) - 1 = l - k
    BY <1>0, <2>0, <2>1
  <2>6. ASSUME NEW j \in 1..(l - k) PROVE b[j] = RemoveAt(a, 1)[j]
    <3>1. ~(j < 1) /\ j + 1 \in 1..(l - n) /\ n + (j + 1) = k + j
      BY <1>0, <2>0
    <3> QED
      BY <2>1, <2>2, <2>4, <2>5, <3>1
  <2>7. b = RemoveAt(a, 1)
    BY <2>2, <2>4, <2>5, <2>6, SeqEqual
  <2> QED
    BY <2>3, <2>7 DEF a, b
<1> QED
  BY <1>1, <1>2, <1>3

\* A list is its head and its tail.
LEMMA HeadThenTail ==
  ASSUME NEW S, NEW q \in Seq(S), q # <<>>
  PROVE  q = <<Head(q)>> \o Tail(q)
<1> DEFINE h == Head(q)  t == Tail(q)  n == Len(q)
<1>1. /\ h \in S /\ h = q[1] /\ t \in Seq(S) /\ Len(t) = n - 1 /\ n \in Nat \ {0}
      /\ \A i \in 1..(n - 1) : t[i] = q[i + 1]
  OBVIOUS
<1> HIDE DEF h, t
<1>2. <<h>> \in Seq(S) /\ Len(<<h>>) = 1 /\ <<h>>[1] = h
  BY <1>1
<1>3. /\ <<h>> \o t \in Seq(S) /\ Len(<<h>> \o t) = 1 + Len(t)
      /\ \A i \in 1..(1 + Len(t)) : (<<h>> \o t)[i] = IF i <= 1 THEN <<h>>[i] ELSE t[i - 1]
  BY <1>1, <1>2, ConcatProperties
<1>4. 1 + Len(t) = n
  BY <1>1
<1>5. ASSUME NEW i \in 1..n PROVE q[i] = (<<h>> \o t)[i]
  <2>1. CASE i = 1
    BY <1>1, <1>2, <1>3, <1>4, <2>1
  <2>2. CASE i # 1
    <3>1. ~(i <= 1) /\ i - 1 \in 1..(n - 1) /\ (i - 1) + 1 = i
      BY <2>2
    <3> QED
      BY <1>1, <1>3, <1>4, <3>1
  <2> QED
    BY <2>1, <2>2
<1>6. q = <<h>> \o t
  BY <1>3, <1>4, <1>5, SeqEqual
<1> QED
  BY <1>6 DEF h, t
=============================================================================
