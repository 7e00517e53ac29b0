------------------------- MODULE RelayCodec_proofs -------------------------
(***************************************************************************)
(* Proofs about RelayCodec, for any transactions, sizes and limits: a      *)
(* block comes back as it was and leaves equal caches equal, and what one  *)
(* side may send is what the other accepts.                                *)
(*                                                                         *)
(* The sender counts positions while it takes transactions from its cache  *)
(* in block order; the receiver sorts the references, changing their       *)
(* positions on the way, and takes them in the order of positions.  The    *)
(* heart of the argument is TakeTwo: two references may change places if   *)
(* the one that overtakes is to a lower position and the other one moves   *)
(* down by one.  From there: one over a list (TakeOverList), a turn of the *)
(* merge, the merge, the sort, and the block.                              *)
(***************************************************************************)
EXTENDS RelayCodec, ListTheorems

----------------------------------------------------------------------------
\* A reference to the cache, and the states of the loop for a message with the
\* entries D.
Ptr == [index : 0..Mark - 1, pos : Nat]

State(D) == [ok : BOOLEAN, cache : Seq(Tx), txs : [D -> Tx \cup {NoTx}]]

\* The states of the loop that takes transactions from the cache.
Taking(s, q, c) ==
  c = [n \in 0..Len(q) |-> IF n = 0 THEN s ELSE TakeFromCache(c[n - 1], q[n])]

\* There is such a table.
LEMMA TakingExists ==
  ASSUME NEW s, NEW q \in Seq(Ptr) PROVE \E c : Taking(s, q, c)
<1> DEFINE UpTo(n, c) == c = [k \in 0..n |-> IF k = 0 THEN s ELSE TakeFromCache(c[k - 1], q[k])]
           S == {n \in Nat : \E c : UpTo(n, c)}
<1>1. 0 \in S
  <2>1. UpTo(0, [k \in 0..0 |-> s])
    OBVIOUS
  <2> QED
    BY <2>1
<1>2. ASSUME NEW n \in Nat, n \in S PROVE n + 1 \in S
  <2>1. PICK c : UpTo(n, c)
    BY <1>2
  <2> DEFINE d == [k \in 0..(n + 1) |-> IF k = n + 1 THEN TakeFromCache(c[n], q[n + 1]) ELSE c[k]]
  <2>2. ASSUME NEW k \in 0..(n + 1)
        PROVE  d[k] = IF k = 0 THEN s ELSE TakeFromCache(d[k - 1], q[k])
    <3>1. CASE k = 0
      <4>1. d[0] = c[0] /\ c[0] = s
        BY <2>1
      <4> QED
        BY <3>1, <4>1
    <3>2. CASE k = n + 1
      <4>1. k # 0 /\ k - 1 = n /\ d[n] = c[n]
        BY <3>2
      <4> QED
        BY <3>2, <4>1
    <3>3. CASE k \in 1..n
      <4>1. k # 0 /\ k \in 0..n /\ k - 1 \in 0..n /\ d[k] = c[k] /\ d[k - 1] = c[k - 1]
        BY <3>3
      <4>2. c[k] = TakeFromCache(c[k - 1], q[k])
        BY <2>1, <4>1
      <4> QED
        BY <4>1, <4>2
    <3> QED
      BY <3>1, <3>2, <3>3
  <2>3. d = [k \in 0..(n + 1) |-> d[k]]
    OBVIOUS
  <2> HIDE DEF d
  <2>4. UpTo(n + 1, d)
    BY <2>2, <2>3
  <2> QED
    BY <2>4, SMTT(30)
<1> HIDE DEF S
<1>3. Len(q) \in S
  BY <1>1, <1>2, SetInduction
<1> QED
  BY <1>3 DEF S, Taking

\* The loop ends in the last entry ...
LEMMA TakingHolds ==
  ASSUME NEW s, NEW q \in Seq(Ptr)
  PROVE  \E c : /\ Taking(s, q, c) /\ TakeEach(s, q) = c[Len(q)]
               /\ c[0] = s /\ \A n \in 1..Len(q) : c[n] = TakeFromCache(c[n - 1], q[n])
<1> DEFINE h == CHOOSE h : Taking(s, q, h)
<1>1. Taking(s, q, h)
  BY TakingExists
<1>2. TakeEach(s, q) = h[Len(q)]
  BY DEF TakeEach, h, Taking
<1> HIDE DEF h
<1>3. Len(q) \in Nat
  OBVIOUS
<1>4. h[0] = s
  BY <1>1, <1>3 DEF Taking
<1>5. \A n \in 1..Len(q) : n \in 0..Len(q) /\ n # 0
  BY <1>3
<1>6. \A n \in 1..Len(q) : h[n] = TakeFromCache(h[n - 1], q[n])
  BY <1>1, <1>5, Zenon DEF Taking
<1> QED
  BY <1>1, <1>2, <1>4, <1>6

\* ... and so one more reference is one more turn.
LEMMA TakeEachFacts ==
  ASSUME NEW s
  PROVE  /\ TakeEach(s, <<>>) = s
         /\ \A q \in Seq(Ptr), x \in Ptr :
              TakeEach(s, Append(q, x)) = TakeFromCache(TakeEach(s, q), x)
<1>1. TakeEach(s, <<>>) = s
  <2>1. ASSUME NEW e \in Seq(Ptr), Len(e) = 0 PROVE TakeEach(s, e) = s
    <3>1. PICK c : /\ TakeEach(s, e) = c[Len(e)] /\ c[0] = s
                   /\ \A n \in 1..Len(e) : c[n] = TakeFromCache(c[n - 1], e[n])
      BY TakingHolds
    <3> QED
      BY <2>1, <3>1
  <2>2. <<>> \in Seq(Ptr) /\ Len(<<>>) = 0
    OBVIOUS
  <2> QED
    BY <2>1, <2>2
<1>2. ASSUME NEW q \in Seq(Ptr), NEW x \in Ptr
      PROVE  TakeEach(s, Append(q, x)) = TakeFromCache(TakeEach(s, q), x)
  <2> DEFINE r == Append(q, x)
  <2>1. r \in Seq(Ptr) /\ Len(r) = Len(q) + 1 /\ Len(q) \in Nat /\ r[Len(q) + 1] = x
        /\ \A n \in 1..Len(q) : r[n] = q[n]
    OBVIOUS
  <2> HIDE DEF r
  <2>2. PICK c : /\ TakeEach(s, q) = c[Len(q)] /\ c[0] = s
                 /\ \A n \in 1..Len(q) : c[n] = TakeFromCache(c[n - 1], q[n])
    BY TakingHolds
  <2>3. PICK d : /\ TakeEach(s, r) = d[Len(r)] /\ d[0] = s
                 /\ \A n \in 1..Len(r) : d[n] = TakeFromCache(d[n - 1], r[n])
    BY <2>1, TakingHolds
  <2> DEFINE S == {n \in Nat : n <= Len(q) => d[n] = c[n]}
  <2>4. 0 \in S
    BY <2>2, <2>3
  <2>5. ASSUME NEW n \in Nat, n \in S PROVE n + 1 \in S
    <3> SUFFICES ASSUME n + 1 <= Len(q) PROVE d[n + 1] = c[n + 1]
      OBVIOUS
    <3>1. n + 1 \in 1..Len(q) /\ n + 1 \in 1..Len(r) /\ (n + 1) - 1 = n /\ n <= Len(q)
      BY <2>1
    <3>2. d[n] = c[n] /\ r[n + 1] = q[n + 1]
      BY <2>1, <2>5, <3>1
    <3>3. c[n + 1] = TakeFromCache(c[n], q[n + 1]) /\ d[n + 1] = TakeFromCache(d[n], r[n + 1])
      BY <2>2, <2>3, <3>1
    <3> QED
      BY <3>2, <3>3
  <2> HIDE DEF S
  <2>6. Len(q) \in S
    BY <2>1, <2>4, <2>5, SetInduction
  <2>7. d[Len(q)] = c[Len(q)]
    BY <2>1, <2>6 DEF S
  <2>8. Len(q) + 1 \in 1..Len(r) /\ (Len(q) + 1) - 1 = Len(q)
    BY <2>1
  <2>9. d[Len(q) + 1] = TakeFromCache(d[Len(q)], r[Len(q) + 1])
    BY <2>3, <2>8
  <2> QED
    BY <2>1, <2>2, <2>3, <2>7, <2>9 DEF r
<1> QED
  BY <1>1, <1>2

\* The mark and the moduli.
LEMMA MarkFacts == Mark \in Nat \ {0} /\ IndexMod = Mark + 1 /\ IndexMod <= SizeMod /\ SizeMod \in Nat
BY CodecAssumption DEF Mark

\* One reference: the transaction is found if the cache is long enough.
LEMMA TakeFacts ==
  ASSUME NEW D, NEW s \in State(D), NEW p \in Ptr
  PROVE  /\ TakeFromCache(s, p) \in State(D)
         /\ TakeFromCache(s, p).ok <=> s.ok /\ p.index < Len(s.cache)
         /\ s.ok /\ p.index < Len(s.cache) =>
              /\ p.index + 1 \in 1..Len(s.cache)
              /\ TakeFromCache(s, p).cache = RemoveAt(s.cache, p.index + 1)
              /\ TakeFromCache(s, p).txs = [s.txs EXCEPT ![p.pos] = s.cache[p.index + 1]]
<1>1. /\ s.ok \in BOOLEAN /\ s.cache \in Seq(Tx) /\ s.txs \in [D -> Tx \cup {NoTx}]
      /\ p.index \in Nat /\ Len(s.cache) \in Nat
  BY MarkFacts DEF State, Ptr
<1>2. CASE s.ok /\ p.index < Len(s.cache)
  <2> DEFINE u == [ok |-> TRUE, cache |-> RemoveAt(s.cache, p.index + 1),
                   txs |-> [s.txs EXCEPT ![p.pos] = s.cache[p.index + 1]]]
  <2>1. TakeFromCache(s, p) = u
    BY <1>2 DEF TakeFromCache
  <2>2. p.index + 1 \in 1..Len(s.cache)
    BY <1>1, <1>2
  <2>3. RemoveAt(s.cache, p.index + 1) \in Seq(Tx) /\ s.cache[p.index + 1] \in Tx
    BY <1>1, <2>2, RemoveAtFacts
  <2>4. [s.txs EXCEPT ![p.pos] = s.cache[p.index + 1]] \in [D -> Tx \cup {NoTx}]
    BY <1>1, <2>3
  <2>5. u \in State(D)
    BY <2>3, <2>4 DEF State
  <2> QED
    BY <1>2, <2>1, <2>2, <2>5
<1>3. CASE ~(s.ok /\ p.index < Len(s.cache))
  <2>1. TakeFromCache(s, p) = [s EXCEPT !.ok = FALSE]
    BY <1>3 DEF TakeFromCache
  <2>2. [s EXCEPT !.ok = FALSE] \in State(D) /\ ~[s EXCEPT !.ok = FALSE].ok
    BY DEF State
  <2> QED
    BY <1>3, <2>1, <2>2
<1> QED
  BY <1>2, <1>3

\* The reference as it is when one to a lower position has been taken before it.
Down(p) == [index |-> p.index - 1, pos |-> p.pos]

\* The same has been found, or both ways have failed.
Alike(u, v) == u = v \/ (~u.ok /\ ~v.ok)

\* A reference may be taken before an earlier one of the message if it is to a lower
\* position: the other one then moves down.
LEMMA TakeTwoFound ==
  ASSUME NEW D, NEW s \in State(D), NEW p \in Ptr, NEW r \in Ptr,
         r.index < p.index, r.pos # p.pos, TakeFromCache(TakeFromCache(s, p), r).ok
  PROVE  TakeFromCache(TakeFromCache(s, p), r) = TakeFromCache(TakeFromCache(s, r), Down(p))
<1> DEFINE sp == TakeFromCache(s, p)  sr == TakeFromCache(s, r)  q == Down(p)
           spr == TakeFromCache(sp, r)  srq == TakeFromCache(sr, q)
           a == p.index + 1  b == r.index + 1
<1>0. p.index \in Nat /\ r.index \in Nat /\ s.cache \in Seq(Tx) /\ Len(s.cache) \in Nat
      /\ s.txs \in [D -> Tx \cup {NoTx}]
  BY MarkFacts DEF Ptr, State
<1>1. q \in Ptr /\ q.index = p.index - 1 /\ q.pos = p.pos
  BY MarkFacts DEF Down, Ptr
<1>2. sp \in State(D) /\ sr \in State(D)
  BY TakeFacts
<1>3. sp.ok /\ r.index < Len(sp.cache) /\ spr \in State(D) /\ spr.ok
      /\ spr.cache = RemoveAt(sp.cache, b) /\ spr.txs = [sp.txs EXCEPT ![r.pos] = sp.cache[b]]
  BY <1>2, TakeFacts
<1>4. s.ok /\ p.index < Len(s.cache) /\ sp.cache = RemoveAt(s.cache, a)
      /\ sp.txs = [s.txs EXCEPT ![p.pos] = s.cache[a]]
  BY <1>3, TakeFacts, SMTT(30)
<1>5. a \in 1..Len(s.cache) /\ b \in 1..Len(s.cache) /\ b < a /\ r.index < Len(s.cache)
  BY <1>0, <1>4
<1>6. sr.ok /\ sr.cache = RemoveAt(s.cache, b) /\ sr.txs = [s.txs EXCEPT ![r.pos] = s.cache[b]]
  BY <1>4, <1>5, TakeFacts
<1>7. Len(sr.cache) = Len(s.cache) - 1
  BY <1>0, <1>5, <1>6, RemoveAtFacts
<1>8. q.index < Len(sr.cache) /\ q.index + 1 = a - 1
  BY <1>0, <1>1, <1>4, <1>7
<1>9. srq \in State(D) /\ srq.ok /\ srq.cache = RemoveAt(sr.cache, a - 1)
      /\ srq.txs = [sr.txs EXCEPT ![p.pos] = sr.cache[a - 1]]
  <2>0. sr \in State(D) /\ q \in Ptr /\ sr.ok /\ q.index < Len(sr.cache)
    BY <1>1, <1>2, <1>6, <1>8
  <2> HIDE DEF sr, q
  <2>1. /\ srq \in State(D) /\ srq.ok /\ srq.cache = RemoveAt(sr.cache, q.index + 1)
        /\ srq.txs = [sr.txs EXCEPT ![q.pos] = sr.cache[q.index + 1]]
    BY <2>0, TakeFacts
  <2> QED
    BY <1>1, <1>8, <2>1
<1>10. /\ RemoveAt(RemoveAt(s.cache, a), b) = RemoveAt(RemoveAt(s.cache, b), a - 1)
       /\ RemoveAt(s.cache, a)[b] = s.cache[b] /\ RemoveAt(s.cache, b)[a - 1] = s.cache[a]
  BY <1>0, <1>5, RemoveTwo
<1>11. spr.cache = srq.cache
  BY <1>3, <1>4, <1>6, <1>9, <1>10
<1>12. spr.txs = srq.txs
  <2>1. spr.txs = [[s.txs EXCEPT ![p.pos] = s.cache[a]] EXCEPT ![r.pos] = s.cache[b]]
    BY <1>3, <1>4, <1>10
  <2>2. srq.txs = [[s.txs EXCEPT ![r.pos] = s.cache[b]] EXCEPT ![p.pos] = s.cache[a]]
    BY <1>6, <1>9, <1>10
  <2> QED
    BY <1>0, <2>1, <2>2
<1>13. spr.ok = srq.ok
  BY <1>2, <1>3, <1>9 DEF State
<1>14. spr = [ok |-> spr.ok, cache |-> spr.cache, txs |-> spr.txs]
       /\ srq = [ok |-> srq.ok, cache |-> srq.cache, txs |-> srq.txs]
  BY <1>3, <1>9 DEF State
<1> QED
  BY <1>11, <1>12, <1>13, <1>14

\* And the one order fails only if the other does.
LEMMA TakeTwo ==
  ASSUME NEW D, NEW s \in State(D), NEW p \in Ptr, NEW r \in Ptr, r.index < p.index, r.pos # p.pos
  PROVE  /\ Alike(TakeFromCache(TakeFromCache(s, p), r), TakeFromCache(TakeFromCache(s, r), Down(p)))
         /\ Down(p) \in Ptr
<1> DEFINE sp == TakeFromCache(s, p)  sr == TakeFromCache(s, r)  q == Down(p)
<1>0. p.index \in Nat /\ r.index \in Nat /\ s.cache \in Seq(Tx) /\ Len(s.cache) \in Nat
  BY MarkFacts DEF Ptr, State
<1>1. q \in Ptr /\ q.index = p.index - 1
  BY MarkFacts DEF Down, Ptr
<1>2. sp \in State(D) /\ sr \in State(D)
  BY TakeFacts
<1>3. ASSUME TakeFromCache(sr, q).ok PROVE TakeFromCache(sp, r).ok
  <2>1. sr.ok /\ q.index < Len(sr.cache)
    <3> HIDE DEF sr, q
    <3> QED
      BY <1>1, <1>2, <1>3, TakeFacts
  <2>2. s.ok /\ r.index + 1 \in 1..Len(s.cache) /\ sr.cache = RemoveAt(s.cache, r.index + 1)
    <3>0. s.ok
      BY <2>1, TakeFacts
    <3>1. r.index < Len(s.cache)
      BY <2>1, TakeFacts
    <3>2. sr.cache = RemoveAt(s.cache, r.index + 1)
      BY <3>0, <3>1 DEF TakeFromCache
    <3> QED
      BY <1>0, <3>0, <3>1, <3>2
  <2>3. Len(sr.cache) = Len(s.cache) - 1
    BY <1>0, <2>2, RemoveAtFacts
  <2>4. p.index < Len(s.cache)
    BY <1>0, <1>1, <2>1, <2>3
  <2>5. sp.ok /\ p.index + 1 \in 1..Len(s.cache) /\ sp.cache = RemoveAt(s.cache, p.index + 1)
    <3>1. s.ok
      BY <2>2
    <3>2. sp.ok /\ sp.cache = RemoveAt(s.cache, p.index + 1)
      BY <2>4, <3>1 DEF TakeFromCache
    <3> QED
      BY <1>0, <2>4, <3>2
  <2>6. Len(sp.cache) = Len(s.cache) - 1
    BY <1>0, <2>5, RemoveAtFacts
  <2>7. r.index < Len(sp.cache)
    BY <1>0, <2>4, <2>6
  <2> HIDE DEF sp
  <2> QED
    BY <1>2, <2>5, <2>7, TakeFacts
<1> QED
  BY <1>1, <1>3, TakeTwoFound DEF Alike

\* The loop keeps its types.
LEMMA TakeEachType ==
  ASSUME NEW D, NEW s \in State(D), NEW q \in Seq(Ptr)
  PROVE  TakeEach(s, q) \in State(D)
<1> DEFINE P == {l \in Seq(Ptr) : TakeEach(s, l) \in State(D)}
<1>1. <<>> \in P
  BY TakeEachFacts
<1>2. ASSUME NEW l \in Seq(Ptr), NEW x \in Ptr, l \in P PROVE Append(l, x) \in P
  <2>1. TakeEach(s, Append(l, x)) = TakeFromCache(TakeEach(s, l), x)
    BY TakeEachFacts
  <2>2. TakeFromCache(TakeEach(s, l), x) \in State(D)
    BY <1>2, TakeFacts
  <2> QED
    BY <2>1, <2>2
<1> HIDE DEF P
<1>3. q \in P
  BY <1>1, <1>2, ListInduction
<1> QED
  BY <1>3 DEF P

\* One list after another.
LEMMA TakeEachConcat ==
  ASSUME NEW D, NEW s \in State(D), NEW q \in Seq(Ptr), NEW r \in Seq(Ptr)
  PROVE  TakeEach(s, q \o r) = TakeEach(TakeEach(s, q), r)
<1> DEFINE P == {l \in Seq(Ptr) : TakeEach(s, q \o l) = TakeEach(TakeEach(s, q), l)}
<1>1. <<>> \in P
  <2>1. q \o <<>> = q
    BY ConcatEmptySeq
  <2> QED
    BY <2>1, TakeEachFacts
<1>2. ASSUME NEW l \in Seq(Ptr), NEW x \in Ptr, l \in P PROVE Append(l, x) \in P
  <2>1. q \o Append(l, x) = Append(q \o l, x) /\ q \o l \in Seq(Ptr)
    BY AppendToConcat
  <2>2. TakeEach(s, Append(q \o l, x)) = TakeFromCache(TakeEach(s, q \o l), x)
    BY <2>1, TakeEachFacts
  <2>3. TakeEach(TakeEach(s, q), Append(l, x)) = TakeFromCache(TakeEach(TakeEach(s, q), l), x)
    BY TakeEachFacts
  <2>4. Append(l, x) \in Seq(Ptr)
    OBVIOUS
  <2> QED
    BY <1>2, <2>1, <2>2, <2>3, <2>4
<1> HIDE DEF P
<1>3. r \in P
  BY <1>1, <1>2, ListInduction
<1> QED
  BY <1>3 DEF P

\* The first reference, then the others.
LEMMA TakeEachFirst ==
  ASSUME NEW D, NEW s \in State(D), NEW p \in Ptr, NEW q \in Seq(Ptr)
  PROVE  /\ TakeEach(s, <<p>>) = TakeFromCache(s, p)
         /\ TakeEach(s, <<p>> \o q) = TakeEach(TakeFromCache(s, p), q)
<1>1. <<p>> = Append(<<>>, p) /\ <<p>> \in Seq(Ptr) /\ <<>> \in Seq(Ptr)
  OBVIOUS
<1>2. TakeEach(s, Append(<<>>, p)) = TakeFromCache(TakeEach(s, <<>>), p) /\ TakeEach(s, <<>>) = s
  BY <1>1, TakeEachFacts
<1>3. TakeEach(s, <<p>>) = TakeFromCache(s, p)
  BY <1>1, <1>2
<1>4. TakeEach(s, <<p>> \o q) = TakeEach(TakeEach(s, <<p>>), q)
  BY <1>1, TakeEachConcat
<1> QED
  BY <1>3, <1>4

\* Nothing is taken after a failure.
LEMMA TakeEachOk ==
  ASSUME NEW D, NEW s \in State(D), NEW q \in Seq(Ptr), TakeEach(s, q).ok
  PROVE  s.ok
<1> DEFINE P == {l \in Seq(Ptr) : TakeEach(s, l).ok => s.ok}
<1>1. <<>> \in P
  BY TakeEachFacts
<1>2. ASSUME NEW l \in Seq(Ptr), NEW x \in Ptr, l \in P PROVE Append(l, x) \in P
  <2>1. TakeEach(s, Append(l, x)) = TakeFromCache(TakeEach(s, l), x)
    BY TakeEachFacts
  <2>2. TakeFromCache(TakeEach(s, l), x).ok => TakeEach(s, l).ok
    BY TakeEachType, TakeFacts
  <2>3. Append(l, x) \in Seq(Ptr)
    OBVIOUS
  <2> QED
    BY <1>2, <2>1, <2>2, <2>3
<1> HIDE DEF P
<1>3. q \in P
  BY <1>1, <1>2, ListInduction
<1> QED
  BY <1>3 DEF P

\* Alike states stay alike, whatever is taken from both, ...
LEMMA AlikeTake ==
  ASSUME NEW D, NEW u \in State(D), NEW v \in State(D), NEW p \in Ptr, Alike(u, v)
  PROVE  Alike(TakeFromCache(u, p), TakeFromCache(v, p))
BY TakeFacts DEF Alike

\* ... one reference or many.
LEMMA AlikeTakeEach ==
  ASSUME NEW D, NEW u \in State(D), NEW v \in State(D), NEW q \in Seq(Ptr), Alike(u, v)
  PROVE  Alike(TakeEach(u, q), TakeEach(v, q))
BY TakeEachOk DEF Alike

\* And being alike is transitive.
LEMMA AlikeTrans ==
  ASSUME NEW u, NEW v, NEW w, Alike(u, v), Alike(v, w) PROVE Alike(u, w)
BY DEF Alike

\* A list of which every element moves down by one.
AllDown(q) == [i \in 1..Len(q) |-> Down(q[i])]

\* A reference is taken before all of a list that it overtakes.
LEMMA TakeOverList ==
  ASSUME NEW D, NEW s \in State(D), NEW q \in Seq(Ptr), NEW r \in Ptr,
         \A i \in 1..Len(q) : r.index < q[i].index /\ r.pos # q[i].pos
  PROVE  /\ AllDown(q) \in Seq(Ptr)
         /\ Alike(TakeFromCache(TakeEach(s, q), r), TakeEach(TakeFromCache(s, r), AllDown(q)))
<1> DEFINE Over(l) == \A i \in 1..Len(l) : r.index < l[i].index /\ r.pos # l[i].pos
           Moved(l) == /\ AllDown(l) \in Seq(Ptr)
                       /\ Alike(TakeFromCache(TakeEach(s, l), r), TakeEach(TakeFromCache(s, r), AllDown(l)))
           P == {l \in Seq(Ptr) : Over(l) => Moved(l)}
<1>1. <<>> \in P
  <2>1. AllDown(<<>>) = <<>>
    BY DEF AllDown
  <2>2. TakeEach(s, <<>>) = s /\ TakeEach(TakeFromCache(s, r), <<>>) = TakeFromCache(s, r)
    BY TakeEachFacts
  <2>3. <<>> \in Seq(Ptr)
    OBVIOUS
  <2> QED
    BY <2>1, <2>2, <2>3 DEF Alike
<1>2. ASSUME NEW l \in Seq(Ptr), NEW p \in Ptr, l \in P PROVE Append(l, p) \in P
  <2> SUFFICES ASSUME Over(Append(l, p)) PROVE Moved(Append(l, p))
    <3>1. Append(l, p) \in Seq(Ptr)
      OBVIOUS
    <3> QED
      BY <3>1
  <2> DEFINE m == Append(l, p)  e == TakeEach(s, l)
  <2>1. /\ m \in Seq(Ptr) /\ Len(m) = Len(l) + 1 /\ m[Len(l) + 1] = p /\ Len(l) \in Nat
        /\ \A i \in 1..Len(l) : m[i] = l[i]
    OBVIOUS
  <2>2. TakeEach(s, m) = TakeFromCache(e, p)
    BY TakeEachFacts
  <2>3. r.index < p.index /\ r.pos # p.pos
    BY <2>1
  <2>4. e \in State(D)
    BY TakeEachType
  <2>5. /\ Alike(TakeFromCache(TakeFromCache(e, p), r), TakeFromCache(TakeFromCache(e, r), Down(p)))
        /\ Down(p) \in Ptr
    BY <2>3, <2>4, TakeTwo
  <2>6. TakeFromCache(e, r) \in State(D) /\ TakeFromCache(s, r) \in State(D)
    BY <2>4, TakeFacts
  <2>8. \A i \in 1..Len(l) : r.index < l[i].index /\ r.pos # l[i].pos
    BY <2>1
  <2>9. Moved(l)
    BY <1>2, <2>8
  <2>10. AllDown(m) = Append(AllDown(l), Down(p)) /\ AllDown(m) \in Seq(Ptr)
    <3>1. AllDown(l) \in Seq(Ptr) /\ Len(AllDown(l)) = Len(l)
          /\ \A i \in 1..Len(l) : AllDown(l)[i] = Down(l[i])
      BY <2>1, <2>9 DEF AllDown
    <3> DEFINE f == Append(AllDown(l), Down(p))
    <3>2. f \in Seq(Ptr) /\ Len(f) = Len(l) + 1 /\ f[Len(l) + 1] = Down(p)
          /\ \A i \in 1..Len(l) : f[i] = Down(l[i])
      BY <2>5, <3>1
    <3> HIDE DEF f, m
    <3>3. f \in [1..(Len(l) + 1) -> Ptr] /\ \A i \in 1..(Len(l) + 1) : f[i] = Down(m[i])
      BY <2>1, <3>2
    <3>4. AllDown(m) = [i \in 1..(Len(l) + 1) |-> Down(m[i])]
      BY <2>1 DEF AllDown
    <3>5. AllDown(m) = f
      BY <3>3, <3>4
    <3> QED
      BY <3>2, <3>5 DEF f
  <2>11. TakeEach(TakeFromCache(s, r), Append(AllDown(l), Down(p)))
           = TakeFromCache(TakeEach(TakeFromCache(s, r), AllDown(l)), Down(p))
    <3>1. AllDown(l) \in Seq(Ptr) /\ Down(p) \in Ptr
      BY <2>5, <2>9
    <3> QED
      BY <3>1, TakeEachFacts
  <2> HIDE DEF m, e
  <2>12. Alike(TakeFromCache(TakeEach(s, m), r), TakeEach(TakeFromCache(s, r), AllDown(m)))
    <3> DEFINE x == TakeFromCache(e, r)  y == TakeEach(TakeFromCache(s, r), AllDown(l))
    <3>1. x \in State(D) /\ y \in State(D) /\ Alike(x, y)
      BY <2>6, <2>9, TakeEachType DEF e
    <3>2. TakeEach(TakeFromCache(s, r), AllDown(m)) = TakeFromCache(y, Down(p))
      BY <2>10, <2>11
    <3>3. Alike(TakeFromCache(TakeEach(s, m), r), TakeFromCache(x, Down(p)))
      BY <2>2, <2>5
    <3> HIDE DEF x, y
    <3>4. Alike(TakeFromCache(x, Down(p)), TakeFromCache(y, Down(p)))
      BY <2>5, <3>1, AlikeTake
    <3> QED
      BY <3>2, <3>3, <3>4, AlikeTrans
  <2> QED
    BY <2>10, <2>12 DEF m
<1> HIDE DEF P
<1>3. q \in P
  BY <1>1, <1>2, ListInduction
<1> QED
  BY <1>3 DEF P

----------------------------------------------------------------------------
(***************************************************************************)
(* The merge.                                                              *)
(***************************************************************************)
LEMMA ModSmall == ASSUME NEW x \in Nat, NEW m \in Nat, x < m PROVE x % m = x
OBVIOUS

\* Types of references.
LEMMA PtrFacts ==
  /\ \A p \in Ptr : p.index \in Nat /\ p.pos \in Nat
  /\ \A q \in Seq(Ptr) : Len(q) \in Nat /\ \A i \in 1..Len(q) : q[i] \in Ptr /\ q[i].index \in Nat
<1>1. \A p \in Ptr : p.index \in Nat /\ p.pos \in Nat
  BY MarkFacts DEF Ptr
<1>2. \A q \in Seq(Ptr) : Len(q) \in Nat /\ \A i \in 1..Len(q) : q[i] \in Ptr
  OBVIOUS
<1> QED
  BY <1>1, <1>2

\* The order the sort is to bring about, and the places of the message that are referred
\* to.
Sorted(q) == \A a, b \in 1..Len(q) : a < b => q[a].index <= q[b].index

Poses(q) == {q[i].pos : i \in 1..Len(q)}

\* What is left of the left half when d references of the right half have overtaken it,
\* and of the right half.
Lower(q, j, d) ==
  [i \in 1..(Len(q) - j + 1) |-> [index |-> q[i + j - 1].index - d, pos |-> q[i + j - 1].pos]]

From(q, k) == SubSeq(q, k, Len(q))

\* After n turns of the loop what is out is in order and not above what is left.
InOrder(left, right, n, m) ==
  /\ m.j \in 1..(Len(left) + 1) /\ m.k \in 1..(Len(right) + 1) /\ m.j + m.k = n + 2
  /\ m.out \in Seq(Ptr) /\ Len(m.out) = n /\ Sorted(m.out)
  /\ Poses(m.out) \subseteq Poses(left) \cup Poses(right)
  /\ \A i \in m.j..Len(left) :
       /\ m.k - 1 <= left[i].index
       /\ \A a \in 1..n : m.out[a].index <= left[i].index - (m.k - 1)
  /\ \A i \in m.k..Len(right) : \A a \in 1..n : m.out[a].index <= right[i].index

\* Which half the loop takes from, in numbers that do not wrap around.
TakesLeft(left, right, m) ==
  /\ m.j <= Len(left)
  /\ m.k > Len(right) \/ left[m.j].index - (m.k - 1) <= right[m.k].index

\* No position falls below zero or wraps around.
LEMMA LowerPtr ==
  ASSUME NEW p \in Ptr, NEW d \in Nat, d <= p.index
  PROVE  /\ (p.index - d) % IndexMod = p.index - d /\ (p.index - d) % SizeMod = p.index - d
         /\ [index |-> p.index - d, pos |-> p.pos] \in Ptr
<1> DEFINE x == p.index - d
<1>1. p.index \in 0..(Mark - 1) /\ p.pos \in Nat
  BY DEF Ptr
<1>2. x \in 0..(Mark - 1)
  BY <1>1, MarkFacts
<1>3. x \in Nat /\ x < IndexMod /\ x < SizeMod /\ IndexMod \in Nat /\ SizeMod \in Nat
  BY <1>2, MarkFacts
<1>4. [index |-> x, pos |-> p.pos] \in Ptr
  BY <1>1, <1>2 DEF Ptr
<1> HIDE DEF x
<1>5. x % IndexMod = x /\ x % SizeMod = x
  BY <1>3, ModSmall
<1> QED
  BY <1>4, <1>5 DEF x

\* A turn that takes from the left half ...
LEMMA MergeStepLeft ==
  ASSUME NEW left \in Seq(Ptr), NEW right \in Seq(Ptr), NEW n \in Nat, n < Len(left) + Len(right),
         NEW m, InOrder(left, right, n, m), TakesLeft(left, right, m)
  PROVE  LET u == MergeStep(left, right, m)
             p == [index |-> left[m.j].index - (m.k - 1), pos |-> left[m.j].pos] IN
         m.j \in 1..Len(left) /\ u.j = m.j + 1 /\ u.k = m.k /\ u.out = Append(m.out, p) /\ p \in Ptr
<1> DEFINE d == m.k - 1  p == left[m.j]
<1>0. Len(left) \in Nat /\ m.j \in 1..(Len(left) + 1) /\ m.k \in 1..(Len(right) + 1) /\ d \in Nat
  BY DEF InOrder
<1>1. m.j <= Len(left)
  BY DEF TakesLeft
<1>2. m.j \in 1..Len(left) /\ m.j \in m.j..Len(left)
  BY <1>0, <1>1
<1>3. p \in Ptr /\ d <= p.index
  BY <1>2 DEF InOrder
<1>4. (p.index - d) % IndexMod = p.index - d /\ (p.index - d) % SizeMod = p.index - d
      /\ [index |-> p.index - d, pos |-> p.pos] \in Ptr
  BY <1>0, <1>3, LowerPtr
<1>5. MergeStep(left, right, m)
        = [j |-> m.j + 1, k |-> m.k, out |-> Append(m.out, [index |-> p.index - d, pos |-> p.pos])]
  BY <1>1, <1>4 DEF MergeStep, TakesLeft
<1> QED
  BY <1>2, <1>4, <1>5

\* ... and one that takes from the right half.
LEMMA MergeStepRight ==
  ASSUME NEW left \in Seq(Ptr), NEW right \in Seq(Ptr), NEW n \in Nat, n < Len(left) + Len(right),
         NEW m, InOrder(left, right, n, m), ~TakesLeft(left, right, m)
  PROVE  LET u == MergeStep(left, right, m) IN
         /\ m.k \in 1..Len(right) /\ u.j = m.j /\ u.k = m.k + 1
         /\ u.out = Append(m.out, right[m.k]) /\ right[m.k] \in Ptr
<1> DEFINE d == m.k - 1  p == left[m.j]
<1>0. /\ Len(left) \in Nat /\ m.j \in 1..(Len(left) + 1) /\ m.k \in 1..(Len(right) + 1) /\ d \in Nat
      /\ Len(right) \in Nat /\ m.j + m.k = n + 2
  BY DEF InOrder
<1>1. m.k \in 1..Len(right)
  BY <1>0 DEF TakesLeft
<1>2. MergeStep(left, right, m) = [j |-> m.j, k |-> m.k + 1, out |-> Append(m.out, right[m.k])]
  <2>1. CASE m.j <= Len(left)
    <3>1. m.j \in 1..Len(left) /\ m.j \in m.j..Len(left)
      BY <1>0, <2>1
    <3>2. p \in Ptr /\ d <= p.index
      BY <3>1 DEF InOrder
    <3>3. (p.index - d) % SizeMod = p.index - d
      BY <1>0, <3>2, LowerPtr
    <3> QED
      BY <2>1, <3>3 DEF MergeStep, TakesLeft
  <2>2. CASE ~(m.j <= Len(left))
    BY <2>2 DEF MergeStep
  <2> QED
    BY <2>1, <2>2
<1> QED
  BY <1>1, <1>2

\* One more reference is out.
LEMMA OneMoreOut ==
  ASSUME NEW Q, NEW out \in Seq(Ptr), Sorted(out), NEW p \in Ptr,
         Poses(out) \subseteq Q,
         p.pos \in Q,
         \A a \in 1..Len(out) : out[a].index <= p.index
  PROVE  /\ Append(out, p) \in Seq(Ptr) /\ Len(Append(out, p)) = Len(out) + 1
         /\ Sorted(Append(out, p)) /\ Poses(Append(out, p)) \subseteq Q
         /\ \A a \in 1..(Len(out) + 1) : Append(out, p)[a].index <= p.index
<1> DEFINE q == Append(out, p)  n == Len(out)
<1>1. q \in Seq(Ptr) /\ Len(q) = n + 1 /\ n \in Nat /\ q[n + 1] = p /\ \A a \in 1..n : q[a] = out[a]
  OBVIOUS
<1> HIDE DEF q
<1>2. \A a \in 1..(n + 1) : a \in 1..n \/ a = n + 1
  BY <1>1
<1>3. \A a \in 1..(n + 1) : q[a].index <= p.index
  <2>1. p.index <= p.index
    BY MarkFacts DEF Ptr
  <2> QED
    BY <1>1, <1>2, <2>1
<1>4. Sorted(q)
  <2> SUFFICES ASSUME NEW a \in 1..(n + 1), NEW b \in 1..(n + 1), a < b PROVE q[a].index <= q[b].index
    BY <1>1 DEF Sorted
  <2>1. CASE b = n + 1
    BY <1>1, <1>3, <2>1
  <2>2. CASE b # n + 1
    <3>1. a \in 1..n /\ b \in 1..n
      BY <1>1, <2>2
    <3> QED
      BY <1>1, <3>1 DEF Sorted
  <2> QED
    BY <2>1, <2>2
<1>5. Poses(q) \subseteq Q
  BY <1>1, <1>2 DEF Poses
<1> QED
  BY <1>1, <1>3, <1>4, <1>5 DEF q

\* A turn keeps the order.
LEMMA MergeStepOrder ==
  ASSUME NEW left \in Seq(Ptr), NEW right \in Seq(Ptr), Sorted(left), Sorted(right),
         NEW n \in Nat, n < Len(left) + Len(right), NEW m, InOrder(left, right, n, m)
  PROVE  InOrder(left, right, n + 1, MergeStep(left, right, m))
<1> DEFINE u == MergeStep(left, right, m)  d == m.k - 1
<1>0. /\ Len(left) \in Nat /\ Len(right) \in Nat /\ m.j \in Nat /\ m.k \in Nat /\ d \in Nat
      /\ m.j \in 1..(Len(left) + 1) /\ m.k \in 1..(Len(right) + 1) /\ m.j + m.k = n + 2
  BY DEF InOrder
<1>d. /\ m.out \in Seq(Ptr) /\ Len(m.out) = n /\ Sorted(m.out)
      /\ Poses(m.out) \subseteq Poses(left) \cup Poses(right)
  BY DEF InOrder
<1>a. \A i \in m.j..Len(left) :
        d <= left[i].index /\ \A a \in 1..n : m.out[a].index <= left[i].index - d
  BY DEF InOrder
<1>b. \A i \in m.k..Len(right) : \A a \in 1..n : m.out[a].index <= right[i].index
  BY DEF InOrder
<1>c. /\ \A i \in 1..Len(left) : left[i].index \in Nat /\ left[i] \in Ptr
      /\ \A i \in 1..Len(right) : right[i].index \in Nat /\ right[i] \in Ptr
      /\ \A a \in 1..n : m.out[a].index \in Nat
  BY <1>d, PtrFacts
<1>1. CASE TakesLeft(left, right, m)
  <2> DEFINE p == [index |-> left[m.j].index - d, pos |-> left[m.j].pos]
  <2>1. m.j \in 1..Len(left) /\ u.j = m.j + 1 /\ u.k = m.k /\ u.out = Append(m.out, p) /\ p \in Ptr
    BY <1>1, MergeStepLeft
  <2> HIDE DEF u
  <2>2. p.pos \in Poses(left) /\ \A a \in 1..n : m.out[a].index <= p.index
    <3>1. m.j \in m.j..Len(left) /\ p.pos = left[m.j].pos /\ p.index = left[m.j].index - d
      BY <1>0, <2>1
    <3> QED
      BY <1>a, <2>1, <3>1 DEF Poses
  <2>3. /\ u.out \in Seq(Ptr) /\ Len(u.out) = n + 1 /\ Sorted(u.out)
        /\ Poses(u.out) \subseteq Poses(left) \cup Poses(right)
        /\ \A a \in 1..(n + 1) : u.out[a].index <= p.index
    <3> DEFINE o == m.out  Q == Poses(left) \cup Poses(right)
    <3> HIDE DEF p
    <3>1. /\ o \in Seq(Ptr) /\ Sorted(o) /\ p \in Ptr /\ Poses(o) \subseteq Q /\ p.pos \in Q
          /\ Len(o) = n /\ u.out = Append(o, p) /\ \A a \in 1..Len(o) : o[a].index <= p.index
      BY <1>d, <2>1, <2>2
    <3> HIDE DEF o, Q
    <3>2. /\ Append(o, p) \in Seq(Ptr) /\ Len(Append(o, p)) = Len(o) + 1
          /\ Sorted(Append(o, p)) /\ Poses(Append(o, p)) \subseteq Q
          /\ \A a \in 1..(Len(o) + 1) : Append(o, p)[a].index <= p.index
      BY <3>1, OneMoreOut
    <3> QED
      BY <3>1, <3>2 DEF Q
  <2>4. ASSUME NEW i \in u.j..Len(left)
        PROVE  u.k - 1 <= left[i].index
               /\ \A a \in 1..(n + 1) : u.out[a].index <= left[i].index - (u.k - 1)
    <3>1. i \in m.j..Len(left) /\ i \in 1..Len(left) /\ m.j < i /\ m.j \in 1..Len(left)
      BY <1>0, <2>1, SMTT(30)
    <3>2. left[m.j].index <= left[i].index
      BY <3>1 DEF Sorted
    <3>3. \A a \in 1..(n + 1) : u.out[a].index \in Nat
      BY <2>3, PtrFacts
    <3>4. left[m.j].index \in Nat /\ left[i].index \in Nat
      BY <1>c, <3>1
    <3>5. p.index = left[m.j].index - d /\ p.index \in Nat
      BY <2>1, PtrFacts
    <3> HIDE DEF p, d
    <3>6. ASSUME NEW a \in 1..(n + 1) PROVE u.out[a].index <= left[i].index - d
      <4>1. u.out[a].index <= p.index /\ u.out[a].index \in Nat /\ d \in Nat
        BY <1>0, <2>3, <3>3
      <4>2. p.index <= left[i].index - d
        BY <3>2, <3>4, <3>5, <4>1, SMTT(30)
      <4>3. left[i].index - d \in Int
        BY <3>4, <4>1
      <4> QED
        BY <3>5, <4>1, <4>2, <4>3
    <3> QED
      BY <1>a, <2>1, <3>1, <3>6 DEF d
  <2>5. ASSUME NEW i \in u.k..Len(right), NEW a \in 1..(n + 1) PROVE u.out[a].index <= right[i].index
    <3>1. i \in m.k..Len(right) /\ i \in 1..Len(right) /\ m.k \in 1..Len(right)
      BY <1>0, <2>1
    <3>2. p.index <= right[m.k].index
      BY <1>0, <1>1, <3>1 DEF TakesLeft
    <3>3. right[m.k].index <= right[i].index
      BY <1>0, <1>c, <3>1, SMTT(30) DEF Sorted
    <3>4. p.index \in Nat
      BY <2>1, PtrFacts
    <3>5. u.out[a].index \in Nat /\ u.out[a].index <= p.index
      BY <2>3, PtrFacts
    <3>6. right[m.k].index \in Nat /\ right[i].index \in Nat
      BY <1>c, <3>1
    <3> HIDE DEF p
    <3> QED
      BY <3>2, <3>3, <3>4, <3>5, <3>6, SMTT(30)
  <2>6. u.j \in 1..(Len(left) + 1) /\ u.k \in 1..(Len(right) + 1) /\ u.j + u.k = (n + 1) + 2
    <3> HIDE DEF p, d
    <3>1. u.j = m.j + 1 /\ u.k = m.k /\ m.j \in 1..Len(left)
      BY <2>1
    <3>2. m.j + 1 \in 1..(Len(left) + 1) /\ (m.j + 1) + m.k = (n + 1) + 2
      BY <1>0, <3>1, SMTT(30)
    <3> QED
      BY <1>0, <3>1, <3>2
  <2> QED
    BY <2>3, <2>4, <2>5, <2>6 DEF InOrder, u
<1>2. CASE ~TakesLeft(left, right, m)
  <2> DEFINE p == right[m.k]
  <2>1. m.k \in 1..Len(right) /\ u.j = m.j /\ u.k = m.k + 1 /\ u.out = Append(m.out, p) /\ p \in Ptr
    BY <1>2, MergeStepRight
  <2> HIDE DEF u
  <2>2. p.pos \in Poses(right) /\ \A a \in 1..n : m.out[a].index <= p.index
    <3>1. m.k \in m.k..Len(right)
      BY <1>0, <2>1
    <3> QED
      BY <1>b, <2>1, <3>1 DEF Poses
  <2>3. /\ u.out \in Seq(Ptr) /\ Len(u.out) = n + 1 /\ Sorted(u.out)
        /\ Poses(u.out) \subseteq Poses(left) \cup Poses(right)
        /\ \A a \in 1..(n + 1) : u.out[a].index <= p.index
    <3> DEFINE o == m.out  Q == Poses(left) \cup Poses(right)
    <3> HIDE DEF p
    <3>1. /\ o \in Seq(Ptr) /\ Sorted(o) /\ p \in Ptr /\ Poses(o) \subseteq Q /\ p.pos \in Q
          /\ Len(o) = n /\ u.out = Append(o, p) /\ \A a \in 1..Len(o) : o[a].index <= p.index
      BY <1>d, <2>1, <2>2
    <3> HIDE DEF o, Q
    <3>2. /\ Append(o, p) \in Seq(Ptr) /\ Len(Append(o, p)) = Len(o) + 1
          /\ Sorted(Append(o, p)) /\ Poses(Append(o, p)) \subseteq Q
          /\ \A a \in 1..(Len(o) + 1) : Append(o, p)[a].index <= p.index
      BY <3>1, OneMoreOut
    <3> QED
      BY <3>1, <3>2 DEF Q
  <2>0. \A a \in 1..(n + 1) : u.out[a].index \in Nat
    BY <2>3, PtrFacts
  <2>4. ASSUME NEW i \in u.j..Len(left)
        PROVE  u.k - 1 <= left[i].index
               /\ \A a \in 1..(n + 1) : u.out[a].index <= left[i].index - (u.k - 1)
    <3>1. i \in m.j..Len(left) /\ i \in 1..Len(left) /\ m.j <= i /\ m.j \in 1..Len(left)
      BY <1>0, <2>1, SMTT(30)
    <3>2. left[m.j].index <= left[i].index
      <4>1. CASE m.j = i
        BY <1>c, <3>1, <4>1
      <4>2. CASE m.j # i
        <5>1. m.j < i
          BY <1>0, <3>1, <4>2
        <5> QED
          BY <3>1, <5>1 DEF Sorted
      <4> QED
        BY <4>1, <4>2
    <3>3. ~(left[m.j].index - d <= p.index)
      BY <1>0, <1>2, <3>1 DEF TakesLeft
    <3>4. p.index \in Nat
      BY <2>1, PtrFacts
    <3> HIDE DEF p
    <3>8. left[m.j].index \in Nat /\ left[i].index \in Nat /\ m.k \in Nat
      BY <1>0, <1>c, <3>1
    <3>5. p.index <= left[i].index - m.k
      BY <3>2, <3>3, <3>4, <3>8, SMTT(30)
    <3>6. ASSUME NEW a \in 1..(n + 1) PROVE u.out[a].index <= left[i].index - m.k
      <4>1. u.out[a].index \in Nat /\ u.out[a].index <= p.index
        BY <2>0, <2>3
      <4> QED
        BY <3>4, <3>5, <3>8, <4>1, SMTT(30)
    <3>7. m.k <= left[i].index /\ u.k - 1 = m.k
      BY <2>1, <3>4, <3>5, <3>8, SMTT(30)
    <3> QED
      BY <3>6, <3>7
  <2>5. ASSUME NEW i \in u.k..Len(right), NEW a \in 1..(n + 1) PROVE u.out[a].index <= right[i].index
    <3>1. i \in 1..Len(right) /\ m.k < i
      BY <1>0, <2>1, SMTT(30)
    <3>2. p.index <= right[i].index
      BY <1>0, <2>1, <3>1 DEF Sorted
    <3>3. p.index \in Nat /\ right[i].index \in Nat
      BY <1>c, <2>1, <3>1, PtrFacts
    <3> HIDE DEF p
    <3>4. u.out[a].index \in Nat /\ u.out[a].index <= p.index
      BY <2>0, <2>3
    <3> QED
      BY <3>2, <3>3, <3>4
  <2>6. u.j \in 1..(Len(left) + 1) /\ u.k \in 1..(Len(right) + 1) /\ u.j + u.k = (n + 1) + 2
    <3> HIDE DEF p, d
    <3> QED
      BY <1>0, <2>1, SMTT(30)
  <2> QED
    BY <2>3, <2>4, <2>5, <2>6 DEF InOrder, u
<1> QED
  BY <1>1, <1>2

\* No two references are to the same place of the message.
DistinctPoses(q) == \A i, j \in 1..Len(q) : q[i].pos = q[j].pos => i = j

\* Nor are two of those that are out, or one of them and one that is left.
Apart(left, right, m) ==
  /\ DistinctPoses(m.out)
  /\ \A a \in 1..Len(m.out) : /\ \A i \in m.j..Len(left) : m.out[a].pos # left[i].pos
                             /\ \A i \in m.k..Len(right) : m.out[a].pos # right[i].pos

\* A turn keeps that.
LEMMA MergeStepApart ==
  ASSUME NEW left \in Seq(Ptr), NEW right \in Seq(Ptr), DistinctPoses(left), DistinctPoses(right),
         Poses(left) \cap Poses(right) = {},
         NEW n \in Nat, n < Len(left) + Len(right), NEW m,
         InOrder(left, right, n, m), Apart(left, right, m)
  PROVE  Apart(left, right, MergeStep(left, right, m))
<1> DEFINE u == MergeStep(left, right, m)
<1>0. /\ Len(left) \in Nat /\ Len(right) \in Nat /\ n \in Nat
      /\ m.j \in 1..(Len(left) + 1) /\ m.k \in 1..(Len(right) + 1)
      /\ m.out \in Seq(Ptr) /\ Len(m.out) = n
  BY DEF InOrder
<1>1. \A i \in 1..Len(left) : \A k \in 1..Len(right) : left[i].pos # right[k].pos
  BY DEF Poses
<1>2. ASSUME NEW p \in Ptr, u.out = Append(m.out, p), u.j \in m.j..(Len(left) + 1), u.k \in m.k..(Len(right) + 1),
             \A a \in 1..n : m.out[a].pos # p.pos,
             \A i \in u.j..Len(left) : p.pos # left[i].pos,
             \A i \in u.k..Len(right) : p.pos # right[i].pos
      PROVE  Apart(left, right, u)
  <2> HIDE DEF u
  <2>1. Len(u.out) = n + 1 /\ u.out[n + 1] = p /\ \A a \in 1..n : u.out[a] = m.out[a]
    BY <1>0, <1>2, SMTT(30)
  <2>2. \A a \in 1..(n + 1) : a \in 1..n \/ a = n + 1
    BY <1>0
  <2>3. DistinctPoses(u.out)
    <3> SUFFICES ASSUME NEW a \in 1..(n + 1), NEW b \in 1..(n + 1), u.out[a].pos = u.out[b].pos PROVE a = b
      BY <2>1 DEF DistinctPoses
    <3>1. CASE a \in 1..n /\ b \in 1..n
      BY <1>0, <2>1, <3>1 DEF Apart, DistinctPoses
    <3>2. CASE a = n + 1 /\ b = n + 1
      BY <3>2
    <3>3. CASE a \in 1..n /\ b = n + 1
      BY <1>2, <2>1, <3>3
    <3>4. CASE a = n + 1 /\ b \in 1..n
      BY <1>2, <2>1, <3>4
    <3> QED
      BY <2>2, <3>1, <3>2, <3>3, <3>4
  <2>4. ASSUME NEW a \in 1..(n + 1), NEW i \in u.j..Len(left) PROVE u.out[a].pos # left[i].pos
    <3>1. i \in m.j..Len(left)
      BY <1>0, <1>2
    <3>2. CASE a \in 1..n
      BY <1>0, <2>1, <3>1, <3>2 DEF Apart
    <3>3. CASE a = n + 1
      BY <1>2, <2>1, <3>3
    <3> QED
      BY <2>2, <3>2, <3>3
  <2>5. ASSUME NEW a \in 1..(n + 1), NEW i \in u.k..Len(right) PROVE u.out[a].pos # right[i].pos
    <3>1. i \in m.k..Len(right)
      BY <1>0, <1>2
    <3>2. CASE a \in 1..n
      BY <1>0, <2>1, <3>1, <3>2 DEF Apart
    <3>3. CASE a = n + 1
      BY <1>2, <2>1, <3>3
    <3> QED
      BY <2>2, <3>2, <3>3
  <2> QED
    BY <2>1, <2>3, <2>4, <2>5 DEF Apart
<1>3. CASE TakesLeft(left, right, m)
  <2> DEFINE p == [index |-> left[m.j].index - (m.k - 1), pos |-> left[m.j].pos]
  <2>1. m.j \in 1..Len(left) /\ u.j = m.j + 1 /\ u.k = m.k /\ u.out = Append(m.out, p) /\ p \in Ptr
    BY <1>3, MergeStepLeft
  <2>2. p.pos = left[m.j].pos
    OBVIOUS
  <2> HIDE DEF p, u
  <2>3. u.j \in m.j..(Len(left) + 1) /\ u.k \in m.k..(Len(right) + 1) /\ m.j \in m.j..Len(left)
    BY <1>0, <2>1
  <2>4. \A a \in 1..n : m.out[a].pos # p.pos
    BY <1>0, <2>2, <2>3 DEF Apart
  <2>5. ASSUME NEW i \in u.j..Len(left) PROVE p.pos # left[i].pos
    <3>1. i \in 1..Len(left) /\ i # m.j
      BY <1>0, <2>1
    <3> QED
      BY <2>1, <2>2, <3>1 DEF DistinctPoses
  <2>6. ASSUME NEW i \in u.k..Len(right) PROVE p.pos # right[i].pos
    <3>1. i \in 1..Len(right)
      BY <1>0, <2>1
    <3> QED
      BY <1>1, <2>1, <2>2, <3>1
  <2> QED
    BY <1>2, <2>1, <2>3, <2>4, <2>5, <2>6 DEF u
<1>4. CASE ~TakesLeft(left, right, m)
  <2> DEFINE p == right[m.k]
  <2>1. m.k \in 1..Len(right) /\ u.j = m.j /\ u.k = m.k + 1 /\ u.out = Append(m.out, p) /\ p \in Ptr
    BY <1>4, MergeStepRight
  <2> HIDE DEF u
  <2>3. u.j \in m.j..(Len(left) + 1) /\ u.k \in m.k..(Len(right) + 1) /\ m.k \in m.k..Len(right)
    BY <1>0, <2>1
  <2>4. \A a \in 1..n : m.out[a].pos # p.pos
    BY <1>0, <2>3 DEF Apart
  <2>5. ASSUME NEW i \in u.j..Len(left) PROVE p.pos # left[i].pos
    <3>1. i \in 1..Len(left)
      BY <1>0, <2>1
    <3> QED
      BY <1>1, <2>1, <3>1
  <2>6. ASSUME NEW i \in u.k..Len(right) PROVE p.pos # right[i].pos
    <3>1. i \in 1..Len(right) /\ i # m.k
      BY <1>0, <2>1
    <3> QED
      BY <2>1, <3>1 DEF DistinctPoses
  <2> HIDE DEF p
  <2> QED
    BY <1>2, <2>1, <2>3, <2>4, <2>5, <2>6 DEF u
<1> QED
  BY <1>3, <1>4

\* What is left of the left half is a list of references, ...
LEMMA LowerFacts ==
  ASSUME NEW q \in Seq(Ptr), NEW j \in 1..(Len(q) + 1), NEW d \in Nat,
         \A i \in j..Len(q) : d <= q[i].index
  PROVE  /\ Lower(q, j, d) \in Seq(Ptr) /\ Len(Lower(q, j, d)) = Len(q) - j + 1
         /\ \A i \in 1..(Len(q) - j + 1) :
              /\ i + j - 1 \in j..Len(q) /\ i + j - 1 \in 1..Len(q)
              /\ Lower(q, j, d)[i] = [index |-> q[i + j - 1].index - d, pos |-> q[i + j - 1].pos]
<1> DEFINE n == Len(q) - j + 1  l == Lower(q, j, d)
<1>1. Len(q) \in Nat /\ n \in Nat /\ j \in Nat
  OBVIOUS
<1>2. \A i \in 1..n : i + j - 1 \in j..Len(q) /\ i + j - 1 \in 1..Len(q)
  BY <1>1
<1>3. ASSUME NEW i \in 1..n
      PROVE  [index |-> q[i + j - 1].index - d, pos |-> q[i + j - 1].pos] \in Ptr
  <2>1. q[i + j - 1] \in Ptr /\ d <= q[i + j - 1].index
    BY <1>2
  <2> QED
    BY <2>1, LowerPtr
<1>4. l = [i \in 1..n |-> [index |-> q[i + j - 1].index - d, pos |-> q[i + j - 1].pos]]
  BY DEF Lower
<1>5. l \in [1..n -> Ptr]
  BY <1>3, <1>4
<1>6. l \in Seq(Ptr) /\ Len(l) = n
  BY <1>1, <1>5, SeqDef, LenProperties
<1> QED
  BY <1>2, <1>4, <1>6

\* ... from which one is taken, or which is overtaken once more.
LEMMA LowerSteps ==
  ASSUME NEW q \in Seq(Ptr), NEW j \in 1..(Len(q) + 1), NEW d \in Nat,
         \A i \in j..Len(q) : d <= q[i].index
  PROVE  /\ j <= Len(q) =>
              Lower(q, j, d) = <<[index |-> q[j].index - d, pos |-> q[j].pos]>> \o Lower(q, j + 1, d)
         /\ j = Len(q) + 1 => Lower(q, j, d) = <<>>
         /\ AllDown(Lower(q, j, d)) = Lower(q, j, d + 1)
<1> DEFINE n == Len(q) - j + 1  l == Lower(q, j, d)
<1>1. Len(q) \in Nat /\ n \in Nat /\ j \in Nat
  OBVIOUS
<1>2. /\ l \in Seq(Ptr) /\ Len(l) = n
      /\ \A i \in 1..n : i + j - 1 \in 1..Len(q)
           /\ l[i] = [index |-> q[i + j - 1].index - d, pos |-> q[i + j - 1].pos]
  BY LowerFacts
<1>3. ASSUME j <= Len(q)
      PROVE  l = <<[index |-> q[j].index - d, pos |-> q[j].pos]>> \o Lower(q, j + 1, d)
  <2> DEFINE p == [index |-> q[j].index - d, pos |-> q[j].pos]  t == Lower(q, j + 1, d)  f == <<p>> \o t
  <2>1. l[1] = p /\ 1 \in 1..n
    <3>1. 1 \in 1..n /\ 1 + j - 1 = j
      BY <1>1, <1>3
    <3> QED
      BY <1>2, <3>1
  <2>2. p \in Ptr
    BY <1>2, <2>1
  <2>3. j + 1 \in 1..(Len(q) + 1) /\ \A i \in (j + 1)..Len(q) : d <= q[i].index
    BY <1>1, <1>3
  <2>4. /\ t \in Seq(Ptr) /\ Len(t) = Len(q) - (j + 1) + 1
        /\ \A i \in 1..(Len(q) - (j + 1) + 1) :
             t[i] = [index |-> q[i + (j + 1) - 1].index - d, pos |-> q[i + (j + 1) - 1].pos]
    BY <2>3, LowerFacts
  <2>5. Len(q) - (j + 1) + 1 = n - 1
    BY <1>1
  <2> HIDE DEF p, t
  <2>6. <<p>> \in Seq(Ptr) /\ Len(<<p>>) = 1 /\ <<p>>[1] = p
    BY <2>2
  <2>7. /\ f \in Seq(Ptr) /\ Len(f) = 1 + Len(t)
        /\ \A i \in 1..(1 + Len(t)) : f[i] = IF i <= 1 THEN <<p>>[i] ELSE t[i - 1]
    BY <2>4, <2>6, ConcatProperties
  <2>8. Len(f) = n
    BY <1>1, <2>4, <2>5, <2>7
  <2>9. ASSUME NEW i \in 1..n PROVE l[i] = f[i]
    <3>1. CASE i = 1
      BY <2>1, <2>6, <2>7, <2>8, <3>1
    <3>2. CASE i # 1
      <4>1. i - 1 \in 1..(n - 1) /\ (i - 1) + (j + 1) - 1 = i + j - 1 /\ ~(i <= 1)
        BY <1>1, <3>2
      <4>2. f[i] = t[i - 1]
        BY <2>7, <2>8, <4>1
      <4>3. t[i - 1] = [index |-> q[i + j - 1].index - d, pos |-> q[i + j - 1].pos]
        BY <2>4, <2>5, <4>1
      <4> QED
        BY <1>2, <4>2, <4>3
    <3> QED
      BY <3>1, <3>2
  <2> HIDE DEF f, l
  <2>10. l = f
    BY <1>2, <2>7, <2>8, <2>9, SeqEqual
  <2> QED
    BY <2>10 DEF f, p, t
<1>4. j = Len(q) + 1 => l = <<>>
  BY <1>1, <1>2, EmptySeq
<1>5. AllDown(l) = Lower(q, j, d + 1)
  <2>1. AllDown(l) = [i \in 1..n |-> [index |-> l[i].index - 1, pos |-> l[i].pos]]
    BY <1>2 DEF AllDown, Down
  <2>2. Lower(q, j, d + 1) = [i \in 1..n |-> [index |-> q[i + j - 1].index - (d + 1), pos |-> q[i + j - 1].pos]]
    BY DEF Lower
  <2>3. ASSUME NEW i \in 1..n
        PROVE  /\ l[i].index - 1 = q[i + j - 1].index - (d + 1)
               /\ l[i].pos = q[i + j - 1].pos
    <3> DEFINE x == q[i + j - 1].index
    <3>0. l[i] = [index |-> x - d, pos |-> q[i + j - 1].pos]
      BY <1>2
    <3>1. x \in Nat
      BY <1>2, PtrFacts
    <3> HIDE DEF x, l
    <3>2. l[i].index = x - d /\ l[i].pos = q[i + j - 1].pos
      BY <3>0
    <3>3. l[i].index - 1 = x - (d + 1)
      BY <3>1, <3>2
    <3> QED
      BY <3>2, <3>3 DEF x
  <2> HIDE DEF l
  <2> QED
    BY <2>1, <2>2, <2>3
<1> QED
  BY <1>3, <1>4, <1>5

\* The same of the right half.
LEMMA FromFacts ==
  ASSUME NEW q \in Seq(Ptr), NEW k \in 1..(Len(q) + 1)
  PROVE  /\ From(q, k) \in Seq(Ptr) /\ From(q, 1) = q
         /\ k <= Len(q) => From(q, k) = <<q[k]>> \o From(q, k + 1)
         /\ k = Len(q) + 1 => From(q, k) = <<>>
<1>1. Len(q) \in Nat
  OBVIOUS
<1>2. From(q, k) \in Seq(Ptr)
  <2>1. \A i \in k..Len(q) : q[i] \in Ptr
    BY <1>1
  <2> QED
    BY <1>1, <2>1, SubSeqProperties DEF From
<1>3. From(q, 1) = q
  BY SubSeqFull DEF From
<1>4. k <= Len(q) => From(q, k) = <<q[k]>> \o From(q, k + 1)
  <2> SUFFICES ASSUME k <= Len(q) PROVE From(q, k) = <<q[k]>> \o From(q, k + 1)
    OBVIOUS
  <2>1. k \in 1..Len(q) /\ Len(q) \in k..Len(q)
    BY <1>1
  <2> QED
    BY <2>1, SubSeqRecursiveFirst DEF From
<1>5. k = Len(q) + 1 => From(q, k) = <<>>
  BY <1>1, SubSeqEmpty DEF From
<1> QED
  BY <1>2, <1>3, <1>4, <1>5

\* What overtakes the first of a sorted list overtakes all of it.
LEMMA BelowAll ==
  ASSUME NEW a \in Nat, NEW b \in Nat, NEW c \in Nat, NEW d \in Nat, a <= b, ~(a - d <= c)
  PROVE  c < b - d
OBVIOUS

\* What the merge has put out and what is left of both halves take the same as the halves
\* one after the other.
Same(D, left, right, m) ==
  \A s \in State(D) :
    Alike(TakeEach(TakeEach(s, left), right),
          TakeEach(TakeEach(TakeEach(s, m.out), Lower(left, m.j, m.k - 1)), From(right, m.k)))

\* A turn keeps that.
LEMMA MergeStepSame ==
  ASSUME NEW D, NEW left \in Seq(Ptr), NEW right \in Seq(Ptr), Sorted(left), Sorted(right),
         Poses(left) \cap Poses(right) = {},
         NEW n \in Nat, n < Len(left) + Len(right), NEW m,
         InOrder(left, right, n, m), Same(D, left, right, m)
  PROVE  Same(D, left, right, MergeStep(left, right, m))
<1> DEFINE u == MergeStep(left, right, m)  d == m.k - 1  j == m.j  k == m.k
           L == Lower(left, j, d)  R == From(right, k)
<1>0. /\ Len(left) \in Nat /\ Len(right) \in Nat /\ j \in 1..(Len(left) + 1)
      /\ k \in 1..(Len(right) + 1) /\ d \in Nat /\ m.out \in Seq(Ptr)
      /\ \A i \in j..Len(left) : d <= left[i].index
  BY SMTT(30) DEF InOrder
<1>1. L \in Seq(Ptr) /\ R \in Seq(Ptr)
  BY <1>0, LowerFacts, FromFacts
<1> SUFFICES ASSUME NEW s \in State(D)
             PROVE  Alike(TakeEach(TakeEach(s, left), right),
                          TakeEach(TakeEach(TakeEach(s, u.out), Lower(left, u.j, u.k - 1)), From(right, u.k)))
  BY DEF Same
<1> DEFINE X == TakeEach(s, m.out)  e == TakeEach(TakeEach(s, left), right)
<1>2. Alike(e, TakeEach(TakeEach(X, L), R)) /\ X \in State(D)
  BY <1>0, TakeEachType DEF Same
<1> HIDE DEF X, e
<1>3. CASE TakesLeft(left, right, m)
  <2> DEFINE p == [index |-> left[j].index - d, pos |-> left[j].pos]  M == Lower(left, j + 1, d)
  <2>1. j \in 1..Len(left) /\ u.j = j + 1 /\ u.k = k /\ u.out = Append(m.out, p) /\ p \in Ptr
    BY <1>3, MergeStepLeft
  <2>2. L = <<p>> \o M
    <3> HIDE DEF j, d, u
    <3>1. j <= Len(left)
      BY <1>0, <2>1
    <3> QED
      BY <1>0, <3>1, LowerSteps
  <2>3. M \in Seq(Ptr)
    <3>1. j + 1 \in 1..(Len(left) + 1) /\ \A i \in (j + 1)..Len(left) : d <= left[i].index
      BY <1>0, <2>1, SMTT(30)
    <3> QED
      BY <1>0, <3>1, LowerFacts
  <2> HIDE DEF p, M, L
  <2>4. TakeEach(X, <<p>> \o M) = TakeEach(TakeFromCache(X, p), M)
    BY <1>2, <2>1, <2>3, TakeEachFirst
  <2>5. TakeEach(s, Append(m.out, p)) = TakeFromCache(X, p)
    BY <1>0, <2>1, TakeEachFacts DEF X
  <2>6. Alike(e, TakeEach(TakeEach(TakeEach(s, u.out), M), R))
    BY <1>2, <2>1, <2>2, <2>4, <2>5
  <2> QED
    BY <2>1, <2>6 DEF M, e
<1>4. CASE ~TakesLeft(left, right, m)
  <2> DEFINE r == right[k]  Q == From(right, k + 1)  M == Lower(left, j, k)
  <2>1. k \in 1..Len(right) /\ u.j = j /\ u.k = k + 1 /\ u.out = Append(m.out, r) /\ r \in Ptr
    <3>1. /\ m.k \in 1..Len(right) /\ u.j = m.j /\ u.k = m.k + 1
          /\ u.out = Append(m.out, right[m.k]) /\ right[m.k] \in Ptr
      BY <1>4, MergeStepRight
    <3> QED
      BY <3>1
  <2>2. R = <<r>> \o Q /\ Q \in Seq(Ptr)
    <3>1. k + 1 \in 1..(Len(right) + 1) /\ k <= Len(right)
      BY <1>0, <2>1, SMTT(30)
    <3> QED
      BY <1>0, <3>1, FromFacts
  <2>3. AllDown(L) = M
    <3>1. d + 1 = k
      BY <1>0
    <3> HIDE DEF j, d
    <3>2. AllDown(L) = Lower(left, j, d + 1)
      BY <1>0, LowerSteps
    <3> QED
      BY <3>1, <3>2
  <2>4. ASSUME NEW i \in 1..Len(L) PROVE r.index < L[i].index /\ r.pos # L[i].pos
    <3> DEFINE h == i + j - 1
    <3>2. h \in j..Len(left) /\ h \in 1..Len(left)
          /\ L[i] = [index |-> left[h].index - d, pos |-> left[h].pos]
      <4> HIDE DEF j, d
      <4>1. /\ Len(L) = Len(left) - j + 1
            /\ \A a \in 1..(Len(left) - j + 1) :
                 /\ a + j - 1 \in j..Len(left) /\ a + j - 1 \in 1..Len(left)
                 /\ L[a] = [index |-> left[a + j - 1].index - d, pos |-> left[a + j - 1].pos]
        BY <1>0, LowerFacts
      <4> HIDE DEF L
      <4> QED
        BY <4>1
    <3> HIDE DEF h, L
    <3>3. L[i].index = left[h].index - d /\ L[i].pos = left[h].pos
      BY <3>2
    <3>4. j \in 1..Len(left) /\ j <= h
      BY <1>0, <3>2
    <3>5. left[j].index <= left[h].index
      <4>1. CASE j = h
        BY <3>4, <4>1, PtrFacts
      <4>2. CASE j < h
        BY <3>2, <3>4, <4>2 DEF Sorted
      <4> QED
        BY <1>0, <3>2, <3>4, <4>1, <4>2
    <3>6. ~(left[j].index - d <= r.index)
      BY <1>0, <1>4, <2>1, <3>4 DEF TakesLeft
    <3>7. left[j].index \in Nat /\ left[h].index \in Nat /\ r.index \in Nat
      BY <2>1, <3>2, <3>4, PtrFacts
    <3>8. left[h].pos \in Poses(left) /\ r.pos \in Poses(right)
      BY <2>1, <3>2 DEF Poses
    <3>9. d \in Nat
      BY <1>0
    <3> HIDE DEF r, d, j, k
    <3>10. r.index < left[h].index - d
      BY <3>5, <3>6, <3>7, <3>9, BelowAll
    <3> QED
      BY <3>3, <3>8, <3>10
  <2> HIDE DEF r, Q, M, L, R
  <2>5. TakeEach(X, L) \in State(D)
    BY <1>1, <1>2, TakeEachType
  <2>6. TakeEach(TakeEach(X, L), <<r>> \o Q) = TakeEach(TakeFromCache(TakeEach(X, L), r), Q)
    BY <2>1, <2>2, <2>5, TakeEachFirst
  <2>7. TakeFromCache(X, r) \in State(D) /\ TakeFromCache(TakeEach(X, L), r) \in State(D)
    BY <1>2, <2>1, <2>5, TakeFacts
  <2>8. /\ AllDown(L) \in Seq(Ptr)
        /\ Alike(TakeFromCache(TakeEach(X, L), r), TakeEach(TakeFromCache(X, r), AllDown(L)))
    BY <1>1, <1>2, <2>1, <2>4, TakeOverList
  <2>9. TakeEach(s, Append(m.out, r)) = TakeFromCache(X, r)
    BY <1>0, <2>1, TakeEachFacts DEF X
  <2>10. Alike(e, TakeEach(TakeEach(TakeEach(s, u.out), M), Q))
    <3> DEFINE x == TakeFromCache(TakeEach(X, L), r)  y == TakeEach(TakeFromCache(X, r), AllDown(L))
    <3>1. x \in State(D) /\ y \in State(D) /\ Alike(x, y)
      BY <2>7, <2>8, TakeEachType
    <3>2. Alike(e, TakeEach(x, Q)) /\ TakeEach(TakeEach(s, u.out), M) = y
      BY <1>2, <2>1, <2>2, <2>3, <2>6, <2>9
    <3> HIDE DEF x, y
    <3>3. Alike(TakeEach(x, Q), TakeEach(y, Q))
      BY <2>2, <3>1, AlikeTakeEach
    <3> QED
      BY <3>2, <3>3, AlikeTrans
  <2>11. u.k - 1 = k
    BY <1>0, <2>1
  <2> QED
    BY <2>1, <2>10, <2>11 DEF M, Q, e
<1> QED
  BY <1>3, <1>4

\* The turns of the merge.
Merging(left, right, N, c) ==
  c = [n \in 0..N |-> IF n = 0 THEN [j |-> 1, k |-> 1, out |-> <<>>] ELSE MergeStep(left, right, c[n - 1])]

\* There is such a table.
LEMMA MergingExists ==
  ASSUME NEW left, NEW right, NEW N \in Nat PROVE \E c : Merging(left, right, N, c)
<1> DEFINE S == {n \in Nat : \E c : Merging(left, right, n, c)}
           start == [j |-> 1, k |-> 1, out |-> <<>>]
<1>1. 0 \in S
  <2>1. Merging(left, right, 0, [k \in 0..0 |-> start])
    BY DEF Merging
  <2> QED
    BY <2>1
<1>2. ASSUME NEW n \in Nat, n \in S PROVE n + 1 \in S
  <2>1. PICK c : Merging(left, right, n, c)
    BY <1>2
  <2> DEFINE d == [k \in 0..(n + 1) |-> IF k = n + 1 THEN MergeStep(left, right, c[n]) ELSE c[k]]
  <2> HIDE DEF start
  <2>0. c = [k \in 0..n |-> IF k = 0 THEN start ELSE MergeStep(left, right, c[k - 1])]
    BY <2>1 DEF Merging, start
  <2>2. ASSUME NEW k \in 0..(n + 1)
        PROVE  d[k] = IF k = 0 THEN start ELSE MergeStep(left, right, d[k - 1])
    <3>1. CASE k = 0
      <4>1. d[0] = c[0] /\ c[0] = start
        BY <2>0
      <4> QED
        BY <3>1, <4>1
    <3>2. CASE k = n + 1
      <4>1. k # 0 /\ k - 1 = n /\ d[n] = c[n]
        BY <3>2
      <4> QED
        BY <3>2, <4>1
    <3>3. CASE k \in 1..n
      <4>1. k # 0 /\ k \in 0..n /\ k - 1 \in 0..n /\ d[k] = c[k] /\ d[k - 1] = c[k - 1]
        BY <3>3
      <4>2. c[k] = MergeStep(left, right, c[k - 1])
        BY <2>0, <4>1
      <4> QED
        BY <4>1, <4>2
    <3> QED
      BY <3>1, <3>2, <3>3
  <2>3. d = [k \in 0..(n + 1) |-> d[k]]
    OBVIOUS
  <2> HIDE DEF d
  <2>4. d = [k \in 0..(n + 1) |-> IF k = 0 THEN start ELSE MergeStep(left, right, d[k - 1])]
    BY <2>2, <2>3
  <2>5. Merging(left, right, n + 1, d)
    BY <2>4 DEF Merging, start
  <2> QED
    BY <2>5
<1> HIDE DEF S
<1>3. N \in S
  BY <1>1, <1>2, SetInduction
<1> QED
  BY <1>3 DEF S

\* Two lists in order are merged into one in order, which takes the same as the two of
\* them one after the other.
LEMMA MergeFacts ==
  ASSUME NEW D, NEW left \in Seq(Ptr), NEW right \in Seq(Ptr), Sorted(left), Sorted(right),
         Poses(left) \cap Poses(right) = {}, DistinctPoses(left), DistinctPoses(right)
  PROVE  /\ Merge(left, right) \in Seq(Ptr) /\ Sorted(Merge(left, right))
         /\ DistinctPoses(Merge(left, right))
         /\ Poses(Merge(left, right)) \subseteq Poses(left) \cup Poses(right)
         /\ \A s \in State(D) : Alike(TakeEach(TakeEach(s, left), right), TakeEach(s, Merge(left, right)))
<1> DEFINE N == Len(left) + Len(right)
<1>0. N \in Nat /\ Len(left) \in Nat /\ Len(right) \in Nat
  OBVIOUS
<1>1. PICK c : Merging(left, right, N, c) /\ Merge(left, right) = c[N].out
  <2> DEFINE h == CHOOSE h : Merging(left, right, N, h)
  <2>1. Merging(left, right, N, h)
    BY <1>0, MergingExists
  <2>2. Merge(left, right) = h[N].out
    BY DEF Merge, h, Merging
  <2> HIDE DEF h
  <2> QED
    BY <2>1, <2>2
<1> HIDE DEF N
<1>2. c[0] = [j |-> 1, k |-> 1, out |-> <<>>]
  BY <1>0, <1>1 DEF Merging
<1>3. \A n \in 1..N : c[n] = MergeStep(left, right, c[n - 1])
  <2>1. \A n \in 1..N : n \in 0..N /\ n # 0
    BY <1>0
  <2> QED
    BY <1>1, <2>1, Zenon DEF Merging
<1> DEFINE Kept(n) == /\ InOrder(left, right, n, c[n]) /\ Apart(left, right, c[n])
                      /\ Same(D, left, right, c[n])
           S == {n \in Nat : n <= N => Kept(n)}
<1>4. 0 \in S
  <2>1. c[0].j = 1 /\ c[0].k = 1 /\ c[0].out = <<>>
    BY <1>2
  <2>2. InOrder(left, right, 0, c[0])
    <3>1. \A i \in 1..Len(left) : 1 - 1 <= left[i].index
      BY PtrFacts
    <3>2. Sorted(<<>>) /\ Poses(<<>>) = {} /\ <<>> \in Seq(Ptr) /\ Len(<<>>) = 0
      BY DEF Sorted, Poses
    <3> QED
      BY <1>0, <2>1, <3>1, <3>2 DEF InOrder
  <2>3. Same(D, left, right, c[0])
    <3>1. Lower(left, 1, 0) = left
      <4>1. 1 \in 1..(Len(left) + 1) /\ \A i \in 1..Len(left) : 0 <= left[i].index
        BY <1>0, PtrFacts
      <4>2. /\ Lower(left, 1, 0) \in Seq(Ptr) /\ Len(Lower(left, 1, 0)) = Len(left) - 1 + 1
            /\ \A i \in 1..(Len(left) - 1 + 1) :
                 Lower(left, 1, 0)[i] = [index |-> left[i + 1 - 1].index - 0, pos |-> left[i + 1 - 1].pos]
        BY <4>1, LowerFacts
      <4>3. Len(left) - 1 + 1 = Len(left)
        BY <1>0
      <4>4. ASSUME NEW i \in 1..Len(left) PROVE Lower(left, 1, 0)[i] = left[i]
        <5>1. i + 1 - 1 = i /\ left[i] \in Ptr /\ left[i].index \in Nat
          BY PtrFacts
        <5>2. Lower(left, 1, 0)[i] = [index |-> left[i].index - 0, pos |-> left[i].pos]
          BY <4>2, <4>3, <5>1
        <5>3. left[i].index - 0 = left[i].index
          BY <5>1
        <5>4. left[i] = [index |-> left[i].index, pos |-> left[i].pos]
          BY <5>1 DEF Ptr
        <5> QED
          BY <5>2, <5>3, <5>4
      <4> QED
        BY <4>2, <4>3, <4>4, SeqEqual
    <3>2. From(right, 1) = right
      <4>1. 1 \in 1..(Len(right) + 1)
        BY <1>0
      <4> QED
        BY <4>1, FromFacts
    <3>3. \A s \in State(D) : TakeEach(s, <<>>) = s
      BY TakeEachFacts
    <3>4. 1 - 1 = 0
      OBVIOUS
    <3> QED
      BY <2>1, <3>1, <3>2, <3>3, <3>4 DEF Same, Alike
  <2>4. Apart(left, right, c[0])
    BY <2>1 DEF Apart, DistinctPoses
  <2> QED
    BY <2>2, <2>3, <2>4
<1>5. ASSUME NEW n \in Nat, n \in S PROVE n + 1 \in S
  <2> SUFFICES ASSUME n + 1 <= N
               PROVE  Kept(n + 1)
    OBVIOUS
  <2>1. n + 1 \in 1..N /\ (n + 1) - 1 = n /\ n <= N /\ n < N
    BY <1>0
  <2>2. c[n + 1] = MergeStep(left, right, c[n])
    BY <1>3, <2>1
  <2>3. Kept(n) /\ n < Len(left) + Len(right)
    BY <1>5, <2>1 DEF N
  <2> QED
    BY <2>2, <2>3, MergeStepOrder, MergeStepApart, MergeStepSame
<1> HIDE DEF S
<1>6. N \in S
  BY <1>0, <1>4, <1>5, SetInduction
<1> DEFINE m == c[N]
<1>7. InOrder(left, right, N, m) /\ Apart(left, right, m) /\ Same(D, left, right, m)
  BY <1>0, <1>6 DEF S
<1> HIDE DEF m
<1>8. /\ m.out \in Seq(Ptr) /\ Sorted(m.out) /\ DistinctPoses(m.out)
      /\ Poses(m.out) \subseteq Poses(left) \cup Poses(right)
  BY <1>7 DEF InOrder, Apart
<1>9. m.j = Len(left) + 1 /\ m.k = Len(right) + 1
  BY <1>0, <1>7 DEF InOrder, N
<1>10. ASSUME NEW s \in State(D)
       PROVE  Alike(TakeEach(TakeEach(s, left), right), TakeEach(s, m.out))
  <2>1. Lower(left, m.j, m.k - 1) = <<>>
    <3> DEFINE j == Len(left) + 1  d == Len(right)
    <3>1. j \in 1..(Len(left) + 1) /\ d \in Nat /\ \A i \in j..Len(left) : d <= left[i].index
      BY <1>0
    <3>2. Lower(left, j, d) = <<>>
      BY <3>1, LowerSteps
    <3>3. m.k - 1 = d
      BY <1>0, <1>9
    <3> QED
      BY <1>9, <3>2, <3>3
  <2>2. From(right, m.k) = <<>>
    <3> DEFINE k == Len(right) + 1
    <3>1. k \in 1..(Len(right) + 1) /\ k = Len(right) + 1
      BY <1>0
    <3>3. m.k = k
      BY <1>9
    <3> HIDE DEF k
    <3>2. From(right, k) = <<>>
      BY <3>1, FromFacts
    <3> QED
      BY <3>2, <3>3
  <2>3. TakeEach(s, m.out) \in State(D)
    BY <1>8, TakeEachType
  <2>4. TakeEach(TakeEach(TakeEach(s, m.out), <<>>), <<>>) = TakeEach(s, m.out)
    BY TakeEachFacts
  <2>5. Alike(TakeEach(TakeEach(s, left), right),
              TakeEach(TakeEach(TakeEach(s, m.out), Lower(left, m.j, m.k - 1)), From(right, m.k)))
    BY <1>7, <1>10 DEF Same
  <2> QED
    BY <2>1, <2>2, <2>4, <2>5
<1> QED
  BY <1>1, <1>8, <1>10 DEF m

----------------------------------------------------------------------------
(***************************************************************************)
(* The sort.                                                               *)
(***************************************************************************)
Part(ptrs, start, n) == SubSeq(ptrs, start + 1, start + n)

\* What the sort makes of the parts of length n, from a table of the shorter ones.
Row(ptrs, c, n) ==
  [start \in 0..Len(ptrs) - n |->
     IF n <= 1 THEN SubSeq(ptrs, start + 1, start + n)
     ELSE LET half == n \div 2 IN Merge(c[half][start], c[n - half][start + half])]

Sorting(ptrs, N, c) == c = [n \in 0..N |-> Row(ptrs, c, n)]

\* Both halves are shorter, so that the recursion ends.
LEMMA HalfFacts ==
  ASSUME NEW n \in Nat, n > 1
  PROVE  n \div 2 \in 1..(n - 1) /\ n - (n \div 2) \in 1..(n - 1)
OBVIOUS

\* The sort of a part needs those of shorter parts only, ...
LEMMA RowFromShorter ==
  ASSUME NEW ptrs, NEW n \in Nat, NEW c, NEW d, \A k \in 0..(n - 1) : c[k] = d[k]
  PROVE  Row(ptrs, c, n) = Row(ptrs, d, n)
<1>1. CASE n <= 1
  BY <1>1 DEF Row
<1>2. CASE ~(n <= 1)
  <2> DEFINE h == n \div 2
  <2>1. h \in 1..(n - 1) /\ n - h \in 1..(n - 1)
    BY <1>2, HalfFacts
  <2> HIDE DEF h
  <2>2. h \in 0..(n - 1) /\ n - h \in 0..(n - 1)
    BY <2>1
  <2>3. c[h] = d[h] /\ c[n - h] = d[n - h]
    BY <2>2
  <2>4. /\ Row(ptrs, c, n) = [start \in 0..Len(ptrs) - n |-> Merge(c[h][start], c[n - h][start + h])]
        /\ Row(ptrs, d, n) = [start \in 0..Len(ptrs) - n |-> Merge(d[h][start], d[n - h][start + h])]
    BY <1>2 DEF Row, h
  <2> QED
    BY <2>3, <2>4
<1> QED
  BY <1>1, <1>2

\* ... so there is such a table.
LEMMA SortingExists ==
  ASSUME NEW ptrs, NEW N \in Nat PROVE \E c : Sorting(ptrs, N, c)
<1> DEFINE S == {n \in Nat : \E c : Sorting(ptrs, n, c)}
<1>1. 0 \in S
  <2> DEFINE e == [k \in 0..0 |-> Row(ptrs, [i \in {} |-> 0], 0)]
  <2>1. \A k \in 0..(0 - 1) : [i \in {} |-> 0][k] = e[k]
    OBVIOUS
  <2>2. Row(ptrs, [i \in {} |-> 0], 0) = Row(ptrs, e, 0)
    <3> HIDE DEF e
    <3> QED
      BY <2>1, RowFromShorter
  <2>3. e = [k \in 0..0 |-> Row(ptrs, e, 0)]
    BY <2>2
  <2>4. \A k \in 0..0 : k = 0
    OBVIOUS
  <2> HIDE DEF e
  <2>5. e = [k \in 0..0 |-> Row(ptrs, e, k)]
    BY <2>3, <2>4
  <2> QED
    BY <2>5 DEF Sorting
<1>2. ASSUME NEW n \in Nat, n \in S PROVE n + 1 \in S
  <2>1. PICK c : Sorting(ptrs, n, c)
    BY <1>2
  <2> DEFINE d == [k \in 0..(n + 1) |-> IF k = n + 1 THEN Row(ptrs, c, n + 1) ELSE c[k]]
  <2>0. \A k \in 0..n : c[k] = Row(ptrs, c, k)
    BY <2>1 DEF Sorting
  <2>2. \A k \in 0..n : d[k] = c[k]
    OBVIOUS
  <2>3. d[n + 1] = Row(ptrs, c, n + 1)
    OBVIOUS
  <2>4. d = [k \in 0..(n + 1) |-> d[k]]
    OBVIOUS
  <2> HIDE DEF d
  <2>5. ASSUME NEW k \in 0..(n + 1) PROVE d[k] = Row(ptrs, d, k)
    <3>1. \A i \in 0..(k - 1) : c[i] = d[i]
      BY <2>2
    <3>2. Row(ptrs, c, k) = Row(ptrs, d, k)
      BY <3>1, RowFromShorter
    <3>3. CASE k = n + 1
      BY <2>3, <3>2, <3>3
    <3>4. CASE k # n + 1
      <4>1. k \in 0..n
        BY <3>4
      <4> QED
        BY <2>0, <2>2, <3>2, <4>1
    <3> QED
      BY <3>3, <3>4
  <2>6. Sorting(ptrs, n + 1, d)
    BY <2>4, <2>5 DEF Sorting
  <2> QED
    BY <2>6
<1> HIDE DEF S
<1>3. N \in S
  BY <1>1, <1>2, SetInduction
<1> QED
  BY <1>3 DEF S

\* What is asked of l, the sorted form of q.
SortedForm(D, q, l) ==
  /\ l \in Seq(Ptr) /\ Sorted(l) /\ DistinctPoses(l) /\ Poses(l) \subseteq Poses(q)
  /\ \A s \in State(D) : Alike(TakeEach(s, q), TakeEach(s, l))

\* The sorted forms of two lists make that of the two together.
LEMMA MergeSortedForms ==
  ASSUME NEW D, NEW a \in Seq(Ptr), NEW b \in Seq(Ptr), Poses(a) \cap Poses(b) = {},
         NEW l, NEW r, SortedForm(D, a, l), SortedForm(D, b, r),
         Poses(a) \cup Poses(b) \subseteq Poses(a \o b)
  PROVE  SortedForm(D, a \o b, Merge(l, r))
<1>1. /\ l \in Seq(Ptr) /\ Sorted(l) /\ r \in Seq(Ptr) /\ Sorted(r)
      /\ DistinctPoses(l) /\ DistinctPoses(r)
      /\ Poses(l) \cap Poses(r) = {} /\ Poses(l) \cup Poses(r) \subseteq Poses(a \o b)
  BY DEF SortedForm
<1>2. /\ Merge(l, r) \in Seq(Ptr) /\ Sorted(Merge(l, r)) /\ DistinctPoses(Merge(l, r))
      /\ Poses(Merge(l, r)) \subseteq Poses(l) \cup Poses(r)
      /\ \A s \in State(D) : Alike(TakeEach(TakeEach(s, l), r), TakeEach(s, Merge(l, r)))
  BY <1>1, MergeFacts
<1>3. ASSUME NEW s \in State(D) PROVE Alike(TakeEach(s, a \o b), TakeEach(s, Merge(l, r)))
  <2>1. TakeEach(s, a \o b) = TakeEach(TakeEach(s, a), b)
    BY TakeEachConcat
  <2> DEFINE x == TakeEach(s, a)  y == TakeEach(s, l)
  <2>2. x \in State(D) /\ y \in State(D) /\ Alike(x, y)
    BY <1>1, TakeEachType DEF SortedForm
  <2>3. Alike(TakeEach(y, r), TakeEach(s, Merge(l, r)))
    BY <1>2
  <2> HIDE DEF x, y
  <2>4. Alike(TakeEach(x, b), TakeEach(x, r))
    BY <2>2 DEF SortedForm
  <2>5. Alike(TakeEach(x, r), TakeEach(y, r))
    BY <1>1, <2>2, AlikeTakeEach
  <2> QED
    BY <2>1, <2>3, <2>4, <2>5, AlikeTrans DEF x
<1> QED
  BY <1>1, <1>2, <1>3 DEF SortedForm

\* A part of the references, ...
LEMMA PartFacts ==
  ASSUME NEW q \in Seq(Ptr), NEW n \in Nat, NEW start \in Nat, start + n <= Len(q)
  PROVE  /\ Part(q, start, n) \in Seq(Ptr) /\ Len(Part(q, start, n)) = n
         /\ \A i \in 1..n : start + i \in 1..Len(q) /\ Part(q, start, n)[i] = q[start + i]
<1>0. Len(q) \in Nat
  OBVIOUS
<1>1. \A i \in (start + 1)..(start + n) : i \in 1..Len(q)
  BY <1>0
<1>2. \A i \in (start + 1)..(start + n) : q[i] \in Ptr
  BY <1>1
<1> DEFINE m == start + 1  k == start + n
<1>3. m \in Int /\ k \in Int /\ \A i \in m..k : q[i] \in Ptr
  BY <1>2
<1> HIDE DEF m, k
<1>4. /\ SubSeq(q, m, k) \in Seq(Ptr)
      /\ Len(SubSeq(q, m, k)) = IF m <= k THEN k - m + 1 ELSE 0
      /\ \A i \in 1..(k - m + 1) : SubSeq(q, m, k)[i] = q[m + i - 1]
  BY <1>3, SubSeqProperties
<1>5. k - m + 1 = n /\ (m <= k \/ n = 0)
  BY DEF m, k
<1>6. \A i \in 1..n : m + i - 1 = start + i /\ start + i \in 1..Len(q)
  BY <1>0 DEF m
<1>7. SubSeq(q, m, k) = Part(q, start, n)
  BY DEF Part, m, k
<1> QED
  BY <1>4, <1>5, <1>6, <1>7

\* ... and its two halves.
LEMMA PartsFacts ==
  ASSUME NEW q \in Seq(Ptr), DistinctPoses(q), NEW n \in Nat, NEW h \in 1..(n - 1), NEW start \in Nat,
         start + n <= Len(q)
  PROVE  LET a == Part(q, start, h)  b == Part(q, start + h, n - h) IN
         /\ a \in Seq(Ptr) /\ b \in Seq(Ptr) /\ a \o b = Part(q, start, n)
         /\ Poses(a) \cap Poses(b) = {} /\ Poses(a) \cup Poses(b) \subseteq Poses(a \o b)
<1> DEFINE a == Part(q, start, h)  b == Part(q, start + h, n - h)  p == Part(q, start, n)
<1>0. Len(q) \in Nat /\ h \in Nat /\ n - h \in Nat /\ start + h \in Nat
      /\ start + h <= Len(q) /\ (start + h) + (n - h) <= Len(q) /\ h + (n - h) = n
  OBVIOUS
<1>1. /\ a \in Seq(Ptr) /\ Len(a) = h
      /\ \A i \in 1..h : start + i \in 1..Len(q) /\ a[i] = q[start + i]
  BY <1>0, PartFacts
<1>2. /\ b \in Seq(Ptr) /\ Len(b) = n - h
      /\ \A i \in 1..(n - h) : (start + h) + i \in 1..Len(q) /\ b[i] = q[(start + h) + i]
  <2> DEFINE m == n - h  t == start + h
  <2>1. m \in Nat /\ t \in Nat /\ t + m <= Len(q)
    BY <1>0
  <2> HIDE DEF m, t
  <2>2. /\ Part(q, t, m) \in Seq(Ptr) /\ Len(Part(q, t, m)) = m
        /\ \A i \in 1..m : t + i \in 1..Len(q) /\ Part(q, t, m)[i] = q[t + i]
    BY <2>1, PartFacts
  <2> QED
    BY <2>2 DEF m, t
<1>3. /\ p \in Seq(Ptr) /\ Len(p) = n
      /\ \A i \in 1..n : start + i \in 1..Len(q) /\ p[i] = q[start + i]
  BY <1>0, PartFacts
<1> HIDE DEF a, b, p
<1>4. /\ a \o b \in Seq(Ptr) /\ Len(a \o b) = n
      /\ \A i \in 1..n : (a \o b)[i] = IF i <= h THEN a[i] ELSE b[i - h]
  <2>1. /\ a \o b \in Seq(Ptr) /\ Len(a \o b) = Len(a) + Len(b)
        /\ \A i \in 1..(Len(a) + Len(b)) : (a \o b)[i] = IF i <= Len(a) THEN a[i] ELSE b[i - Len(a)]
    <3>1. a \in Seq(Ptr) /\ b \in Seq(Ptr)
      BY <1>1, <1>2
    <3> QED
      BY <3>1, ConcatProperties
  <2> QED
    BY <1>0, <1>1, <1>2, <2>1
<1>5. ASSUME NEW i \in 1..n PROVE (a \o b)[i] = p[i]
  <2>1. CASE i <= h
    <3>1. i \in 1..h
      BY <1>0, <2>1
    <3> QED
      BY <1>1, <1>3, <1>4, <2>1, <3>1
  <2>2. CASE ~(i <= h)
    <3>1. i - h \in 1..(n - h) /\ (start + h) + (i - h) = start + i
      BY <1>0, <2>2
    <3> QED
      BY <1>2, <1>3, <1>4, <2>2, <3>1
  <2> QED
    BY <2>1, <2>2
<1>6. a \o b = p
  BY <1>3, <1>4, <1>5, SeqEqual
<1>7. Poses(a) \cap Poses(b) = {}
  <2> SUFFICES ASSUME NEW i \in 1..h, NEW j \in 1..(n - h), a[i].pos = b[j].pos PROVE FALSE
    BY <1>1, <1>2 DEF Poses
  <2>1. /\ start + i \in 1..Len(q) /\ a[i] = q[start + i]
        /\ (start + h) + j \in 1..Len(q) /\ b[j] = q[(start + h) + j]
    BY <1>1, <1>2
  <2>2. start + i = (start + h) + j
    BY <2>1 DEF DistinctPoses
  <2> QED
    BY <2>2
<1>8. Poses(a) \cup Poses(b) \subseteq Poses(a \o b)
  <2>1. ASSUME NEW i \in 1..h PROVE a[i].pos \in Poses(a \o b)
    <3>1. i \in 1..n /\ i <= h
      BY <1>0
    <3>2. (a \o b)[i] = a[i]
      BY <1>4, <3>1
    <3> QED
      BY <1>4, <3>1, <3>2 DEF Poses
  <2>2. ASSUME NEW j \in 1..(n - h) PROVE b[j].pos \in Poses(a \o b)
    <3>1. j + h \in 1..n /\ ~(j + h <= h) /\ (j + h) - h = j
      BY <1>0
    <3>2. (a \o b)[j + h] = b[j]
      BY <1>4, <3>1
    <3> QED
      BY <1>4, <3>1, <3>2 DEF Poses
  <2> QED
    BY <1>1, <1>2, <2>1, <2>2, ZenonT(60) DEF Poses
<1> QED
  BY <1>1, <1>2, <1>6, <1>7, <1>8 DEF a, b, p

\* tweak_sort puts the references in order, and taking them in that order gives what
\* taking them in the order of the message gives.
LEMMA SortFacts ==
  ASSUME NEW D, NEW ptrs \in Seq(Ptr), DistinctPoses(ptrs)
  PROVE  SortedForm(D, ptrs, tweak_sort(ptrs))
<1> DEFINE N == Len(ptrs)
<1>0. N \in Nat
  OBVIOUS
<1>1. PICK c : Sorting(ptrs, N, c) /\ tweak_sort(ptrs) = c[N][0]
  <2> DEFINE h == CHOOSE h : Sorting(ptrs, N, h)
  <2>1. Sorting(ptrs, N, h)
    BY <1>0, SortingExists
  <2>2. tweak_sort(ptrs) = h[N][0]
    BY DEF tweak_sort, h, Sorting, Row
  <2> HIDE DEF h
  <2> QED
    BY <2>1, <2>2
<1> HIDE DEF N
<1> DEFINE Done(n) == \A start \in 0..(N - n) : SortedForm(D, Part(ptrs, start, n), c[n][start])
           S == {n \in Nat : \A k \in 0..n : k <= N => Done(k)}
<1>2. ASSUME NEW n \in Nat, n <= N, \A k \in 0..(n - 1) : Done(k) PROVE Done(n)
  <2> SUFFICES ASSUME NEW start \in 0..(N - n)
               PROVE  SortedForm(D, Part(ptrs, start, n), c[n][start])
    OBVIOUS
  <2>1. n \in 0..N /\ start \in Nat /\ start + n <= N
    BY <1>0, <1>2
  <2>2. c[n] = Row(ptrs, c, n)
    BY <1>1, <2>1 DEF Sorting
  <2>3. /\ Part(ptrs, start, n) \in Seq(Ptr) /\ Len(Part(ptrs, start, n)) = n
    BY <2>1, PartFacts DEF N
  <2>4. CASE n <= 1
    <3>1. c[n][start] = Part(ptrs, start, n)
      BY <2>2, <2>4 DEF Row, Part, N
    <3> DEFINE q == Part(ptrs, start, n)
    <3>2. q \in Seq(Ptr) /\ Len(q) <= 1 /\ Len(q) \in Nat
      BY <2>3, <2>4
    <3> HIDE DEF q
    <3>3. Sorted(q) /\ DistinctPoses(q)
      BY <3>2 DEF Sorted, DistinctPoses
    <3>4. SortedForm(D, q, q)
      BY <3>2, <3>3 DEF SortedForm, Alike
    <3> QED
      BY <3>1, <3>4 DEF q
  <2>5. CASE ~(n <= 1)
    <3> DEFINE h == n \div 2  g == n - h
    <3>1. h \in 1..(n - 1) /\ g \in 1..(n - 1)
      BY <2>5, HalfFacts
    <3>2. c[n][start] = Merge(c[h][start], c[g][start + h])
      BY <2>2, <2>5 DEF Row, N
    <3>g. g = n - h
      OBVIOUS
    <3> HIDE DEF h, g
    <3>3. h \in 0..(n - 1) /\ g \in 0..(n - 1) /\ start \in 0..(N - h) /\ start + h \in 0..(N - g)
      BY <1>0, <2>1, <3>1, <3>g
    <3> DEFINE a == Part(ptrs, start, h)  b == Part(ptrs, start + h, g)
    <3>4. SortedForm(D, a, c[h][start]) /\ SortedForm(D, b, c[g][start + h])
      BY <1>2, <3>3
    <3>5. /\ a \in Seq(Ptr) /\ b \in Seq(Ptr) /\ a \o b = Part(ptrs, start, n)
          /\ Poses(a) \cap Poses(b) = {} /\ Poses(a) \cup Poses(b) \subseteq Poses(a \o b)
      <4>1. start + n <= Len(ptrs)
        BY <2>1 DEF N
      <4>2. LET l == Part(ptrs, start, h)  r == Part(ptrs, start + h, n - h) IN
            /\ l \in Seq(Ptr) /\ r \in Seq(Ptr) /\ l \o r = Part(ptrs, start, n)
            /\ Poses(l) \cap Poses(r) = {} /\ Poses(l) \cup Poses(r) \subseteq Poses(l \o r)
        BY <2>1, <3>1, <4>1, PartsFacts
      <4> QED
        BY <3>g, <4>2
    <3> HIDE DEF a, b
    <3>6. SortedForm(D, a \o b, Merge(c[h][start], c[g][start + h]))
      BY <3>4, <3>5, MergeSortedForms
    <3> QED
      BY <3>2, <3>5, <3>6
  <2> QED
    BY <2>4, <2>5
<1> HIDE DEF Done
<1>3. 0 \in S
  <2>1. \A k \in 0..(0 - 1) : Done(k)
    OBVIOUS
  <2>2. Done(0)
    BY <1>0, <1>2, <2>1
  <2>3. \A k \in 0..0 : k = 0
    OBVIOUS
  <2> QED
    BY <2>2, <2>3
<1>4. ASSUME NEW n \in Nat, n \in S PROVE n + 1 \in S
  <2> SUFFICES ASSUME NEW k \in 0..(n + 1), k <= N PROVE Done(k)
    OBVIOUS
  <2>1. \A i \in 0..(k - 1) : i \in 0..n /\ i <= N
    BY <1>0
  <2>2. \A i \in 0..(k - 1) : Done(i)
    BY <1>4, <2>1
  <2> QED
    BY <1>2, <2>2
<1> HIDE DEF S
<1>5. N \in S
  BY <1>0, <1>3, <1>4, SetInduction
<1>6. Done(N)
  <2>1. N \in 0..N /\ N <= N
    BY <1>0
  <2> QED
    BY <1>5, <2>1 DEF S
<1>7. SortedForm(D, Part(ptrs, 0, N), c[N][0])
  <2>1. 0 \in 0..(N - N)
    BY <1>0
  <2> QED
    BY <1>6, <2>1 DEF Done
<1>8. Part(ptrs, 0, N) = ptrs
  <2>1. /\ Part(ptrs, 0, N) \in Seq(Ptr) /\ Len(Part(ptrs, 0, N)) = N
        /\ \A i \in 1..N : Part(ptrs, 0, N)[i] = ptrs[0 + i]
    <3>1. 0 \in Nat /\ N \in Nat /\ 0 + N <= Len(ptrs)
      BY <1>0 DEF N
    <3> QED
      BY <3>1, PartFacts
  <2>2. \A i \in 1..N : 0 + i = i
    BY <1>0
  <2>3. \A i \in 1..N : Part(ptrs, 0, N)[i] = ptrs[i]
    BY <2>1, <2>2
  <2>4. Len(ptrs) = N
    BY DEF N
  <2> QED
    BY <2>1, <2>3, <2>4, SeqEqual
<1> QED
  BY <1>1, <1>7, <1>8

\* The states of the loop over the transactions of a block.
Uncompressed(cache) == [cache |-> cache, body |-> <<>>]

Compressing(cache, q, c) ==
  c = [n \in 0..Len(q) |-> IF n = 0 THEN Uncompressed(cache) ELSE CompressTx(c[n - 1], q[n])]

\* There is such a table.
LEMMA CompressingExists ==
  ASSUME NEW cache, NEW q \in Seq(Tx) PROVE \E c : Compressing(cache, q, c)
<1> DEFINE UpTo(n, c) == c = [k \in 0..n |-> IF k = 0 THEN Uncompressed(cache) ELSE CompressTx(c[k - 1], q[k])]
           S == {n \in Nat : \E c : UpTo(n, c)}
<1>1. 0 \in S
  <2>1. UpTo(0, [k \in 0..0 |-> Uncompressed(cache)])
    OBVIOUS
  <2> QED
    BY <2>1
<1>2. ASSUME NEW n \in Nat, n \in S PROVE n + 1 \in S
  <2>1. PICK c : UpTo(n, c)
    BY <1>2
  <2> DEFINE d == [k \in 0..(n + 1) |-> IF k = n + 1 THEN CompressTx(c[n], q[n + 1]) ELSE c[k]]
  <2>2. ASSUME NEW k \in 0..(n + 1)
        PROVE  d[k] = IF k = 0 THEN Uncompressed(cache) ELSE CompressTx(d[k - 1], q[k])
    <3>1. CASE k = 0
      <4>1. d[0] = c[0] /\ c[0] = Uncompressed(cache)
        BY <2>1
      <4> QED
        BY <3>1, <4>1
    <3>2. CASE k = n + 1
      <4>1. k # 0 /\ k - 1 = n /\ d[n] = c[n]
        BY <3>2
      <4> QED
        BY <3>2, <4>1
    <3>3. CASE k \in 1..n
      <4>1. k # 0 /\ k \in 0..n /\ k - 1 \in 0..n /\ d[k] = c[k] /\ d[k - 1] = c[k - 1]
        BY <3>3
      <4>2. c[k] = CompressTx(c[k - 1], q[k])
        BY <2>1, <4>1
      <4> QED
        BY <4>1, <4>2
    <3> QED
      BY <3>1, <3>2, <3>3
  <2>3. d = [k \in 0..(n + 1) |-> d[k]]
    OBVIOUS
  <2> HIDE DEF d
  <2>4. UpTo(n + 1, d)
    BY <2>2, <2>3
  <2> QED
    BY <2>4, SMTT(30)
<1> HIDE DEF S
<1>3. Len(q) \in S
  BY <1>1, <1>2, SetInduction
<1> QED
  BY <1>3 DEF S, Compressing

\* The loop ends in the last entry ...
LEMMA CompressingHolds ==
  ASSUME NEW cache, NEW q \in Seq(Tx)
  PROVE  \E c : /\ Compressing(cache, q, c) /\ CompressBlock(cache, q) = c[Len(q)]
               /\ c[0] = Uncompressed(cache) /\ \A n \in 1..Len(q) : c[n] = CompressTx(c[n - 1], q[n])
<1> DEFINE h == CHOOSE h : Compressing(cache, q, h)
<1>1. Compressing(cache, q, h)
  BY CompressingExists
<1>2. CompressBlock(cache, q) = h[Len(q)]
  BY DEF CompressBlock, h, Compressing, Uncompressed
<1> HIDE DEF h
<1>3. Len(q) \in Nat
  OBVIOUS
<1>4. h[0] = Uncompressed(cache)
  BY <1>1, <1>3 DEF Compressing
<1>5. \A n \in 1..Len(q) : n \in 0..Len(q) /\ n # 0
  BY <1>3
<1>6. \A n \in 1..Len(q) : h[n] = CompressTx(h[n - 1], q[n])
  BY <1>1, <1>5, Zenon DEF Compressing
<1> QED
  BY <1>1, <1>2, <1>4, <1>6

\* ... and so one more transaction is one more turn.
LEMMA CompressBlockFacts ==
  ASSUME NEW cache
  PROVE  /\ CompressBlock(cache, <<>>) = Uncompressed(cache)
         /\ \A q \in Seq(Tx), x \in Tx :
              CompressBlock(cache, Append(q, x)) = CompressTx(CompressBlock(cache, q), x)
<1>1. CompressBlock(cache, <<>>) = Uncompressed(cache)
  <2>1. ASSUME NEW e \in Seq(Tx), Len(e) = 0 PROVE CompressBlock(cache, e) = Uncompressed(cache)
    <3>1. PICK c : /\ CompressBlock(cache, e) = c[Len(e)] /\ c[0] = Uncompressed(cache)
                   /\ \A n \in 1..Len(e) : c[n] = CompressTx(c[n - 1], e[n])
      BY CompressingHolds
    <3> QED
      BY <2>1, <3>1
  <2>2. <<>> \in Seq(Tx) /\ Len(<<>>) = 0
    OBVIOUS
  <2> QED
    BY <2>1, <2>2
<1>2. ASSUME NEW q \in Seq(Tx), NEW x \in Tx
      PROVE  CompressBlock(cache, Append(q, x)) = CompressTx(CompressBlock(cache, q), x)
  <2> DEFINE r == Append(q, x)
  <2>1. r \in Seq(Tx) /\ Len(r) = Len(q) + 1 /\ Len(q) \in Nat /\ r[Len(q) + 1] = x
        /\ \A n \in 1..Len(q) : r[n] = q[n]
    OBVIOUS
  <2> HIDE DEF r
  <2>2. PICK c : /\ CompressBlock(cache, q) = c[Len(q)] /\ c[0] = Uncompressed(cache)
                 /\ \A n \in 1..Len(q) : c[n] = CompressTx(c[n - 1], q[n])
    BY CompressingHolds
  <2>3. PICK d : /\ CompressBlock(cache, r) = d[Len(r)] /\ d[0] = Uncompressed(cache)
                 /\ \A n \in 1..Len(r) : d[n] = CompressTx(d[n - 1], r[n])
    BY <2>1, CompressingHolds
  <2> DEFINE S == {n \in Nat : n <= Len(q) => d[n] = c[n]}
  <2>4. 0 \in S
    BY <2>2, <2>3
  <2>5. ASSUME NEW n \in Nat, n \in S PROVE n + 1 \in S
    <3> SUFFICES ASSUME n + 1 <= Len(q) PROVE d[n + 1] = c[n + 1]
      OBVIOUS
    <3>1. n + 1 \in 1..Len(q) /\ n + 1 \in 1..Len(r) /\ (n + 1) - 1 = n /\ n <= Len(q)
      BY <2>1
    <3>2. d[n] = c[n] /\ r[n + 1] = q[n + 1]
      BY <2>1, <2>5, <3>1
    <3>3. c[n + 1] = CompressTx(c[n], q[n + 1]) /\ d[n + 1] = CompressTx(d[n], r[n + 1])
      BY <2>2, <2>3, <3>1
    <3> QED
      BY <3>2, <3>3
  <2> HIDE DEF S
  <2>6. Len(q) \in S
    BY <2>1, <2>4, <2>5, SetInduction
  <2>7. d[Len(q)] = c[Len(q)]
    BY <2>1, <2>6 DEF S
  <2>8. Len(q) + 1 \in 1..Len(r) /\ (Len(q) + 1) - 1 = Len(q)
    BY <2>1
  <2>9. d[Len(q) + 1] = CompressTx(d[Len(q)], r[Len(q) + 1])
    BY <2>3, <2>8
  <2> QED
    BY <2>1, <2>2, <2>3, <2>7, <2>9 DEF r
<1> QED
  BY <1>1, <1>2

\* The references of the beginnings of a message.
NextPtr(l, e, n) == IF e.index = Mark THEN l ELSE Append(l, [index |-> e.index, pos |-> n])

Listing(q, c) ==
  c = [n \in 0..Len(q) |-> IF n = 0 THEN <<>> ELSE NextPtr(c[n - 1], q[n], n)]

\* There is such a table.
LEMMA ListingExists ==
  ASSUME NEW q \in Seq(Entry) PROVE \E c : Listing(q, c)
<1> DEFINE UpTo(n, c) == c = [k \in 0..n |-> IF k = 0 THEN <<>> ELSE NextPtr(c[k - 1], q[k], k)]
           S == {n \in Nat : \E c : UpTo(n, c)}
<1>1. 0 \in S
  <2>1. UpTo(0, [k \in 0..0 |-> <<>>])
    OBVIOUS
  <2> QED
    BY <2>1
<1>2. ASSUME NEW n \in Nat, n \in S PROVE n + 1 \in S
  <2>1. PICK c : UpTo(n, c)
    BY <1>2
  <2> DEFINE d == [k \in 0..(n + 1) |-> IF k = n + 1 THEN NextPtr(c[n], q[n + 1], n + 1) ELSE c[k]]
  <2>2. ASSUME NEW k \in 0..(n + 1)
        PROVE  d[k] = IF k = 0 THEN <<>> ELSE NextPtr(d[k - 1], q[k], k)
    <3>1. CASE k = 0
      <4>1. d[0] = c[0] /\ c[0] = <<>>
        BY <2>1
      <4> QED
        BY <3>1, <4>1
    <3>2. CASE k = n + 1
      <4>1. k # 0 /\ k - 1 = n /\ d[n] = c[n]
        BY <3>2
      <4> QED
        BY <3>2, <4>1
    <3>3. CASE k \in 1..n
      <4>1. k # 0 /\ k \in 0..n /\ k - 1 \in 0..n /\ d[k] = c[k] /\ d[k - 1] = c[k - 1]
        BY <3>3
      <4>2. c[k] = NextPtr(c[k - 1], q[k], k)
        BY <2>1, <4>1
      <4> QED
        BY <4>1, <4>2
    <3> QED
      BY <3>1, <3>2, <3>3
  <2>3. d = [k \in 0..(n + 1) |-> d[k]]
    OBVIOUS
  <2> HIDE DEF d
  <2>4. UpTo(n + 1, d)
    BY <2>2, <2>3
  <2> QED
    BY <2>4
<1> HIDE DEF S
<1>3. Len(q) \in S
  BY <1>1, <1>2, SetInduction
<1> QED
  BY <1>3 DEF S, Listing

\* The loop ends in the last entry ...
LEMMA ListingHolds ==
  ASSUME NEW q \in Seq(Entry)
  PROVE  \E c : /\ Listing(q, c) /\ txn_ptrs(q) = c[Len(q)]
               /\ c[0] = <<>> /\ \A n \in 1..Len(q) : c[n] = NextPtr(c[n - 1], q[n], n)
<1> DEFINE h == CHOOSE h : Listing(q, h)
<1>1. Listing(q, h)
  BY ListingExists
<1>2. txn_ptrs(q) = h[Len(q)]
  BY DEF txn_ptrs, h, Listing, NextPtr
<1> HIDE DEF h
<1>3. Len(q) \in Nat
  OBVIOUS
<1>4. h[0] = <<>>
  BY <1>1, <1>3 DEF Listing
<1>5. \A n \in 1..Len(q) : n \in 0..Len(q) /\ n # 0
  BY <1>3
<1>6. \A n \in 1..Len(q) : h[n] = NextPtr(h[n - 1], q[n], n)
  BY <1>1, <1>5, Zenon DEF Listing
<1> QED
  BY <1>1, <1>2, <1>4, <1>6

\* ... and so one more entry is one more turn.
LEMMA txn_ptrs_Facts ==
  /\ txn_ptrs(<<>>) = <<>>
         /\ \A q \in Seq(Entry), x \in Entry :
              txn_ptrs(Append(q, x)) = NextPtr(txn_ptrs(q), x, Len(q) + 1)
<1>1. txn_ptrs(<<>>) = <<>>
  <2>1. ASSUME NEW e \in Seq(Entry), Len(e) = 0 PROVE txn_ptrs(e) = <<>>
    <3>1. PICK c : /\ txn_ptrs(e) = c[Len(e)] /\ c[0] = <<>>
                   /\ \A n \in 1..Len(e) : c[n] = NextPtr(c[n - 1], e[n], n)
      BY ListingHolds
    <3> QED
      BY <2>1, <3>1
  <2>2. <<>> \in Seq(Entry) /\ Len(<<>>) = 0
    OBVIOUS
  <2> QED
    BY <2>1, <2>2
<1>2. ASSUME NEW q \in Seq(Entry), NEW x \in Entry
      PROVE  txn_ptrs(Append(q, x)) = NextPtr(txn_ptrs(q), x, Len(q) + 1)
  <2> DEFINE r == Append(q, x)
  <2>1. r \in Seq(Entry) /\ Len(r) = Len(q) + 1 /\ Len(q) \in Nat /\ r[Len(q) + 1] = x
        /\ \A n \in 1..Len(q) : r[n] = q[n]
    OBVIOUS
  <2> HIDE DEF r
  <2>2. PICK c : /\ txn_ptrs(q) = c[Len(q)] /\ c[0] = <<>>
                 /\ \A n \in 1..Len(q) : c[n] = NextPtr(c[n - 1], q[n], n)
    BY ListingHolds
  <2>3. PICK d : /\ txn_ptrs(r) = d[Len(r)] /\ d[0] = <<>>
                 /\ \A n \in 1..Len(r) : d[n] = NextPtr(d[n - 1], r[n], n)
    BY <2>1, ListingHolds
  <2> DEFINE S == {n \in Nat : n <= Len(q) => d[n] = c[n]}
  <2>4. 0 \in S
    BY <2>2, <2>3
  <2>5. ASSUME NEW n \in Nat, n \in S PROVE n + 1 \in S
    <3> SUFFICES ASSUME n + 1 <= Len(q) PROVE d[n + 1] = c[n + 1]
      OBVIOUS
    <3>1. n + 1 \in 1..Len(q) /\ n + 1 \in 1..Len(r) /\ (n + 1) - 1 = n /\ n <= Len(q)
      BY <2>1
    <3>2. d[n] = c[n] /\ r[n + 1] = q[n + 1]
      BY <2>1, <2>5, <3>1
    <3>3. c[n + 1] = NextPtr(c[n], q[n + 1], n + 1) /\ d[n + 1] = NextPtr(d[n], r[n + 1], n + 1)
      BY <2>2, <2>3, <3>1
    <3> QED
      BY <3>2, <3>3
  <2> HIDE DEF S
  <2>6. Len(q) \in S
    BY <2>1, <2>4, <2>5, SetInduction
  <2>7. d[Len(q)] = c[Len(q)]
    BY <2>1, <2>6 DEF S
  <2>8. Len(q) + 1 \in 1..Len(r) /\ (Len(q) + 1) - 1 = Len(q)
    BY <2>1
  <2>9. d[Len(q) + 1] = NextPtr(d[Len(q)], r[Len(q) + 1], Len(q) + 1)
    BY <2>3, <2>8
  <2> QED
    BY <2>1, <2>2, <2>3, <2>7, <2>9 DEF r
<1> QED
  BY <1>1, <1>2

----------------------------------------------------------------------------
(***************************************************************************)
(* A block through the compressor and back.                                *)
(***************************************************************************)
\* A cache in which a position is never the mark.
Cache == {q \in Seq(Tx) : IsInjective(q) /\ Len(q) <= Mark}

\* What is known of such a cache.
LEMMA CacheFacts ==
  ASSUME NEW q \in Cache
  PROVE  q \in Seq(Tx) /\ Len(q) \in Nat /\ Len(q) <= Mark /\ \A j, k \in 1..Len(q) : q[j] = q[k] => j = k
BY DEF Cache, IsInjective

\* It stays such a cache when a transaction is taken out.
LEMMA CacheWithout ==
  ASSUME NEW q \in Cache, NEW k \in 1..Len(q)
  PROVE  RemoveAt(q, k) \in Cache
<1>0. q \in Seq(Tx) /\ IsInjective(q) /\ Len(q) <= Mark /\ Len(q) \in Nat
  BY DEF Cache
<1>1. RemoveAt(q, k) \in Seq(Tx) /\ Len(RemoveAt(q, k)) = Len(q) - 1 /\ IsInjective(RemoveAt(q, k))
  BY <1>0, RemoveAtFacts, InjectiveWithout
<1> QED
  BY <1>0, <1>1, MarkFacts DEF Cache

\* One transaction of a block: a reference to the cache, or the transaction in full.
LEMMA CompressTxFacts ==
  ASSUME NEW s, s.cache \in Cache, NEW x \in Tx
  PROVE  LET u == CompressTx(s, x) IN
         \/ /\ x \notin ToSet(s.cache) /\ u.cache = s.cache
            /\ u.body = Append(s.body, [index |-> Mark, tx |-> x]) /\ [index |-> Mark, tx |-> x] \in Entry
         \/ \E k \in 1..Len(s.cache) :
              /\ s.cache[k] = x /\ k - 1 \in 0..(Mark - 1) /\ u.cache = RemoveAt(s.cache, k)
              /\ u.body = Append(s.body, [index |-> k - 1, tx |-> NoTx])
              /\ [index |-> k - 1, tx |-> NoTx] \in Entry
<1>0. /\ s.cache \in Seq(Tx) /\ Len(s.cache) \in Nat /\ Len(s.cache) <= Mark
      /\ DOMAIN s.cache = 1..Len(s.cache)
  BY CacheFacts
<1>1. CASE x \notin ToSet(s.cache)
  <2>1. CompressTx(s, x) = [cache |-> s.cache, body |-> Append(s.body, [index |-> Mark, tx |-> x])]
    BY <1>1 DEF CompressTx
  <2>2. [index |-> Mark, tx |-> x] \in Entry
    BY DEF Entry
  <2> QED
    BY <1>1, <2>1, <2>2
<1>2. CASE x \in ToSet(s.cache)
  <2> DEFINE k == CHOOSE k \in 1..Len(s.cache) : s.cache[k] = x
  <2>1. \E i \in 1..Len(s.cache) : s.cache[i] = x
    BY <1>0, <1>2 DEF ToSet
  <2>2. k \in 1..Len(s.cache) /\ s.cache[k] = x
    BY <2>1
  <2>3. CompressTx(s, x) = [cache |-> RemoveAt(s.cache, k), body |-> Append(s.body, [index |-> k - 1, tx |-> NoTx])]
    BY <1>2 DEF CompressTx
  <2> HIDE DEF k
  <2>4. k - 1 \in 0..(Mark - 1)
    BY <1>0, <2>2, MarkFacts
  <2>5. [index |-> k - 1, tx |-> NoTx] \in Entry
    BY <2>4 DEF Entry
  <2> QED
    BY <2>2, <2>3, <2>4, <2>5
<1> QED
  BY <1>1, <1>2

\* The references of any message: each is in another place of it.
LEMMA PtrsFacts ==
  ASSUME NEW body \in Seq(Entry)
  PROVE  LET p == txn_ptrs(body) IN
         p \in Seq(Ptr) /\ DistinctPoses(p) /\ \A i \in 1..Len(p) : p[i].pos \in 1..Len(body)
<1> DEFINE Fact(b, p) == p \in Seq(Ptr) /\ DistinctPoses(p) /\ \A i \in 1..Len(p) : p[i].pos \in 1..Len(b)
           P == {b \in Seq(Entry) : Fact(b, txn_ptrs(b))}
<1>1. <<>> \in P
  <2>1. txn_ptrs(<<>>) = <<>> /\ <<>> \in Seq(Entry) /\ <<>> \in Seq(Ptr) /\ Len(<<>>) = 0
    BY txn_ptrs_Facts
  <2>2. DistinctPoses(<<>>) /\ \A i \in 1..Len(<<>>) : <<>>[i].pos \in 1..Len(<<>>)
    BY <2>1 DEF DistinctPoses
  <2> QED
    BY <2>1, <2>2
<1>2. ASSUME NEW b \in Seq(Entry), NEW e \in Entry, b \in P PROVE Append(b, e) \in P
  <2> DEFINE a == Append(b, e)  p == txn_ptrs(b)  n == Len(b)  ptr == [index |-> e.index, pos |-> n + 1]
             q == Append(p, ptr)
  <2>1. a \in Seq(Entry) /\ Len(a) = n + 1 /\ n \in Nat
    OBVIOUS
  <2>2. txn_ptrs(a) = NextPtr(p, e, n + 1)
    BY txn_ptrs_Facts
  <2>3. p \in Seq(Ptr) /\ DistinctPoses(p) /\ \A i \in 1..Len(p) : p[i].pos \in 1..n
    BY <1>2
  <2> HIDE DEF a, p, n
  <2>4. n + 1 \notin 1..n /\ n + 1 \in 1..(n + 1) /\ \A i \in 1..n : i \in 1..(n + 1)
    BY <2>1
  <2>5. CASE e.index = Mark
    <3>1. txn_ptrs(a) = p
      BY <2>2, <2>5 DEF NextPtr
    <3>2. Fact(a, p)
      BY <2>1, <2>3, <2>4
    <3> QED
      BY <2>1, <3>1, <3>2 DEF a
  <2>6. CASE e.index # Mark
    <3>1. txn_ptrs(a) = q
      BY <2>2, <2>6 DEF NextPtr
    <3>2. ptr \in Ptr /\ ptr.pos = n + 1
      BY <2>1, <2>6 DEF Ptr, Entry
    <3> HIDE DEF ptr
    <3>3. q \in Seq(Ptr) /\ Len(q) = Len(p) + 1 /\ Len(p) \in Nat /\ q[Len(p) + 1] = ptr
          /\ \A i \in 1..Len(p) : q[i] = p[i]
      BY <2>3, <3>2
    <3> HIDE DEF q
    <3>4. ASSUME NEW i \in 1..(Len(p) + 1) PROVE i \in 1..Len(p) \/ i = Len(p) + 1
      BY <3>3
    <3>5. \A i \in 1..Len(p) : q[i].pos \in 1..n
      BY <2>3, <3>3
    <3>6. q[Len(p) + 1].pos = n + 1
      BY <3>2, <3>3
    <3>7. DistinctPoses(q)
      <4>1. \A i, j \in 1..Len(p) : q[i].pos = q[j].pos => i = j
        BY <2>3, <3>3 DEF DistinctPoses
      <4>2. ASSUME NEW i \in 1..(Len(p) + 1), NEW j \in 1..(Len(p) + 1), q[i].pos = q[j].pos PROVE i = j
        <5>1. CASE i \in 1..Len(p) /\ j \in 1..Len(p)
          BY <4>1, <4>2, <5>1
        <5>2. CASE i \in 1..Len(p) /\ j = Len(p) + 1
          BY <2>4, <3>5, <3>6, <4>2, <5>2
        <5>3. CASE i = Len(p) + 1 /\ j \in 1..Len(p)
          BY <2>4, <3>5, <3>6, <4>2, <5>3
        <5>4. CASE i = Len(p) + 1 /\ j = Len(p) + 1
          BY <5>4
        <5> QED
          BY <3>4, <5>1, <5>2, <5>3, <5>4
      <4> QED
        BY <3>3, <4>2 DEF DistinctPoses
    <3>8. \A i \in 1..Len(q) : q[i].pos \in 1..(n + 1)
      BY <2>4, <3>3, <3>4, <3>5, <3>6, Zenon
    <3>9. Fact(a, q)
      BY <2>1, <3>3, <3>7, <3>8
    <3> QED
      BY <2>1, <3>1, <3>9 DEF a
  <2> QED
    BY <2>5, <2>6
<1> HIDE DEF P
<1>3. body \in P
  BY <1>1, <1>2, ListInduction
<1> QED
  BY <1>3 DEF P

\* Whatever the message, decoding it ends in a state of the loop.
LEMMA DecompressType ==
  ASSUME NEW cache \in Seq(Tx), NEW body \in Seq(Entry)
  PROVE  DecompressBlock(cache, body) \in State(1..Len(body))
<1> DEFINE p == txn_ptrs(body)  D == 1..Len(body)  f == [m \in 1..Len(body) |-> body[m].tx]
           s == [ok |-> TRUE, cache |-> cache, txs |-> f]
<1>1. p \in Seq(Ptr) /\ DistinctPoses(p)
  BY PtrsFacts
<1>2. \A e \in Entry : e.tx \in Tx \cup {NoTx}
  BY DEF Entry
<1>3. s \in State(D)
  BY <1>2 DEF State
<1>4. DecompressBlock(cache, body) = TakeEach(s, tweak_sort(p))
  BY DEF DecompressBlock, TakeAll
<1> HIDE DEF s, D, p
<1>5. tweak_sort(p) \in Seq(Ptr)
  BY <1>1, SortFacts DEF SortedForm
<1> QED
  BY <1>3, <1>4, <1>5, TakeEachType DEF D

\* decompress_relay_block walks the cache once, from the front: after the sort the positions
\* never go down, for any message at all.  And it fails to find one exactly if the references
\* of the message, taken one by one in the order the sender wrote them, are not all found;
\* otherwise it finds the same transaction for each and leaves the same cache
\* (relayprocess.cpp:214-230, 278-311).
THEOREM TakenInOrder ==
  ASSUME NEW cache \in Seq(Tx), NEW body \in Seq(Entry)
  PROVE  LET p == txn_ptrs(body)  q == tweak_sort(p) IN
         /\ \A m, n \in 1..Len(q) : m < n => q[m].index <= q[n].index
         /\ DecompressBlock(cache, body).ok <=> TakeAll(cache, body, p).ok
         /\ TakeAll(cache, body, p).ok => DecompressBlock(cache, body) = TakeAll(cache, body, p)
<1> DEFINE p == txn_ptrs(body)  D == 1..Len(body)  f == [m \in 1..Len(body) |-> body[m].tx]
           s == [ok |-> TRUE, cache |-> cache, txs |-> f]
<1>1. p \in Seq(Ptr) /\ DistinctPoses(p)
  BY PtrsFacts
<1>2. \A e \in Entry : e.tx \in Tx \cup {NoTx}
  BY DEF Entry
<1>3. s \in State(D)
  BY <1>2 DEF State
<1>4. DecompressBlock(cache, body) = TakeEach(s, tweak_sort(p)) /\ TakeAll(cache, body, p) = TakeEach(s, p)
  BY DEF DecompressBlock, TakeAll
<1> HIDE DEF s, D, p
<1>5. SortedForm(D, p, tweak_sort(p))
  BY <1>1, SortFacts
<1> QED
  BY <1>3, <1>4, <1>5 DEF SortedForm, Sorted, Alike, p

\* What is put into the blank places of a message: f holds what it gives in full, and
\* the first transactions are those of the block.
Filled(f, l, D) == [m \in D |-> IF m \in 1..Len(l) THEN l[m] ELSE f[m]]

\* r is what the compressor has made of the beginning l of a block.
BodyOf(l, r) == r.cache \in Cache /\ r.body \in Seq(Entry) /\ Len(r.body) = Len(l)

\* Taking its references in the order of the message gives that beginning, and what it leaves of
\* the receiver's cache is what it left of the sender's.
Undone(cache, l, r) ==
  \A N \in Nat : \A f \in [1..N -> Tx \cup {NoTx}] :
    Len(l) <= N /\ (\A m \in 1..Len(l) : f[m] = r.body[m].tx) =>
      TakeEach([ok |-> TRUE, cache |-> cache, txs |-> f], txn_ptrs(r.body))
        = [ok |-> TRUE, cache |-> r.cache, txs |-> Filled(f, l, 1..N)]

\* One more transaction, which is sent in full ...
LEMMA FullTx ==
  ASSUME NEW cache \in Cache, NEW l \in Seq(Tx), NEW x \in Tx, NEW r, NEW u, NEW e \in Entry,
         BodyOf(l, r), Undone(cache, l, r),
         e.index = Mark, e.tx = x, u.cache = r.cache, u.body = Append(r.body, e)
  PROVE  BodyOf(Append(l, x), u) /\ Undone(cache, Append(l, x), u)
<1> DEFINE p == txn_ptrs(r.body)  n == Len(l)  m == Append(l, x)
<1>1. /\ r.body \in Seq(Entry) /\ Len(r.body) = n /\ n \in Nat
      /\ u.body \in Seq(Entry) /\ Len(u.body) = n + 1 /\ u.body[n + 1] = e
      /\ \A i \in 1..n : u.body[i] = r.body[i]
  BY DEF BodyOf
<1>2. m \in Seq(Tx) /\ Len(m) = n + 1 /\ m[n + 1] = x /\ \A i \in 1..n : m[i] = l[i]
  OBVIOUS
<1>3. txn_ptrs(u.body) = p
  BY <1>1, txn_ptrs_Facts DEF NextPtr
<1> HIDE DEF n, m
<1>4. BodyOf(m, u)
  BY <1>1, <1>2 DEF BodyOf
<1>5. ASSUME NEW N \in Nat, NEW f \in [1..N -> Tx \cup {NoTx}],
             n + 1 <= N, \A i \in 1..(n + 1) : f[i] = u.body[i].tx
      PROVE  TakeEach([ok |-> TRUE, cache |-> cache, txs |-> f], txn_ptrs(u.body))
               = [ok |-> TRUE, cache |-> u.cache, txs |-> Filled(f, m, 1..N)]
  <2>1. n <= N /\ n + 1 \in 1..(n + 1) /\ n + 1 \in 1..N /\ \A i \in 1..n : i \in 1..(n + 1)
    BY <1>1, <1>5
  <2>2. \A i \in 1..n : f[i] = r.body[i].tx
    BY <1>1, <1>5, <2>1
  <2>3. TakeEach([ok |-> TRUE, cache |-> cache, txs |-> f], p)
          = [ok |-> TRUE, cache |-> r.cache, txs |-> Filled(f, l, 1..N)]
    BY <2>1, <2>2 DEF Undone, n
  <2>4. f[n + 1] = x
    BY <1>1, <1>5, <2>1
  <2>5. Filled(f, l, 1..N) = Filled(f, m, 1..N)
    <3>1. ASSUME NEW i \in 1..N
          PROVE  (IF i \in 1..n THEN l[i] ELSE f[i]) = (IF i \in 1..(n + 1) THEN m[i] ELSE f[i])
      <4>1. CASE i \in 1..n
        BY <1>2, <2>1, <4>1
      <4>2. CASE i = n + 1
        <5>1. i \notin 1..n /\ i \in 1..(n + 1)
          BY <1>1, <4>2
        <5> QED
          BY <1>2, <2>4, <4>2, <5>1
      <4>3. CASE i > n + 1
        <5>1. i \notin 1..n /\ i \notin 1..(n + 1)
          BY <1>1, <4>3
        <5> QED
          BY <5>1
      <4>4. i \in 1..n \/ i = n + 1 \/ i > n + 1
        BY <1>1
      <4> QED
        BY <4>1, <4>2, <4>3, <4>4
    <3> QED
      BY <1>2, <3>1 DEF Filled, n
  <2> QED
    BY <1>3, <2>3, <2>5
<1>6. Undone(cache, m, u)
  BY <1>2, <1>5 DEF Undone
<1> QED
  BY <1>4, <1>6 DEF m

\* ... or as a reference to the cache.
LEMMA ReferredTx ==
  ASSUME NEW cache \in Cache, NEW l \in Seq(Tx), NEW x \in Tx, NEW r, NEW u, NEW e \in Entry,
         BodyOf(l, r), Undone(cache, l, r), NEW k \in 1..Len(r.cache), r.cache[k] = x,
         k - 1 \in 0..(Mark - 1), e.index = k - 1, e.tx = NoTx,
         u.cache = RemoveAt(r.cache, k), u.body = Append(r.body, e)
  PROVE  BodyOf(Append(l, x), u) /\ Undone(cache, Append(l, x), u)
<1> DEFINE p == txn_ptrs(r.body)  n == Len(l)  m == Append(l, x)
           ptr == [index |-> k - 1, pos |-> n + 1]  q == Append(p, ptr)
<1>1. /\ r.body \in Seq(Entry) /\ Len(r.body) = n /\ n \in Nat
      /\ u.body \in Seq(Entry) /\ Len(u.body) = n + 1 /\ u.body[n + 1] = e
      /\ \A i \in 1..n : u.body[i] = r.body[i]
  BY DEF BodyOf
<1>2. m \in Seq(Tx) /\ Len(m) = n + 1 /\ m[n + 1] = x /\ \A i \in 1..n : m[i] = l[i]
  OBVIOUS
<1>3. txn_ptrs(u.body) = q
  <2>1. txn_ptrs(u.body) = NextPtr(p, e, n + 1)
    BY <1>1, txn_ptrs_Facts
  <2>2. e.index # Mark
    BY MarkFacts
  <2> QED
    BY <2>1, <2>2 DEF NextPtr
<1>4. ptr \in Ptr /\ ptr.index = k - 1 /\ ptr.pos = n + 1
  BY <1>1 DEF Ptr
<1>5. p \in Seq(Ptr)
  BY <1>1, PtrsFacts
<1> HIDE DEF n, m, ptr, q
<1>7. BodyOf(m, u)
  <2>1. r.cache \in Cache
    BY DEF BodyOf
  <2>2. u.cache \in Cache
    BY <2>1, CacheWithout
  <2> QED
    BY <1>1, <1>2, <2>2 DEF BodyOf
<1>8. ASSUME NEW N \in Nat, NEW f \in [1..N -> Tx \cup {NoTx}],
             n + 1 <= N, \A i \in 1..(n + 1) : f[i] = u.body[i].tx
      PROVE  TakeEach([ok |-> TRUE, cache |-> cache, txs |-> f], txn_ptrs(u.body))
               = [ok |-> TRUE, cache |-> u.cache, txs |-> Filled(f, m, 1..N)]
  <2> DEFINE s == [ok |-> TRUE, cache |-> cache, txs |-> f]  v == TakeEach(s, p)
             g == Filled(f, l, 1..N)
  <2>1. n <= N /\ n + 1 \in 1..N /\ \A i \in 1..n : i \in 1..(n + 1) /\ i \in 1..N
    BY <1>1, <1>8
  <2>2. \A i \in 1..n : f[i] = r.body[i].tx
    BY <1>1, <1>8, <2>1
  <2>3. v = [ok |-> TRUE, cache |-> r.cache, txs |-> g]
    BY <2>1, <2>2 DEF Undone, n
  <2>4. TakeEach(s, q) = TakeFromCache(v, ptr)
    BY <1>4, <1>5, TakeEachFacts DEF q
  <2> HIDE DEF v
  <2>5. ptr.index < Len(r.cache) /\ ptr.index + 1 = k
    <3>1. r.cache \in Seq(Tx)
      BY CacheFacts DEF BodyOf
    <3> QED
      BY <1>4, <3>1
  <2>6. TakeFromCache(v, ptr) = [ok |-> TRUE, cache |-> RemoveAt(r.cache, k), txs |-> [g EXCEPT ![n + 1] = x]]
    BY <1>4, <2>3, <2>5 DEF TakeFromCache
  <2>7. [g EXCEPT ![n + 1] = x] = Filled(f, m, 1..N)
    <3>1. ASSUME NEW i \in 1..N
          PROVE  (IF i = n + 1 THEN x ELSE IF i \in 1..n THEN l[i] ELSE f[i])
                   = (IF i \in 1..(n + 1) THEN m[i] ELSE f[i])
      <4>1. CASE i \in 1..n
        <5>1. i # n + 1 /\ i \in 1..(n + 1)
          BY <1>1, <4>1
        <5> QED
          BY <1>2, <4>1, <5>1
      <4>2. CASE i = n + 1
        <5>1. i \in 1..(n + 1)
          BY <1>1, <4>2
        <5> QED
          BY <1>2, <4>2, <5>1
      <4>3. CASE i > n + 1
        <5>1. i \notin 1..n /\ i \notin 1..(n + 1) /\ i # n + 1
          BY <1>1, <4>3
        <5> QED
          BY <5>1
      <4>4. i \in 1..n \/ i = n + 1 \/ i > n + 1
        BY <1>1
      <4> QED
        BY <4>1, <4>2, <4>3, <4>4
    <3>2. g = [i \in 1..N |-> IF i \in 1..n THEN l[i] ELSE f[i]]
      BY DEF Filled, n
    <3>3. [g EXCEPT ![n + 1] = x] = [i \in 1..N |-> IF i = n + 1 THEN x ELSE IF i \in 1..n THEN l[i] ELSE f[i]]
      BY <3>2
    <3>4. Filled(f, m, 1..N) = [i \in 1..N |-> IF i \in 1..(n + 1) THEN m[i] ELSE f[i]]
      BY <1>2 DEF Filled
    <3> QED
      BY <3>1, <3>3, <3>4
  <2> HIDE DEF s, g
  <2> QED
    BY <1>3, <2>4, <2>6, <2>7 DEF s
<1>9. Undone(cache, m, u)
  BY <1>2, <1>8 DEF Undone
<1> QED
  BY <1>7, <1>9 DEF m

\* So for every block.
LEMMA CompressedFacts ==
  ASSUME NEW cache \in Cache, NEW block \in Seq(Tx)
  PROVE  LET r == CompressBlock(cache, block) IN BodyOf(block, r) /\ Undone(cache, block, r)
<1> DEFINE R(l) == CompressBlock(cache, l)
           P == {l \in Seq(Tx) : BodyOf(l, R(l)) /\ Undone(cache, l, R(l))}
<1>1. <<>> \in P
  <2> DEFINE r == R(<<>>)
  <2>1. r = Uncompressed(cache)
    BY CompressBlockFacts
  <2>2. r.cache = cache /\ r.body = <<>> /\ txn_ptrs(<<>>) = <<>>
    BY <2>1, txn_ptrs_Facts DEF Uncompressed
  <2>3. Len(<<>>) = 0 /\ <<>> \in Seq(Tx) /\ <<>> \in Seq(Entry) /\ <<>> \in Seq(Ptr)
    OBVIOUS
  <2> HIDE DEF r
  <2>4. BodyOf(<<>>, r)
    BY <2>2, <2>3 DEF BodyOf
  <2>5. Undone(cache, <<>>, r)
    <3> SUFFICES ASSUME NEW N \in Nat, NEW f \in [1..N -> Tx \cup {NoTx}]
                 PROVE  TakeEach([ok |-> TRUE, cache |-> cache, txs |-> f], <<>>)
                          = [ok |-> TRUE, cache |-> cache, txs |-> Filled(f, <<>>, 1..N)]
      BY <2>2 DEF Undone
    <3>1. Filled(f, <<>>, 1..N) = f
      BY <2>3 DEF Filled
    <3> DEFINE s == [ok |-> TRUE, cache |-> cache, txs |-> f]
    <3>2. TakeEach(s, <<>>) = s
      BY TakeEachFacts
    <3> QED
      BY <3>1, <3>2
  <2> QED
    BY <2>3, <2>4, <2>5 DEF r
<1>2. ASSUME NEW l \in Seq(Tx), NEW x \in Tx, l \in P PROVE Append(l, x) \in P
  <2> DEFINE r == R(l)  u == R(Append(l, x))
  <2>1. u = CompressTx(r, x)
    BY CompressBlockFacts
  <2>2. BodyOf(l, r) /\ Undone(cache, l, r) /\ r.cache \in Cache
    BY <1>2 DEF BodyOf
  <2>3. Append(l, x) \in Seq(Tx)
    OBVIOUS
  <2> HIDE DEF r, u
  <2>4. \/ /\ x \notin ToSet(r.cache) /\ u.cache = r.cache
           /\ u.body = Append(r.body, [index |-> Mark, tx |-> x]) /\ [index |-> Mark, tx |-> x] \in Entry
        \/ \E k \in 1..Len(r.cache) :
             /\ r.cache[k] = x /\ k - 1 \in 0..(Mark - 1) /\ u.cache = RemoveAt(r.cache, k)
             /\ u.body = Append(r.body, [index |-> k - 1, tx |-> NoTx])
             /\ [index |-> k - 1, tx |-> NoTx] \in Entry
    BY <2>1, <2>2, CompressTxFacts
  <2>5. BodyOf(Append(l, x), u) /\ Undone(cache, Append(l, x), u)
    <3>1. CASE /\ x \notin ToSet(r.cache) /\ u.cache = r.cache
               /\ u.body = Append(r.body, [index |-> Mark, tx |-> x]) /\ [index |-> Mark, tx |-> x] \in Entry
      <4> DEFINE e == [index |-> Mark, tx |-> x]
      <4>1. e \in Entry /\ e.index = Mark /\ e.tx = x /\ u.body = Append(r.body, e) /\ u.cache = r.cache
        BY <3>1
      <4> HIDE DEF e
      <4> QED
        BY <2>2, <4>1, FullTx
    <3>2. CASE \E k \in 1..Len(r.cache) :
                 /\ r.cache[k] = x /\ k - 1 \in 0..(Mark - 1) /\ u.cache = RemoveAt(r.cache, k)
                 /\ u.body = Append(r.body, [index |-> k - 1, tx |-> NoTx])
                 /\ [index |-> k - 1, tx |-> NoTx] \in Entry
      <4>1. PICK k \in 1..Len(r.cache) :
                 /\ r.cache[k] = x /\ k - 1 \in 0..(Mark - 1) /\ u.cache = RemoveAt(r.cache, k)
                 /\ u.body = Append(r.body, [index |-> k - 1, tx |-> NoTx])
                 /\ [index |-> k - 1, tx |-> NoTx] \in Entry
        BY <3>2
      <4> DEFINE e == [index |-> k - 1, tx |-> NoTx]
      <4>2. e \in Entry /\ e.index = k - 1 /\ e.tx = NoTx /\ u.body = Append(r.body, e)
        BY <4>1
      <4> HIDE DEF e
      <4> QED
        BY <2>2, <4>1, <4>2, ReferredTx
    <3> QED
      BY <2>4, <3>1, <3>2
  <2> QED
    BY <2>3, <2>5 DEF u
<1> HIDE DEF P
<1>3. block \in P
  BY <1>1, <1>2, ListInduction
<1> QED
  BY <1>3 DEF P

\* A block that is compressed against a cache and rebuilt from an equal one comes back as
\* it was, and the two caches are equal again: whatever the order in which
\* decompress_relay_block walks the cache, and for any block, also one with a transaction
\* twice (relayprocess.cpp:160-235, 278-395).
THEOREM RoundTrip ==
  ASSUME NEW cache \in Cache, NEW block \in Seq(Tx)
  PROVE  LET r == CompressBlock(cache, block) IN
         DecompressBlock(cache, r.body) = [ok |-> TRUE, cache |-> r.cache, txs |-> block]
<1> DEFINE r == CompressBlock(cache, block)  N == Len(block)  p == txn_ptrs(r.body)
           f == [m \in 1..Len(r.body) |-> r.body[m].tx]  s == [ok |-> TRUE, cache |-> cache, txs |-> f]
<1>1. BodyOf(block, r) /\ Undone(cache, block, r)
  BY CompressedFacts
<1> HIDE DEF r
<1>2. /\ r.body \in Seq(Entry) /\ Len(r.body) = N /\ N \in Nat /\ r.cache \in Cache
      /\ p \in Seq(Ptr) /\ DistinctPoses(p)
  BY <1>1, PtrsFacts DEF BodyOf
<1>3. f \in [1..N -> Tx \cup {NoTx}] /\ \A m \in 1..N : f[m] = r.body[m].tx
  <2>1. \A m \in 1..N : r.body[m] \in Entry
    BY <1>2
  <2>2. \A e \in Entry : e.tx \in Tx \cup {NoTx}
    BY DEF Entry
  <2> QED
    BY <1>2, <2>1, <2>2
<1> HIDE DEF f, p
<1>4. TakeEach(s, p) = [ok |-> TRUE, cache |-> r.cache, txs |-> Filled(f, block, 1..N)]
  <2>1. N <= N
    BY <1>2
  <2> QED
    BY <1>1, <1>2, <1>3, <2>1 DEF Undone, p
<1>5. s \in State(1..N)
  BY <1>3, CacheFacts DEF State
<1>6. SortedForm(1..N, p, tweak_sort(p))
  BY <1>2, SortFacts
<1>7. TakeEach(s, p).ok
  BY <1>4
<1>8. TakeEach(s, tweak_sort(p)) = TakeEach(s, p)
  BY <1>5, <1>6, <1>7 DEF SortedForm, Alike
<1>9. Filled(f, block, 1..N) = block
  <2>1. block \in [1..N -> Tx]
    BY LenProperties
  <2>2. Filled(f, block, 1..N) = [m \in 1..N |-> block[m]]
    BY DEF Filled
  <2> QED
    BY <2>1, <2>2
<1>10. DecompressBlock(cache, r.body) = TakeEach(s, tweak_sort(p))
  BY DEF DecompressBlock, TakeAll, f, p
<1> QED
  BY <1>4, <1>8, <1>9, <1>10 DEF r

----------------------------------------------------------------------------
(***************************************************************************)
(* What the caches hold.                                                   *)
(***************************************************************************)
LEMMA LimitFacts ==
  /\ Size \in [Tx -> Nat]
  /\ MAX_TXN_IN_FAS \in Nat \ {0} /\ MAX_TXN_IN_FAS <= Mark
  /\ OLD_MAX_TXN_IN_FAS \in Nat \ {0} /\ OLD_MAX_TXN_IN_FAS <= Mark
  /\ MAX_FAS_TOTAL_SIZE \in Nat /\ MAX_RELAY_TRANSACTION_BYTES \in Nat
  /\ MAX_RELAY_TRANSACTION_BYTES <= MAX_FAS_TOTAL_SIZE
  /\ OLD_MAX_RELAY_TRANSACTION_BYTES \in Nat /\ OLD_MAX_RELAY_OVERSIZE_TRANSACTION_BYTES \in Nat
  /\ OLD_MAX_EXTRA_OVERSIZE_TRANSACTIONS \in Nat
BY CodecAssumption, MarkFacts

\* The flag of one transaction, ...
LEMMA FlagFacts ==
  ASSUME NEW t \in CompressorType, NEW x \in Tx
  PROVE  Flag(t, x) \in Nat /\ (t = 1 => Flag(t, x) = IF Oversize(x) THEN 1 ELSE 0) /\ (t = 0 => Flag(t, x) = Size[x])
BY LimitFacts DEF Flag, CompressorType

\* ... and of those in a cache.
Flags(t, q) == [k \in 1..Len(q) |-> Flag(t, q[k])]

\* Their sum, ...
LEMMA FlagsFacts ==
  ASSUME NEW t \in CompressorType, NEW q \in Seq(Tx)
  PROVE  /\ Flags(t, q) \in Seq(Nat) /\ Flags(t, q) \in Seq(Int) /\ Len(Flags(t, q)) = Len(q)
         /\ \A k \in 1..Len(q) : Flags(t, q)[k] = Flag(t, q[k])
         /\ flagCount(t, q) = SumSeq(Flags(t, q)) /\ flagCount(t, q) \in Nat
<1>0. Len(q) \in Nat /\ \A k \in 1..Len(q) : q[k] \in Tx
  OBVIOUS
<1>1. \A k \in 1..Len(q) : Flag(t, q[k]) \in Nat
  BY <1>0, FlagFacts
<1>2. Flags(t, q) \in [1..Len(q) -> Nat]
  BY <1>1 DEF Flags
<1>3. Flags(t, q) \in Seq(Nat) /\ Len(Flags(t, q)) = Len(q)
  BY <1>0, <1>2, SeqDef, LenProperties
<1>4. Flags(t, q) \in Seq(Int)
  BY <1>3
<1>5. flagCount(t, q) = SumSeq(Flags(t, q))
  BY DEF flagCount, Flags
<1>6. flagCount(t, q) \in Nat
  BY <1>3, <1>5, SumNat
<1> QED
  BY <1>3, <1>4, <1>5, <1>6 DEF Flags

\* ... when a transaction is added, ...
LEMMA FlagCountAppend ==
  ASSUME NEW t \in CompressorType, NEW q \in Seq(Tx), NEW x \in Tx
  PROVE  flagCount(t, Append(q, x)) = flagCount(t, q) + Flag(t, x)
<1> DEFINE r == Append(q, x)  n == Len(q)
<1>1. r \in Seq(Tx) /\ Len(r) = n + 1 /\ n \in Nat /\ r[n + 1] = x /\ \A k \in 1..n : r[k] = q[k]
  OBVIOUS
<1> HIDE DEF r
<1>2. /\ Flags(t, q) \in Seq(Int) /\ Len(Flags(t, q)) = n /\ flagCount(t, q) = SumSeq(Flags(t, q))
      /\ \A k \in 1..n : Flags(t, q)[k] = Flag(t, q[k])
  BY FlagsFacts
<1>3. /\ Flags(t, r) \in Seq(Int) /\ Len(Flags(t, r)) = n + 1 /\ flagCount(t, r) = SumSeq(Flags(t, r))
      /\ \A k \in 1..(n + 1) : Flags(t, r)[k] = Flag(t, r[k])
  BY <1>1, FlagsFacts
<1>4. Flag(t, x) \in Int
  BY FlagFacts
<1> DEFINE a == Append(Flags(t, q), Flag(t, x))
<1>5. a \in Seq(Int) /\ Len(a) = n + 1 /\ a[n + 1] = Flag(t, x) /\ \A k \in 1..n : a[k] = Flags(t, q)[k]
  BY <1>2, <1>4
<1>6. SumSeq(a) = SumSeq(Flags(t, q)) + Flag(t, x)
  BY <1>2, <1>4, SumAppend
<1> HIDE DEF a
<1>7. ASSUME NEW k \in 1..(n + 1) PROVE Flags(t, r)[k] = a[k]
  <2>1. CASE k = n + 1
    BY <1>1, <1>3, <1>5, <2>1
  <2>2. CASE k # n + 1
    <3>1. k \in 1..n
      BY <1>1, <2>2
    <3> QED
      BY <1>1, <1>2, <1>3, <1>5, <3>1
  <2> QED
    BY <2>1, <2>2
<1>8. Flags(t, r) = a
  BY <1>3, <1>5, <1>7, SeqEqual
<1> QED
  BY <1>2, <1>3, <1>6, <1>8 DEF r

\* ... when one is taken out, ...
LEMMA FlagCountWithout ==
  ASSUME NEW t \in CompressorType, NEW q \in Seq(Tx), NEW i \in 1..Len(q)
  PROVE  flagCount(t, RemoveAt(q, i)) <= flagCount(t, q)
<1> DEFINE r == RemoveAt(q, i)  n == Len(q)
<1>0. n \in Nat /\ i \in 1..n /\ q[i] \in Tx
  OBVIOUS
<1>1. r \in Seq(Tx) /\ Len(r) = n - 1 /\ \A k \in 1..(n - 1) : r[k] = IF k < i THEN q[k] ELSE q[k + 1]
  BY RemoveAtFacts
<1> HIDE DEF r
<1>2. /\ Flags(t, q) \in Seq(Int) /\ Len(Flags(t, q)) = n /\ flagCount(t, q) = SumSeq(Flags(t, q))
      /\ \A k \in 1..n : Flags(t, q)[k] = Flag(t, q[k])
  BY FlagsFacts
<1>3. /\ Flags(t, r) \in Seq(Int) /\ Len(Flags(t, r)) = n - 1 /\ flagCount(t, r) = SumSeq(Flags(t, r))
      /\ \A k \in 1..(n - 1) : Flags(t, r)[k] = Flag(t, r[k])
  BY <1>1, FlagsFacts
<1>4. ASSUME NEW k \in 1..(n - 1)
      PROVE  Flags(t, r)[k] = IF k < i THEN Flags(t, q)[k] ELSE Flags(t, q)[k + 1]
  <2>1. k \in 1..n /\ k + 1 \in 1..n
    BY <1>0
  <2> QED
    BY <1>1, <1>2, <1>3, <2>1
<1>5. SumSeq(Flags(t, r)) = SumSeq(Flags(t, q)) - Flags(t, q)[i]
  <2> DEFINE a == Flags(t, q)  b == Flags(t, r)
  <2>1. a \in Seq(Int) /\ b \in Seq(Int) /\ i \in 1..Len(a) /\ Len(b) = Len(a) - 1
        /\ \A k \in 1..(Len(a) - 1) : b[k] = IF k < i THEN a[k] ELSE a[k + 1]
    BY <1>0, <1>2, <1>3, <1>4
  <2> HIDE DEF a, b
  <2>2. SumSeq(b) = SumSeq(a) - a[i]
    BY <2>1, SumWithout
  <2> QED
    BY <2>2 DEF a, b
<1>6. Flags(t, q)[i] \in Nat /\ flagCount(t, q) \in Nat /\ flagCount(t, r) \in Nat
  BY <1>0, <1>1, <1>2, FlagFacts, FlagsFacts
<1> QED
  BY <1>2, <1>3, <1>5, <1>6 DEF r

\* ... and when there is none.
LEMMA FlagCountEmpty == ASSUME NEW t PROVE flagCount(t, <<>>) = 0
<1>1. [k \in 1..Len(<<>>) |-> Flag(t, <<>>[k])] = <<>>
  OBVIOUS
<1> QED
  BY <1>1, SumEmpty DEF flagCount

----------------------------------------------------------------------------
\* Whether the receiver lets x in, the number of oversize ones apart.
Acceptable(t, x) ==
  IF t = 0 THEN Size[x] <= MAX_RELAY_TRANSACTION_BYTES
  ELSE Oversize(x) => Size[x] <= OLD_MAX_RELAY_OVERSIZE_TRANSACTION_BYTES

\* A list of transactions the receiver could be sent one after the other ...
Sound(t, q) ==
  /\ q \in Seq(Tx) /\ IsInjective(q) /\ \A k \in 1..Len(q) : Acceptable(t, q[k])
  /\ t = 1 => flagCount(1, q) <= OLD_MAX_EXTRA_OVERSIZE_TRANSACTIONS

\* ... and none of which would have left the cache by then.
Good(t, q) == Sound(t, q) /\ Within(t, q)

\* The positions in such a cache are never the mark.
LEMMA GoodCache == ASSUME NEW t \in CompressorType, NEW q, Good(t, q) PROVE q \in Cache
<1>1. q \in Seq(Tx) /\ IsInjective(q) /\ Len(q) \in Nat
  BY DEF Good, Sound
<1>2. Len(q) <= Mark
  BY <1>1, LimitFacts, MarkFacts DEF Good, Within, CompressorType
<1> QED
  BY <1>1, <1>2 DEF Cache

\* The caches start so.
LEMMA EmptyGood == ASSUME NEW t \in CompressorType PROVE Good(t, <<>>)
<1>1. <<>> \in Seq(Tx) /\ Len(<<>>) = 0 /\ IsInjective(<<>>) /\ \A k \in 1..Len(<<>>) : Acceptable(t, <<>>[k])
  BY DEF IsInjective
<1> QED
  BY <1>1, FlagCountEmpty, LimitFacts DEF Good, Sound, Within, CompressorType

\* They stay so when a transaction is taken out.
LEMMA SoundWithout ==
  ASSUME NEW t \in CompressorType, NEW q, Sound(t, q), NEW i \in 1..Len(q)
  PROVE  Sound(t, RemoveAt(q, i)) /\ (Within(t, q) => Within(t, RemoveAt(q, i)))
<1> DEFINE r == RemoveAt(q, i)  n == Len(q)
<1>0. q \in Seq(Tx) /\ n \in Nat /\ IsInjective(q) /\ DOMAIN q = 1..n
  BY DEF Sound
<1>1. r \in Seq(Tx) /\ Len(r) = n - 1 /\ \A k \in 1..(n - 1) : r[k] = IF k < i THEN q[k] ELSE q[k + 1]
  BY <1>0, RemoveAtFacts
<1>2. \A u \in CompressorType : flagCount(u, r) <= flagCount(u, q) /\ flagCount(u, r) \in Nat /\ flagCount(u, q) \in Nat
  BY <1>0, <1>1, FlagCountWithout, FlagsFacts
<1> HIDE DEF r
<1>3. ASSUME NEW k \in 1..(n - 1) PROVE Acceptable(t, r[k])
  <2>1. k \in 1..n /\ k + 1 \in 1..n
    BY <1>0
  <2> QED
    BY <1>1, <2>1 DEF Sound
<1>4. IsInjective(r)
  BY <1>0, InjectiveWithout DEF r
<1>5. Sound(t, r)
  BY <1>1, <1>2, <1>3, <1>4, LimitFacts DEF Sound, CompressorType
<1>6. ASSUME Within(t, q) PROVE Within(t, r)
  BY <1>0, <1>1, <1>2, <1>6, LimitFacts DEF Within, CompressorType
<1> QED
  BY <1>5, <1>6 DEF r

----------------------------------------------------------------------------
(***************************************************************************)
(* How transactions enter the caches.                                      *)
(***************************************************************************)
LEMMA SoundBeyond ==
  ASSUME NEW t \in CompressorType, NEW q, Sound(t, q), NEW m \in 0..Len(q)
  PROVE  Sound(t, Beyond(q, m))
<1>0. q \in Seq(Tx) /\ Len(q) \in Nat /\ m \in Nat /\ m <= Len(q)
  BY DEF Sound
<1> DEFINE S == {n \in Nat : n <= Len(q) => Sound(t, Beyond(q, n))}
<1>1. 0 \in S
  BY <1>0, BeyondSteps
<1>2. ASSUME NEW n \in Nat, n \in S PROVE n + 1 \in S
  <2> SUFFICES ASSUME n + 1 <= Len(q) PROVE Sound(t, Beyond(q, n + 1))
    OBVIOUS
  <2>1. n <= Len(q) /\ n \in 0..(Len(q) - 1)
    BY <1>0
  <2>2. Sound(t, Beyond(q, n)) /\ 1 \in 1..Len(Beyond(q, n)) /\ Beyond(q, n + 1) = RemoveAt(Beyond(q, n), 1)
    BY <1>0, <1>2, <2>1, BeyondSteps
  <2> QED
    BY <2>2, SoundWithout
<1> HIDE DEF S
<1>3. m \in S
  BY <1>0, <1>1, <1>2, SetInduction
<1> QED
  BY <1>0, <1>3 DEF S

\* FlaggedArraySet::add keeps the type, whatever is added.
LEMMA CacheAddType ==
  ASSUME NEW t \in CompressorType, NEW q \in Seq(Tx), NEW x \in Tx
  PROVE  CacheAdd(t, q, x) \in Seq(Tx)
<1>1. CASE x \in ToSet(q)
  BY <1>1 DEF CacheAdd
<1>2. CASE x \notin ToSet(q)
  <2> DEFINE a == Append(q, x)  l == Len(a)
             S == {n \in 0..l : Within(t, Beyond(a, n))}  m == Min(S)
  <2>1. CacheAdd(t, q, x) = Beyond(a, m)
    BY <1>2 DEF CacheAdd, Beyond
  <2>2. a \in Seq(Tx) /\ l \in Nat
    OBVIOUS
  <2> HIDE DEF a
  <2>3. Within(t, Beyond(a, l))
    BY <2>2, BeyondSteps, EmptyGood DEF Good
  <2>4. S \subseteq Nat /\ l \in S
    BY <2>2, <2>3
  <2>5. m \in S
    <3> HIDE DEF S
    <3> QED
      BY <2>4, MinFacts
  <2>6. m \in 0..l
    BY <2>5
  <2> HIDE DEF m
  <2> QED
    BY <2>1, <2>2, <2>6, BeyondFacts
<1> QED
  BY <1>1, <1>2

\* It keeps the cache good, has the new transaction in it afterwards, and drops none if
\* there is room.
LEMMA CacheAddFacts ==
  ASSUME NEW t \in CompressorType, NEW q \in Seq(Tx), NEW x \in Tx, x \notin ToSet(q),
         Sound(t, Append(q, x))
  PROVE  /\ Good(t, CacheAdd(t, q, x)) /\ x \in ToSet(CacheAdd(t, q, x))
         /\ Within(t, Append(q, x)) => CacheAdd(t, q, x) = Append(q, x)
<1> DEFINE a == Append(q, x)  l == Len(a)
           S == {n \in 0..l : Within(t, Beyond(a, n))}  m == Min(S)
<1>1. CacheAdd(t, q, x) = Beyond(a, m)
  BY DEF CacheAdd, Beyond
<1>2. a \in Seq(Tx) /\ l = Len(q) + 1 /\ l \in Nat \ {0} /\ a[l] = x /\ Sound(t, a)
  OBVIOUS
<1> HIDE DEF a
<1>3. l - 1 \in 0..l /\ l - (l - 1) = 1 /\ (l - 1) + 1 = l /\ l - 1 \in Nat
  BY <1>2
<1>4. Beyond(a, l - 1) \in Seq(Tx) /\ Len(Beyond(a, l - 1)) = 1 /\ Beyond(a, l - 1)[1] = x
  <2> DEFINE k == l - 1
  <2>1. k \in 0..l /\ l - k = 1 /\ k + 1 = l
    BY <1>3
  <2> HIDE DEF k, l
  <2>2. /\ Beyond(a, k) \in Seq(Tx) /\ Len(Beyond(a, k)) = l - k
        /\ \A i \in 1..(l - k) : Beyond(a, k)[i] = a[k + i]
    BY <1>2, <2>1, BeyondFacts DEF l
  <2>3. 1 \in 1..(l - k)
    BY <2>1
  <2> QED
    BY <1>2, <2>1, <2>2, <2>3 DEF k
<1>5. Within(t, Beyond(a, l - 1))
  <2> DEFINE r == Beyond(a, l - 1)
  <2>1. r \in Seq(Tx) /\ Len(r) = 1 /\ r[1] = x
    BY <1>4
  <2> HIDE DEF r
  <2>2. r = Append(<<>>, x) /\ <<>> \in Seq(Tx)
    BY <2>1
  <2>3. flagCount(0, r) = 0 + Size[x]
    <3>1. 0 \in CompressorType
      BY DEF CompressorType
    <3>2. flagCount(0, Append(<<>>, x)) = flagCount(0, <<>>) + Flag(0, x)
      BY <2>2, <3>1, FlagCountAppend
    <3>3. flagCount(0, <<>>) = 0 /\ Flag(0, x) = Size[x]
      BY <3>1, FlagCountEmpty, FlagFacts
    <3> QED
      BY <2>2, <3>2, <3>3
  <2>4. t = 0 => Size[x] <= MAX_RELAY_TRANSACTION_BYTES
    <3>1. l \in 1..l
      BY <1>2
    <3> QED
      BY <1>2, <3>1 DEF Sound, Acceptable
  <2>5. Within(t, r)
    BY <2>1, <2>3, <2>4, LimitFacts DEF Within, CompressorType
  <2> QED
    BY <2>5 DEF r
<1>6. S \subseteq Nat /\ l - 1 \in S
  BY <1>3, <1>5
<1>7. m \in S /\ \A y \in S : m <= y
  <2> HIDE DEF S
  <2> QED
    BY <1>6, MinFacts
<1>8. m \in 0..l /\ Within(t, Beyond(a, m)) /\ m <= l - 1
  BY <1>6, <1>7
<1>9. Good(t, Beyond(a, m))
  BY <1>2, <1>8, SoundBeyond DEF Good
<1>10. x \in ToSet(Beyond(a, m))
  <2> HIDE DEF m, S, l
  <2>1. /\ Beyond(a, m) \in Seq(Tx) /\ Len(Beyond(a, m)) = l - m
        /\ \A i \in 1..(l - m) : Beyond(a, m)[i] = a[m + i]
    BY <1>2, <1>8, BeyondFacts DEF l
  <2>2. l - m \in 1..(l - m) /\ m + (l - m) = l
    BY <1>2, <1>8
  <2>3. Beyond(a, m)[l - m] = x /\ l - m \in DOMAIN Beyond(a, m)
    BY <1>2, <2>1, <2>2
  <2> QED
    BY <2>3 DEF ToSet
<1>11. ASSUME Within(t, a) PROVE Beyond(a, m) = a
  <2>1. Beyond(a, 0) = a
    BY <1>2, BeyondSteps
  <2>2. 0 \in S
    BY <1>2, <1>11, <2>1
  <2>3. m = 0
    <3> HIDE DEF S, m
    <3>1. m <= 0 /\ m \in Nat
      BY <1>7, <1>8, <2>2
    <3> QED
      BY <3>1
  <2> QED
    BY <2>1, <2>3
<1> HIDE DEF m
<1> QED
  BY <1>1, <1>9, <1>10, <1>11 DEF a

\* What the receiver lets in keeps the cache sound.
LEMMA AppendSound ==
  ASSUME NEW t \in CompressorType, NEW q, Sound(t, q), NEW x \in Tx, x \notin ToSet(q), check_recv_tx(t, q, x)
  PROVE  Sound(t, Append(q, x))
<1> DEFINE a == Append(q, x)  n == Len(q)
<1>0. q \in Seq(Tx) /\ IsInjective(q) /\ n \in Nat
  BY DEF Sound
<1>1. a \in Seq(Tx) /\ Len(a) = n + 1 /\ a[n + 1] = x /\ (\A k \in 1..n : a[k] = q[k]) /\ IsInjective(a)
  BY <1>0, AppendFacts
<1> HIDE DEF a
<1>2. Acceptable(t, x)
  BY LimitFacts DEF check_recv_tx, Acceptable, CompressorType
<1>3. ASSUME NEW k \in 1..(n + 1) PROVE Acceptable(t, a[k])
  <2>1. k \in 1..n \/ k = n + 1
    BY <1>0
  <2> QED
    BY <1>1, <1>2, <2>1 DEF Sound
<1>4. ASSUME t = 1 PROVE flagCount(1, a) <= OLD_MAX_EXTRA_OVERSIZE_TRANSACTIONS
  <2>1. flagCount(1, a) = flagCount(1, q) + Flag(1, x) /\ flagCount(1, q) \in Nat
    BY <1>0, <1>4, FlagCountAppend, FlagsFacts DEF a
  <2>2. flagCount(1, q) <= OLD_MAX_EXTRA_OVERSIZE_TRANSACTIONS
    BY <1>4 DEF Sound
  <2>3. Flag(1, x) = IF Oversize(x) THEN 1 ELSE 0
    BY <1>4, FlagFacts
  <2>4. ~Oversize(x) \/ flagCount(1, q) < OLD_MAX_EXTRA_OVERSIZE_TRANSACTIONS
    BY <1>4 DEF check_recv_tx
  <2> QED
    BY <2>1, <2>2, <2>3, <2>4, LimitFacts
<1> QED
  BY <1>1, <1>3, <1>4 DEF Sound, a

\* A transaction that is sent is let in by a receiver with the same cache, and the caches
\* stay the same.
LEMMA SentFacts ==
  ASSUME NEW t \in CompressorType, NEW q, Good(t, q), NEW x \in Tx, get_relay_transaction(t, q, x).sent
  PROVE  LET n == get_relay_transaction(t, q, x).cache IN
         /\ recv_tx(t, q, x) = [ok |-> TRUE, cache |-> n]
         /\ Good(t, n) /\ x \in ToSet(n) /\ Acceptable(t, x)
<1> DEFINE r == get_relay_transaction(t, q, x)
<1>0. q \in Seq(Tx) /\ Sound(t, q)
  BY DEF Good, Sound
<1>f. flagCount(1, q) \in Nat
  BY <1>0, FlagsFacts DEF CompressorType
<1>1. /\ x \notin ToSet(q) /\ r.cache = CacheAdd(t, q, x)
      /\ ~(t = 0 /\ Size[x] > MAX_RELAY_TRANSACTION_BYTES)
      /\ ~(/\ t = 1 /\ Oversize(x)
           /\ \/ flagCount(1, q) >= OLD_MAX_EXTRA_OVERSIZE_TRANSACTIONS
              \/ Size[x] > OLD_MAX_RELAY_OVERSIZE_TRANSACTION_BYTES)
  BY DEF get_relay_transaction
<1>2. check_recv_tx(t, q, x)
  BY <1>f, <1>1, LimitFacts DEF check_recv_tx, CompressorType
<1>3. recv_tx(t, q, x) = [ok |-> TRUE, cache |-> CacheAdd(t, q, x)]
  BY <1>2 DEF recv_tx
<1>4. Sound(t, Append(q, x))
  BY <1>0, <1>1, <1>2, AppendSound
<1>5. Good(t, CacheAdd(t, q, x)) /\ x \in ToSet(CacheAdd(t, q, x))
  BY <1>0, <1>1, <1>4, CacheAddFacts
<1>6. Acceptable(t, x)
  BY <1>2, LimitFacts DEF check_recv_tx, Acceptable, CompressorType
<1> QED
  BY <1>1, <1>3, <1>5, <1>6

\* What is not sent does not change the send cache.
LEMMA NotSent ==
  ASSUME NEW t, NEW q, NEW x, ~get_relay_transaction(t, q, x).sent
  PROVE  get_relay_transaction(t, q, x).cache = q
BY DEF get_relay_transaction

\* A transaction of type 0 may be sent again.
LEMMA SentAgain ==
  ASSUME NEW q, NEW x, x \in ToSet(q), Acceptable(0, x)
  PROVE  recv_tx(0, q, x) = [ok |-> TRUE, cache |-> q]
BY DEF recv_tx, check_recv_tx, Acceptable, CacheAdd

\* A block only takes transactions out.
LEMMA CompressGood ==
  ASSUME NEW t \in CompressorType, NEW q, Good(t, q), NEW block \in Seq(Tx)
  PROVE  Good(t, CompressBlock(q, block).cache)
<1> DEFINE R(l) == CompressBlock(q, l)
           P == {l \in Seq(Tx) : Good(t, R(l).cache)}
<1>1. <<>> \in P
  <2>1. R(<<>>) = Uncompressed(q) /\ <<>> \in Seq(Tx)
    BY CompressBlockFacts
  <2> QED
    BY <2>1 DEF Uncompressed
<1>2. ASSUME NEW l \in Seq(Tx), NEW x \in Tx, l \in P PROVE Append(l, x) \in P
  <2> DEFINE r == R(l)  u == R(Append(l, x))
  <2>0. Append(l, x) \in Seq(Tx)
    OBVIOUS
  <2>1. u = CompressTx(r, x)
    BY CompressBlockFacts
  <2>2. Good(t, r.cache)
    BY <1>2
  <2> HIDE DEF r, u
  <2>3. r.cache \in Cache
    BY <2>2, GoodCache
  <2>4. u.cache = r.cache \/ \E k \in 1..Len(r.cache) : u.cache = RemoveAt(r.cache, k)
    BY <2>1, <2>3, CompressTxFacts
  <2>5. Good(t, u.cache)
    BY <2>2, <2>4, SoundWithout DEF Good
  <2> QED
    BY <2>0, <2>5 DEF u
<1> HIDE DEF P
<1>3. block \in P
  BY <1>1, <1>2, ListInduction
<1> QED
  BY <1>3 DEF P

\* A cache is built up again by sending what it holds, oldest first.
LEMMA BuiltUp ==
  ASSUME NEW t \in CompressorType, NEW q \in Seq(Tx), NEW x \in Tx, Good(t, Append(q, x))
  PROVE  Good(t, q) /\ recv_tx(t, q, x) = [ok |-> TRUE, cache |-> Append(q, x)]
<1> DEFINE a == Append(q, x)  n == Len(q)
<1>1. a \in Seq(Tx) /\ Len(a) = n + 1 /\ n \in Nat /\ a[n + 1] = x /\ (\A k \in 1..n : a[k] = q[k])
      /\ DOMAIN a = 1..(n + 1) /\ DOMAIN q = 1..n
  OBVIOUS
<1>2. \A u \in CompressorType : flagCount(u, a) = flagCount(u, q) + Flag(u, x) /\ flagCount(u, q) \in Nat /\ Flag(u, x) \in Nat
  BY FlagCountAppend, FlagsFacts, FlagFacts
<1>g. Sound(t, a) /\ Within(t, a)
  BY DEF Good
<1> HIDE DEF a
<1>3. n + 1 \in 1..(n + 1) /\ \A k \in 1..n : k \in 1..(n + 1) /\ k # n + 1
  BY <1>1
<1>4. IsInjective(q) /\ x \notin ToSet(q)
  <2>1. \A i, j \in 1..(n + 1) : a[i] = a[j] => i = j
    BY <1>1, <1>g DEF Sound, IsInjective
  <2>2. \A i, j \in 1..n : q[i] = q[j] => i = j
    BY <1>1, <1>3, <2>1
  <2>3. \A i \in 1..n : q[i] # x
    BY <1>1, <1>3, <2>1
  <2> QED
    BY <1>1, <2>2, <2>3 DEF IsInjective, ToSet
<1>5. (\A k \in 1..n : Acceptable(t, q[k])) /\ Acceptable(t, x)
  BY <1>1, <1>3, <1>g DEF Sound
<1>6. Within(t, q)
  BY <1>1, <1>2, <1>g, LimitFacts, SMTT(30) DEF Within, CompressorType
<1>7. t = 1 => flagCount(1, q) <= OLD_MAX_EXTRA_OVERSIZE_TRANSACTIONS
  BY <1>2, <1>g, LimitFacts DEF Sound, CompressorType
<1>8. Good(t, q)
  BY <1>4, <1>5, <1>6, <1>7 DEF Good, Sound
<1>9. check_recv_tx(t, q, x)
  <2>1. CASE t = 0
    BY <1>5, <2>1 DEF check_recv_tx, Acceptable
  <2>2. CASE t = 1
    <3>1. flagCount(1, q) + Flag(1, x) <= OLD_MAX_EXTRA_OVERSIZE_TRANSACTIONS
      BY <1>2, <1>g, <2>2 DEF Sound, CompressorType
    <3>2. Flag(1, x) = IF Oversize(x) THEN 1 ELSE 0
      BY <2>2, FlagFacts
    <3>3. flagCount(1, q) \in Nat
      BY <1>2, <2>2
    <3>4. Oversize(x) => flagCount(1, q) < OLD_MAX_EXTRA_OVERSIZE_TRANSACTIONS
      BY <3>1, <3>2, <3>3, LimitFacts
    <3> QED
      BY <1>5, <2>2, <3>4 DEF check_recv_tx, Acceptable
  <2> QED
    BY <2>1, <2>2 DEF CompressorType
<1>10. CacheAdd(t, q, x) = a
  BY <1>4, <1>g, CacheAddFacts DEF a
<1> QED
  BY <1>8, <1>9, <1>10 DEF recv_tx, a
============================================================================
