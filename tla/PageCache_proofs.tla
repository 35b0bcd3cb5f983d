---------------------------- MODULE PageCache_proofs ----------------------------
(***************************************************************************)
(* Theorems about one shard of the page cache, for every set of pages, page *)
(* size and budget: every loop of the hands ends, and get, set and         *)
(* invalidate leave the shard sound (Rest).                                *)
(*                                                                         *)
(* The loops are the difficulty.  A round may only move a hand, and each of *)
(* the loops runs another one inside it.  Each has a measure: N times the  *)
(* work left (data, warmth and reference bits to take away, or ghosts to   *)
(* forget) plus the way of the hand to the next entry it can work on, for  *)
(* N pages.  A round lowers it, and it is never above the number of rounds *)
(* that the model allows.                                                  *)
(***************************************************************************)
EXTENDS PageCache, TLAPS, FiniteSetTheorems, FunctionTheorems, SequenceTheorems, WellFoundedInduction

(* Taking an element out of a sequence (unlinkAdvance).                    *)
LEMMA RemoveAtProps ==
  ASSUME NEW S, NEW r \in Seq(S), NEW i \in 1..Len(r)
  PROVE  /\ RemoveAt(r, i) \in Seq(S)
         /\ Len(RemoveAt(r, i)) = Len(r) - 1
         /\ \A k \in 1..(Len(r) - 1) : RemoveAt(r, i)[k] = IF k < i THEN r[k] ELSE r[k + 1]
<1> DEFINE a == SubSeq(r, 1, i - 1)
           b == SubSeq(r, i + 1, Len(r))
<1>1. a \in Seq(S) /\ Len(a) = i - 1 /\ \A k \in 1..(i - 1) : a[k] = r[k]
  BY SubSeqProperties
<1>2. b \in Seq(S) /\ Len(b) = Len(r) - i /\ \A k \in 1..(Len(r) - i) : b[k] = r[i + k]
  BY SubSeqProperties
<1>3. RemoveAt(r, i) = a \o b
  BY DEF RemoveAt
<1> HIDE DEF a, b
<1>4. /\ a \o b \in Seq(S)
      /\ Len(a \o b) = Len(a) + Len(b)
      /\ \A k \in 1..(Len(a) + Len(b)) : (a \o b)[k] = IF k <= Len(a) THEN a[k] ELSE b[k - Len(a)]
  BY <1>1, <1>2, ConcatProperties
<1>5. Len(a) + Len(b) = Len(r) - 1
  BY <1>1, <1>2
<1>6. ASSUME NEW k \in 1..(Len(r) - 1)
      PROVE  (a \o b)[k] = IF k < i THEN r[k] ELSE r[k + 1]
  <2>1. CASE k < i
    BY <1>1, <1>4, <1>5, <2>1
  <2>2. CASE ~(k < i)
    <3>1. (a \o b)[k] = b[k - (i - 1)]
      BY <1>1, <1>4, <1>5, <2>2
    <3>2. k - (i - 1) \in 1..(Len(r) - i) /\ i + (k - (i - 1)) = k + 1
      BY <2>2
    <3> QED
      BY <3>1, <3>2, <1>2, <2>2
  <2> QED
    BY <2>1, <2>2
<1> QED
  BY <1>3, <1>4, <1>5, <1>6

(* Putting an element into a sequence (linkBefore).                        *)
LEMMA InsertAtProps ==
  ASSUME NEW S, NEW r \in Seq(S), NEW i \in 1..Len(r), NEW e \in S
  PROVE  /\ InsertAt(r, i, e) \in Seq(S)
         /\ Len(InsertAt(r, i, e)) = Len(r) + 1
         /\ \A k \in 1..(Len(r) + 1) :
              InsertAt(r, i, e)[k] = IF k < i THEN r[k] ELSE IF k = i THEN e ELSE r[k - 1]
<1> DEFINE a == SubSeq(r, 1, i - 1)
           b == SubSeq(r, i, Len(r))
<1>1. a \in Seq(S) /\ Len(a) = i - 1 /\ \A k \in 1..(i - 1) : a[k] = r[k]
  BY SubSeqProperties
<1>2. b \in Seq(S) /\ Len(b) = Len(r) - i + 1 /\ \A k \in 1..(Len(r) - i + 1) : b[k] = r[i + k - 1]
  BY SubSeqProperties
<1>3. InsertAt(r, i, e) = a \o <<e>> \o b
  BY DEF InsertAt
<1> HIDE DEF a, b
<1> DEFINE c == a \o <<e>>
<1>4. c \in Seq(S) /\ Len(c) = i /\ \A k \in 1..i : c[k] = IF k < i THEN r[k] ELSE e
  <2>1. c = Append(a, e)
    BY <1>1, AppendIsConcat
  <2>2. /\ c \in Seq(S) /\ Len(c) = i
        /\ \A k \in 1..Len(a) : c[k] = a[k]
        /\ c[Len(a) + 1] = e
    <3>1. /\ Append(a, e) \in Seq(S)
          /\ Len(Append(a, e)) = Len(a) + 1
          /\ \A k \in 1..Len(a) : Append(a, e)[k] = a[k]
          /\ Append(a, e)[Len(a) + 1] = e
      BY <1>1, AppendProperties
    <3> HIDE DEF c
    <3> QED
      BY <1>1, <2>1, <3>1
  <2> QED
    BY <1>1, <2>2
<1>5. InsertAt(r, i, e) = c \o b
  BY <1>2, <1>3, <1>1, ConcatAssociative, <<e>> \in Seq(S)
<1> HIDE DEF c
<1>6. /\ c \o b \in Seq(S)
      /\ Len(c \o b) = Len(c) + Len(b)
      /\ \A k \in 1..(Len(c) + Len(b)) : (c \o b)[k] = IF k <= Len(c) THEN c[k] ELSE b[k - Len(c)]
  BY <1>2, <1>4, ConcatProperties
<1>7. Len(c) + Len(b) = Len(r) + 1
  BY <1>2, <1>4
<1>8. ASSUME NEW k \in 1..(Len(r) + 1)
      PROVE  (c \o b)[k] = IF k < i THEN r[k] ELSE IF k = i THEN e ELSE r[k - 1]
  <2>1. CASE k <= i
    BY <1>4, <1>6, <1>7, <2>1
  <2>2. CASE ~(k <= i)
    <3>1. (c \o b)[k] = b[k - i]
      BY <1>4, <1>6, <1>7, <2>2
    <3>2. k - i \in 1..(Len(r) - i + 1) /\ i + (k - i) - 1 = k - 1
      BY <2>2
    <3>3. b[k - i] = r[k - 1]
      BY <3>2, <1>2
    <3>4. ~(k < i) /\ k # i
      BY <2>2
    <3> QED
      BY <3>1, <3>3, <3>4
  <2> QED
    BY <2>1, <2>2
<1> QED
  BY <1>5, <1>6, <1>7, <1>8

(* The first element of a sequence moved to its end (a round of handCold). *)
LEMMA RotateProps ==
  ASSUME NEW S, NEW r \in Seq(S), r # <<>>
  PROVE  /\ Append(Tail(r), Head(r)) \in Seq(S)
         /\ Len(Append(Tail(r), Head(r))) = Len(r)
         /\ \A k \in 1..Len(r) : Append(Tail(r), Head(r))[k] = IF k = Len(r) THEN r[1] ELSE r[k + 1]
  OBVIOUS

(* The least of a set of numbers.                                          *)
LEMMA LeastNat ==
  ASSUME NEW B, B \subseteq Nat, B # {}
  PROVE  \E n \in B : \A k \in B : n <= k
<1>1. PICK n \in B : \A k \in B : ~(<<k, n>> \in OpToRel(<, Nat))
  BY WFMin, NatLessThanWellFounded
<1>2. ASSUME NEW k \in B PROVE n <= k
  <2>1. ~(k < n)
    BY <1>1 DEF OpToRel
  <2> QED
    BY <2>1
<1> QED
  BY <1>2

(***************************************************************************)
(* What a loop of guarded rounds establishes: f holds the states after 0,  *)
(* 1, ... rounds, T is where the loop goes on, and m is what a round in T  *)
(* decreases.                                                              *)
(***************************************************************************)
LEMMA LoopKeeps ==
  ASSUME NEW S, NEW T, NEW F \in Nat, NEW f, NEW m \in [S -> Nat],
         f[0] \in S,
         \A n \in 1..F : f[n - 1] \in S =>
            /\ f[n] \in S
            /\ f[n - 1] \in T => m[f[n]] < m[f[n - 1]]
            /\ f[n - 1] \notin T => f[n] = f[n - 1]
  PROVE  \A n \in 0..F : f[n] \in S /\ (f[n] \in T => m[f[n]] + n <= m[f[0]])
<1> DEFINE Bad == {n \in 0..F : ~(f[n] \in S /\ (f[n] \in T => m[f[n]] + n <= m[f[0]]))}
<1>1. SUFFICES ASSUME Bad # {} PROVE FALSE
  OBVIOUS
<1>2. PICK n \in Bad : \A k \in Bad : n <= k
  <2>1. Bad \subseteq Nat
    OBVIOUS
  <2> HIDE DEF Bad
  <2> QED
    BY <1>1, <2>1, LeastNat
<1>3. n \in 0..F /\ \A k \in Bad : ~(k < n)
  BY <1>2
<1>4. n \in 1..F
  <2>1. m[f[0]] \in Nat
    OBVIOUS
  <2> QED
    BY <2>1
<1>5. n - 1 \in 0..F /\ n - 1 \notin Bad
  BY <1>3, <1>4
<1>6. f[n - 1] \in S /\ (f[n - 1] \in T => m[f[n - 1]] + (n - 1) <= m[f[0]])
  BY <1>5
<1>7. /\ f[n] \in S
      /\ f[n - 1] \in T => m[f[n]] < m[f[n - 1]]
      /\ f[n - 1] \notin T => f[n] = f[n - 1]
  BY <1>4, <1>6
<1>8. m[f[n]] \in Nat /\ m[f[n - 1]] \in Nat /\ m[f[0]] \in Nat
  BY <1>6, <1>7
<1>9. f[n] \in T => m[f[n]] + n <= m[f[0]]
  <2>1. SUFFICES ASSUME f[n] \in T PROVE m[f[n]] + n <= m[f[0]]
    OBVIOUS
  <2>2. f[n - 1] \in T
    BY <1>7, <2>1
  <2> QED
    BY <2>2, <1>4, <1>6, <1>7, <1>8
<1> QED
  BY <1>7, <1>9

(* The states of such a loop exist.                                        *)
Run(f, s, step, n) == f[0] = s /\ \A k \in 1..n : f[k] = step[f[k - 1]]
(* There are n rounds of step from s, all of them states of S.             *)
Runs(S, s, step, n) == \E f \in [0..n -> S] : Run(f, s, step, n)

(* The rounds of a loop exist: the function after of PruneGhosts, CoolHot  *)
(* and Evict has a value for every number of rounds.                       *)
LEMMA LoopExists ==
  ASSUME NEW S, NEW F \in Nat, NEW s \in S, NEW step \in [S -> S]
  PROVE  Runs(S, s, step, F)
<1> DEFINE Bad == {n \in 0..F : ~Runs(S, s, step, n)}
<1>1. SUFFICES ASSUME Bad # {} PROVE FALSE
  OBVIOUS
<1>2. PICK n \in Bad : \A k \in Bad : n <= k
  <2>1. Bad \subseteq Nat
    OBVIOUS
  <2> HIDE DEF Bad
  <2> QED
    BY <1>1, <2>1, LeastNat
<1>3. n \in 0..F /\ \A k \in Bad : ~(k < n)
  BY <1>2
<1>4. CASE n = 0
  <2>1. [k \in 0..0 |-> s] \in [0..0 -> S] /\ Run([k \in 0..0 |-> s], s, step, 0)
    BY DEF Run
  <2>2. Runs(S, s, step, 0)
    BY <2>1 DEF Runs
  <2> QED
    BY <1>4, <2>2
<1>5. CASE n # 0
  <2>1. n \in 1..F /\ n - 1 \in 0..F
    BY <1>5
  <2>2. Runs(S, s, step, n - 1)
    BY <1>3, <2>1
  <2>3. PICK g \in [0..(n - 1) -> S] : Run(g, s, step, n - 1)
    BY <2>2 DEF Runs
  <2> DEFINE h == [k \in 0..n |-> IF k < n THEN g[k] ELSE step[g[n - 1]]]
  <2>4. h \in [0..n -> S]
    BY <2>1
  <2>5. h[0] = s
    BY <2>1, <2>3 DEF Run
  <2>6. \A k \in 1..n : h[k] = step[h[k - 1]]
    <3>1. TAKE k \in 1..n
    <3>2. k - 1 \in 0..(n - 1) /\ h[k - 1] = g[k - 1]
      BY <2>1
    <3>3. CASE k < n
      <4>1. k \in 1..(n - 1) /\ h[k] = g[k]
        BY <3>3, <2>1
      <4>2. g[k] = step[g[k - 1]]
        BY <2>3, <4>1 DEF Run
      <4> QED
        BY <3>2, <4>1, <4>2
    <3>4. CASE k = n
      BY <3>2, <3>4, <2>1
    <3> QED
      BY <3>3, <3>4, <2>1
  <2> HIDE DEF h
  <2>7. Run(h, s, step, n)
    BY <2>5, <2>6 DEF Run
  <2>8. Runs(S, s, step, n)
    BY <2>4, <2>7 DEF Runs
  <2> QED
    BY <2>8
<1> QED
  BY <1>4, <1>5
-----------------------------------------------------------------------------
(* Rings: every element of D once.                                         *)

(* The ring r holds each entry of D once.                                  *)
RingOf(r, D) ==
  /\ r \in Seq(D)
  /\ \A i, j \in 1..Len(r) : r[i] = r[j] => i = j
  /\ \A q \in D : \E i \in 1..Len(r) : r[i] = q

(* An empty ring has no entries and no other has none (the nil hands of an *)
(* empty shard).                                                           *)
LEMMA RingEmpty ==
  ASSUME NEW r, NEW D, RingOf(r, D)
  PROVE  r = <<>> <=> D = {}
<1>1. r \in Seq(D) /\ \A q \in D : \E i \in 1..Len(r) : r[i] = q
  BY DEF RingOf
<1>2. ASSUME r = <<>> PROVE D = {}
  BY <1>1, <1>2
<1>3. ASSUME D = {} PROVE r = <<>>
  <2>1. \A i \in 1..Len(r) : r[i] \in D
    BY <1>1
  <2> QED
    BY <1>1, <1>3, <2>1, EmptySeq
<1> QED
  BY <1>2, <1>3

(* The ring is as long as there are entries.                               *)
LEMMA RingLen ==
  ASSUME NEW r, NEW D, RingOf(r, D)
  PROVE  IsFiniteSet(D) /\ Len(r) = Cardinality(D)
<1>1. r \in [1..Len(r) -> D] /\ Len(r) \in Nat
  BY DEF RingOf
<1>2. r \in Injection(1..Len(r), D)
  BY <1>1 DEF RingOf, Injection, IsInjective
<1>3. r \in Surjection(1..Len(r), D)
  BY <1>1 DEF RingOf, Surjection
<1>4. r \in Bijection(1..Len(r), D)
  BY <1>2, <1>3 DEF Bijection
<1>5. ExistsBijection(1..Len(r), D)
  BY <1>4 DEF ExistsBijection
<1>6. IsFiniteSet(1..Len(r)) /\ Cardinality(1..Len(r)) = Len(r)
  <2>1. 1 \in Int /\ Len(r) \in Int
    BY <1>1
  <2>2. IsFiniteSet(1..Len(r)) /\ Cardinality(1..Len(r)) = IF 1 > Len(r) THEN 0 ELSE Len(r) - 1 + 1
    BY <2>1, FS_Interval
  <2> QED
    BY <1>1, <2>2
<1> QED
  BY <1>5, <1>6, FS_Bijection

(* unlinkAdvance takes one entry out of the ring.                          *)
LEMMA RingRemove ==
  ASSUME NEW r, NEW D, RingOf(r, D), NEW i \in 1..Len(r)
  PROVE  RingOf(RemoveAt(r, i), D \ {r[i]})
<1> DEFINE t == RemoveAt(r, i)
<1>1. r \in Seq(D) /\ Len(r) \in Nat
  BY DEF RingOf
<1>2. /\ t \in Seq(D) /\ Len(t) = Len(r) - 1
      /\ \A k \in 1..(Len(r) - 1) : t[k] = IF k < i THEN r[k] ELSE r[k + 1]
  BY <1>1, RemoveAtProps
<1> HIDE DEF t
<1> DEFINE back(k) == IF k < i THEN k ELSE k + 1
<1>3. \A k \in 1..Len(t) : back(k) \in 1..Len(r) /\ back(k) # i /\ t[k] = r[back(k)]
  BY <1>1, <1>2
<1>4. \A j, k \in 1..Len(t) : back(j) = back(k) => j = k
  BY <1>1, <1>2
<1>5. \A k \in 1..Len(t) : t[k] \in D \ {r[i]}
  <2>1. TAKE k \in 1..Len(t)
  <2>2. r[back(k)] # r[i]
    BY <1>3 DEF RingOf
  <2> QED
    BY <1>1, <1>3, <2>2
<1>6. t \in Seq(D \ {r[i]})
  BY <1>2, <1>5
<1>7. \A j, k \in 1..Len(t) : t[j] = t[k] => j = k
  <2>1. TAKE j, k \in 1..Len(t)
  <2>2. HAVE t[j] = t[k]
  <2> HIDE DEF back
  <2>3. back(j) \in 1..Len(r) /\ back(k) \in 1..Len(r) /\ r[back(j)] = r[back(k)]
    BY <1>3, <2>2
  <2>4. back(j) = back(k)
    BY <2>3 DEF RingOf
  <2> QED
    BY <1>4, <2>4
<1>8. \A q \in D \ {r[i]} : \E k \in 1..Len(t) : t[k] = q
  <2>1. TAKE q \in D \ {r[i]}
  <2>2. PICK j \in 1..Len(r) : r[j] = q
    BY DEF RingOf
  <2>3. j # i
    BY <2>2
  <2>4. CASE j < i
    BY <1>1, <1>2, <2>2, <2>4
  <2>5. CASE j > i
    <3>1. j - 1 \in 1..Len(t) /\ ~(j - 1 < i) /\ (j - 1) + 1 = j
      BY <1>1, <1>2, <2>5
    <3> QED
      BY <1>2, <2>2, <3>1
  <2> QED
    BY <1>1, <2>3, <2>4, <2>5
<1>9. RingOf(t, D \ {r[i]})
  BY <1>6, <1>7, <1>8 DEF RingOf
<1> QED
  BY <1>9 DEF t

(* linkBefore puts one entry into the ring ...                             *)
LEMMA RingInsert ==
  ASSUME NEW r, NEW D, RingOf(r, D), NEW i \in 1..Len(r), NEW e, e \notin D
  PROVE  RingOf(InsertAt(r, i, e), D \cup {e})
<1> DEFINE t == InsertAt(r, i, e)
<1>1. r \in Seq(D) /\ Len(r) \in Nat /\ r \in Seq(D \cup {e})
  BY DEF RingOf
<1>2. /\ t \in Seq(D \cup {e}) /\ Len(t) = Len(r) + 1
      /\ \A k \in 1..(Len(r) + 1) : t[k] = IF k < i THEN r[k] ELSE IF k = i THEN e ELSE r[k - 1]
  BY <1>1, InsertAtProps, e \in D \cup {e}
<1> HIDE DEF t
<1> DEFINE back(k) == IF k < i THEN k ELSE k - 1
<1>3. \A k \in 1..Len(t) : k # i => back(k) \in 1..Len(r) /\ t[k] = r[back(k)]
  BY <1>1, <1>2
<1>4. \A j, k \in 1..Len(t) : j # i /\ k # i /\ back(j) = back(k) => j = k
  BY <1>1, <1>2
<1>5. i \in 1..Len(t) /\ t[i] = e
  BY <1>1, <1>2
<1>6. \A k \in 1..Len(t) : k # i => t[k] # e
  BY <1>1, <1>3
<1>7. \A j, k \in 1..Len(t) : t[j] = t[k] => j = k
  <2>1. TAKE j, k \in 1..Len(t)
  <2>2. HAVE t[j] = t[k]
  <2>3. j = i <=> k = i
    BY <1>5, <1>6, <2>2
  <2> HIDE DEF back
  <2>4. ASSUME j # i, k # i PROVE back(j) = back(k)
    <3>1. back(j) \in 1..Len(r) /\ back(k) \in 1..Len(r) /\ r[back(j)] = r[back(k)]
      BY <1>3, <2>2, <2>4
    <3> QED
      BY <3>1 DEF RingOf
  <2> QED
    BY <1>4, <2>3, <2>4
<1>8. \A q \in D \cup {e} : \E k \in 1..Len(t) : t[k] = q
  <2>1. TAKE q \in D \cup {e}
  <2>2. CASE q = e
    BY <1>5, <2>2
  <2>3. CASE q \in D
    <3>1. PICK j \in 1..Len(r) : r[j] = q
      BY <2>3 DEF RingOf
    <3>2. CASE j < i
      BY <1>1, <1>2, <3>1, <3>2
    <3>3. CASE ~(j < i)
      <4>1. j + 1 \in 1..Len(t) /\ ~(j + 1 < i) /\ j + 1 # i /\ (j + 1) - 1 = j
        BY <1>1, <1>2, <3>3
      <4> QED
        BY <1>2, <3>1, <4>1
    <3> QED
      BY <3>2, <3>3
  <2> QED
    BY <2>2, <2>3
<1>9. RingOf(t, D \cup {e})
  BY <1>2, <1>7, <1>8 DEF RingOf
<1> QED
  BY <1>9 DEF t

(* ... and at its end, which is before the cold hand.                      *)
LEMMA RingAppend ==
  ASSUME NEW r, NEW D, RingOf(r, D), NEW e, e \notin D
  PROVE  RingOf(Append(r, e), D \cup {e}) /\ Len(Append(r, e)) = Len(r) + 1
<1> DEFINE t == Append(r, e)
<1>1. r \in Seq(D) /\ Len(r) \in Nat /\ r \in Seq(D \cup {e})
  BY DEF RingOf
<1>2. /\ t \in Seq(D \cup {e}) /\ Len(t) = Len(r) + 1
      /\ \A k \in 1..Len(r) : t[k] = r[k]
      /\ t[Len(r) + 1] = e
  BY <1>1, AppendProperties, e \in D \cup {e}
<1> HIDE DEF t
<1>3. \A k \in 1..Len(r) : t[k] \in D
  BY <1>1, <1>2
<1>4. \A j, k \in 1..Len(t) : t[j] = t[k] => j = k
  <2>1. TAKE j, k \in 1..Len(t)
  <2>2. HAVE t[j] = t[k]
  <2>3. j \in 1..Len(r) <=> k \in 1..Len(r)
    BY <1>1, <1>2, <1>3, <2>2
  <2>4. ASSUME j \in 1..Len(r), k \in 1..Len(r) PROVE j = k
    BY <1>2, <2>2, <2>4 DEF RingOf
  <2> QED
    BY <1>1, <1>2, <2>3, <2>4
<1>5. \A q \in D \cup {e} : \E k \in 1..Len(t) : t[k] = q
  <2>1. TAKE q \in D \cup {e}
  <2>2. CASE q = e
    BY <1>1, <1>2, <2>2
  <2>3. CASE q \in D
    <3>1. PICK j \in 1..Len(r) : r[j] = q
      BY <2>3 DEF RingOf
    <3> QED
      BY <1>1, <1>2, <3>1
  <2> QED
    BY <2>2, <2>3
<1>6. RingOf(t, D \cup {e})
  BY <1>2, <1>4, <1>5 DEF RingOf
<1> QED
  BY <1>2, <1>6 DEF t

(* The cold hand moves on: the same ring from another entry.               *)
LEMMA RingRotate ==
  ASSUME NEW r, NEW D, RingOf(r, D), r # <<>>
  PROVE  RingOf(Append(Tail(r), Head(r)), D)
<1> DEFINE t == Append(Tail(r), Head(r))
<1>1. r \in Seq(D) /\ Len(r) \in Nat \ {0}
  BY DEF RingOf
<1>2. /\ t \in Seq(D) /\ Len(t) = Len(r)
      /\ \A k \in 1..Len(r) : t[k] = IF k = Len(r) THEN r[1] ELSE r[k + 1]
  BY <1>1, RotateProps
<1> HIDE DEF t
<1> DEFINE back(k) == IF k = Len(r) THEN 1 ELSE k + 1
<1>3. \A k \in 1..Len(t) : back(k) \in 1..Len(r) /\ t[k] = r[back(k)]
  BY <1>1, <1>2
<1>4. \A j, k \in 1..Len(t) : back(j) = back(k) => j = k
  BY <1>1, <1>2
<1>5. \A j, k \in 1..Len(t) : t[j] = t[k] => j = k
  <2>1. TAKE j, k \in 1..Len(t)
  <2>2. HAVE t[j] = t[k]
  <2> HIDE DEF back
  <2>3. back(j) \in 1..Len(r) /\ back(k) \in 1..Len(r) /\ r[back(j)] = r[back(k)]
    BY <1>3, <2>2
  <2>4. back(j) = back(k)
    BY <2>3 DEF RingOf
  <2> QED
    BY <1>4, <2>4
<1>6. \A q \in D : \E k \in 1..Len(t) : t[k] = q
  <2>1. TAKE q \in D
  <2>2. PICK j \in 1..Len(r) : r[j] = q
    BY DEF RingOf
  <2>3. CASE j = 1
    BY <1>1, <1>2, <2>2, <2>3
  <2>4. CASE j # 1
    <3>1. j - 1 \in 1..Len(t) /\ j - 1 # Len(r) /\ (j - 1) + 1 = j
      BY <1>1, <1>2, <2>4
    <3> QED
      BY <1>2, <2>2, <3>1
  <2> QED
    BY <2>3, <2>4
<1>7. RingOf(t, D)
  BY <1>2, <1>5, <1>6 DEF RingOf
<1> QED
  BY <1>7 DEF t

(* Where a page is in the ring, and the page after it.                     *)
LEMMA RingPlace ==
  ASSUME NEW s, NEW D, RingOf(s.ring, D), NEW p \in D
  PROVE  Place(s, p) \in 1..Len(s.ring) /\ s.ring[Place(s, p)] = p
<1>1. s.ring \in Seq(D)
  BY DEF RingOf
<1>2. \E j \in DOMAIN s.ring : s.ring[j] = p
  BY <1>1 DEF RingOf
<1>3. Place(s, p) \in DOMAIN s.ring /\ s.ring[Place(s, p)] = p
  BY <1>2 DEF Place
<1> QED
  BY <1>1, <1>3

(* The next entry of the ring is an entry, and another one unless it is    *)
(* alone.                                                                  *)
LEMMA RingNext ==
  ASSUME NEW s, NEW D, RingOf(s.ring, D), NEW p \in D
  PROVE  /\ NextInRing(s, p) \in D
         /\ Len(s.ring) # 1 => NextInRing(s, p) # p
<1>1. s.ring \in Seq(D) /\ Place(s, p) \in 1..Len(s.ring) /\ s.ring[Place(s, p)] = p
  BY RingPlace DEF RingOf
<1> DEFINE i == Place(s, p)
           n == IF i = Len(s.ring) THEN 1 ELSE i + 1
<1>2. n \in 1..Len(s.ring) /\ (Len(s.ring) # 1 => n # i)
  <2>1. i \in 1..Len(s.ring) /\ Len(s.ring) \in Nat
    BY <1>1
  <2> HIDE DEF i
  <2>2. CASE i = Len(s.ring)
    <3>1. n = 1
      BY <2>2
    <3> QED
      BY <2>1, <2>2, <3>1
  <2>3. CASE i # Len(s.ring)
    <3>1. n = i + 1
      BY <2>3
    <3> QED
      BY <2>1, <2>3, <3>1
  <2> QED
    BY <2>2, <2>3
<1>3. NextInRing(s, p) = s.ring[n]
  BY DEF NextInRing
<1>4. s.ring[n] \in D
  BY <1>1, <1>2
<1>5. i \in 1..Len(s.ring) /\ s.ring[i] = p
  BY <1>1
<1> HIDE DEF n, i
<1>6. Len(s.ring) # 1 => s.ring[n] # p
  BY <1>2, <1>5 DEF RingOf
<1> QED
  BY <1>3, <1>4, <1>6

-----------------------------------------------------------------------------
(* Entries, counted by kind, and the work that the hands have left: what a *)
(* page may still lose is its reference bit, its heat and its data.        *)

(* The entries of a shard, the set of maps of them, and what the hands     *)
(* count: entries of a kind, with data, warm (hot, or cold and referenced) *)
(* and referenced.                                                         *)
Entry == [kind : {"hot", "cold", "test"}, ref : BOOLEAN, img : Int]
EntryMap == UNION {[D -> Entry] : D \in SUBSET Page}

OfKind(d, k) == {q \in DOMAIN d : d[q].kind = k}
Num(d, k) == Cardinality(OfKind(d, k))

HasData(e) == e.kind # "test"
IsWarm(e) == e.kind = "hot" \/ (e.kind = "cold" /\ e.ref)
IsReferenced(e) == e.kind # "test" /\ e.ref
WithData(d) == {q \in DOMAIN d : HasData(d[q])}
Warm(d) == {q \in DOMAIN d : IsWarm(d[q])}
Referenced(d) == {q \in DOMAIN d : IsReferenced(d[q])}
(* What the hands can still take away: data, warmth and reference bits.    *)
Work(d) == Cardinality(WithData(d)) + Cardinality(Warm(d)) + Cardinality(Referenced(d))

One(b) == IF b THEN 1 ELSE 0
Weight(e) == One(HasData(e)) + One(IsWarm(e)) + One(IsReferenced(e))

(* A map of entries is a function from some pages to entries.              *)
LEMMA EntryMapDef ==
  \A d : d \in EntryMap <=> /\ d = [q \in DOMAIN d |-> d[q]] /\ DOMAIN d \subseteq Page
                            /\ \A q \in DOMAIN d : d[q] \in Entry
<1>1. TAKE d
<1>2. ASSUME d \in EntryMap
      PROVE  /\ d = [q \in DOMAIN d |-> d[q]] /\ DOMAIN d \subseteq Page
             /\ \A q \in DOMAIN d : d[q] \in Entry
  <2>1. PICK D \in SUBSET Page : d \in [D -> Entry]
    BY <1>2 DEF EntryMap
  <2> QED
    BY <2>1
<1>3. ASSUME d = [q \in DOMAIN d |-> d[q]], DOMAIN d \subseteq Page, \A q \in DOMAIN d : d[q] \in Entry
      PROVE  d \in EntryMap
  <2>1. d \in [DOMAIN d -> Entry]
    BY <1>3
  <2> QED
    BY <1>3, <2>1 DEF EntryMap
<1> QED
  BY <1>2, <1>3

(* There are finitely many entries, no more than pages.                    *)
LEMMA DomainFinite ==
  ASSUME NEW d \in EntryMap
  PROVE  IsFiniteSet(DOMAIN d) /\ Cardinality(DOMAIN d) <= Cardinality(Page) /\ Cardinality(Page) \in Nat
<1>1. DOMAIN d \in SUBSET Page
  BY EntryMapDef
<1> QED
  BY <1>1, PageCacheAssumption, FS_Subset, FS_CardinalityType

(* Each count of entries is a number, no more than the pages; the work     *)
(* left is no more than three per page.                                    *)
LEMMA Counts ==
  ASSUME NEW d \in EntryMap
  PROVE  /\ \A k : Num(d, k) \in Nat /\ Num(d, k) <= Cardinality(Page)
         /\ \A k : Num(d, k) = 0 <=> OfKind(d, k) = {}
         /\ Work(d) \in Nat /\ Work(d) <= 3 * Cardinality(Page)
<1>1. ASSUME NEW A \in SUBSET DOMAIN d
      PROVE  /\ IsFiniteSet(A) /\ Cardinality(A) \in Nat /\ Cardinality(A) <= Cardinality(Page)
             /\ Cardinality(A) = 0 <=> A = {}
  <2>1. IsFiniteSet(A) /\ Cardinality(A) <= Cardinality(DOMAIN d)
    BY DomainFinite, FS_Subset
  <2>2. Cardinality(A) \in Nat /\ Cardinality(DOMAIN d) \in Nat
    BY <2>1, DomainFinite, FS_CardinalityType
  <2> QED
    BY <2>1, <2>2, DomainFinite, FS_EmptySet
<1>2. \A k : OfKind(d, k) \in SUBSET DOMAIN d
  BY DEF OfKind
<1>3. {WithData(d), Warm(d), Referenced(d)} \subseteq SUBSET DOMAIN d
  BY DEF WithData, Warm, Referenced
<1>4. Cardinality(Page) \in Nat
  BY DomainFinite
<1>5. \A k : Num(d, k) \in Nat /\ Num(d, k) <= Cardinality(Page) /\ (Num(d, k) = 0 <=> OfKind(d, k) = {})
  <2>1. TAKE k
  <2> DEFINE A == OfKind(d, k)
  <2>2. A \in SUBSET DOMAIN d
    BY <1>2
  <2> HIDE DEF A
  <2>3. Cardinality(A) \in Nat /\ Cardinality(A) <= Cardinality(Page) /\ (Cardinality(A) = 0 <=> A = {})
    BY <1>1, <2>2
  <2> QED
    BY <2>3 DEF A, Num
<1>6. /\ Cardinality(WithData(d)) \in Nat /\ Cardinality(WithData(d)) <= Cardinality(Page)
      /\ Cardinality(Warm(d)) \in Nat /\ Cardinality(Warm(d)) <= Cardinality(Page)
      /\ Cardinality(Referenced(d)) \in Nat /\ Cardinality(Referenced(d)) <= Cardinality(Page)
  BY <1>1, <1>3
<1>7. Work(d) \in Nat /\ Work(d) <= 3 * Cardinality(Page)
  BY <1>4, <1>6 DEF Work
<1> QED
  BY <1>5, <1>7

(* A finite set that changes at one element only.                          *)
LEMMA OneChange ==
  ASSUME NEW A, IsFiniteSet(A), NEW B, NEW p,
         \A q : q # p => (q \in A <=> q \in B)
  PROVE  Cardinality(B) = Cardinality(A) + One(p \in B) - One(p \in A)
<1>1. Cardinality(A) \in Nat
  BY FS_CardinalityType
<1>2. CASE p \in A /\ p \in B
  <2>1. A = B
    BY <1>2
  <2> QED
    BY <1>1, <1>2, <2>1 DEF One
<1>3. CASE p \notin A /\ p \in B
  <2>1. B = A \cup {p}
    BY <1>3
  <2> QED
    BY <1>1, <1>3, <2>1, FS_AddElement DEF One
<1>4. CASE p \in A /\ p \notin B
  <2>1. B = A \ {p}
    BY <1>4
  <2> QED
    BY <1>1, <1>4, <2>1, FS_RemoveElement DEF One
<1>5. CASE p \notin A /\ p \notin B
  <2>1. A = B
    BY <1>5
  <2> QED
    BY <1>1, <1>5, <2>1 DEF One
<1> QED
  BY <1>2, <1>3, <1>4, <1>5

(* Two maps that differ at p only.                                         *)
LEMMA CountsChange ==
  ASSUME NEW d \in EntryMap, NEW e \in EntryMap, NEW p,
         \A q : q # p => (q \in DOMAIN d <=> q \in DOMAIN e),
         \A q \in DOMAIN d : q # p => e[q] = d[q]
  PROVE  /\ \A k : Num(e, k) = Num(d, k) + One(p \in DOMAIN e /\ e[p].kind = k)
                                         - One(p \in DOMAIN d /\ d[p].kind = k)
         /\ Work(e) = Work(d) + (IF p \in DOMAIN e THEN Weight(e[p]) ELSE 0)
                              - (IF p \in DOMAIN d THEN Weight(d[p]) ELSE 0)
<1>1. ASSUME NEW A \in SUBSET DOMAIN d PROVE IsFiniteSet(A) /\ Cardinality(A) \in Nat
  BY DomainFinite, FS_Subset, FS_CardinalityType
<1>2. ASSUME NEW k
      PROVE  Num(e, k) = Num(d, k) + One(p \in DOMAIN e /\ e[p].kind = k)
                                   - One(p \in DOMAIN d /\ d[p].kind = k)
  <2>1. IsFiniteSet(OfKind(d, k))
    BY <1>1 DEF OfKind
  <2>2. \A q : q # p => (q \in OfKind(d, k) <=> q \in OfKind(e, k))
    BY DEF OfKind
  <2>3. Num(e, k) = Num(d, k) + One(p \in OfKind(e, k)) - One(p \in OfKind(d, k))
    BY <2>1, <2>2, OneChange DEF Num
  <2> QED
    BY <2>3 DEF OfKind
<1>3. Cardinality(WithData(e)) = Cardinality(WithData(d)) + One(p \in WithData(e)) - One(p \in WithData(d))
  <2>1. IsFiniteSet(WithData(d)) /\ \A q : q # p => (q \in WithData(d) <=> q \in WithData(e))
    BY <1>1 DEF WithData
  <2> QED
    BY <2>1, OneChange
<1>4. Cardinality(Warm(e)) = Cardinality(Warm(d)) + One(p \in Warm(e)) - One(p \in Warm(d))
  <2>1. IsFiniteSet(Warm(d)) /\ \A q : q # p => (q \in Warm(d) <=> q \in Warm(e))
    BY <1>1 DEF Warm
  <2> QED
    BY <2>1, OneChange
<1>5. Cardinality(Referenced(e)) = Cardinality(Referenced(d)) + One(p \in Referenced(e)) - One(p \in Referenced(d))
  <2>1. IsFiniteSet(Referenced(d)) /\ \A q : q # p => (q \in Referenced(d) <=> q \in Referenced(e))
    BY <1>1 DEF Referenced
  <2> QED
    BY <2>1, OneChange
<1>6. {Cardinality(WithData(d)), Cardinality(Warm(d)), Cardinality(Referenced(d))} \subseteq Nat
  BY <1>1 DEF WithData, Warm, Referenced
<1>7. /\ One(p \in WithData(e)) + One(p \in Warm(e)) + One(p \in Referenced(e))
           = IF p \in DOMAIN e THEN Weight(e[p]) ELSE 0
      /\ One(p \in WithData(d)) + One(p \in Warm(d)) + One(p \in Referenced(d))
           = IF p \in DOMAIN d THEN Weight(d[p]) ELSE 0
  BY DEF WithData, Warm, Referenced, Weight, One
<1>8. {One(p \in WithData(e)), One(p \in Warm(e)), One(p \in Referenced(e)),
       One(p \in WithData(d)), One(p \in Warm(d)), One(p \in Referenced(d))} \subseteq Nat
  BY DEF One
<1>9. Work(e) = Work(d) + (One(p \in WithData(e)) + One(p \in Warm(e)) + One(p \in Referenced(e)))
                        - (One(p \in WithData(d)) + One(p \in Warm(d)) + One(p \in Referenced(d)))
  BY <1>3, <1>4, <1>5, <1>6, <1>8 DEF Work
<1> QED
  BY <1>2, <1>7, <1>9

(* The three changes of a map that the cache makes.                        *)
LEMMA ChangedEntry ==
  ASSUME NEW d \in EntryMap, NEW p \in DOMAIN d, NEW x \in Entry
  PROVE  LET e == [d EXCEPT ![p] = x]
         IN  /\ e \in EntryMap /\ DOMAIN e = DOMAIN d /\ e[p] = x
             /\ \A q \in DOMAIN d : q # p => e[q] = d[q]
             /\ \A k : Num(e, k) = Num(d, k) + One(x.kind = k) - One(d[p].kind = k)
             /\ Work(e) = Work(d) + Weight(x) - Weight(d[p])
<1> DEFINE e == [d EXCEPT ![p] = x]
<1>1. DOMAIN e = DOMAIN d /\ e[p] = x /\ \A q \in DOMAIN d : q # p => e[q] = d[q]
  OBVIOUS
<1>2. e = [q \in DOMAIN d |-> IF q = p THEN x ELSE d[q]]
  BY EntryMapDef
<1>3. e \in EntryMap
  <2>1. \A q \in DOMAIN e : e[q] \in Entry
    BY <1>1, EntryMapDef
  <2>2. e = [q \in DOMAIN e |-> e[q]] /\ DOMAIN e \subseteq Page
    BY <1>1, <1>2, EntryMapDef
  <2> HIDE DEF e
  <2> QED
    BY <2>1, <2>2, EntryMapDef
<1> HIDE DEF e
<1>4. /\ \A k : Num(e, k) = Num(d, k) + One(p \in DOMAIN e /\ e[p].kind = k)
                                      - One(p \in DOMAIN d /\ d[p].kind = k)
      /\ Work(e) = Work(d) + (IF p \in DOMAIN e THEN Weight(e[p]) ELSE 0)
                           - (IF p \in DOMAIN d THEN Weight(d[p]) ELSE 0)
  BY <1>1, <1>3, CountsChange
<1>5. /\ \A k : Num(e, k) = Num(d, k) + One(x.kind = k) - One(d[p].kind = k)
      /\ Work(e) = Work(d) + Weight(x) - Weight(d[p])
  BY <1>1, <1>4
<1>6. /\ e \in EntryMap /\ DOMAIN e = DOMAIN d /\ e[p] = x
      /\ \A q \in DOMAIN d : q # p => e[q] = d[q]
      /\ \A k : Num(e, k) = Num(d, k) + One(x.kind = k) - One(d[p].kind = k)
      /\ Work(e) = Work(d) + Weight(x) - Weight(d[p])
  BY <1>1, <1>3, <1>5
<1> QED
  BY <1>6 DEF e

(* An entry is forgotten (a ghost by RunHandTest, any by invalidate).      *)
LEMMA DroppedEntry ==
  ASSUME NEW d \in EntryMap, NEW p \in DOMAIN d
  PROVE  LET e == [q \in DOMAIN d \ {p} |-> d[q]]
         IN  /\ e \in EntryMap /\ DOMAIN e = DOMAIN d \ {p}
             /\ \A q \in DOMAIN e : e[q] = d[q]
             /\ \A k : Num(e, k) = Num(d, k) - One(d[p].kind = k)
             /\ Work(e) = Work(d) - Weight(d[p])
<1> DEFINE e == [q \in DOMAIN d \ {p} |-> d[q]]
<1>1. DOMAIN e = DOMAIN d \ {p} /\ \A q \in DOMAIN e : e[q] = d[q]
  OBVIOUS
<1>2. e \in EntryMap
  <2>1. \A q \in DOMAIN e : e[q] \in Entry
    BY EntryMapDef
  <2>2. e = [q \in DOMAIN e |-> e[q]] /\ DOMAIN e \subseteq Page
    BY EntryMapDef
  <2> HIDE DEF e
  <2> QED
    BY <2>1, <2>2, EntryMapDef
<1> HIDE DEF e
<1>3. /\ \A k : Num(e, k) = Num(d, k) + One(p \in DOMAIN e /\ e[p].kind = k)
                                      - One(p \in DOMAIN d /\ d[p].kind = k)
      /\ Work(e) = Work(d) + (IF p \in DOMAIN e THEN Weight(e[p]) ELSE 0)
                           - (IF p \in DOMAIN d THEN Weight(d[p]) ELSE 0)
  BY <1>1, <1>2, CountsChange
<1>4. /\ \A k : Num(d, k) \in Nat
      /\ Work(d) \in Nat
  BY Counts
<1>5. Weight(d[p]) \in Nat /\ \A b \in BOOLEAN : One(b) \in Nat
  BY DEF Weight, One
<1>6. /\ \A k : Num(e, k) = Num(d, k) - One(d[p].kind = k)
      /\ Work(e) = Work(d) - Weight(d[p])
  BY <1>1, <1>3, <1>4, <1>5 DEF One
<1>7. /\ e \in EntryMap /\ DOMAIN e = DOMAIN d \ {p}
      /\ \A q \in DOMAIN e : e[q] = d[q]
      /\ \A k : Num(e, k) = Num(d, k) - One(d[p].kind = k)
      /\ Work(e) = Work(d) - Weight(d[p])
  BY <1>1, <1>2, <1>6
<1> QED
  BY <1>7 DEF e

(* The map d with the entry x of p (set).                                  *)
Put(d, p, x) == [q \in DOMAIN d \cup {p} |-> IF q = p THEN x ELSE d[q]]

(* e is d with a new entry.                                                *)
Added(d, e, p, x) ==
  /\ e \in EntryMap /\ DOMAIN e = DOMAIN d \cup {p} /\ e[p] = x
  /\ \A q \in DOMAIN d : e[q] = d[q]
  /\ \A k : Num(e, k) = Num(d, k) + One(x.kind = k)

(* A page that was not in the map is added to it.                          *)
LEMMA AddedEntry ==
  ASSUME NEW d \in EntryMap, NEW p \in Page, p \notin DOMAIN d, NEW x \in Entry
  PROVE  Added(d, Put(d, p, x), p, x)
<1> DEFINE e == Put(d, p, x)
<1>1. DOMAIN e = DOMAIN d \cup {p} /\ e[p] = x /\ \A q \in DOMAIN d : e[q] = d[q]
  BY DEF Put
<1>2. e \in EntryMap
  <2>1. \A q \in DOMAIN e : e[q] \in Entry
    BY <1>1, EntryMapDef
  <2>2. e = [q \in DOMAIN e |-> e[q]] /\ DOMAIN e \subseteq Page
    BY <1>1, EntryMapDef DEF Put
  <2> HIDE DEF e
  <2> QED
    BY <2>1, <2>2, EntryMapDef
<1> HIDE DEF e
<1>3. \A k : Num(e, k) = Num(d, k) + One(p \in DOMAIN e /\ e[p].kind = k)
                                   - One(p \in DOMAIN d /\ d[p].kind = k)
  BY <1>1, <1>2, CountsChange
<1>4. \A k : Num(d, k) \in Nat
  BY Counts
<1>5. \A k : Num(e, k) = Num(d, k) + One(x.kind = k)
  BY <1>1, <1>3, <1>4 DEF One
<1>6. Added(d, e, p, x)
  BY <1>1, <1>2, <1>5 DEF Added
<1> QED
  BY <1>6 DEF e
-----------------------------------------------------------------------------
(* How far ahead of position i of a ring the nearest member of K is.       *)

(* The entry that is d places after place i in a ring, and how many places *)
(* it takes to the next entry of K.                                        *)
At(r, i, d) == r[IF i + d <= Len(r) THEN i + d ELSE i + d - Len(r)]
Ahead(r, i, K) ==
  IF \E d \in 0..(Len(r) - 1) : At(r, i, d) \in K
  THEN CHOOSE d \in 0..(Len(r) - 1) : At(r, i, d) \in K /\ \A e \in 0..(Len(r) - 1) : At(r, i, e) \in K => d <= e
  ELSE 0

(* Two ways to the same place of the ring.                                 *)
LEMMA AtSum ==
  ASSUME NEW r, Len(r) \in Int, NEW i \in Int, NEW d \in Int, NEW j \in Int, NEW e \in Int, i + d = j + e
  PROVE  At(r, i, d) = At(r, j, e)
<1>1. (i + d <= Len(r) <=> j + e <= Len(r)) /\ i + d - Len(r) = j + e - Len(r)
  OBVIOUS
<1> QED
  BY <1>1 DEF At

(* The distance to the next entry of K: a number below the length of the   *)
(* ring, 0 in an empty one, at which there is an entry of K, and none      *)
(* before it.                                                              *)
LEMMA AheadDef ==
  ASSUME NEW D, NEW r \in Seq(D), NEW i, NEW K
  PROVE  /\ Ahead(r, i, K) \in Nat
         /\ r # <<>> => Ahead(r, i, K) <= Len(r) - 1
         /\ r = <<>> => Ahead(r, i, K) = 0
         /\ \A d \in 0..(Len(r) - 1) : At(r, i, d) \in K =>
              Ahead(r, i, K) <= d /\ At(r, i, Ahead(r, i, K)) \in K
         /\ (\A d \in 0..(Len(r) - 1) : At(r, i, d) \notin K) => Ahead(r, i, K) = 0
<1> DEFINE B == {d \in 0..(Len(r) - 1) : At(r, i, d) \in K}
<1>1. Len(r) \in Nat /\ (r # <<>> => Len(r) # 0) /\ (r = <<>> => Len(r) = 0)
  BY EmptySeq
<1>2. CASE B = {}
  <2>1. Ahead(r, i, K) = 0 /\ \A d \in 0..(Len(r) - 1) : At(r, i, d) \notin K
    BY <1>2 DEF Ahead
  <2> QED
    BY <1>1, <2>1
<1>3. CASE B # {}
  <2>1. B \subseteq Nat
    BY <1>1
  <2>2. \E d \in B : \A e \in B : d <= e
    <3> HIDE DEF B
    <3> QED
      BY <1>3, <2>1, LeastNat
  <2>3. \E d \in 0..(Len(r) - 1) : At(r, i, d) \in K /\ \A e \in 0..(Len(r) - 1) : At(r, i, e) \in K => d <= e
    BY <2>2
  <2>4. Ahead(r, i, K) = CHOOSE d \in 0..(Len(r) - 1) : At(r, i, d) \in K /\ \A e \in 0..(Len(r) - 1) : At(r, i, e) \in K => d <= e
    BY <1>3 DEF Ahead
  <2> DEFINE a == Ahead(r, i, K)
  <2>5. a \in 0..(Len(r) - 1) /\ At(r, i, a) \in K /\ \A e \in 0..(Len(r) - 1) : At(r, i, e) \in K => a <= e
    <3> HIDE DEF a
    <3>1. a = CHOOSE d \in 0..(Len(r) - 1) : At(r, i, d) \in K /\ \A e \in 0..(Len(r) - 1) : At(r, i, e) \in K => d <= e
      BY <2>4 DEF a
    <3> QED
      BY <2>3, <3>1
  <2> HIDE DEF a
  <2>6. /\ a \in Nat
        /\ r # <<>> => a <= Len(r) - 1
        /\ r = <<>> => a = 0
        /\ \A d \in 0..(Len(r) - 1) : At(r, i, d) \in K => a <= d /\ At(r, i, a) \in K
        /\ (\A d \in 0..(Len(r) - 1) : At(r, i, d) \notin K) => a = 0
    BY <1>1, <2>5
  <2> QED
    BY <2>6 DEF a
<1> QED
  BY <1>2, <1>3

(* A member of K in the ring is ahead of every position.                   *)
LEMMA RingReaches ==
  ASSUME NEW r, NEW D, RingOf(r, D), NEW K, NEW q \in D, q \in K, NEW i \in 1..Len(r)
  PROVE  \E d \in 0..(Len(r) - 1) : At(r, i, d) \in K
<1>1. PICK j \in 1..Len(r) : r[j] = q
  BY DEF RingOf
<1>2. Len(r) \in Nat
  BY DEF RingOf
<1>3. CASE j >= i
  <2>1. j - i \in 0..(Len(r) - 1) /\ i + (j - i) = j /\ j <= Len(r)
    BY <1>2, <1>3
  <2>2. At(r, i, j - i) = q
    BY <1>1, <2>1 DEF At
  <2> QED
    BY <2>1, <2>2
<1>4. CASE j < i
  <2> DEFINE d == j - i + Len(r)
  <2>1. d \in 0..(Len(r) - 1) /\ ~(i + d <= Len(r)) /\ i + d - Len(r) = j
    BY <1>2, <1>4
  <2>2. At(r, i, d) = q
    BY <1>1, <2>1 DEF At
  <2> QED
    BY <2>1, <2>2
<1> QED
  BY <1>3, <1>4

(* A hand that moves on from a page outside K comes nearer.                *)
LEMMA AheadMoves ==
  ASSUME NEW r, NEW D, RingOf(r, D), NEW K, NEW i \in 1..Len(r), r[i] \notin K,
         \E d \in 0..(Len(r) - 1) : At(r, i, d) \in K
  PROVE  Ahead(r, IF i = Len(r) THEN 1 ELSE i + 1, K) < Ahead(r, i, K)
<1> DEFINE n == IF i = Len(r) THEN 1 ELSE i + 1
           a == Ahead(r, i, K)
<1>1. r \in Seq(D) /\ Len(r) \in Nat
  BY DEF RingOf
<1>2. a \in 0..(Len(r) - 1) /\ At(r, i, a) \in K
  BY <1>1, AheadDef, r # <<>>
<1>3. At(r, i, 0) = r[i]
  BY <1>1 DEF At
<1>4. a # 0
  BY <1>2, <1>3
<1> HIDE DEF a
<1>5. At(r, n, a - 1) = At(r, i, a)
  <2>1. CASE i = Len(r)
    <3>1. n = 1 /\ n + (a - 1) = a /\ a <= Len(r) /\ ~(i + a <= Len(r)) /\ i + a - Len(r) = a
      BY <1>1, <1>2, <1>4, <2>1
    <3> HIDE DEF n
    <3> QED
      BY <3>1 DEF At
  <2>2. CASE i # Len(r)
    <3>1. n \in Int /\ a - 1 \in Int /\ i \in Int /\ a \in Int /\ n + (a - 1) = i + a
      BY <1>1, <1>2, <2>2
    <3> HIDE DEF n
    <3> QED
      BY <1>1, <3>1, AtSum
  <2> QED
    BY <2>1, <2>2
<1>6. a - 1 \in 0..(Len(r) - 1)
  BY <1>1, <1>2, <1>4
<1> HIDE DEF n
<1>7. Ahead(r, n, K) <= a - 1 /\ Ahead(r, n, K) \in Nat
  BY <1>1, <1>2, <1>5, <1>6, AheadDef
<1>8. Ahead(r, n, K) < a
  BY <1>2, <1>7
<1> QED
  BY <1>8 DEF n, a

(* The cold hand comes nearer by moving the ring.                          *)
LEMMA AheadRotates ==
  ASSUME NEW r, NEW D, RingOf(r, D), r # <<>>, NEW K, r[1] \notin K,
         \E d \in 0..(Len(r) - 1) : At(r, 1, d) \in K
  PROVE  Ahead(Append(Tail(r), Head(r)), 1, K) < Ahead(r, 1, K)
<1> DEFINE t == Append(Tail(r), Head(r))
           a == Ahead(r, 1, K)
<1>1. r \in Seq(D) /\ Len(r) \in Nat \ {0}
  BY DEF RingOf
<1>2. /\ t \in Seq(D) /\ Len(t) = Len(r)
      /\ \A k \in 1..Len(r) : t[k] = IF k = Len(r) THEN r[1] ELSE r[k + 1]
  BY <1>1, RotateProps
<1>3. a \in 0..(Len(r) - 1) /\ At(r, 1, a) \in K
  BY <1>1, AheadDef
<1> HIDE DEF t, a
<1>4. At(r, 1, a) = r[a + 1]
  <2>1. 1 + a <= Len(r) /\ 1 + a = a + 1
    BY <1>1, <1>3
  <2> QED
    BY <2>1 DEF At
<1>5. a # 0
  BY <1>3, <1>4
<1>6. a - 1 \in 0..(Len(t) - 1) /\ a \in 1..Len(r) /\ a # Len(r)
  BY <1>1, <1>2, <1>3, <1>5
<1>7. At(t, 1, a - 1) = t[a]
  <2>1. 1 + (a - 1) <= Len(t) /\ 1 + (a - 1) = a
    BY <1>1, <1>2, <1>6
  <2> QED
    BY <2>1 DEF At
<1>8. At(t, 1, a - 1) \in K
  BY <1>2, <1>3, <1>4, <1>6, <1>7
<1>9. Ahead(t, 1, K) <= a - 1 /\ Ahead(t, 1, K) \in Nat
  BY <1>2, <1>6, <1>8, AheadDef
<1>10. Ahead(t, 1, K) < a
  BY <1>3, <1>9
<1> QED
  BY <1>10 DEF t, a

(* The removal of a page outside K puts K no further ahead.                *)
LEMMA AheadRemoved ==
  ASSUME NEW r, NEW D, RingOf(r, D), NEW K, NEW j \in 1..Len(r), r[j] \notin K
  PROVE  Ahead(RemoveAt(r, j), 1, K) <= Ahead(r, 1, K)
<1> DEFINE t == RemoveAt(r, j)
           a == Ahead(r, 1, K)
<1>1. r \in Seq(D) /\ Len(r) \in Nat \ {0} /\ r # <<>>
  BY DEF RingOf
<1>2. /\ t \in Seq(D) /\ Len(t) = Len(r) - 1
      /\ \A k \in 1..(Len(r) - 1) : t[k] = IF k < j THEN r[k] ELSE r[k + 1]
  BY <1>1, RemoveAtProps
<1>3. a \in 0..(Len(r) - 1)
  BY <1>1, AheadDef
<1> HIDE DEF t
<1>4. CASE \E d \in 0..(Len(r) - 1) : At(r, 1, d) \in K
  <2>1. At(r, 1, a) \in K
    BY <1>1, <1>4, AheadDef
  <2> HIDE DEF a
  <2>2. At(r, 1, a) = r[a + 1]
    <3>1. 1 + a <= Len(r) /\ 1 + a = a + 1
      BY <1>1, <1>3
    <3> QED
      BY <3>1 DEF At
  <2>3. a + 1 # j
    BY <2>1, <2>2
  <2>4. CASE a + 1 < j
    <3>1. a \in 0..(Len(t) - 1) /\ a + 1 \in 1..(Len(r) - 1) /\ 1 + a <= Len(t) /\ 1 + a = a + 1
      BY <1>1, <1>2, <1>3, <2>4
    <3>2. At(t, 1, a) = r[a + 1]
      BY <1>2, <2>4, <3>1 DEF At
    <3>3. Ahead(t, 1, K) <= a
      BY <1>2, <2>1, <2>2, <3>1, <3>2, AheadDef
    <3> QED
      BY <3>3 DEF a, t
  <2>5. CASE a + 1 > j
    <3>1. a - 1 \in 0..(Len(t) - 1) /\ a \in 1..(Len(r) - 1) /\ 1 + (a - 1) <= Len(t) /\ 1 + (a - 1) = a /\ ~(a < j)
      BY <1>1, <1>2, <1>3, <2>5
    <3>2. At(t, 1, a - 1) = r[a + 1]
      BY <1>2, <3>1 DEF At
    <3>3. Ahead(t, 1, K) <= a - 1 /\ Ahead(t, 1, K) \in Nat
      BY <1>2, <2>1, <2>2, <3>1, <3>2, AheadDef
    <3>4. Ahead(t, 1, K) <= a
      BY <1>3, <3>3
    <3> QED
      BY <3>4 DEF a, t
  <2> QED
    BY <1>1, <1>3, <2>3, <2>4, <2>5
<1>5. CASE ~ \E d \in 0..(Len(r) - 1) : At(r, 1, d) \in K
  <2>1. \A k \in 1..Len(r) : r[k] \notin K
    <3>1. TAKE k \in 1..Len(r)
    <3>2. k - 1 \in 0..(Len(r) - 1) /\ 1 + (k - 1) <= Len(r) /\ 1 + (k - 1) = k
      BY <1>1
    <3>3. At(r, 1, k - 1) = r[k]
      BY <3>2 DEF At
    <3> QED
      BY <1>5, <3>2, <3>3
  <2>2. \A k \in 1..Len(t) : t[k] \notin K
    BY <1>1, <1>2, <2>1
  <2>3. \A d \in 0..(Len(t) - 1) : At(t, 1, d) \notin K
    <3>1. TAKE d \in 0..(Len(t) - 1)
    <3>2. 1 + d <= Len(t) /\ 1 + d \in 1..Len(t)
      BY <1>1, <1>2
    <3> QED
      BY <2>2, <3>2 DEF At
  <2>4. Ahead(t, 1, K) = 0
    BY <1>2, <2>3, AheadDef
  <2>5. Ahead(t, 1, K) <= a
    BY <1>3, <2>4
  <2> QED
    BY <2>5 DEF a, t
<1> QED
  BY <1>4, <1>5

(* The removal of the page under a hand, which moves on.                   *)
LEMMA AheadDropped ==
  ASSUME NEW r, NEW D, RingOf(r, D), NEW K, NEW i \in 1..Len(r), r[i] \notin K, Len(r) # 1,
         \E d \in 0..(Len(r) - 1) : At(r, i, d) \in K
  PROVE  Ahead(RemoveAt(r, i), IF i = Len(r) THEN 1 ELSE i, K) < Ahead(r, i, K)
<1> DEFINE t == RemoveAt(r, i)
           a == Ahead(r, i, K)
           n == IF i = Len(r) THEN 1 ELSE i
<1>1. r \in Seq(D) /\ Len(r) \in Nat \ {0} /\ r # <<>>
  BY DEF RingOf
<1>2. /\ t \in Seq(D) /\ Len(t) = Len(r) - 1
      /\ \A k \in 1..(Len(r) - 1) : t[k] = IF k < i THEN r[k] ELSE r[k + 1]
  BY <1>1, RemoveAtProps
<1>3. a \in 0..(Len(r) - 1) /\ At(r, i, a) \in K
  BY <1>1, AheadDef
<1>4. At(r, i, 0) = r[i]
  BY <1>1 DEF At
<1>5. a # 0
  BY <1>3, <1>4
<1> HIDE DEF t, a
<1>6. At(t, n, a - 1) = At(r, i, a)
  <2>1. CASE i = Len(r)
    <3>1. /\ n = 1 /\ n + (a - 1) = a /\ a <= Len(t) /\ a \in 1..(Len(r) - 1) /\ a < i
          /\ ~(i + a <= Len(r)) /\ i + a - Len(r) = a
      BY <1>1, <1>2, <1>3, <1>5, <2>1
    <3> HIDE DEF n
    <3>2. At(t, n, a - 1) = t[a] /\ At(r, i, a) = r[a]
      BY <3>1 DEF At
    <3> QED
      BY <1>2, <3>1, <3>2
  <2>2. CASE i # Len(r) /\ i + a <= Len(r)
    <3>1. /\ n = i /\ n + (a - 1) <= Len(t) /\ n + (a - 1) \in 1..(Len(r) - 1)
          /\ ~(n + (a - 1) < i) /\ (n + (a - 1)) + 1 = i + a
      BY <1>1, <1>2, <1>3, <1>5, <2>2
    <3> HIDE DEF n
    <3>2. At(t, n, a - 1) = t[n + (a - 1)] /\ At(r, i, a) = r[i + a]
      BY <2>2, <3>1 DEF At
    <3> QED
      BY <1>2, <3>1, <3>2
  <2>3. CASE i # Len(r) /\ ~(i + a <= Len(r))
    <3> DEFINE k == i + a - Len(r)
    <3>1. /\ n = i /\ ~(n + (a - 1) <= Len(t)) /\ n + (a - 1) - Len(t) = k
          /\ k \in 1..(Len(r) - 1) /\ k < i
      BY <1>1, <1>2, <1>3, <1>5, <2>3
    <3> HIDE DEF n
    <3>2. At(t, n, a - 1) = t[k] /\ At(r, i, a) = r[k]
      BY <2>3, <3>1 DEF At
    <3> HIDE DEF k
    <3> QED
      BY <1>2, <3>1, <3>2
  <2> QED
    BY <2>1, <2>2, <2>3
<1>7. a - 1 \in 0..(Len(t) - 1)
  BY <1>1, <1>2, <1>3, <1>5
<1> HIDE DEF n
<1>8. Ahead(t, n, K) <= a - 1 /\ Ahead(t, n, K) \in Nat
  BY <1>2, <1>3, <1>6, <1>7, AheadDef
<1>9. Ahead(t, n, K) < a
  BY <1>3, <1>8
<1> QED
  BY <1>9 DEF n, a, t

(* The place of a page is where it stands.                                 *)
LEMMA PlaceIs ==
  ASSUME NEW s, NEW D, RingOf(s.ring, D), NEW i \in 1..Len(s.ring)
  PROVE  Place(s, s.ring[i]) = i
<1>1. s.ring[i] \in D
  BY DEF RingOf
<1>2. Place(s, s.ring[i]) \in 1..Len(s.ring) /\ s.ring[Place(s, s.ring[i])] = s.ring[i]
  BY <1>1, RingPlace
<1> QED
  BY <1>2 DEF RingOf

-----------------------------------------------------------------------------
(* Shards.                                                                 *)

(* The states of a shard.                                                  *)
Shard ==
  [ring : Seq(Page), ent : EntryMap, hot : Page \cup {0}, test : Page \cup {0},
   sizeHot : Int, sizeCold : Int, sizeTest : Int, coldTarget : Int, stuck : BOOLEAN]

(* What holds between any two rounds of the hands.                         *)
Good(s) ==
  /\ s \in Shard
  /\ RingOf(s.ring, DOMAIN s.ent)
  /\ s.ring = <<>> => s.hot = 0 /\ s.test = 0
  /\ s.ring # <<>> => s.hot \in DOMAIN s.ent /\ s.test \in DOMAIN s.ent
  /\ s.sizeHot = PageSize * Num(s.ent, "hot")
  /\ s.sizeCold = PageSize * Num(s.ent, "cold")
  /\ s.sizeTest = PageSize * Num(s.ent, "test")
  /\ s.coldTarget \in 0..MaxSize

(* What the hands have left to do.                                         *)
Left(s) == Work(s.ent)
ColdAhead(s) == Ahead(s.ring, 1, OfKind(s.ent, "cold"))
HotAhead(s) == Ahead(s.ring, Place(s, s.hot), OfKind(s.ent, "hot"))
TestAhead(s) == Ahead(s.ring, Place(s, s.test), OfKind(s.ent, "test"))

(* t is s without some of its ghosts.                                      *)
Pruned(s, t) ==
  /\ DOMAIN t.ent \subseteq DOMAIN s.ent
  /\ \A q \in DOMAIN t.ent : t.ent[q] = s.ent[q]
  /\ \A q \in DOMAIN s.ent : q \notin DOMAIN t.ent => s.ent[q].kind = "test"
  /\ t.sizeHot = s.sizeHot /\ t.sizeCold = s.sizeCold /\ t.sizeTest <= s.sizeTest
  /\ t.stuck = s.stuck
  /\ Left(t) = Left(s)
  /\ ColdAhead(t) <= ColdAhead(s)

(* Sizes of pages and budgets are positive.                                *)
LEMMA Numbers == PageSize \in Nat \ {0} /\ MaxSize \in Nat \ {0} /\ Cardinality(Page) \in Nat /\ Fuel \in Nat
<1>1. Cardinality(Page) \in Nat
  BY PageCacheAssumption, FS_CardinalityType
<1>2. Fuel \in Nat
  BY <1>1 DEF Fuel
<1> QED
  BY <1>1, <1>2, PageCacheAssumption

(* A size and the number of pages it stands for.                           *)
LEMMA Times ==
  /\ \A n \in Nat : PageSize * n \in Nat
  /\ \A n \in Nat : n # 0 => PageSize * n >= PageSize /\ PageSize * n > 0
  /\ \A n \in Nat : PageSize * (n + 1) = PageSize * n + PageSize
  /\ \A n \in Nat : PageSize * (n - 1) = PageSize * n - PageSize
  /\ \A m, n \in Nat : m < n => PageSize * m < PageSize * n
  /\ \A n \in Nat : n = 0 => PageSize * n = 0
<1>1. PageSize \in Nat /\ PageSize # 0
  BY Numbers
<1>2. \A n \in Nat : PageSize * n \in Nat
  BY <1>1
<1>3. \A n \in Nat : PageSize * (n + 1) = PageSize * n + PageSize
  BY <1>1
<1>4. \A n \in Nat : PageSize * (n - 1) = PageSize * n - PageSize
  BY <1>1
<1>5. \A m, n \in Nat : m < n => PageSize * m < PageSize * n
  <2>1. TAKE m, n \in Nat
  <2>2. HAVE m < n
  <2>3. PICK k \in Nat : n = m + (k + 1)
    <3>1. n - m - 1 \in Nat /\ n = m + ((n - m - 1) + 1)
      BY <2>2
    <3> QED
      BY <3>1
  <2>4. PageSize * n = PageSize * m + (PageSize * k + PageSize)
    BY <1>1, <2>3
  <2>5. PageSize * k \in Nat /\ PageSize * m \in Nat
    BY <1>2
  <2> QED
    BY <1>1, <2>4, <2>5
<1>6. \A n \in Nat : n = 0 => PageSize * n = 0
  BY <1>1
<1>7. \A n \in Nat : n # 0 => PageSize * n >= PageSize /\ PageSize * n > 0
  <2>1. TAKE n \in Nat
  <2>2. HAVE n # 0
  <2>3. n - 1 \in Nat /\ PageSize * (n - 1) = PageSize * n - PageSize
    BY <1>4, <2>2
  <2>4. PageSize * (n - 1) \in Nat /\ PageSize * n \in Nat
    BY <1>2, <2>3
  <2> QED
    BY <1>1, <2>3, <2>4
<1> QED
  BY <1>2, <1>3, <1>4, <1>5, <1>6, <1>7

(* What a good shard has: hands in the ring or at 0, counters that are     *)
(* numbers, no more entries than pages.                                    *)
LEMMA GoodBasics ==
  ASSUME NEW s, Good(s)
  PROVE  /\ s \in Shard /\ s.ent \in EntryMap /\ DOMAIN s.ent \subseteq Page
         /\ 0 \notin DOMAIN s.ent
         /\ s.ring = <<>> <=> DOMAIN s.ent = {}
         /\ s.ring = <<>> <=> s.hot = 0
         /\ s.ring = <<>> <=> s.test = 0
         /\ s.ring \in Seq(DOMAIN s.ent)
         /\ Len(s.ring) \in Nat /\ Len(s.ring) <= Cardinality(Page)
         /\ s.ring # <<>> => Len(s.ring) >= 1
         /\ \A q \in DOMAIN s.ent : s.ent[q] \in Entry
         /\ {Left(s), ColdAhead(s), HotAhead(s), TestAhead(s)} \subseteq Nat
<1>1. s \in Shard /\ s.ent \in EntryMap /\ DOMAIN s.ent \subseteq Page /\ \A q \in DOMAIN s.ent : s.ent[q] \in Entry
  BY EntryMapDef DEF Good, Shard
<1>2. 0 \notin DOMAIN s.ent
  BY <1>1, PageCacheAssumption
<1>3. s.ring = <<>> <=> DOMAIN s.ent = {}
  BY RingEmpty DEF Good
<1>4. (s.ring = <<>> <=> s.hot = 0) /\ (s.ring = <<>> <=> s.test = 0)
  BY <1>2 DEF Good
<1>5. s.ring \in Seq(DOMAIN s.ent) /\ Len(s.ring) \in Nat
  BY DEF Good, RingOf
<1>6. Len(s.ring) = Cardinality(DOMAIN s.ent)
  BY RingLen DEF Good
<1>7. Cardinality(DOMAIN s.ent) <= Cardinality(Page)
  BY <1>1, DomainFinite
<1>8. s.ring # <<>> => Len(s.ring) >= 1
  BY <1>5
<1>9. {Left(s), ColdAhead(s), HotAhead(s), TestAhead(s)} \subseteq Nat
  BY <1>1, <1>5, Counts, AheadDef DEF Left, ColdAhead, HotAhead, TestAhead
<1> QED
  BY <1>1, <1>2, <1>3, <1>4, <1>5, <1>6, <1>7, <1>8, <1>9

(* The entry of p out of the ring and the map: the hands move on.          *)
NextOf(s, p) == IF Len(s.ring) = 1 THEN 0 ELSE NextInRing(s, p)
HandAfter(s, p, h) == IF h = p \/ NextOf(s, p) = 0 THEN NextOf(s, p) ELSE h
RingWithout(s, p) == RemoveAt(s.ring, Place(s, p))
Without(d, p) == [q \in DOMAIN d \ {p} |-> d[q]]

(* Places and hands depend on the ring only.                               *)
LEMMA SameRing ==
  ASSUME NEW s, NEW t, s.ring = t.ring, NEW p, NEW h
  PROVE  /\ Place(t, p) = Place(s, p) /\ NextInRing(t, p) = NextInRing(s, p)
         /\ NextOf(t, p) = NextOf(s, p) /\ HandAfter(t, p, h) = HandAfter(s, p, h)
         /\ RingWithout(t, p) = RingWithout(s, p)
<1>1. Place(t, p) = Place(s, p)
  BY DEF Place
<1>2. NextInRing(t, p) = NextInRing(s, p)
  BY <1>1 DEF NextInRing
<1>3. NextOf(t, p) = NextOf(s, p)
  BY <1>2 DEF NextOf
<1>4. HandAfter(t, p, h) = HandAfter(s, p, h)
  BY <1>3 DEF HandAfter
<1>5. RingWithout(t, p) = RingWithout(s, p)
  BY <1>1 DEF RingWithout
<1> QED
  BY <1>1, <1>2, <1>3, <1>4, <1>5

(* unlinkAdvance in terms of the ring without p and the hands after it.    *)
LEMMA UnlinkIs ==
  ASSUME NEW s, NEW p
  PROVE  Unlink(s, p) = [s EXCEPT !.ring = RingWithout(s, p),
                                  !.hot = HandAfter(s, p, s.hot), !.test = HandAfter(s, p, s.test)]
  BY DEF Unlink, RingWithout, HandAfter, NextOf

(* An entry taken out of ring and map leaves a ring of the others, with    *)
(* hands in it.                                                            *)
LEMMA Unlinked ==
  ASSUME NEW s, Good(s), NEW p \in DOMAIN s.ent
  PROVE  LET r == RingWithout(s, p)
             e == Without(s.ent, p)
             hot == HandAfter(s, p, s.hot)
             test == HandAfter(s, p, s.test)
         IN  /\ e \in EntryMap /\ DOMAIN e = DOMAIN s.ent \ {p}
             /\ r \in Seq(Page) /\ RingOf(r, DOMAIN e)
             /\ r = <<>> => hot = 0 /\ test = 0
             /\ r # <<>> => hot \in DOMAIN e /\ test \in DOMAIN e
             /\ Len(r) = Len(s.ring) - 1
             /\ hot \in Page \cup {0} /\ test \in Page \cup {0}
<1> DEFINE r == RingWithout(s, p)
           e == Without(s.ent, p)
           next == NextOf(s, p)
<1>1. RingOf(s.ring, DOMAIN s.ent) /\ s.ent \in EntryMap /\ DOMAIN s.ent \subseteq Page
  BY GoodBasics DEF Good
<1>2. Place(s, p) \in 1..Len(s.ring) /\ s.ring[Place(s, p)] = p
  BY <1>1, RingPlace
<1>3. RingOf(r, DOMAIN s.ent \ {p})
  BY <1>1, <1>2, RingRemove DEF RingWithout
<1>4. e \in EntryMap /\ DOMAIN e = DOMAIN s.ent \ {p}
  BY <1>1, DroppedEntry DEF Without
<1>5. s.ring \in Seq(DOMAIN s.ent)
  BY <1>1 DEF RingOf
<1>6. Len(r) = Len(s.ring) - 1
  BY <1>2, <1>5, RemoveAtProps DEF RingWithout
<1> HIDE DEF r, e
<1>7. r \in Seq(DOMAIN e) /\ RingOf(r, DOMAIN e)
  BY <1>3, <1>4 DEF RingOf
<1>8. r \in Seq(Page)
  <2>1. DOMAIN e \subseteq Page
    BY <1>1, <1>4
  <2> QED
    BY <1>7, <2>1, SeqMonotonic
<1>9. r = <<>> <=> Len(s.ring) = 1
  <2>1. r = <<>> <=> Len(r) = 0
    BY <1>7, EmptySeq
  <2>2. Len(s.ring) \in Nat
    BY <1>5
  <2> QED
    BY <1>6, <2>1, <2>2
<1>10. /\ Len(s.ring) # 1 => next \in DOMAIN e
       /\ Len(s.ring) = 1 => next = 0
  BY <1>1, <1>4, RingNext DEF NextOf
<1>11. 0 \notin DOMAIN e /\ s.ring # <<>> /\ s.hot \in DOMAIN s.ent /\ s.test \in DOMAIN s.ent
  BY <1>4, GoodBasics DEF Good
<1> HIDE DEF next
<1> DEFINE hot == HandAfter(s, p, s.hot)
           test == HandAfter(s, p, s.test)
<1>12. /\ hot = IF s.hot = p \/ next = 0 THEN next ELSE s.hot
       /\ test = IF s.test = p \/ next = 0 THEN next ELSE s.test
  BY DEF HandAfter, next
<1> HIDE DEF hot, test
<1>13. r = <<>> => hot = 0 /\ test = 0
  BY <1>9, <1>10, <1>12
<1>14. r # <<>> => hot \in DOMAIN e /\ test \in DOMAIN e
  BY <1>4, <1>9, <1>10, <1>11, <1>12
<1>15. DOMAIN e \subseteq Page
  BY <1>1, <1>4
<1>16. hot \in Page \cup {0} /\ test \in Page \cup {0}
  BY <1>13, <1>14, <1>15
<1> QED
  BY <1>4, <1>6, <1>7, <1>8, <1>13, <1>14, <1>16 DEF r, e, hot, test

(* One step of the test hand that forgets a ghost.                         *)
LEMMA GhostForgotten ==
  ASSUME NEW s, Good(s), s.test # 0, s.ent[s.test].kind = "test"
  PROVE  LET p == s.test
             t == RunHandTest(s)
         IN  /\ t \in Shard
             /\ t.ring = RingWithout(s, p)
             /\ t.ent = Without(s.ent, p)
             /\ t.hot = HandAfter(s, p, s.hot)
             /\ t.test = HandAfter(s, p, p)
             /\ t.sizeHot = s.sizeHot /\ t.sizeCold = s.sizeCold
             /\ t.sizeTest = s.sizeTest - PageSize
             /\ t.coldTarget = IF s.coldTarget < PageSize THEN 0 ELSE s.coldTarget - PageSize
             /\ t.stuck = s.stuck
<1> DEFINE p == s.test
           r == RingWithout(s, p)
           e == Without(s.ent, p)
           hot == HandAfter(s, p, s.hot)
           test == HandAfter(s, p, p)
           a == [s EXCEPT !.sizeTest = @ + (-PageSize)]
           b == [a EXCEPT !.coldTarget = IF @ < PageSize THEN 0 ELSE @ - PageSize]
           c == [b EXCEPT !.ring = r, !.hot = hot, !.test = test]
           d == [c EXCEPT !.ent = e]
<1>1. p \in DOMAIN s.ent /\ s \in Shard /\ PageSize \in Nat
  BY GoodBasics, Numbers DEF Good
<1>2. e \in EntryMap /\ r \in Seq(Page) /\ hot \in Page \cup {0} /\ test \in Page \cup {0}
  BY <1>1, Unlinked
<1> HIDE DEF r, e, hot, test
<1>3. /\ a \in Shard
      /\ a.ring = s.ring /\ a.ent = s.ent /\ a.hot = s.hot /\ a.test = s.test
      /\ a.sizeHot = s.sizeHot /\ a.sizeCold = s.sizeCold /\ a.coldTarget = s.coldTarget /\ a.stuck = s.stuck
      /\ a.sizeTest = s.sizeTest - PageSize
  BY <1>1 DEF Shard
<1>4. Resize(s, "test", -PageSize) = a
  BY DEF Resize
<1> HIDE DEF a
<1>5. /\ b \in Shard
      /\ b.ring = s.ring /\ b.ent = s.ent /\ b.hot = s.hot /\ b.test = s.test
      /\ b.sizeHot = s.sizeHot /\ b.sizeCold = s.sizeCold /\ b.stuck = s.stuck
      /\ b.sizeTest = s.sizeTest - PageSize
      /\ b.coldTarget = IF s.coldTarget < PageSize THEN 0 ELSE s.coldTarget - PageSize
  BY <1>1, <1>3 DEF Shard
<1>6. RunHandTest(s) = Forget(Unlink(b, p), p)
  BY <1>4 DEF RunHandTest, Kind
<1> HIDE DEF b
<1>7. Unlink(b, p) = c
  <2>1. Unlink(b, p) = [b EXCEPT !.ring = RingWithout(b, p),
                                 !.hot = HandAfter(b, p, b.hot), !.test = HandAfter(b, p, b.test)]
    BY UnlinkIs
  <2>2. RingWithout(b, p) = r /\ HandAfter(b, p, b.hot) = hot /\ HandAfter(b, p, b.test) = test
    BY <1>5, SameRing DEF r, hot, test
  <2> QED
    BY <2>1, <2>2
<1>8. /\ c \in Shard
      /\ c.ring = r /\ c.ent = s.ent /\ c.hot = hot /\ c.test = test
      /\ c.sizeHot = s.sizeHot /\ c.sizeCold = s.sizeCold /\ c.stuck = s.stuck
      /\ c.sizeTest = s.sizeTest - PageSize
      /\ c.coldTarget = IF s.coldTarget < PageSize THEN 0 ELSE s.coldTarget - PageSize
  BY <1>2, <1>5 DEF Shard
<1> HIDE DEF c
<1>9. Forget(c, p) = d
  BY <1>8 DEF Forget, e, Without
<1>10. /\ d \in Shard
       /\ d.ring = r /\ d.ent = e /\ d.hot = hot /\ d.test = test
       /\ d.sizeHot = s.sizeHot /\ d.sizeCold = s.sizeCold /\ d.stuck = s.stuck
       /\ d.sizeTest = s.sizeTest - PageSize
       /\ d.coldTarget = IF s.coldTarget < PageSize THEN 0 ELSE s.coldTarget - PageSize
  BY <1>2, <1>8 DEF Shard
<1> HIDE DEF d
<1>11. RunHandTest(s) = d
  BY <1>6, <1>7, <1>9
<1> QED
  BY <1>10, <1>11 DEF r, e, hot, test

-----------------------------------------------------------------------------
(* The test hand.                                                          *)

(* A smaller multiple and a remainder are less than a larger multiple.     *)
LEMMA Multiples ==
  ASSUME NEW N \in Nat, NEW m \in Nat, NEW n \in Nat, m < n, NEW a \in Nat, NEW b \in Nat, a < N
  PROVE  N * m + a < N * n + b /\ N * m + a \in Nat
<1>1. PICK k \in Nat : n = m + (k + 1)
  <2>1. n - m - 1 \in Nat /\ n = m + ((n - m - 1) + 1)
    OBVIOUS
  <2> QED
    BY <2>1
<1>2. N * n = N * m + (N * k + N)
  BY <1>1
<1>3. N * k \in Nat /\ N * m \in Nat
  OBVIOUS
<1> QED
  BY <1>2, <1>3

(* Pages of a kind, when the size of the kind is not zero.                 *)
LEMMA SomeOfKind ==
  ASSUME NEW s, Good(s)
  PROVE  /\ s.sizeHot > 0 => OfKind(s.ent, "hot") # {}
         /\ s.sizeCold > 0 => OfKind(s.ent, "cold") # {}
         /\ s.sizeTest > 0 => OfKind(s.ent, "test") # {}
         /\ s.sizeHot \in Nat /\ s.sizeCold \in Nat /\ s.sizeTest \in Nat
<1>1. \A k : Num(s.ent, k) \in Nat /\ (Num(s.ent, k) = 0 <=> OfKind(s.ent, k) = {})
  BY GoodBasics, Counts
<1>2. \A n \in Nat : PageSize * n \in Nat /\ (n = 0 => PageSize * n = 0)
  BY Times
<1>3. /\ s.sizeHot = PageSize * Num(s.ent, "hot")
      /\ s.sizeCold = PageSize * Num(s.ent, "cold")
      /\ s.sizeTest = PageSize * Num(s.ent, "test")
  BY DEF Good
<1>4. ASSUME s.sizeHot > 0 PROVE OfKind(s.ent, "hot") # {}
  BY <1>1, <1>2, <1>3, <1>4
<1>5. ASSUME s.sizeCold > 0 PROVE OfKind(s.ent, "cold") # {}
  BY <1>1, <1>2, <1>3, <1>5
<1>6. ASSUME s.sizeTest > 0 PROVE OfKind(s.ent, "test") # {}
  BY <1>1, <1>2, <1>3, <1>6
<1>7. s.sizeHot \in Nat /\ s.sizeCold \in Nat /\ s.sizeTest \in Nat
  BY <1>1, <1>2, <1>3
<1> QED
  BY <1>4, <1>5, <1>6, <1>7

(* Forgetting ghosts twice is forgetting ghosts ...                        *)
LEMMA PrunedTransitive ==
  ASSUME NEW s, NEW t, NEW u, Good(s), Good(t), Good(u), Pruned(s, t), Pruned(t, u)
  PROVE  Pruned(s, u)
<1>1. {s.sizeTest, t.sizeTest, u.sizeTest, ColdAhead(s), ColdAhead(t), ColdAhead(u)} \subseteq Nat
  BY GoodBasics, SomeOfKind
<1>2. u.sizeTest <= s.sizeTest /\ ColdAhead(u) <= ColdAhead(s)
  BY <1>1 DEF Pruned
<1>3. /\ DOMAIN u.ent \subseteq DOMAIN s.ent
      /\ \A q \in DOMAIN u.ent : u.ent[q] = s.ent[q]
      /\ \A q \in DOMAIN s.ent : q \notin DOMAIN u.ent => s.ent[q].kind = "test"
  BY DEF Pruned
<1>4. u.sizeHot = s.sizeHot /\ u.sizeCold = s.sizeCold /\ u.stuck = s.stuck /\ Left(u) = Left(s)
  BY DEF Pruned
<1> QED
  BY <1>2, <1>3, <1>4 DEF Pruned

(* ... and so is forgetting none.                                          *)
LEMMA PrunedSelf ==
  ASSUME NEW s, Good(s)
  PROVE  Pruned(s, s)
<1>1. s.sizeTest <= s.sizeTest /\ ColdAhead(s) <= ColdAhead(s)
  BY GoodBasics, SomeOfKind
<1> QED
  BY <1>1 DEF Pruned

(* The test hand on a ghost.                                               *)
LEMMA TestHandForgets ==
  ASSUME NEW s, Good(s), s.test # 0, s.ent[s.test].kind = "test"
  PROVE  /\ Good(RunHandTest(s)) /\ Pruned(s, RunHandTest(s))
         /\ Num(RunHandTest(s).ent, "test") = Num(s.ent, "test") - 1
<1> DEFINE t == RunHandTest(s)
           p == s.test
<1>1. p \in DOMAIN s.ent /\ s.ent \in EntryMap
  BY GoodBasics DEF Good
<1>2. /\ t \in Shard
      /\ t.ring = RingWithout(s, p) /\ t.ent = Without(s.ent, p)
      /\ t.hot = HandAfter(s, p, s.hot) /\ t.test = HandAfter(s, p, p)
      /\ t.sizeHot = s.sizeHot /\ t.sizeCold = s.sizeCold /\ t.sizeTest = s.sizeTest - PageSize
      /\ t.coldTarget = IF s.coldTarget < PageSize THEN 0 ELSE s.coldTarget - PageSize
      /\ t.stuck = s.stuck
  BY GhostForgotten
<1> HIDE DEF t
<1>3. /\ t.ent \in EntryMap /\ DOMAIN t.ent = DOMAIN s.ent \ {p}
      /\ RingOf(t.ring, DOMAIN t.ent)
      /\ t.ring = <<>> => t.hot = 0 /\ t.test = 0
      /\ t.ring # <<>> => t.hot \in DOMAIN t.ent /\ t.test \in DOMAIN t.ent
  <2> DEFINE r == RingWithout(s, p)
             e == Without(s.ent, p)
             hot == HandAfter(s, p, s.hot)
             test == HandAfter(s, p, s.test)
  <2>1. /\ e \in EntryMap /\ DOMAIN e = DOMAIN s.ent \ {p}
        /\ RingOf(r, DOMAIN e)
        /\ r = <<>> => hot = 0 /\ test = 0
        /\ r # <<>> => hot \in DOMAIN e /\ test \in DOMAIN e
    BY <1>1, Unlinked
  <2> HIDE DEF r, e, hot, test
  <2>2. t.ring = r /\ t.ent = e /\ t.hot = hot /\ t.test = test
    BY <1>2 DEF r, e, hot, test
  <2> QED
    BY <2>1, <2>2
<1>4. /\ \A q \in DOMAIN t.ent : t.ent[q] = s.ent[q]
      /\ \A k : Num(t.ent, k) = Num(s.ent, k) - One(s.ent[p].kind = k)
      /\ Work(t.ent) = Work(s.ent) - Weight(s.ent[p])
  <2> DEFINE e == [q \in DOMAIN s.ent \ {p} |-> s.ent[q]]
  <2>1. /\ \A q \in DOMAIN e : e[q] = s.ent[q]
        /\ \A k : Num(e, k) = Num(s.ent, k) - One(s.ent[p].kind = k)
        /\ Work(e) = Work(s.ent) - Weight(s.ent[p])
    BY <1>1, DroppedEntry
  <2>2. t.ent = e
    BY <1>2 DEF Without
  <2> HIDE DEF e
  <2> QED
    BY <2>1, <2>2
<1>5. Weight(s.ent[p]) = 0
  BY DEF Weight, One, HasData, IsWarm, IsReferenced
<1>6. \A k : Num(s.ent, k) \in Nat
  BY <1>1, Counts
<1>7. Work(s.ent) \in Nat
  BY <1>1, Counts
<1>8. /\ Num(t.ent, "test") = Num(s.ent, "test") - 1
      /\ Num(t.ent, "hot") = Num(s.ent, "hot") /\ Num(t.ent, "cold") = Num(s.ent, "cold")
      /\ Left(t) = Left(s)
  BY <1>4, <1>5, <1>6, <1>7 DEF One, Left
<1>9. t.sizeTest = PageSize * Num(t.ent, "test") /\ t.sizeTest <= s.sizeTest
  <2>1. s.sizeTest = PageSize * Num(s.ent, "test")
    BY DEF Good
  <2>2. PageSize * (Num(s.ent, "test") - 1) = PageSize * Num(s.ent, "test") - PageSize
    BY <1>6, Times
  <2>3. PageSize \in Nat /\ s.sizeTest \in Nat
    BY Numbers, SomeOfKind
  <2> QED
    BY <1>2, <1>8, <2>1, <2>2, <2>3
<1>10. t.coldTarget \in 0..MaxSize
  BY <1>2, Numbers DEF Good
<1>11. Good(t)
  BY <1>2, <1>3, <1>8, <1>9, <1>10 DEF Good
<1>12. ColdAhead(t) <= ColdAhead(s)
  <2>1. OfKind(t.ent, "cold") = OfKind(s.ent, "cold")
    BY <1>3, <1>4 DEF OfKind
  <2>2. p \notin OfKind(s.ent, "cold")
    BY DEF OfKind
  <2>3. Place(s, p) \in 1..Len(s.ring) /\ s.ring[Place(s, p)] = p /\ RingOf(s.ring, DOMAIN s.ent)
    BY <1>1, RingPlace DEF Good
  <2>4. Ahead(RemoveAt(s.ring, Place(s, p)), 1, OfKind(s.ent, "cold")) <= Ahead(s.ring, 1, OfKind(s.ent, "cold"))
    BY <2>2, <2>3, AheadRemoved
  <2> QED
    BY <1>2, <2>1, <2>4 DEF ColdAhead, RingWithout
<1>13. \A q \in DOMAIN s.ent : q \notin DOMAIN t.ent => s.ent[q].kind = "test"
  BY <1>3
<1>14. Pruned(s, t)
  BY <1>2, <1>3, <1>4, <1>8, <1>9, <1>12, <1>13 DEF Pruned
<1> QED
  BY <1>8, <1>11, <1>14 DEF t

(* The test hand on another entry.                                         *)
LEMMA TestHandMoves ==
  ASSUME NEW s, Good(s), s.test # 0, s.ent[s.test].kind # "test", Len(s.ring) # 1
  PROVE  LET t == RunHandTest(s)
         IN  /\ Good(t) /\ t = [s EXCEPT !.test = NextInRing(s, s.test)]
             /\ t.ring = s.ring /\ t.ent = s.ent /\ t.hot = s.hot /\ t.test = NextInRing(s, s.test)
             /\ t.sizeHot = s.sizeHot /\ t.sizeCold = s.sizeCold /\ t.sizeTest = s.sizeTest
             /\ t.coldTarget = s.coldTarget /\ t.stuck = s.stuck
<1> DEFINE n == NextInRing(s, s.test)
           t == [s EXCEPT !.test = n]
<1>1. RunHandTest(s) = t
  BY DEF RunHandTest, Kind
<1>2. s \in Shard /\ RingOf(s.ring, DOMAIN s.ent) /\ s.test \in DOMAIN s.ent /\ DOMAIN s.ent \subseteq Page /\ s.ring # <<>>
  BY GoodBasics DEF Good
<1>3. n \in DOMAIN s.ent /\ n \in Page \cup {0}
  BY <1>2, RingNext
<1> HIDE DEF n
<1>4. /\ t \in Shard
      /\ t.ring = s.ring /\ t.ent = s.ent /\ t.hot = s.hot /\ t.test = n
      /\ t.sizeHot = s.sizeHot /\ t.sizeCold = s.sizeCold /\ t.sizeTest = s.sizeTest
      /\ t.coldTarget = s.coldTarget /\ t.stuck = s.stuck
  BY <1>2, <1>3 DEF Shard
<1>5. t = [s EXCEPT !.test = n]
  OBVIOUS
<1> HIDE DEF t
<1>6. Good(t)
  BY <1>2, <1>3, <1>4 DEF Good
<1> QED
  BY <1>1, <1>4, <1>5, <1>6 DEF n

(* A round of the test hand keeps the shard good and takes nothing but     *)
(* ghosts.                                                                 *)
LEMMA RunHandTestKeeps ==
  ASSUME NEW s, Good(s)
  PROVE  Good(RunHandTest(s)) /\ Pruned(s, RunHandTest(s))
<1>1. CASE s.test = 0
  BY <1>1, PrunedSelf DEF RunHandTest
<1>2. CASE s.test # 0 /\ s.ent[s.test].kind = "test"
  BY <1>2, TestHandForgets
<1>3. CASE s.test # 0 /\ s.ent[s.test].kind # "test" /\ Len(s.ring) = 1
  BY <1>3, PrunedSelf DEF RunHandTest, Kind
<1>4. CASE s.test # 0 /\ s.ent[s.test].kind # "test" /\ Len(s.ring) # 1
  <2> DEFINE t == RunHandTest(s)
  <2>1. /\ Good(t) /\ t.ring = s.ring /\ t.ent = s.ent
        /\ t.sizeHot = s.sizeHot /\ t.sizeCold = s.sizeCold /\ t.sizeTest = s.sizeTest /\ t.stuck = s.stuck
    BY <1>4, TestHandMoves
  <2> HIDE DEF t
  <2>2. Left(t) = Left(s) /\ ColdAhead(t) = ColdAhead(s)
    BY <2>1 DEF Left, ColdAhead
  <2>3. ColdAhead(s) \in Nat /\ s.sizeTest \in Nat
    BY GoodBasics, SomeOfKind
  <2>4. Pruned(s, t)
    BY <2>1, <2>2, <2>3 DEF Pruned
  <2> QED
    BY <2>1, <2>4 DEF t
<1> QED
  BY <1>1, <1>2, <1>3, <1>4

(* In a ring of one entry that is not of the kind there is none of it.     *)
LEMMA SoleEntry ==
  ASSUME NEW s, Good(s), Len(s.ring) = 1, NEW p \in DOMAIN s.ent, NEW q \in DOMAIN s.ent
  PROVE  p = q
<1>1. PICK i \in 1..Len(s.ring) : s.ring[i] = p
  BY DEF Good, RingOf
<1>2. PICK j \in 1..Len(s.ring) : s.ring[j] = q
  BY DEF Good, RingOf
<1> QED
  BY <1>1, <1>2

(* A hand that moves on comes nearer.                                      *)
LEMMA HandNearer ==
  ASSUME NEW s, Good(s), NEW t, t.ring = s.ring, NEW p \in DOMAIN s.ent, NEW K,
         p \notin K, NEW q \in DOMAIN s.ent, q \in K
  PROVE  /\ Len(s.ring) # 1
         /\ Ahead(t.ring, Place(t, NextInRing(s, p)), K) < Ahead(s.ring, Place(s, p), K)
<1>1. RingOf(s.ring, DOMAIN s.ent)
  BY DEF Good
<1>2. Len(s.ring) # 1
  BY SoleEntry
<1> DEFINE i == Place(s, p)
           n == IF i = Len(s.ring) THEN 1 ELSE i + 1
<1>3. i \in 1..Len(s.ring) /\ s.ring[i] = p
  BY <1>1, RingPlace
<1>4. Len(s.ring) \in Nat
  BY GoodBasics
<1>5. NextInRing(s, p) = s.ring[n]
  BY DEF NextInRing
<1> HIDE DEF i
<1>6. n \in 1..Len(s.ring)
  BY <1>3, <1>4
<1>7. \E d \in 0..(Len(s.ring) - 1) : At(s.ring, i, d) \in K
  BY <1>1, <1>3, RingReaches
<1>8. Ahead(s.ring, n, K) < Ahead(s.ring, i, K)
  BY <1>1, <1>3, <1>7, AheadMoves
<1> HIDE DEF n
<1>9. Place(t, s.ring[n]) = n
  <2>1. Place(s, s.ring[n]) = n
    BY <1>1, <1>6, PlaceIs
  <2> QED
    BY <2>1, SameRing
<1> QED
  BY <1>2, <1>5, <1>8, <1>9 DEF i

(* While there are too many ghosts, a round of the test hand has less left. *)
GhostsLeft(s) == Cardinality(Page) * Num(s.ent, "test") + TestAhead(s)

(* A hand is less than one turn away from the next entry of a kind.        *)
LEMMA AheadBound ==
  ASSUME NEW s, Good(s), NEW i, NEW K
  PROVE  /\ Ahead(s.ring, i, K) \in Nat
         /\ s.ring # <<>> => Ahead(s.ring, i, K) < Cardinality(Page)
         /\ s.ring = <<>> => Ahead(s.ring, i, K) = 0
<1>1. s.ring \in Seq(DOMAIN s.ent) /\ Len(s.ring) \in Nat /\ Len(s.ring) <= Cardinality(Page)
  BY GoodBasics
<1>2. /\ Ahead(s.ring, i, K) \in Nat
      /\ s.ring # <<>> => Ahead(s.ring, i, K) <= Len(s.ring) - 1
      /\ s.ring = <<>> => Ahead(s.ring, i, K) = 0
  BY <1>1, AheadDef
<1>3. Cardinality(Page) \in Nat
  BY Numbers
<1> QED
  BY <1>1, <1>2, <1>3

(* A round of the test hand forgets a ghost or comes nearer to one.        *)
LEMMA TestRoundProgress ==
  ASSUME NEW s, Good(s), TooManyGhosts(s)
  PROVE  GhostsLeft(RunHandTest(s)) < GhostsLeft(s)
<1> DEFINE t == RunHandTest(s)
<1>1. Good(t)
  BY RunHandTestKeeps
<1>2. s.test # 0 /\ s.ring # <<>> /\ s.test \in DOMAIN s.ent
  BY GoodBasics DEF TooManyGhosts, Good
<1>3. PICK q \in DOMAIN s.ent : s.ent[q].kind = "test"
  <2>1. s.sizeTest > 0
    BY Numbers, SomeOfKind DEF TooManyGhosts
  <2> QED
    BY <2>1, SomeOfKind DEF OfKind
<1>4. CASE s.ent[s.test].kind = "test"
  <2>1. Num(t.ent, "test") = Num(s.ent, "test") - 1
    BY <1>2, <1>4, TestHandForgets
  <2>2. Num(t.ent, "test") \in Nat /\ Num(s.ent, "test") \in Nat
    BY <1>1, GoodBasics, Counts
  <2>3. TestAhead(s) \in Nat /\ TestAhead(t) \in Nat
    BY <1>1, AheadBound DEF TestAhead
  <2>4. s.ring # <<>> => TestAhead(t) < Cardinality(Page)
    <3>1. t.ring # <<>> => TestAhead(t) < Cardinality(Page)
      BY <1>1, AheadBound DEF TestAhead
    <3>2. t.ring = <<>> => TestAhead(t) = 0
      BY <1>1, AheadBound DEF TestAhead
    <3>3. s.ring # <<>> => Cardinality(Page) > 0
      BY GoodBasics, Numbers
    <3> HIDE DEF t
    <3> QED
      BY <3>1, <3>2, <3>3
  <2> HIDE DEF t
  <2>5. Num(t.ent, "test") < Num(s.ent, "test")
    BY <2>1, <2>2
  <2>6. GhostsLeft(t) < GhostsLeft(s)
    BY <1>2, <2>2, <2>3, <2>4, <2>5, Numbers, Multiples DEF GhostsLeft
  <2> QED
    BY <2>6 DEF t
<1>5. CASE s.ent[s.test].kind # "test"
  <2>1. Len(s.ring) # 1
    BY <1>2, <1>3, <1>5, SoleEntry
  <2>2. t.ring = s.ring /\ t.ent = s.ent /\ t.test = NextInRing(s, s.test)
    BY <1>2, <1>5, <2>1, TestHandMoves
  <2> HIDE DEF t
  <2>3. s.test \notin OfKind(s.ent, "test") /\ q \in OfKind(s.ent, "test")
    BY <1>3, <1>5 DEF OfKind
  <2>4. Ahead(t.ring, Place(t, NextInRing(s, s.test)), OfKind(s.ent, "test")) < TestAhead(s)
    BY <1>2, <2>2, <2>3, HandNearer DEF TestAhead
  <2>5. TestAhead(t) < TestAhead(s)
    BY <2>2, <2>4 DEF TestAhead
  <2>6. TestAhead(t) \in Nat /\ TestAhead(s) \in Nat
    BY <1>1, AheadBound DEF TestAhead
  <2>7. Cardinality(Page) * Num(s.ent, "test") \in Nat
    BY Numbers, GoodBasics, Counts
  <2>8. GhostsLeft(t) < GhostsLeft(s)
    BY <2>2, <2>5, <2>6, <2>7 DEF GhostsLeft
  <2> QED
    BY <2>8 DEF t
<1> QED
  BY <1>4, <1>5

-----------------------------------------------------------------------------
(* Loops over the ring end.                                                *)

(* A step keeps the states of S; from those of T, where the loop goes on,  *)
(* it lowers the measure m, and it leaves the others alone.                *)
Lowers(S, T, step, m) ==
  \A t \in S :
    /\ t \in T => m[step[t]] < m[t]
    /\ t \notin T => step[t] = t
(* f runs through n rounds of step.                                        *)
Follows(f, S, step, n) == \A k \in 1..n : f[k - 1] \in S => f[k] = step[f[k - 1]]

(* A loop whose rounds lower a measure that starts no higher than the      *)
(* number of rounds has ended after them.                                  *)
LEMMA LoopEnds ==
  ASSUME NEW S, NEW T, NEW F \in Nat, NEW s \in S, NEW step \in [S -> S], NEW m \in [S -> Nat],
         Lowers(S, T, step, m), m[s] <= F,
         NEW f, f[0] = s, Follows(f, S, step, F)
  PROVE  /\ \A n \in 0..F : f[n] \in S
         /\ f[F] \notin T
<1>1. ASSUME NEW n \in 1..F, f[n - 1] \in S
      PROVE  /\ f[n] \in S
             /\ f[n - 1] \in T => m[f[n]] < m[f[n - 1]]
             /\ f[n - 1] \notin T => f[n] = f[n - 1]
  <2>1. f[n] = step[f[n - 1]]
    BY <1>1 DEF Follows
  <2> QED
    BY <1>1, <2>1 DEF Lowers
<1>2. \A n \in 1..F : f[n - 1] \in S =>
         /\ f[n] \in S
         /\ f[n - 1] \in T => m[f[n]] < m[f[n - 1]]
         /\ f[n - 1] \notin T => f[n] = f[n - 1]
  BY <1>1
<1>3. f[0] \in S
  OBVIOUS
<1>4. \A n \in 0..F : f[n] \in S /\ (f[n] \in T => m[f[n]] + n <= m[f[0]])
  BY <1>2, <1>3, LoopKeeps
<1>5. F \in 0..F
  OBVIOUS
<1>6. ASSUME f[F] \in T PROVE FALSE
  <2>1. m[f[F]] + F <= m[f[0]] /\ f[F] \in S
    BY <1>4, <1>5, <1>6
  <2>2. m[step[f[F]]] < m[f[F]]
    BY <1>6, <2>1 DEF Lowers
  <2>3. m[step[f[F]]] \in Nat /\ m[f[F]] \in Nat /\ m[f[0]] \in Nat
    BY <2>1
  <2> QED
    BY <2>1, <2>2, <2>3
<1> QED
  BY <1>4, <1>6

(* The number of rounds that the model allows is enough for the measures   *)
(* of the three loops.                                                     *)
LEMMA FuelEnough ==
  ASSUME NEW n \in Nat, n <= 3 * Cardinality(Page), NEW a \in Nat, a <= Cardinality(Page)
  PROVE  Cardinality(Page) * n + a <= Fuel /\ Cardinality(Page) * n + a \in Nat
<1> DEFINE N == Cardinality(Page)
<1>1. N \in Nat
  BY Numbers
<1>2. Fuel = N * (3 * N + 1)
  BY DEF Fuel
<1> HIDE DEF N
<1>3. N * (3 * N + 1) = N * (3 * N) + N
  BY <1>1
<1>4. n <= 3 * N /\ a <= N
  BY DEF N
<1>5. PICK k \in Nat : 3 * N = n + k
  <2>1. 3 * N - n \in Nat /\ 3 * N = n + (3 * N - n)
    BY <1>1, <1>4
  <2> QED
    BY <2>1
<1>6. N * (3 * N) = N * n + N * k
  BY <1>1, <1>5
<1>7. N * n \in Nat /\ N * k \in Nat
  BY <1>1
<1>8. N * n + a <= N * (3 * N + 1) /\ N * n + a \in Nat
  BY <1>1, <1>3, <1>4, <1>6, <1>7
<1> QED
  BY <1>2, <1>8 DEF N

(* The ghosts are pruned to the budget.                                    *)
LEMMA PruneEnds ==
  ASSUME NEW s, Good(s)
  PROVE  /\ Good(PruneGhosts(s)) /\ Pruned(s, PruneGhosts(s))
         /\ ~TooManyGhosts(PruneGhosts(s))
<1> DEFINE S == {t \in Shard : Good(t) /\ Pruned(s, t)}
           T == {t \in S : TooManyGhosts(t)}
           Round(t) == IF TooManyGhosts(t) THEN RunHandTest(t) ELSE t
           step == [t \in S |-> Round(t)]
           m == [t \in S |-> GhostsLeft(t)]
           Is(f) == f = [n \in 0..Fuel |-> IF n = 0 THEN s ELSE Round(f[n - 1])]
           after == CHOOSE f : Is(f)
           last == CHOOSE n \in 0..Fuel : n = Fuel \/ ~TooManyGhosts(after[n])
<1>1. s \in S
  BY PrunedSelf, GoodBasics
<1>2. ASSUME NEW t \in S PROVE Round(t) \in S
  <2>1. Good(t) /\ Pruned(s, t)
    OBVIOUS
  <2>2. Good(RunHandTest(t)) /\ Pruned(t, RunHandTest(t)) /\ RunHandTest(t) \in Shard
    BY <2>1, RunHandTestKeeps, GoodBasics
  <2>3. Pruned(s, RunHandTest(t))
    BY <2>1, <2>2, PrunedTransitive
  <2> QED
    BY <2>2, <2>3
<1>3. step \in [S -> S]
  BY <1>2
<1>4. ASSUME NEW t \in S PROVE GhostsLeft(t) \in Nat /\ GhostsLeft(t) <= Fuel
  <2>1. Good(t)
    OBVIOUS
  <2>2. TestAhead(t) \in Nat /\ TestAhead(t) <= Cardinality(Page)
    BY <2>1, AheadBound, Numbers DEF TestAhead
  <2>3. Num(t.ent, "test") \in Nat /\ Num(t.ent, "test") <= 3 * Cardinality(Page)
    BY <2>1, GoodBasics, Counts, Numbers
  <2> QED
    BY <2>2, <2>3, FuelEnough DEF GhostsLeft
<1>5. m \in [S -> Nat] /\ m[s] <= Fuel
  BY <1>1, <1>4
<1>6. \A t \in S : t \in T => m[step[t]] < m[t]
  <2>1. TAKE t \in S
  <2>2. HAVE t \in T
  <2>3. step[t] = RunHandTest(t) /\ RunHandTest(t) \in S /\ Good(t)
    BY <1>2, <2>2
  <2>4. GhostsLeft(RunHandTest(t)) < GhostsLeft(t)
    BY <2>2, <2>3, TestRoundProgress
  <2> QED
    BY <2>3, <2>4
<1>7. \A t \in S : t \notin T => step[t] = t
  OBVIOUS
<1>8. Is(after)
  <2>1. Fuel \in Nat
    BY Numbers
  <2>2. PICK f \in [0..Fuel -> S] : Run(f, s, step, Fuel)
    <3> HIDE DEF S, step
    <3>1. Runs(S, s, step, Fuel)
      BY <1>1, <1>3, <2>1, LoopExists
    <3> QED
      BY <3>1 DEF Runs
  <2>3. ASSUME NEW n \in 0..Fuel PROVE f[n] = IF n = 0 THEN s ELSE Round(f[n - 1])
    <3>1. n # 0 => n \in 1..Fuel /\ n - 1 \in 0..Fuel
      BY <2>1
    <3>2. n # 0 => f[n - 1] \in S
      BY <3>1
    <3>3. n # 0 => step[f[n - 1]] = Round(f[n - 1])
      BY <3>2
    <3> HIDE DEF Round, step, S
    <3> QED
      BY <2>2, <3>1, <3>3 DEF Run
  <2>4. Is(f)
    <3> HIDE DEF Round, step, S
    <3> QED
      BY <2>3
  <2> HIDE DEF Is
  <2> QED
    BY <2>4
<1> HIDE DEF Is, after
<1>9. after[0] = s /\ \A n \in 1..Fuel : after[n] = Round(after[n - 1])
  <2>1. after = [n \in 0..Fuel |-> IF n = 0 THEN s ELSE Round(after[n - 1])]
    BY <1>8 DEF Is
  <2> HIDE DEF Round
  <2> QED
    BY <2>1, Numbers
<1>10. Follows(after, S, step, Fuel)
  BY <1>9 DEF Follows
<1>11. /\ \A n \in 0..Fuel : after[n] \in S
       /\ after[Fuel] \notin T
  <2>1. Fuel \in Nat /\ after[0] = s
    BY <1>9, Numbers
  <2>2. Lowers(S, T, step, m)
    <3> HIDE DEF S, T, step, m
    <3> QED
      BY <1>6, <1>7 DEF Lowers
  <2> HIDE DEF S, T, step, m
  <2> QED
    BY <1>1, <1>3, <1>5, <1>10, <2>1, <2>2, LoopEnds
<1>12. last \in 0..Fuel /\ (last = Fuel \/ ~TooManyGhosts(after[last]))
  <2>1. Fuel \in 0..Fuel
    BY Numbers
  <2> QED
    BY <2>1
<1> HIDE DEF last
<1>13. after[last] \in S /\ ~TooManyGhosts(after[last])
  BY <1>11, <1>12
<1>14. PruneGhosts(s) = IF TooManyGhosts(after[last]) THEN [after[last] EXCEPT !.stuck = TRUE] ELSE after[last]
  BY DEF PruneGhosts, last, after, Is, Round
<1> QED
  BY <1>13, <1>14

-----------------------------------------------------------------------------
(* One entry changed, and the sizes with it.                               *)

(* The kinds, and the size of an entry that counts when b.                 *)
KindSet == {"hot", "cold", "test"}
Size(b) == IF b THEN PageSize ELSE 0

(* A counter follows the number of its entries: one more and one less, ... *)
LEMMA SizeChange ==
  ASSUME NEW n \in Nat, NEW a, NEW b, NEW k \in Nat, k = n + One(a) - One(b)
  PROVE  PageSize * k = PageSize * n + Size(a) - Size(b)
<1> DEFINE x == PageSize * n
           y == PageSize * k
<1>1. x \in Nat /\ PageSize \in Nat
  BY Times, Numbers
<1>2. (One(a) = 1 /\ Size(a) = PageSize) \/ (One(a) = 0 /\ Size(a) = 0)
  BY DEF One, Size
<1>3. (One(b) = 1 /\ Size(b) = PageSize) \/ (One(b) = 0 /\ Size(b) = 0)
  BY DEF One, Size
<1>4. k = n => y = x
  OBVIOUS
<1>5. k = n + 1 => y = x + PageSize
  BY Times
<1>6. k = n - 1 => y = x - PageSize
  BY Times
<1> HIDE DEF x, y
<1>7. y = x + Size(a) - Size(b)
  BY <1>1, <1>2, <1>3, <1>4, <1>5, <1>6
<1> QED
  BY <1>7 DEF x, y

(* ... one more, ...                                                       *)
LEMMA SizeMore ==
  ASSUME NEW n \in Nat, NEW a, NEW k \in Nat, k = n + One(a)
  PROVE  /\ PageSize * k = PageSize * n + Size(a)
         /\ PageSize * k \in Nat /\ PageSize * n \in Nat
<1> DEFINE x == PageSize * n
           y == PageSize * k
<1>1. x \in Nat /\ y \in Nat /\ PageSize \in Nat
  BY Times, Numbers
<1>2. (One(a) = 1 /\ Size(a) = PageSize) \/ (One(a) = 0 /\ Size(a) = 0)
  BY DEF One, Size
<1>3. k = n => y = x
  OBVIOUS
<1>4. k = n + 1 => y = x + PageSize
  BY Times
<1> HIDE DEF x, y
<1>5. y = x + Size(a)
  BY <1>1, <1>2, <1>3, <1>4
<1> QED
  BY <1>1, <1>5 DEF x, y

(* ... one less.                                                           *)
LEMMA SizeLess ==
  ASSUME NEW n \in Nat, NEW a, NEW k \in Nat, k = n - One(a)
  PROVE  /\ PageSize * k = PageSize * n - Size(a)
         /\ PageSize * k \in Nat /\ PageSize * n \in Nat
<1> DEFINE x == PageSize * n
           y == PageSize * k
<1>1. x \in Nat /\ y \in Nat /\ PageSize \in Nat
  BY Times, Numbers
<1>2. (One(a) = 1 /\ Size(a) = PageSize) \/ (One(a) = 0 /\ Size(a) = 0)
  BY DEF One, Size
<1>3. k = n => y = x
  OBVIOUS
<1>4. k = n - 1 => y = x - PageSize
  BY Times
<1> HIDE DEF x, y
<1>5. y = x - Size(a)
  BY <1>1, <1>2, <1>3, <1>4
<1> QED
  BY <1>1, <1>5 DEF x, y

(* Resize moves the counter of one kind.                                   *)
LEMMA ResizeIs ==
  ASSUME NEW s, s \in Shard, NEW k, k \in KindSet, NEW n, n \in Int
  PROVE  LET t == Resize(s, k, n)
         IN  /\ t \in Shard
             /\ t.ring = s.ring /\ t.ent = s.ent /\ t.hot = s.hot /\ t.test = s.test
             /\ t.coldTarget = s.coldTarget /\ t.stuck = s.stuck
             /\ t.sizeHot = IF k = "hot" THEN s.sizeHot + n ELSE s.sizeHot
             /\ t.sizeCold = IF k = "cold" THEN s.sizeCold + n ELSE s.sizeCold
             /\ t.sizeTest = IF k = "test" THEN s.sizeTest + n ELSE s.sizeTest
<1>1. CASE k = "hot"
  <2> DEFINE v == s.sizeHot + n
             t == [s EXCEPT !.sizeHot = v]
  <2>0. v \in Int
    BY DEF Shard
  <2>1. Resize(s, k, n) = t
    BY <1>1 DEF Resize
  <2> HIDE DEF v
  <2>2. /\ t \in Shard
        /\ t.ring = s.ring /\ t.ent = s.ent /\ t.hot = s.hot /\ t.test = s.test
        /\ t.coldTarget = s.coldTarget /\ t.stuck = s.stuck
        /\ t.sizeHot = v /\ t.sizeCold = s.sizeCold /\ t.sizeTest = s.sizeTest
    BY <2>0 DEF Shard
  <2> HIDE DEF t
  <2> QED
    BY <1>1, <2>1, <2>2 DEF v
<1>2. CASE k = "cold"
  <2> DEFINE v == s.sizeCold + n
             t == [s EXCEPT !.sizeCold = v]
  <2>0. v \in Int
    BY DEF Shard
  <2>1. Resize(s, k, n) = t
    BY <1>2 DEF Resize
  <2> HIDE DEF v
  <2>2. /\ t \in Shard
        /\ t.ring = s.ring /\ t.ent = s.ent /\ t.hot = s.hot /\ t.test = s.test
        /\ t.coldTarget = s.coldTarget /\ t.stuck = s.stuck
        /\ t.sizeHot = s.sizeHot /\ t.sizeCold = v /\ t.sizeTest = s.sizeTest
    BY <2>0 DEF Shard
  <2> HIDE DEF t
  <2> QED
    BY <1>2, <2>1, <2>2 DEF v
<1>3. CASE k = "test"
  <2> DEFINE v == s.sizeTest + n
             t == [s EXCEPT !.sizeTest = v]
  <2>0. v \in Int
    BY DEF Shard
  <2>1. Resize(s, k, n) = t
    BY <1>3 DEF Resize
  <2> HIDE DEF v
  <2>2. /\ t \in Shard
        /\ t.ring = s.ring /\ t.ent = s.ent /\ t.hot = s.hot /\ t.test = s.test
        /\ t.coldTarget = s.coldTarget /\ t.stuck = s.stuck
        /\ t.sizeHot = s.sizeHot /\ t.sizeCold = s.sizeCold /\ t.sizeTest = v
    BY <2>0 DEF Shard
  <2> HIDE DEF t
  <2> QED
    BY <1>3, <2>1, <2>2 DEF v
<1> QED
  BY <1>1, <1>2, <1>3 DEF KindSet

(* Turn changes the kind of an entry and moves its size from one counter   *)
(* to the other.                                                           *)
LEMMA TurnIs ==
  ASSUME NEW s \in Shard, NEW p \in DOMAIN s.ent, NEW k \in KindSet
  PROVE  LET t == Turn(s, p, k)
         IN  /\ t \in Shard
             /\ t.ring = s.ring /\ t.hot = s.hot /\ t.test = s.test
             /\ t.coldTarget = s.coldTarget /\ t.stuck = s.stuck
             /\ t.ent = [s.ent EXCEPT ![p] = [s.ent[p] EXCEPT !.kind = k]]
             /\ t.sizeHot = s.sizeHot + Size(k = "hot") - Size(s.ent[p].kind = "hot")
             /\ t.sizeCold = s.sizeCold + Size(k = "cold") - Size(s.ent[p].kind = "cold")
             /\ t.sizeTest = s.sizeTest + Size(k = "test") - Size(s.ent[p].kind = "test")
<1> DEFINE x == [s.ent[p] EXCEPT !.kind = k]
           e == [s.ent EXCEPT ![p] = x]
           a == [s EXCEPT !.ent = e]
           old == s.ent[p].kind
           b == Resize(a, old, -PageSize)
           t == Resize(b, k, PageSize)
<1>1. s.ent \in EntryMap /\ s.ent[p] \in Entry /\ PageSize \in Nat
  BY EntryMapDef, Numbers DEF Shard
<1>2. x \in Entry /\ old \in KindSet
  BY <1>1 DEF Entry, KindSet
<1>3. e \in EntryMap
  <2> HIDE DEF x
  <2> QED
    BY <1>1, <1>2, ChangedEntry
<1>4. Turn(s, p, k) = t
  BY DEF Turn, Kind
<1> HIDE DEF x, e
<1>5. /\ a \in Shard
      /\ a.ring = s.ring /\ a.ent = e /\ a.hot = s.hot /\ a.test = s.test
      /\ a.coldTarget = s.coldTarget /\ a.stuck = s.stuck
      /\ a.sizeHot = s.sizeHot /\ a.sizeCold = s.sizeCold /\ a.sizeTest = s.sizeTest
      /\ {a.sizeHot, a.sizeCold, a.sizeTest} \subseteq Int
  BY <1>3 DEF Shard
<1> HIDE DEF a
<1>6. /\ b \in Shard
      /\ b.ring = a.ring /\ b.ent = a.ent /\ b.hot = a.hot /\ b.test = a.test
      /\ b.coldTarget = a.coldTarget /\ b.stuck = a.stuck
      /\ b.sizeHot = IF old = "hot" THEN a.sizeHot + (-PageSize) ELSE a.sizeHot
      /\ b.sizeCold = IF old = "cold" THEN a.sizeCold + (-PageSize) ELSE a.sizeCold
      /\ b.sizeTest = IF old = "test" THEN a.sizeTest + (-PageSize) ELSE a.sizeTest
  <2> DEFINE n == -PageSize
  <2>1. n \in Int
    BY <1>1
  <2> HIDE DEF n
  <2>2. /\ Resize(a, old, n) \in Shard
        /\ Resize(a, old, n).ring = a.ring /\ Resize(a, old, n).ent = a.ent
        /\ Resize(a, old, n).hot = a.hot /\ Resize(a, old, n).test = a.test
        /\ Resize(a, old, n).coldTarget = a.coldTarget /\ Resize(a, old, n).stuck = a.stuck
        /\ Resize(a, old, n).sizeHot = IF old = "hot" THEN a.sizeHot + n ELSE a.sizeHot
        /\ Resize(a, old, n).sizeCold = IF old = "cold" THEN a.sizeCold + n ELSE a.sizeCold
        /\ Resize(a, old, n).sizeTest = IF old = "test" THEN a.sizeTest + n ELSE a.sizeTest
    <3>1. a \in Shard /\ old \in KindSet
      BY <1>2, <1>5
    <3> HIDE DEF old, b, t
    <3> QED
      BY <2>1, <3>1, ResizeIs
  <2>3. b = Resize(a, old, n)
    BY DEF n
  <2> HIDE DEF b
  <2> QED
    BY <2>2, <2>3 DEF n
<1> HIDE DEF b
<1>7. /\ t \in Shard
      /\ t.ring = b.ring /\ t.ent = b.ent /\ t.hot = b.hot /\ t.test = b.test
      /\ t.coldTarget = b.coldTarget /\ t.stuck = b.stuck
      /\ t.sizeHot = IF k = "hot" THEN b.sizeHot + PageSize ELSE b.sizeHot
      /\ t.sizeCold = IF k = "cold" THEN b.sizeCold + PageSize ELSE b.sizeCold
      /\ t.sizeTest = IF k = "test" THEN b.sizeTest + PageSize ELSE b.sizeTest
  BY <1>1, <1>6, ResizeIs
<1> HIDE DEF t
<1>8. /\ t.sizeHot = s.sizeHot + Size(k = "hot") - Size(old = "hot")
      /\ t.sizeCold = s.sizeCold + Size(k = "cold") - Size(old = "cold")
      /\ t.sizeTest = s.sizeTest + Size(k = "test") - Size(old = "test")
  <2> HIDE DEF old
  <2> QED
    BY <1>1, <1>5, <1>6, <1>7 DEF Size
<1> QED
  BY <1>4, <1>5, <1>6, <1>7, <1>8 DEF x, e

(* t is s with x for the entry of p, and the sizes are right.              *)
LEMMA EntryChanged ==
  ASSUME NEW s, Good(s), NEW p \in DOMAIN s.ent, NEW x \in Entry, NEW t \in Shard,
         t.ring = s.ring, t.hot = s.hot, t.test = s.test, t.coldTarget = s.coldTarget,
         t.ent = [s.ent EXCEPT ![p] = x],
         t.sizeHot = s.sizeHot + Size(x.kind = "hot") - Size(s.ent[p].kind = "hot"),
         t.sizeCold = s.sizeCold + Size(x.kind = "cold") - Size(s.ent[p].kind = "cold"),
         t.sizeTest = s.sizeTest + Size(x.kind = "test") - Size(s.ent[p].kind = "test")
  PROVE  /\ Good(t)
         /\ DOMAIN t.ent = DOMAIN s.ent /\ t.ent[p] = x
         /\ \A q \in DOMAIN s.ent : q # p => t.ent[q] = s.ent[q]
         /\ Left(t) = Left(s) + Weight(x) - Weight(s.ent[p])
<1>1. s.ent \in EntryMap
  BY GoodBasics
<1>2. /\ t.ent \in EntryMap /\ DOMAIN t.ent = DOMAIN s.ent /\ t.ent[p] = x
      /\ \A q \in DOMAIN s.ent : q # p => t.ent[q] = s.ent[q]
      /\ \A k : Num(t.ent, k) = Num(s.ent, k) + One(x.kind = k) - One(s.ent[p].kind = k)
      /\ Work(t.ent) = Work(s.ent) + Weight(x) - Weight(s.ent[p])
  <2> DEFINE e == [s.ent EXCEPT ![p] = x]
  <2>1. /\ e \in EntryMap /\ DOMAIN e = DOMAIN s.ent /\ e[p] = x
        /\ \A q \in DOMAIN s.ent : q # p => e[q] = s.ent[q]
        /\ \A k : Num(e, k) = Num(s.ent, k) + One(x.kind = k) - One(s.ent[p].kind = k)
        /\ Work(e) = Work(s.ent) + Weight(x) - Weight(s.ent[p])
    BY <1>1, ChangedEntry
  <2>2. t.ent = e
    OBVIOUS
  <2> HIDE DEF e
  <2> QED
    BY <2>1, <2>2
<1>3. \A k : Num(t.ent, k) \in Nat /\ Num(s.ent, k) \in Nat
  BY <1>1, <1>2, Counts
<1>4. /\ t.sizeHot = PageSize * Num(t.ent, "hot")
      /\ t.sizeCold = PageSize * Num(t.ent, "cold")
      /\ t.sizeTest = PageSize * Num(t.ent, "test")
  <2>1. \A k \in KindSet : PageSize * Num(t.ent, k)
           = PageSize * Num(s.ent, k) + Size(x.kind = k) - Size(s.ent[p].kind = k)
    <3>1. TAKE k \in KindSet
    <3>3. Num(t.ent, k) = Num(s.ent, k) + One(x.kind = k) - One(s.ent[p].kind = k)
      BY <1>2
    <3> QED
      BY <1>3, <3>3, SizeChange
  <2>2. /\ s.sizeHot = PageSize * Num(s.ent, "hot")
        /\ s.sizeCold = PageSize * Num(s.ent, "cold")
        /\ s.sizeTest = PageSize * Num(s.ent, "test")
    BY DEF Good
  <2> QED
    BY <2>1, <2>2 DEF KindSet
<1>5. /\ RingOf(s.ring, DOMAIN s.ent)
      /\ s.ring = <<>> => s.hot = 0 /\ s.test = 0
      /\ s.ring # <<>> => s.hot \in DOMAIN s.ent /\ s.test \in DOMAIN s.ent
      /\ s.coldTarget \in 0..MaxSize
  BY DEF Good
<1>6. Good(t)
  BY <1>2, <1>4, <1>5 DEF Good
<1> QED
  BY <1>2, <1>6 DEF Left

-----------------------------------------------------------------------------
(* The hot hand.                                                           *)

(* What the hands may do to the entries: take away data, heat and ghosts.  *)
Worked(s, t) ==
  /\ \A q \in DOMAIN t.ent : HasData(t.ent[q]) =>
       q \in DOMAIN s.ent /\ HasData(s.ent[q]) /\ t.ent[q].img = s.ent[q].img
  /\ \A q \in DOMAIN t.ent : IsWarm(t.ent[q]) => q \in DOMAIN s.ent /\ IsWarm(s.ent[q])
  /\ t.stuck = s.stuck
  /\ s.sizeTest <= MaxSize => t.sizeTest <= MaxSize
  /\ Left(t) <= Left(s)

(* A hand that took nothing away only came nearer.                         *)
Still(s, t) ==
  Left(t) = Left(s) =>
    t.sizeHot = s.sizeHot /\ t.sizeCold = s.sizeCold /\ ColdAhead(t) <= ColdAhead(s)

(* Doing nothing is allowed ...                                            *)
LEMMA WorkedSelf ==
  ASSUME NEW s, Good(s)
  PROVE  Worked(s, s) /\ Still(s, s)
<1>1. Left(s) <= Left(s) /\ ColdAhead(s) <= ColdAhead(s)
  BY GoodBasics
<1> QED
  BY <1>1 DEF Worked, Still

(* ... and so are two steps, one after the other.                          *)
LEMMA WorkedTransitive ==
  ASSUME NEW s, NEW t, NEW u, Good(s), Good(t), Good(u), Worked(s, t), Worked(t, u)
  PROVE  /\ Worked(s, u)
         /\ Still(s, t) /\ Still(t, u) => Still(s, u)
<1>1. {Left(s), Left(t), Left(u), ColdAhead(s), ColdAhead(t), ColdAhead(u)} \subseteq Nat
  BY GoodBasics
<1>2. Left(t) <= Left(s) /\ Left(u) <= Left(t)
  BY DEF Worked
<1>3. Left(u) <= Left(s)
  BY <1>1, <1>2
<1>4. \A q \in DOMAIN u.ent : HasData(u.ent[q]) =>
        q \in DOMAIN s.ent /\ HasData(s.ent[q]) /\ u.ent[q].img = s.ent[q].img
  BY DEF Worked
<1>5. \A q \in DOMAIN u.ent : IsWarm(u.ent[q]) => q \in DOMAIN s.ent /\ IsWarm(s.ent[q])
  BY DEF Worked
<1>6. u.stuck = s.stuck /\ (s.sizeTest <= MaxSize => u.sizeTest <= MaxSize)
  BY DEF Worked
<1>7. Worked(s, u)
  BY <1>3, <1>4, <1>5, <1>6 DEF Worked
<1>8. ASSUME Still(s, t), Still(t, u) PROVE Still(s, u)
  <2>1. SUFFICES ASSUME Left(u) = Left(s)
        PROVE  u.sizeHot = s.sizeHot /\ u.sizeCold = s.sizeCold /\ ColdAhead(u) <= ColdAhead(s)
    BY DEF Still
  <2>2. Left(t) = Left(s) /\ Left(u) = Left(t)
    BY <1>1, <1>2, <2>1
  <2> QED
    BY <1>1, <1>8, <2>2 DEF Still
<1> QED
  BY <1>7, <1>8

(* Forgetting ghosts is work of the hands.                                 *)
LEMMA PrunedWorked ==
  ASSUME NEW s, NEW t, Good(s), Good(t), Pruned(s, t)
  PROVE  Worked(s, t) /\ Still(s, t)
<1>1. {s.sizeTest, t.sizeTest, Left(s), Left(t)} \subseteq Nat
  BY GoodBasics, SomeOfKind
<1>2. Left(t) <= Left(s) /\ (s.sizeTest <= MaxSize => t.sizeTest <= MaxSize)
  BY <1>1, Numbers DEF Pruned
<1>3. \A q \in DOMAIN t.ent : q \in DOMAIN s.ent /\ t.ent[q] = s.ent[q]
  BY DEF Pruned
<1>4. Worked(s, t)
  BY <1>2, <1>3 DEF Worked, Pruned
<1> QED
  BY <1>4 DEF Still, Pruned

(* A hand pushed on.                                                       *)
LEMMA HotHandMoved ==
  ASSUME NEW s, Good(s), s.ring # <<>>
  PROVE  LET t == [s EXCEPT !.hot = NextInRing(s, @)]
         IN  /\ Good(t) /\ Worked(s, t) /\ Still(s, t) /\ Left(t) = Left(s)
             /\ t.ring = s.ring /\ t.ent = s.ent /\ t.hot = NextInRing(s, s.hot)
<1> DEFINE n == NextInRing(s, s.hot)
           t == [s EXCEPT !.hot = n]
<1>1. s \in Shard /\ RingOf(s.ring, DOMAIN s.ent) /\ s.hot \in DOMAIN s.ent /\ DOMAIN s.ent \subseteq Page
  BY GoodBasics DEF Good
<1>2. n \in DOMAIN s.ent /\ n \in Page \cup {0}
  BY <1>1, RingNext
<1>3. [s EXCEPT !.hot = NextInRing(s, @)] = t
  OBVIOUS
<1> HIDE DEF n
<1>4. /\ t \in Shard
      /\ t.ring = s.ring /\ t.ent = s.ent /\ t.hot = n /\ t.test = s.test
      /\ t.sizeHot = s.sizeHot /\ t.sizeCold = s.sizeCold /\ t.sizeTest = s.sizeTest
      /\ t.coldTarget = s.coldTarget /\ t.stuck = s.stuck
  BY <1>1, <1>2 DEF Shard
<1> HIDE DEF t
<1>5. Good(t)
  BY <1>1, <1>2, <1>4 DEF Good
<1>6. Left(t) = Left(s) /\ ColdAhead(t) = ColdAhead(s)
  BY <1>4 DEF Left, ColdAhead
<1>7. Left(t) <= Left(s) /\ ColdAhead(t) <= ColdAhead(s)
  BY <1>6, GoodBasics
<1>8. Worked(s, t) /\ Still(s, t)
  BY <1>4, <1>7 DEF Worked, Still
<1> QED
  BY <1>3, <1>4, <1>5, <1>6, <1>8 DEF n

(* The hot hand does not pass the test hand, which makes way first.        *)
LEMMA TestHandFirst ==
  ASSUME NEW s, Good(s), NEW q \in DOMAIN s.ent, s.ent[q].kind = "hot"
  PROVE  LET u == IF s.hot = s.test THEN RunHandTest(s) ELSE s
         IN  /\ Good(u) /\ Pruned(s, u)
             /\ q \in DOMAIN u.ent /\ u.ent[q] = s.ent[q]
             /\ HotAhead(u) <= HotAhead(s)
<1> DEFINE u == IF s.hot = s.test THEN RunHandTest(s) ELSE s
<1>1. Good(u) /\ Pruned(s, u)
  BY RunHandTestKeeps, PrunedSelf
<1>2. q \in DOMAIN u.ent /\ u.ent[q] = s.ent[q]
  <2> HIDE DEF u
  <2> QED
    BY <1>1 DEF Pruned
<1>3. s.ring # <<>> /\ s.test # 0 /\ s.hot \in DOMAIN s.ent /\ s.test \in DOMAIN s.ent /\ HotAhead(s) \in Nat
  BY GoodBasics DEF Good
<1>4. CASE s.hot # s.test
  BY <1>1, <1>2, <1>3, <1>4
<1>5. CASE s.hot = s.test /\ s.ent[s.test].kind # "test"
  <2>1. CASE Len(s.ring) = 1
    <3>1. RunHandTest(s) = s
      BY <1>3, <1>5, <2>1 DEF RunHandTest, Kind
    <3> QED
      BY <1>1, <1>2, <1>3, <3>1
  <2>2. CASE Len(s.ring) # 1
    <3> DEFINE t == RunHandTest(s)
    <3>1. t.ring = s.ring /\ t.ent = s.ent /\ t.hot = s.hot
      BY <1>3, <1>5, <2>2, TestHandMoves
    <3>2. u = t
      BY <1>5
    <3> HIDE DEF t, u
    <3>3. HotAhead(t) = HotAhead(s)
      <4>1. Place(t, t.hot) = Place(s, s.hot)
        BY <3>1, SameRing
      <4> QED
        BY <3>1, <4>1 DEF HotAhead
    <3>4. HotAhead(u) <= HotAhead(s)
      BY <1>3, <3>2, <3>3
    <3> QED
      BY <1>1, <1>2, <3>4 DEF u
  <2> QED
    BY <2>1, <2>2
<1>6. CASE s.hot = s.test /\ s.ent[s.test].kind = "test"
  <2> DEFINE t == RunHandTest(s)
             p == s.hot
             K == OfKind(s.ent, "hot")
             i == Place(s, p)
             n == IF i = Len(s.ring) THEN 1 ELSE i + 1
             j == IF i = Len(s.ring) THEN 1 ELSE i
  <2>1. t.ring = RingWithout(s, p) /\ t.ent = Without(s.ent, p) /\ t.hot = HandAfter(s, p, p)
    BY <1>3, <1>6, GhostForgotten
  <2>2. q # p
    BY <1>6
  <2>3. Len(s.ring) # 1
    BY <1>3, <2>2, SoleEntry
  <2>4. RingOf(s.ring, DOMAIN s.ent) /\ Len(s.ring) \in Nat /\ i \in 1..Len(s.ring) /\ s.ring[i] = p
    BY <1>3, GoodBasics, RingPlace DEF Good
  <2>5. t.ring = RemoveAt(s.ring, i)
    BY <2>1 DEF RingWithout
  <2>6. t.hot = s.ring[n]
    <3>1. HandAfter(s, p, p) = NextInRing(s, p)
      BY <2>3 DEF HandAfter, NextOf
    <3> QED
      BY <2>1, <3>1 DEF NextInRing
  <2>7. p \notin K /\ q \in K /\ \E d \in 0..(Len(s.ring) - 1) : At(s.ring, i, d) \in K
    <3>1. p \notin K /\ q \in K
      BY <1>6 DEF OfKind
    <3> HIDE DEF i, K
    <3> QED
      BY <2>4, <3>1, RingReaches
  <2>8. OfKind(t.ent, "hot") = K
    <3>1. DOMAIN t.ent = DOMAIN s.ent \ {p} /\ \A x \in DOMAIN t.ent : t.ent[x] = s.ent[x]
      BY <2>1 DEF Without
    <3> HIDE DEF t
    <3> QED
      BY <1>6, <3>1 DEF OfKind
  <2>9. Ahead(RemoveAt(s.ring, i), j, K) < Ahead(s.ring, i, K)
    <3> HIDE DEF i, K
    <3> QED
      BY <2>3, <2>4, <2>7, AheadDropped
  <2>10. RemoveAt(s.ring, i)[j] = s.ring[n] /\ j \in 1..Len(RemoveAt(s.ring, i))
    <3>1. /\ Len(RemoveAt(s.ring, i)) = Len(s.ring) - 1
          /\ \A k \in 1..(Len(s.ring) - 1) : RemoveAt(s.ring, i)[k] = IF k < i THEN s.ring[k] ELSE s.ring[k + 1]
      <4>1. s.ring \in Seq(DOMAIN s.ent)
        BY GoodBasics
      <4> HIDE DEF i
      <4> QED
        BY <2>4, <4>1, RemoveAtProps
    <3> HIDE DEF i
    <3>2. j \in 1..(Len(s.ring) - 1)
      <4> DEFINE L == Len(s.ring)
      <4>1. L \in Nat /\ i \in 1..L /\ L # 1
        BY <2>3, <2>4
      <4> HIDE DEF L
      <4>2. (IF i = L THEN 1 ELSE i) \in 1..(L - 1)
        BY <4>1
      <4> QED
        BY <4>2 DEF L
    <3> QED
      BY <2>3, <2>4, <3>1, <3>2
  <2>11. Place(t, t.hot) = j
    <3>1. Good(t)
      BY RunHandTestKeeps
    <3> HIDE DEF t, i
    <3>2. RingOf(t.ring, DOMAIN t.ent)
      BY <3>1 DEF Good
    <3>3. j \in 1..Len(t.ring) /\ t.ring[j] = t.hot
      BY <2>5, <2>6, <2>10
    <3> HIDE DEF j
    <3> QED
      BY <3>2, <3>3, PlaceIs
  <2>12. HotAhead(t) < HotAhead(s)
    <3> HIDE DEF t, j
    <3> QED
      BY <2>5, <2>8, <2>9, <2>11 DEF HotAhead
  <2>13. u = t /\ HotAhead(t) \in Nat
    BY <1>1, <1>6, GoodBasics
  <2> HIDE DEF t, u
  <2>14. HotAhead(u) <= HotAhead(s)
    BY <1>3, <2>12, <2>13
  <2> QED
    BY <1>1, <1>2, <2>14 DEF u
<1> QED
  BY <1>4, <1>5, <1>6

(* A hot entry under the hand loses its reference bit or its heat.         *)
LEMMA HotEntryWorn ==
  ASSUME NEW u, Good(u), NEW p \in DOMAIN u.ent, u.ent[p].kind = "hot"
  PROVE  LET v == IF u.ent[p].ref THEN [u EXCEPT !.ent[p].ref = FALSE] ELSE Turn(u, p, "cold")
         IN  Good(v) /\ Worked(u, v) /\ Left(v) < Left(u) /\ v.ring = u.ring
<1> DEFINE v == IF u.ent[p].ref THEN [u EXCEPT !.ent[p].ref = FALSE] ELSE Turn(u, p, "cold")
           e == u.ent[p]
           x == IF e.ref THEN [e EXCEPT !.ref = FALSE] ELSE [e EXCEPT !.kind = "cold"]
<1>1. u \in Shard /\ u.ent \in EntryMap /\ e \in Entry /\ {u.sizeHot, u.sizeCold, u.sizeTest} \subseteq Int
  BY GoodBasics, SomeOfKind
<1>2. x \in Entry /\ x.kind \in {"hot", "cold"} /\ x.img = e.img /\ x.ref = FALSE
      /\ x.kind = (IF e.ref THEN "hot" ELSE "cold")
  BY <1>1 DEF Entry
<1>3. Weight(x) = Weight(e) - 1 /\ Weight(e) \in Nat
  <2> HIDE DEF x
  <2>1. HasData(e) /\ IsWarm(e) /\ (IsReferenced(e) <=> e.ref)
    BY DEF HasData, IsWarm, IsReferenced
  <2>2. HasData(x) /\ (IsWarm(x) <=> e.ref) /\ ~IsReferenced(x)
    BY <1>2 DEF HasData, IsWarm, IsReferenced
  <2> QED
    BY <2>1, <2>2 DEF Weight, One
<1>4. PageSize \in Nat
  BY Numbers
<1>5. /\ v \in Shard
      /\ v.ring = u.ring /\ v.hot = u.hot /\ v.test = u.test
      /\ v.coldTarget = u.coldTarget /\ v.stuck = u.stuck
      /\ v.ent = [u.ent EXCEPT ![p] = x]
      /\ v.sizeHot = u.sizeHot + Size(x.kind = "hot") - Size(e.kind = "hot")
      /\ v.sizeCold = u.sizeCold + Size(x.kind = "cold") - Size(e.kind = "cold")
      /\ v.sizeTest = u.sizeTest + Size(x.kind = "test") - Size(e.kind = "test")
  <2>1. CASE ~e.ref
    <3>1. "cold" \in KindSet
      BY DEF KindSet
    <3> DEFINE w == Turn(u, p, "cold")
    <3>2. v = w /\ x = [e EXCEPT !.kind = "cold"]
      BY <2>1
    <3>3. /\ w \in Shard
          /\ w.ring = u.ring /\ w.hot = u.hot /\ w.test = u.test
          /\ w.coldTarget = u.coldTarget /\ w.stuck = u.stuck
          /\ w.ent = [u.ent EXCEPT ![p] = [u.ent[p] EXCEPT !.kind = "cold"]]
          /\ w.sizeHot = u.sizeHot + Size("cold" = "hot") - Size(e.kind = "hot")
          /\ w.sizeCold = u.sizeCold + Size("cold" = "cold") - Size(e.kind = "cold")
          /\ w.sizeTest = u.sizeTest + Size("cold" = "test") - Size(e.kind = "test")
      BY <1>1, <3>1, TurnIs
    <3>4. x.kind = "cold" /\ w.ent = [u.ent EXCEPT ![p] = x]
      BY <1>2, <2>1, <3>2, <3>3
    <3> HIDE DEF v, w, x
    <3>5. /\ Size("cold" = "hot") = Size(x.kind = "hot")
          /\ Size("cold" = "cold") = Size(x.kind = "cold")
          /\ Size("cold" = "test") = Size(x.kind = "test")
      BY <3>4 DEF Size
    <3> QED
      BY <3>2, <3>3, <3>4, <3>5
  <2>2. CASE e.ref
    <3> DEFINE d == [u.ent EXCEPT ![p] = x]
               w == [u EXCEPT !.ent = d]
    <3>1. v = w /\ x.kind = "hot"
      BY <1>2, <2>2
    <3>2. d \in EntryMap
      <4> HIDE DEF x
      <4> QED
        BY <1>1, <1>2, ChangedEntry
    <3> HIDE DEF d
    <3>3. /\ w \in Shard
          /\ w.ring = u.ring /\ w.hot = u.hot /\ w.test = u.test
          /\ w.coldTarget = u.coldTarget /\ w.stuck = u.stuck
          /\ w.ent = d
          /\ w.sizeHot = u.sizeHot /\ w.sizeCold = u.sizeCold /\ w.sizeTest = u.sizeTest
      BY <1>1, <3>2 DEF Shard
    <3> HIDE DEF w, v, x
    <3>4. /\ u.sizeHot = u.sizeHot + Size(x.kind = "hot") - Size(e.kind = "hot")
          /\ u.sizeCold = u.sizeCold + Size(x.kind = "cold") - Size(e.kind = "cold")
          /\ u.sizeTest = u.sizeTest + Size(x.kind = "test") - Size(e.kind = "test")
      BY <1>1, <1>4, <3>1 DEF Size
    <3> QED
      BY <3>1, <3>3, <3>4 DEF d
  <2> QED
    BY <2>1, <2>2
<1> HIDE DEF x
<1>6. v = IF u.ent[p].ref THEN [u EXCEPT !.ent[p].ref = FALSE] ELSE Turn(u, p, "cold")
  OBVIOUS
<1> HIDE DEF v
<1>7. /\ Good(v)
      /\ DOMAIN v.ent = DOMAIN u.ent /\ v.ent[p] = x
      /\ \A q \in DOMAIN u.ent : q # p => v.ent[q] = u.ent[q]
      /\ Left(v) = Left(u) + Weight(x) - Weight(e)
  BY <1>2, <1>5, EntryChanged
<1>8. Left(u) \in Nat /\ Left(v) \in Nat
  BY <1>7, GoodBasics
<1>9. Left(v) < Left(u)
  BY <1>3, <1>7, <1>8
<1>10. v.sizeTest = u.sizeTest
  BY <1>1, <1>2, <1>5 DEF Size
<1>11. Worked(u, v)
  <2>1. \A q \in DOMAIN v.ent : HasData(v.ent[q]) =>
          q \in DOMAIN u.ent /\ HasData(u.ent[q]) /\ v.ent[q].img = u.ent[q].img
    BY <1>2, <1>7 DEF HasData
  <2>2. \A q \in DOMAIN v.ent : IsWarm(v.ent[q]) => q \in DOMAIN u.ent /\ IsWarm(u.ent[q])
    BY <1>7 DEF IsWarm
  <2> QED
    BY <1>5, <1>8, <1>9, <1>10, <2>1, <2>2 DEF Worked
<1>12. Good(v) /\ Worked(u, v) /\ Left(v) < Left(u) /\ v.ring = u.ring
  BY <1>5, <1>7, <1>9, <1>11
<1> QED
  BY <1>6, <1>12

(* A round of the hot hand, when there is too much heat.                   *)
Nearer(s, t, x, y) == Left(t) < Left(s) \/ (Left(t) = Left(s) /\ y < x)

(* A round of the hot hand wears an entry down or comes nearer to a hot    *)
(* one, also when the test hand had to move first.                         *)
LEMMA HotRound ==
  ASSUME NEW s, Good(s), TooHot(s)
  PROVE  LET t == RunHandHot(s)
         IN  Good(t) /\ Worked(s, t) /\ Still(s, t) /\ Nearer(s, t, HotAhead(s), HotAhead(t))
<1> DEFINE u == IF s.hot = s.test THEN RunHandTest(s) ELSE s
           p == u.hot
           v == IF u.ent[p].kind # "hot" THEN u
                ELSE IF u.ent[p].ref THEN [u EXCEPT !.ent[p].ref = FALSE]
                ELSE Turn(u, p, "cold")
           t == RunHandHot(s)
           Moved(w) == [w EXCEPT !.hot = NextInRing(w, @)]
<1>1. PICK q \in DOMAIN s.ent : s.ent[q].kind = "hot"
  <2>1. MaxSize - s.coldTarget < s.sizeHot /\ s.coldTarget \in 0..MaxSize
    BY DEF TooHot, Good
  <2>2. s.sizeHot > 0
    BY <2>1, Numbers, SomeOfKind
  <2> QED
    BY <2>2, SomeOfKind DEF OfKind
<1>2. /\ Good(u) /\ Pruned(s, u)
      /\ q \in DOMAIN u.ent /\ u.ent[q].kind = "hot"
      /\ HotAhead(u) <= HotAhead(s)
  BY <1>1, TestHandFirst
<1>3. t = IF u.hot = 0 THEN u ELSE IF Len(v.ring) = 1 THEN v ELSE Moved(v)
  BY DEF RunHandHot
<1> HIDE DEF u, t
<1>4. u.ring # <<>> /\ p # 0 /\ p \in DOMAIN u.ent
  BY <1>2, GoodBasics DEF Good
<1>5. Worked(s, u) /\ Still(s, u) /\ Left(u) = Left(s)
  BY <1>2, PrunedWorked DEF Pruned
<1>6. CASE u.ent[p].kind # "hot"
  <2>1. v = u
    BY <1>6
  <2>2. Len(u.ring) # 1
    BY <1>2, <1>4, <1>6, SoleEntry
  <2>3. t = Moved(u)
    BY <1>3, <1>4, <2>1, <2>2
  <2> HIDE DEF v
  <2> DEFINE w == Moved(u)
  <2>4. /\ Good(w) /\ Worked(u, w) /\ Still(u, w) /\ Left(w) = Left(u)
        /\ w.ring = u.ring /\ w.ent = u.ent /\ w.hot = NextInRing(u, p)
    BY <1>2, <1>4, HotHandMoved
  <2> HIDE DEF w
  <2>5. Worked(s, w) /\ Still(s, w)
    BY <1>2, <1>5, <2>4, WorkedTransitive
  <2>6. HotAhead(w) < HotAhead(u)
    <3> DEFINE K == OfKind(u.ent, "hot")
    <3>1. p \notin K /\ q \in K /\ p \in DOMAIN u.ent /\ q \in DOMAIN u.ent
      BY <1>2, <1>4, <1>6 DEF OfKind
    <3>2. OfKind(w.ent, "hot") = K
      BY <2>4
    <3> HIDE DEF K
    <3>3. Ahead(w.ring, Place(w, NextInRing(u, p)), K) < Ahead(u.ring, Place(u, p), K)
      BY <1>2, <2>4, <3>1, HandNearer
    <3> QED
      BY <2>4, <3>2, <3>3 DEF HotAhead, K
  <2>7. {HotAhead(w), HotAhead(u), HotAhead(s)} \subseteq Nat
    BY <1>2, <2>4, GoodBasics
  <2>8. Nearer(s, w, HotAhead(s), HotAhead(w))
    <3>1. HotAhead(w) < HotAhead(s)
      BY <1>2, <2>6, <2>7
    <3> QED
      BY <1>5, <2>4, <3>1 DEF Nearer
  <2>9. t = w
    BY <2>3 DEF w
  <2>10. Good(t) /\ Worked(s, t) /\ Still(s, t) /\ Nearer(s, t, HotAhead(s), HotAhead(t))
    BY <2>4, <2>5, <2>8, <2>9
  <2> QED
    BY <2>10 DEF t
<1>7. CASE u.ent[p].kind = "hot"
  <2>1. Good(v) /\ Worked(u, v) /\ Left(v) < Left(u) /\ v.ring = u.ring
    <3> DEFINE w == IF u.ent[p].ref THEN [u EXCEPT !.ent[p].ref = FALSE] ELSE Turn(u, p, "cold")
    <3>1. Good(w) /\ Worked(u, w) /\ Left(w) < Left(u) /\ w.ring = u.ring
      BY <1>2, <1>4, <1>7, HotEntryWorn
    <3>2. v = w
      BY <1>7
    <3> HIDE DEF v, w
    <3> QED
      BY <3>1, <3>2
  <2> HIDE DEF v
  <2>2. Good(t) /\ Worked(v, t) /\ Left(t) = Left(v)
    <3>1. CASE Len(v.ring) = 1
      BY <1>3, <1>4, <2>1, <3>1, WorkedSelf
    <3>2. CASE Len(v.ring) # 1
      <4>1. t = Moved(v)
        BY <1>3, <1>4, <3>2
      <4>2. v.ring # <<>>
        BY <1>4, <2>1
      <4>3. Good(Moved(v)) /\ Worked(v, Moved(v)) /\ Left(Moved(v)) = Left(v)
        BY <2>1, <4>2, HotHandMoved
      <4> HIDE DEF Moved
      <4> QED
        BY <4>1, <4>3
    <3> QED
      BY <3>1, <3>2
  <2>3. Worked(s, t)
    <3>1. Worked(s, v)
      BY <1>2, <1>5, <2>1, WorkedTransitive
    <3> QED
      BY <2>1, <2>2, <3>1, WorkedTransitive
  <2>4. Left(t) < Left(s)
    BY <1>5, <2>1, <2>2
  <2>5. Still(s, t) /\ Nearer(s, t, HotAhead(s), HotAhead(t))
    <3>1. Left(t) \in Nat /\ Left(s) \in Nat
      BY <2>2, GoodBasics
    <3>2. Left(t) # Left(s)
      BY <2>4, <3>1
    <3> QED
      BY <2>4, <3>2 DEF Still, Nearer
  <2> QED
    BY <2>2, <2>3, <2>5 DEF t
<1> QED
  BY <1>6, <1>7

(* Less is left to do, or the hand is nearer.                              *)
LEMMA NearerLess ==
  ASSUME NEW s, NEW t, Good(s), Good(t), s.ring # <<>>, NEW x \in Nat,
         NEW i, NEW K, LET y == Ahead(t.ring, i, K) IN Nearer(s, t, x, y)
  PROVE  Cardinality(Page) * Left(t) + Ahead(t.ring, i, K) < Cardinality(Page) * Left(s) + x
<1> DEFINE N == Cardinality(Page)
           y == Ahead(t.ring, i, K)
<1>1. N \in Nat /\ N >= 1
  BY GoodBasics, Numbers
<1>2. y \in Nat /\ y < N
  <2>1. y \in Nat /\ (t.ring # <<>> => y < N) /\ (t.ring = <<>> => y = 0)
    BY AheadBound
  <2> HIDE DEF y, N
  <2> QED
    BY <1>1, <2>1
<1>3. Nearer(s, t, x, y)
  OBVIOUS
<1>4. Left(s) \in Nat /\ Left(t) \in Nat
  BY GoodBasics
<1> HIDE DEF N, y
<1>5. CASE Left(t) < Left(s)
  <2>1. N * Left(t) + y < N * Left(s) + x
    BY <1>1, <1>2, <1>4, <1>5, Multiples
  <2> QED
    BY <2>1 DEF N, y
<1>6. CASE Left(t) = Left(s) /\ y < x
  <2>1. N * Left(s) \in Nat
    BY <1>1, <1>4
  <2>2. N * Left(t) + y < N * Left(s) + x
    BY <1>2, <1>6, <2>1
  <2> QED
    BY <2>2 DEF N, y
<1> QED
  BY <1>3, <1>5, <1>6 DEF Nearer

(* What the loop of the hot hand has left to do.                           *)
HeatLeft(s) == Cardinality(Page) * Left(s) + HotAhead(s)

(* The hot pages are cooled to their share of the budget.                  *)
LEMMA CoolEnds ==
  ASSUME NEW s, Good(s)
  PROVE  /\ Good(CoolHot(s)) /\ Worked(s, CoolHot(s)) /\ Still(s, CoolHot(s))
         /\ ~TooHot(CoolHot(s))
<1> DEFINE S == {t \in Shard : Good(t) /\ Worked(s, t) /\ Still(s, t)}
           T == {t \in S : TooHot(t)}
           Round(t) == IF TooHot(t) THEN RunHandHot(t) ELSE t
           step == [t \in S |-> Round(t)]
           m == [t \in S |-> HeatLeft(t)]
           Is(f) == f = [n \in 0..Fuel |-> IF n = 0 THEN s ELSE Round(f[n - 1])]
           after == CHOOSE f : Is(f)
           last == CHOOSE n \in 0..Fuel : n = Fuel \/ ~TooHot(after[n])
<1>1. s \in S
  BY WorkedSelf, GoodBasics
<1>2. ASSUME NEW t \in S PROVE Round(t) \in S
  <2>1. CASE ~TooHot(t)
    BY <2>1
  <2>2. CASE TooHot(t)
    <3>1. Good(t) /\ Worked(s, t) /\ Still(s, t)
      OBVIOUS
    <3>2. /\ Good(RunHandHot(t)) /\ Worked(t, RunHandHot(t)) /\ Still(t, RunHandHot(t))
          /\ RunHandHot(t) \in Shard
      BY <2>2, <3>1, HotRound, GoodBasics
    <3>3. Worked(s, RunHandHot(t)) /\ Still(s, RunHandHot(t))
      BY <3>1, <3>2, WorkedTransitive
    <3> QED
      BY <2>2, <3>2, <3>3
  <2> QED
    BY <2>1, <2>2
<1>3. step \in [S -> S]
  BY <1>2
<1>4. ASSUME NEW t \in S PROVE HeatLeft(t) \in Nat /\ HeatLeft(t) <= Fuel
  <2>1. Good(t)
    OBVIOUS
  <2>2. HotAhead(t) \in Nat /\ HotAhead(t) <= Cardinality(Page)
    BY <2>1, AheadBound, Numbers DEF HotAhead
  <2>3. Left(t) \in Nat /\ Left(t) <= 3 * Cardinality(Page)
    BY <2>1, GoodBasics, Counts DEF Left
  <2> QED
    BY <2>2, <2>3, FuelEnough DEF HeatLeft
<1>5. m \in [S -> Nat] /\ m[s] <= Fuel
  BY <1>1, <1>4
<1>6. \A t \in S : t \in T => m[step[t]] < m[t]
  <2>1. TAKE t \in S
  <2>2. HAVE t \in T
  <2>3. step[t] = RunHandHot(t) /\ RunHandHot(t) \in S /\ Good(t)
    BY <1>2, <2>2
  <2>4. HeatLeft(RunHandHot(t)) < HeatLeft(t)
    <3> DEFINE u == RunHandHot(t)
    <3>1. Good(u) /\ Nearer(t, u, HotAhead(t), HotAhead(u))
      BY <2>2, <2>3, HotRound
    <3>2. t.ring # <<>> /\ HotAhead(t) \in Nat
      BY <2>2, <2>3, GoodBasics DEF TooHot
    <3> HIDE DEF u
    <3>3. HeatLeft(u) < HeatLeft(t)
      BY <2>3, <3>1, <3>2, NearerLess DEF HeatLeft, HotAhead
    <3> QED
      BY <3>3 DEF u
  <2> QED
    BY <2>2, <2>3, <2>4
<1>7. \A t \in S : t \notin T => step[t] = t
  OBVIOUS
<1>8. Is(after)
  <2>1. Fuel \in Nat
    BY Numbers
  <2>2. PICK f \in [0..Fuel -> S] : Run(f, s, step, Fuel)
    <3> HIDE DEF S, step
    <3>1. Runs(S, s, step, Fuel)
      BY <1>1, <1>3, <2>1, LoopExists
    <3> QED
      BY <3>1 DEF Runs
  <2>3. ASSUME NEW n \in 0..Fuel PROVE f[n] = IF n = 0 THEN s ELSE Round(f[n - 1])
    <3>1. n # 0 => n \in 1..Fuel /\ n - 1 \in 0..Fuel
      BY <2>1
    <3>2. n # 0 => f[n - 1] \in S
      BY <3>1
    <3>3. n # 0 => step[f[n - 1]] = Round(f[n - 1])
      BY <3>2
    <3> HIDE DEF Round, step, S
    <3> QED
      BY <2>2, <3>1, <3>3 DEF Run
  <2>4. Is(f)
    <3> HIDE DEF Round, step, S
    <3> QED
      BY <2>3
  <2> HIDE DEF Is
  <2> QED
    BY <2>4
<1> HIDE DEF Is, after
<1>9. after[0] = s /\ \A n \in 1..Fuel : after[n] = Round(after[n - 1])
  <2>1. after = [n \in 0..Fuel |-> IF n = 0 THEN s ELSE Round(after[n - 1])]
    BY <1>8 DEF Is
  <2> HIDE DEF Round
  <2> QED
    BY <2>1, Numbers
<1>10. Follows(after, S, step, Fuel)
  BY <1>9 DEF Follows
<1>11. /\ \A n \in 0..Fuel : after[n] \in S
       /\ after[Fuel] \notin T
  <2>1. Fuel \in Nat /\ after[0] = s
    BY <1>9, Numbers
  <2>2. Lowers(S, T, step, m)
    <3> HIDE DEF S, T, step, m
    <3> QED
      BY <1>6, <1>7 DEF Lowers
  <2> HIDE DEF S, T, step, m
  <2> QED
    BY <1>1, <1>3, <1>5, <1>10, <2>1, <2>2, LoopEnds
<1>12. last \in 0..Fuel /\ (last = Fuel \/ ~TooHot(after[last]))
  <2>1. Fuel \in 0..Fuel
    BY Numbers
  <2> QED
    BY <2>1
<1> HIDE DEF last
<1>13. after[last] \in S /\ ~TooHot(after[last])
  BY <1>11, <1>12
<1>14. CoolHot(s) = IF TooHot(after[last]) THEN [after[last] EXCEPT !.stuck = TRUE] ELSE after[last]
  BY DEF CoolHot, last, after, Is, Round
<1> QED
  BY <1>13, <1>14

-----------------------------------------------------------------------------
(* The cold hand.                                                          *)

(* The cold hand moves on.                                                 *)
LEMMA Rotated ==
  ASSUME NEW s, Good(s), s.ring # <<>>
  PROVE  LET t == [s EXCEPT !.ring = Append(Tail(@), Head(@))]
         IN  /\ Good(t) /\ Worked(s, t) /\ Left(t) = Left(s)
             /\ t.ring = Append(Tail(s.ring), Head(s.ring)) /\ t.ent = s.ent
             /\ t.sizeHot = s.sizeHot /\ t.sizeCold = s.sizeCold
<1> DEFINE r == Append(Tail(s.ring), Head(s.ring))
           t == [s EXCEPT !.ring = r]
<1>1. /\ s \in Shard /\ RingOf(s.ring, DOMAIN s.ent) /\ DOMAIN s.ent \subseteq Page
      /\ s.ring \in Seq(DOMAIN s.ent)
      /\ s.hot \in DOMAIN s.ent /\ s.test \in DOMAIN s.ent
  BY GoodBasics DEF Good
<1>2. RingOf(r, DOMAIN s.ent)
  BY <1>1, RingRotate
<1>3. r # <<>> /\ r \in Seq(Page)
  <2>1. r \in Seq(DOMAIN s.ent)
    BY <1>1, RotateProps
  <2>2. r # <<>>
    <3>1. DOMAIN s.ent # {}
      BY <1>1
    <3> HIDE DEF r
    <3> QED
      BY <1>2, <3>1, RingEmpty
  <2> HIDE DEF r
  <2> QED
    BY <1>1, <2>1, <2>2, SeqMonotonic
<1>4. [s EXCEPT !.ring = Append(Tail(@), Head(@))] = t
  OBVIOUS
<1> HIDE DEF r
<1>5. /\ t \in Shard
      /\ t.ring = r /\ t.ent = s.ent /\ t.hot = s.hot /\ t.test = s.test
      /\ t.sizeHot = s.sizeHot /\ t.sizeCold = s.sizeCold /\ t.sizeTest = s.sizeTest
      /\ t.coldTarget = s.coldTarget /\ t.stuck = s.stuck
  BY <1>1, <1>3 DEF Shard
<1> HIDE DEF t
<1>6. Good(t)
  BY <1>1, <1>2, <1>3, <1>5 DEF Good
<1>7. Left(t) = Left(s)
  BY <1>5 DEF Left
<1>8. Worked(s, t)
  <2>1. Left(t) <= Left(s)
    BY <1>7, GoodBasics
  <2> QED
    BY <1>5, <2>1 DEF Worked
<1> QED
  BY <1>4, <1>5, <1>6, <1>7, <1>8 DEF r

(* A referenced cold entry becomes hot.                                    *)
LEMMA Promoted ==
  ASSUME NEW s, Good(s), NEW p \in DOMAIN s.ent, s.ent[p].kind = "cold", s.ent[p].ref
  PROVE  LET t == Turn([s EXCEPT !.ent[p].ref = FALSE], p, "hot")
         IN  Good(t) /\ Worked(s, t) /\ Left(t) < Left(s)
<1> DEFINE e == s.ent[p]
           y == [e EXCEPT !.ref = FALSE]
           d == [s.ent EXCEPT ![p] = y]
           a == [s EXCEPT !.ent = d]
           x == [y EXCEPT !.kind = "hot"]
           t == Turn(a, p, "hot")
<1>1. s \in Shard /\ s.ent \in EntryMap /\ e \in Entry /\ {s.sizeHot, s.sizeCold, s.sizeTest} \subseteq Int
  BY GoodBasics, SomeOfKind
<1>2. y \in Entry /\ y.kind = "cold" /\ x \in Entry /\ x.kind = "hot" /\ x.ref = FALSE /\ x.img = e.img
  BY <1>1 DEF Entry
<1>3. t = Turn([s EXCEPT !.ent[p].ref = FALSE], p, "hot")
  OBVIOUS
<1>4. d \in EntryMap /\ DOMAIN d = DOMAIN s.ent /\ d[p] = y
  <2> HIDE DEF y
  <2> QED
    BY <1>1, <1>2, ChangedEntry
<1>5. [d EXCEPT ![p] = x] = [s.ent EXCEPT ![p] = x]
  <2> HIDE DEF x, y
  <2> QED
    BY <1>1
<1>6. d[p].kind = "cold" /\ [d[p] EXCEPT !.kind = "hot"] = x
  BY <1>2, <1>4
<1> HIDE DEF d, x, y
<1>7. /\ a \in Shard
      /\ a.ring = s.ring /\ a.ent = d /\ a.hot = s.hot /\ a.test = s.test
      /\ a.coldTarget = s.coldTarget /\ a.stuck = s.stuck
      /\ a.sizeHot = s.sizeHot /\ a.sizeCold = s.sizeCold /\ a.sizeTest = s.sizeTest
  BY <1>1, <1>4 DEF Shard
<1> HIDE DEF a
<1>8. /\ t \in Shard
      /\ t.ring = a.ring /\ t.hot = a.hot /\ t.test = a.test
      /\ t.coldTarget = a.coldTarget /\ t.stuck = a.stuck
      /\ t.ent = [a.ent EXCEPT ![p] = [a.ent[p] EXCEPT !.kind = "hot"]]
      /\ t.sizeHot = a.sizeHot + Size("hot" = "hot") - Size(a.ent[p].kind = "hot")
      /\ t.sizeCold = a.sizeCold + Size("hot" = "cold") - Size(a.ent[p].kind = "cold")
      /\ t.sizeTest = a.sizeTest + Size("hot" = "test") - Size(a.ent[p].kind = "test")
  <2>1. "hot" \in KindSet /\ p \in DOMAIN a.ent
    BY <1>4, <1>7 DEF KindSet
  <2> QED
    BY <1>7, <2>1, TurnIs
<1> HIDE DEF t
<1>9. /\ t.ring = s.ring /\ t.hot = s.hot /\ t.test = s.test
      /\ t.coldTarget = s.coldTarget /\ t.stuck = s.stuck
      /\ t.ent = [s.ent EXCEPT ![p] = x]
  BY <1>5, <1>6, <1>7, <1>8
<1>10. /\ t.sizeHot = s.sizeHot + Size(x.kind = "hot") - Size(e.kind = "hot")
       /\ t.sizeCold = s.sizeCold + Size(x.kind = "cold") - Size(e.kind = "cold")
       /\ t.sizeTest = s.sizeTest + Size(x.kind = "test") - Size(e.kind = "test")
       /\ t.sizeTest = s.sizeTest
  <2>1. a.ent[p].kind = "cold" /\ x.kind = "hot"
    BY <1>2, <1>6, <1>7
  <2>2. PageSize \in Nat
    BY Numbers
  <2> QED
    BY <1>1, <1>7, <1>8, <2>1, <2>2 DEF Size
<1>11. /\ Good(t)
       /\ DOMAIN t.ent = DOMAIN s.ent /\ t.ent[p] = x
       /\ \A q \in DOMAIN s.ent : q # p => t.ent[q] = s.ent[q]
       /\ Left(t) = Left(s) + Weight(x) - Weight(e)
  BY <1>2, <1>8, <1>9, <1>10, EntryChanged
<1>12. Weight(x) = 2 /\ Weight(e) = 3
  BY <1>2 DEF Weight, One, HasData, IsWarm, IsReferenced
<1>13. Left(t) < Left(s) /\ Left(t) <= Left(s)
  BY <1>11, <1>12, GoodBasics
<1>14. Worked(s, t)
  <2>1. \A q \in DOMAIN t.ent : HasData(t.ent[q]) =>
          q \in DOMAIN s.ent /\ HasData(s.ent[q]) /\ t.ent[q].img = s.ent[q].img
    BY <1>2, <1>11 DEF HasData
  <2>2. \A q \in DOMAIN t.ent : IsWarm(t.ent[q]) => q \in DOMAIN s.ent /\ IsWarm(s.ent[q])
    BY <1>11 DEF IsWarm
  <2> QED
    BY <1>9, <1>10, <1>13, <2>1, <2>2 DEF Worked
<1> QED
  BY <1>3, <1>11, <1>13, <1>14

(* Another cold entry becomes a ghost, and ghosts make way.                *)
LEMMA Ghosted ==
  ASSUME NEW s, Good(s), NEW p \in DOMAIN s.ent, s.ent[p].kind = "cold", ~s.ent[p].ref
  PROVE  LET t == PruneGhosts(Turn([s EXCEPT !.ent[p].img = -1], p, "test"))
         IN  Good(t) /\ Worked(s, t) /\ Left(t) < Left(s)
<1> DEFINE e == s.ent[p]
           y == [e EXCEPT !.img = -1]
           d == [s.ent EXCEPT ![p] = y]
           a == [s EXCEPT !.ent = d]
           x == [y EXCEPT !.kind = "test"]
           g == Turn(a, p, "test")
           t == PruneGhosts(g)
<1>1. s \in Shard /\ s.ent \in EntryMap /\ e \in Entry /\ {s.sizeHot, s.sizeCold, s.sizeTest} \subseteq Int
  BY GoodBasics, SomeOfKind
<1>2. y \in Entry /\ y.kind = "cold" /\ x \in Entry /\ x.kind = "test"
  <2>1. -1 \in Int
    OBVIOUS
  <2> QED
    BY <1>1, <2>1 DEF Entry
<1>3. t = PruneGhosts(Turn([s EXCEPT !.ent[p].img = -1], p, "test"))
  OBVIOUS
<1>4. d \in EntryMap /\ DOMAIN d = DOMAIN s.ent /\ d[p] = y
  <2> HIDE DEF y
  <2> QED
    BY <1>1, <1>2, ChangedEntry
<1>5. [d EXCEPT ![p] = x] = [s.ent EXCEPT ![p] = x]
  <2> HIDE DEF x, y
  <2> QED
    BY <1>1
<1>6. d[p].kind = "cold" /\ [d[p] EXCEPT !.kind = "test"] = x
  BY <1>2, <1>4
<1> HIDE DEF d, x, y
<1>7. /\ a \in Shard
      /\ a.ring = s.ring /\ a.ent = d /\ a.hot = s.hot /\ a.test = s.test
      /\ a.coldTarget = s.coldTarget /\ a.stuck = s.stuck
      /\ a.sizeHot = s.sizeHot /\ a.sizeCold = s.sizeCold /\ a.sizeTest = s.sizeTest
  BY <1>1, <1>4 DEF Shard
<1> HIDE DEF a
<1>8. /\ g \in Shard
      /\ g.ring = a.ring /\ g.hot = a.hot /\ g.test = a.test
      /\ g.coldTarget = a.coldTarget /\ g.stuck = a.stuck
      /\ g.ent = [a.ent EXCEPT ![p] = [a.ent[p] EXCEPT !.kind = "test"]]
      /\ g.sizeHot = a.sizeHot + Size("test" = "hot") - Size(a.ent[p].kind = "hot")
      /\ g.sizeCold = a.sizeCold + Size("test" = "cold") - Size(a.ent[p].kind = "cold")
      /\ g.sizeTest = a.sizeTest + Size("test" = "test") - Size(a.ent[p].kind = "test")
  <2>1. "test" \in KindSet /\ p \in DOMAIN a.ent
    BY <1>4, <1>7 DEF KindSet
  <2> QED
    BY <1>7, <2>1, TurnIs
<1> HIDE DEF g
<1>9. /\ g.ring = s.ring /\ g.hot = s.hot /\ g.test = s.test
      /\ g.coldTarget = s.coldTarget /\ g.stuck = s.stuck
      /\ g.ent = [s.ent EXCEPT ![p] = x]
  BY <1>5, <1>6, <1>7, <1>8
<1>10. /\ g.sizeHot = s.sizeHot + Size(x.kind = "hot") - Size(e.kind = "hot")
       /\ g.sizeCold = s.sizeCold + Size(x.kind = "cold") - Size(e.kind = "cold")
       /\ g.sizeTest = s.sizeTest + Size(x.kind = "test") - Size(e.kind = "test")
  <2>1. a.ent[p].kind = "cold" /\ x.kind = "test"
    BY <1>2, <1>6, <1>7
  <2>2. PageSize \in Nat
    BY Numbers
  <2> QED
    BY <1>1, <1>7, <1>8, <2>1, <2>2 DEF Size
<1>11. /\ Good(g)
       /\ DOMAIN g.ent = DOMAIN s.ent /\ g.ent[p] = x
       /\ \A q \in DOMAIN s.ent : q # p => g.ent[q] = s.ent[q]
       /\ Left(g) = Left(s) + Weight(x) - Weight(e)
  BY <1>2, <1>8, <1>9, <1>10, EntryChanged
<1>12. Weight(x) = 0 /\ Weight(e) = 1
  BY <1>2 DEF Weight, One, HasData, IsWarm, IsReferenced
<1>13. Left(g) < Left(s)
  BY <1>11, <1>12, GoodBasics
<1>14. Good(t) /\ Pruned(g, t) /\ ~TooManyGhosts(t)
  BY <1>11, PruneEnds
<1> HIDE DEF t
<1>15. t.sizeTest <= MaxSize
  <2>1. CASE t.test # 0
    BY <1>14, <2>1, SomeOfKind, Numbers DEF TooManyGhosts
  <2>2. CASE t.test = 0
    <3>1. DOMAIN t.ent = {}
      BY <1>14, <2>2, GoodBasics
    <3>2. ~(t.sizeTest > 0) /\ t.sizeTest \in Nat
      BY <1>14, <3>1, SomeOfKind DEF OfKind
    <3> QED
      BY <3>2, Numbers
  <2> QED
    BY <2>1, <2>2
<1>16. Left(t) < Left(s) /\ Left(t) <= Left(s)
  <2>1. Left(t) = Left(g)
    BY <1>14 DEF Pruned
  <2>2. Left(t) \in Nat /\ Left(s) \in Nat
    BY <1>14, GoodBasics
  <2> QED
    BY <1>13, <2>1, <2>2
<1>17. Worked(s, t)
  <2>1. \A q \in DOMAIN t.ent : q \in DOMAIN s.ent /\ t.ent[q] = (IF q = p THEN x ELSE s.ent[q])
    BY <1>11, <1>14 DEF Pruned
  <2>2. ~HasData(x) /\ ~IsWarm(x)
    BY <1>2 DEF HasData, IsWarm
  <2>3. \A q \in DOMAIN t.ent : HasData(t.ent[q]) =>
          q \in DOMAIN s.ent /\ HasData(s.ent[q]) /\ t.ent[q].img = s.ent[q].img
    BY <2>1, <2>2
  <2>4. \A q \in DOMAIN t.ent : IsWarm(t.ent[q]) => q \in DOMAIN s.ent /\ IsWarm(s.ent[q])
    BY <2>1, <2>2
  <2>5. t.stuck = s.stuck
    BY <1>9, <1>14 DEF Pruned
  <2> QED
    BY <1>15, <1>16, <2>3, <2>4, <2>5 DEF Worked
<1> QED
  BY <1>3, <1>14, <1>16, <1>17

(* A page that is larger than the budget is never warm.                    *)
Roomy(s) == PageSize <= MaxSize \/ \A q \in DOMAIN s.ent : ~IsWarm(s.ent[q])

(* A shard that is not too hot has no more heat than the budget.           *)
LEMMA HeatWithin ==
  ASSUME NEW s, Good(s), ~TooHot(s)
  PROVE  s.sizeHot <= MaxSize
<1>1. s.sizeHot \in Nat /\ s.coldTarget \in 0..MaxSize /\ MaxSize \in Nat
  BY SomeOfKind, Numbers DEF Good
<1>2. CASE s.hot # 0
  <2>1. ~(MaxSize - s.coldTarget < s.sizeHot)
    BY <1>2 DEF TooHot
  <2> QED
    BY <1>1, <2>1
<1>3. CASE s.hot = 0
  <2>1. DOMAIN s.ent = {}
    BY <1>3, GoodBasics
  <2>2. ~(s.sizeHot > 0)
    BY <2>1, SomeOfKind DEF OfKind
  <2> QED
    BY <1>1, <2>2
<1> QED
  BY <1>2, <1>3

(* A sole entry that is too large is cold.                                 *)
LEMMA SoleIsCold ==
  ASSUME NEW s, Good(s), Roomy(s), TooLarge(s), Len(s.ring) = 1, NEW p \in DOMAIN s.ent
  PROVE  s.ent[p].kind = "cold"
<1>1. SUFFICES ASSUME s.ent[p].kind # "cold" PROVE FALSE
  OBVIOUS
<1>2. OfKind(s.ent, "cold") = {}
  <2>1. \A q \in DOMAIN s.ent : q = p
    BY SoleEntry
  <2> QED
    BY <1>1, <2>1 DEF OfKind
<1>3. s.sizeCold = 0 /\ s.sizeHot \in Nat /\ s.sizeHot > MaxSize /\ s.sizeHot > 0
  BY <1>2, SomeOfKind, Numbers DEF TooLarge
<1>4. PageSize <= MaxSize
  <2>1. PICK q \in DOMAIN s.ent : s.ent[q].kind = "hot"
    BY <1>3, SomeOfKind DEF OfKind
  <2> QED
    BY <2>1 DEF Roomy, IsWarm
<1>5. Num(s.ent, "hot") = 1
  <2>1. OfKind(s.ent, "hot") = {p}
    <3>1. \A q \in DOMAIN s.ent : q = p
      BY SoleEntry
    <3>2. OfKind(s.ent, "hot") # {}
      BY <1>3, SomeOfKind
    <3> QED
      BY <3>1, <3>2 DEF OfKind
  <2> QED
    BY <2>1, FS_Singleton DEF Num
<1>6. s.sizeHot = PageSize
  BY <1>5, Numbers DEF Good
<1> QED
  BY <1>3, <1>4, <1>6, Numbers

(* A round of the cold hand, when the pages are more than the budget.      *)
LEMMA ColdRound ==
  ASSUME NEW s, Good(s), Roomy(s), TooLarge(s)
  PROVE  LET t == RunHandCold(s)
         IN  Good(t) /\ Worked(s, t) /\ Nearer(s, t, ColdAhead(s), ColdAhead(t))
<1> DEFINE p == Head(s.ring)
           sole == Len(s.ring) = 1
           u == IF s.ent[p].kind # "cold" THEN s
                ELSE IF s.ent[p].ref THEN Turn([s EXCEPT !.ent[p].ref = FALSE], p, "hot")
                ELSE PruneGhosts(Turn([s EXCEPT !.ent[p].img = -1], p, "test"))
           Turned(v) == [v EXCEPT !.ring = Append(Tail(@), Head(@))]
           t == RunHandCold(s)
<1>1. t = IF u.ring = <<>> \/ sole THEN u ELSE CoolHot(Turned(u))
  BY DEF RunHandCold, Kind
<1>2. s.ring # <<>> /\ RingOf(s.ring, DOMAIN s.ent) /\ s.ring \in Seq(DOMAIN s.ent) /\ Len(s.ring) >= 1 /\ Len(s.ring) \in Nat
  BY GoodBasics DEF TooLarge, Good
<1>3. p \in DOMAIN s.ent /\ p = s.ring[1]
  BY <1>2
<1>4. {Left(s), ColdAhead(s), s.sizeHot, s.sizeCold} \subseteq Nat
  BY GoodBasics, SomeOfKind
<1> HIDE DEF p, t
<1>5. CASE s.ent[p].kind = "cold"
  <2>1. Good(u) /\ Worked(s, u) /\ Left(u) < Left(s)
    <3>1. CASE s.ent[p].ref
      <4> DEFINE w == Turn([s EXCEPT !.ent[p].ref = FALSE], p, "hot")
      <4>1. Good(w) /\ Worked(s, w) /\ Left(w) < Left(s)
        BY <1>3, <1>5, <3>1, Promoted
      <4>2. u = w
        BY <1>5, <3>1
      <4> HIDE DEF u, w
      <4> QED
        BY <4>1, <4>2
    <3>2. CASE ~s.ent[p].ref
      <4> DEFINE w == PruneGhosts(Turn([s EXCEPT !.ent[p].img = -1], p, "test"))
      <4>1. Good(w) /\ Worked(s, w) /\ Left(w) < Left(s)
        BY <1>3, <1>5, <3>2, Ghosted
      <4>2. u = w
        BY <1>5, <3>2
      <4> HIDE DEF u, w
      <4> QED
        BY <4>1, <4>2
    <3> QED
      BY <3>1, <3>2
  <2> HIDE DEF u
  <2>2. Good(t) /\ Worked(s, t) /\ Left(t) <= Left(u)
    <3>1. CASE u.ring = <<>> \/ sole
      BY <1>1, <2>1, <3>1, GoodBasics
    <3>2. CASE u.ring # <<>> /\ ~sole
      <4> DEFINE w == Turned(u)
      <4>1. Good(w) /\ Worked(u, w) /\ Left(w) = Left(u)
        BY <2>1, <3>2, Rotated
      <4>2. t = CoolHot(w)
        BY <1>1, <3>2
      <4> HIDE DEF w
      <4>3. Good(t) /\ Worked(w, t)
        BY <4>1, <4>2, CoolEnds
      <4>4. Worked(s, w)
        BY <2>1, <4>1, WorkedTransitive
      <4>5. Worked(s, t)
        BY <4>1, <4>3, <4>4, WorkedTransitive
      <4>6. Left(t) <= Left(u)
        BY <4>1, <4>3 DEF Worked
      <4> QED
        BY <4>3, <4>5, <4>6
    <3> QED
      BY <3>1, <3>2
  <2>3. Left(t) < Left(s)
    BY <1>4, <2>1, <2>2, GoodBasics
  <2>4. Nearer(s, t, ColdAhead(s), ColdAhead(t))
    BY <2>3 DEF Nearer
  <2> QED
    BY <2>2, <2>4 DEF t
<1>6. CASE s.ent[p].kind # "cold"
  <2>1. u = s
    BY <1>6
  <2>2. ~sole
    BY <1>3, <1>6, SoleIsCold
  <2> DEFINE w == Turned(s)
  <2>3. t = CoolHot(w)
    <3> HIDE DEF u, sole, Turned
    <3> QED
      BY <1>1, <1>2, <2>1, <2>2 DEF w
  <2>4. /\ Good(w) /\ Worked(s, w) /\ Left(w) = Left(s)
        /\ w.ring = Append(Tail(s.ring), Head(s.ring)) /\ w.ent = s.ent
        /\ w.sizeHot = s.sizeHot /\ w.sizeCold = s.sizeCold
    BY <1>2, Rotated
  <2> HIDE DEF w, u
  <2>5. Good(t) /\ Worked(w, t) /\ Still(w, t) /\ ~TooHot(t)
    BY <2>3, <2>4, CoolEnds
  <2>6. Worked(s, t)
    BY <2>4, <2>5, WorkedTransitive
  <2>7. Left(t) \in Nat /\ Left(t) <= Left(s) /\ ColdAhead(t) \in Nat /\ ColdAhead(w) \in Nat
    BY <2>4, <2>5, <2>6, GoodBasics DEF Worked
  <2>8. CASE Left(t) < Left(s)
    <3>1. Nearer(s, t, ColdAhead(s), ColdAhead(t))
      BY <2>8 DEF Nearer
    <3> QED
      BY <2>5, <2>6, <3>1 DEF t
  <2>9. CASE Left(t) = Left(s)
    <3>1. t.sizeHot = s.sizeHot /\ t.sizeCold = s.sizeCold /\ ColdAhead(t) <= ColdAhead(w)
      BY <2>4, <2>5, <2>9 DEF Still
    <3>2. s.sizeHot <= MaxSize
      BY <2>5, <3>1, HeatWithin
    <3>3. s.sizeCold > 0
      BY <1>4, <3>2, Numbers DEF TooLarge
    <3> DEFINE K == OfKind(s.ent, "cold")
    <3>4. PICK q \in DOMAIN s.ent : q \in K
      BY <3>3, SomeOfKind DEF OfKind
    <3>5. s.ring[1] \notin K
      BY <1>3, <1>6 DEF OfKind
    <3> HIDE DEF K
    <3>6. \E d \in 0..(Len(s.ring) - 1) : At(s.ring, 1, d) \in K
      BY <1>2, <3>4, RingReaches
    <3>7. Ahead(Append(Tail(s.ring), Head(s.ring)), 1, K) < Ahead(s.ring, 1, K)
      BY <1>2, <3>5, <3>6, AheadRotates
    <3>8. ColdAhead(w) < ColdAhead(s)
      BY <2>4, <3>7 DEF ColdAhead, K
    <3>9. ColdAhead(t) < ColdAhead(s)
      BY <1>4, <2>7, <3>1, <3>8
    <3>10. Nearer(s, t, ColdAhead(s), ColdAhead(t))
      BY <2>9, <3>9 DEF Nearer
    <3> QED
      BY <2>5, <2>6, <3>10 DEF t
  <2> QED
    BY <1>4, <2>7, <2>8, <2>9
<1> QED
  BY <1>5, <1>6

(* What the loop of the cold hand has left to do.                          *)
DataLeft(s) == Cardinality(Page) * Left(s) + ColdAhead(s)

(* Pages are evicted until they are within the budget.                     *)
LEMMA EvictEnds ==
  ASSUME NEW s, Good(s), Roomy(s)
  PROVE  /\ Good(Evict(s)) /\ Worked(s, Evict(s))
         /\ ~TooLarge(Evict(s))
<1> DEFINE S == {t \in Shard : Good(t) /\ Worked(s, t)}
           T == {t \in S : TooLarge(t)}
           Round(t) == IF TooLarge(t) THEN RunHandCold(t) ELSE t
           step == [t \in S |-> Round(t)]
           m == [t \in S |-> DataLeft(t)]
           Is(f) == f = [n \in 0..Fuel |-> IF n = 0 THEN s ELSE Round(f[n - 1])]
           after == CHOOSE f : Is(f)
           last == CHOOSE n \in 0..Fuel : n = Fuel \/ ~TooLarge(after[n])
<1>1. s \in S
  BY WorkedSelf, GoodBasics
<1>2. ASSUME NEW t \in S PROVE Round(t) \in S
  <2>1. CASE ~TooLarge(t)
    BY <2>1
  <2>2. CASE TooLarge(t)
    <3>1. Good(t) /\ Worked(s, t) /\ Roomy(t)
      BY DEF Roomy, Worked
    <3>2. /\ Good(RunHandCold(t)) /\ Worked(t, RunHandCold(t))
          /\ RunHandCold(t) \in Shard
      BY <2>2, <3>1, ColdRound, GoodBasics
    <3>3. Worked(s, RunHandCold(t))
      BY <3>1, <3>2, WorkedTransitive
    <3> QED
      BY <2>2, <3>2, <3>3
  <2> QED
    BY <2>1, <2>2
<1>3. step \in [S -> S]
  BY <1>2
<1>4. ASSUME NEW t \in S PROVE DataLeft(t) \in Nat /\ DataLeft(t) <= Fuel
  <2>1. Good(t)
    OBVIOUS
  <2>2. ColdAhead(t) \in Nat /\ ColdAhead(t) <= Cardinality(Page)
    BY <2>1, AheadBound, Numbers DEF ColdAhead
  <2>3. Left(t) \in Nat /\ Left(t) <= 3 * Cardinality(Page)
    BY <2>1, GoodBasics, Counts DEF Left
  <2> QED
    BY <2>2, <2>3, FuelEnough DEF DataLeft
<1>5. m \in [S -> Nat] /\ m[s] <= Fuel
  BY <1>1, <1>4
<1>6. \A t \in S : t \in T => m[step[t]] < m[t]
  <2>1. TAKE t \in S
  <2>2. HAVE t \in T
  <2>3. step[t] = RunHandCold(t) /\ RunHandCold(t) \in S /\ Good(t) /\ Worked(s, t)
    BY <1>2, <2>2
  <2>4. DataLeft(RunHandCold(t)) < DataLeft(t)
    <3> DEFINE u == RunHandCold(t)
    <3>0. Roomy(t)
      BY <2>3 DEF Roomy, Worked
    <3>1. Good(u) /\ Nearer(t, u, ColdAhead(t), ColdAhead(u))
      BY <2>2, <2>3, <3>0, ColdRound
    <3>2. t.ring # <<>> /\ ColdAhead(t) \in Nat
      BY <2>2, <2>3, GoodBasics DEF TooLarge
    <3> HIDE DEF u
    <3>3. DataLeft(u) < DataLeft(t)
      BY <2>3, <3>1, <3>2, NearerLess DEF DataLeft, ColdAhead
    <3> QED
      BY <3>3 DEF u
  <2> QED
    BY <2>2, <2>3, <2>4
<1>7. \A t \in S : t \notin T => step[t] = t
  OBVIOUS
<1>8. Is(after)
  <2>1. Fuel \in Nat
    BY Numbers
  <2>2. PICK f \in [0..Fuel -> S] : Run(f, s, step, Fuel)
    <3> HIDE DEF S, step
    <3>1. Runs(S, s, step, Fuel)
      BY <1>1, <1>3, <2>1, LoopExists
    <3> QED
      BY <3>1 DEF Runs
  <2>3. ASSUME NEW n \in 0..Fuel PROVE f[n] = IF n = 0 THEN s ELSE Round(f[n - 1])
    <3>1. n # 0 => n \in 1..Fuel /\ n - 1 \in 0..Fuel
      BY <2>1
    <3>2. n # 0 => f[n - 1] \in S
      BY <3>1
    <3>3. n # 0 => step[f[n - 1]] = Round(f[n - 1])
      BY <3>2
    <3> HIDE DEF Round, step, S
    <3> QED
      BY <2>2, <3>1, <3>3 DEF Run
  <2>4. Is(f)
    <3> HIDE DEF Round, step, S
    <3> QED
      BY <2>3
  <2> HIDE DEF Is
  <2> QED
    BY <2>4
<1> HIDE DEF Is, after
<1>9. after[0] = s /\ \A n \in 1..Fuel : after[n] = Round(after[n - 1])
  <2>1. after = [n \in 0..Fuel |-> IF n = 0 THEN s ELSE Round(after[n - 1])]
    BY <1>8 DEF Is
  <2> HIDE DEF Round
  <2> QED
    BY <2>1, Numbers
<1>10. Follows(after, S, step, Fuel)
  BY <1>9 DEF Follows
<1>11. /\ \A n \in 0..Fuel : after[n] \in S
       /\ after[Fuel] \notin T
  <2>1. Fuel \in Nat /\ after[0] = s
    BY <1>9, Numbers
  <2>2. Lowers(S, T, step, m)
    <3> HIDE DEF S, T, step, m
    <3> QED
      BY <1>6, <1>7 DEF Lowers
  <2> HIDE DEF S, T, step, m
  <2> QED
    BY <1>1, <1>3, <1>5, <1>10, <2>1, <2>2, LoopEnds
<1>12. last \in 0..Fuel /\ (last = Fuel \/ ~TooLarge(after[last]))
  <2>1. Fuel \in 0..Fuel
    BY Numbers
  <2> QED
    BY <2>1
<1> HIDE DEF last
<1>13. after[last] \in S /\ ~TooLarge(after[last])
  BY <1>11, <1>12
<1>14. Evict(s) = IF TooLarge(after[last]) THEN [after[last] EXCEPT !.stuck = TRUE] ELSE after[last]
  BY DEF Evict, last, after, Is, Round
<1> QED
  BY <1>13, <1>14

-----------------------------------------------------------------------------
(* The calls.                                                              *)

(* A shard between two calls.                                              *)
Rest(s) ==
  /\ Good(s) /\ s.stuck = FALSE
  /\ s.sizeHot + s.sizeCold <= MaxSize /\ s.sizeTest <= MaxSize

(* A shard whose budget is smaller than a page keeps nothing, not even     *)
(* ghosts ...                                                              *)
LEMMA RestSmall ==
  ASSUME NEW s, Rest(s), PageSize > MaxSize
  PROVE  DOMAIN s.ent = {}
<1>1. SUFFICES ASSUME NEW q \in DOMAIN s.ent PROVE FALSE
  OBVIOUS
<1>2. Good(s) /\ s.ent[q] \in Entry /\ {s.sizeHot, s.sizeCold, s.sizeTest} \subseteq Nat
  BY GoodBasics, SomeOfKind DEF Rest
<1>3. ASSUME NEW k \in KindSet, s.ent[q].kind = k PROVE PageSize * Num(s.ent, k) >= PageSize
  <2>1. q \in OfKind(s.ent, k)
    BY <1>3 DEF OfKind
  <2>2. Num(s.ent, k) \in Nat /\ Num(s.ent, k) # 0
    BY <1>2, <2>1, GoodBasics, Counts
  <2> QED
    BY <2>2, Times
<1>4. /\ s.sizeHot = PageSize * Num(s.ent, "hot")
      /\ s.sizeCold = PageSize * Num(s.ent, "cold")
      /\ s.sizeTest = PageSize * Num(s.ent, "test")
  BY <1>2 DEF Good
<1>5. s.ent[q].kind = "hot" \/ s.ent[q].kind = "cold" \/ s.ent[q].kind = "test"
  BY <1>2 DEF Entry
<1>6. s.sizeHot >= PageSize \/ s.sizeCold >= PageSize \/ s.sizeTest >= PageSize
  BY <1>3, <1>4, <1>5 DEF KindSet
<1> QED
  BY <1>2, <1>6, Numbers DEF Rest

(* ... and so is always roomy between calls.                               *)
LEMMA RestRoomy ==
  ASSUME NEW s, Rest(s)
  PROVE  Roomy(s)
<1>1. PageSize <= MaxSize \/ PageSize > MaxSize
  BY Numbers
<1> QED
  BY <1>1, RestSmall DEF Roomy

(* A shard between calls is sound: what CacheSound says.                   *)
LEMMA SoundAtRest ==
  ASSUME NEW s, Rest(s)
  PROVE  ShardSound(s)
<1>1. Good(s) /\ ~s.stuck /\ s.sizeHot + s.sizeCold <= MaxSize /\ s.sizeTest <= MaxSize
  BY DEF Rest
<1>2. \A k : Count(s, k) = Num(s.ent, k)
  BY DEF Count, Num, OfKind, Kind
<1>3. ToSet(s.ring) = DOMAIN s.ent /\ Len(s.ring) = Cardinality(DOMAIN s.ent)
  <2>1. RingOf(s.ring, DOMAIN s.ent)
    BY <1>1 DEF Good
  <2>2. Len(s.ring) = Cardinality(DOMAIN s.ent)
    BY <2>1, RingLen
  <2>3. DOMAIN s.ring = 1..Len(s.ring)
    BY <2>1 DEF RingOf
  <2>4. ASSUME NEW q \in ToSet(s.ring) PROVE q \in DOMAIN s.ent
    BY <2>1, <2>3 DEF RingOf, ToSet
  <2>5. ASSUME NEW q \in DOMAIN s.ent PROVE q \in ToSet(s.ring)
    BY <2>1, <2>3 DEF RingOf, ToSet
  <2> QED
    BY <2>2, <2>4, <2>5
<1>4. {s.hot, s.test} \subseteq (IF s.ring = <<>> THEN {0} ELSE DOMAIN s.ent)
  BY <1>1 DEF Good
<1> QED
  BY <1>1, <1>2, <1>3, <1>4 DEF ShardSound, Good

(* newPageCache: an empty shard, at rest, without any page.                *)
LEMMA NewShardRests == Rest(NewShard) /\ \A q : ~Cached(NewShard, q)
<1> DEFINE s == NewShard
<1>1. /\ s.ring = <<>> /\ s.ent = <<>> /\ s.hot = 0 /\ s.test = 0
      /\ s.sizeHot = 0 /\ s.sizeCold = 0 /\ s.sizeTest = 0 /\ s.coldTarget = MaxSize /\ s.stuck = FALSE
  BY DEF NewShard
<1>2. MaxSize \in Nat /\ PageSize \in Nat
  BY Numbers
<1>3. <<>> \in EntryMap /\ DOMAIN <<>> = {}
  <2>1. DOMAIN <<>> = {}
    OBVIOUS
  <2>2. <<>> \in [{} -> Entry]
    OBVIOUS
  <2> QED
    BY <2>1, <2>2 DEF EntryMap
<1>4. s \in Shard
  BY <1>2, <1>3 DEF NewShard, Shard
<1>5. RingOf(<<>>, {})
  BY DEF RingOf
<1>6. \A k : Num(<<>>, k) = 0
  BY <1>3, FS_EmptySet DEF Num, OfKind
<1>7. PageSize * 0 = 0
  BY <1>2
<1> HIDE DEF s
<1>8. Good(s)
  BY <1>1, <1>2, <1>3, <1>4, <1>5, <1>6, <1>7 DEF Good
<1>9. Rest(s)
  BY <1>1, <1>2, <1>8 DEF Rest
<1>10. \A q : ~Cached(s, q)
  BY <1>1, <1>3 DEF Cached
<1> QED
  BY <1>9, <1>10 DEF s

(* get *)
LEMMA GetRests ==
  ASSUME NEW s, Rest(s), NEW p, Cached(s, p)
  PROVE  /\ Rest(CacheGet(s, p))
         /\ \A q : Cached(CacheGet(s, p), q) => Cached(s, q) /\ CacheGet(s, p).ent[q].img = s.ent[q].img
<1> DEFINE e == s.ent[p]
           x == [e EXCEPT !.ref = TRUE]
           d == [s.ent EXCEPT ![p] = x]
           t == [s EXCEPT !.ent = d]
<1>1. /\ Good(s) /\ s \in Shard /\ s.ent \in EntryMap /\ p \in DOMAIN s.ent /\ e \in Entry
      /\ {s.sizeHot, s.sizeCold, s.sizeTest} \subseteq Int
  BY GoodBasics, SomeOfKind DEF Rest, Cached
<1>2. CacheGet(s, p) = t
  BY DEF CacheGet
<1>3. x \in Entry /\ x.kind = e.kind /\ x.img = e.img
  BY <1>1 DEF Entry
<1> HIDE DEF x
<1>4. d \in EntryMap
  BY <1>1, <1>3, ChangedEntry
<1>5. d = [s.ent EXCEPT ![p] = x]
  OBVIOUS
<1> HIDE DEF d
<1>6. /\ t \in Shard
      /\ t.ring = s.ring /\ t.ent = d /\ t.hot = s.hot /\ t.test = s.test
      /\ t.coldTarget = s.coldTarget /\ t.stuck = s.stuck
      /\ t.sizeHot = s.sizeHot /\ t.sizeCold = s.sizeCold /\ t.sizeTest = s.sizeTest
  BY <1>1, <1>4 DEF Shard
<1> HIDE DEF t
<1>7. /\ t.sizeHot = s.sizeHot + Size(x.kind = "hot") - Size(e.kind = "hot")
      /\ t.sizeCold = s.sizeCold + Size(x.kind = "cold") - Size(e.kind = "cold")
      /\ t.sizeTest = s.sizeTest + Size(x.kind = "test") - Size(e.kind = "test")
  BY <1>1, <1>3, <1>6, Numbers DEF Size
<1>8. /\ Good(t)
      /\ DOMAIN t.ent = DOMAIN s.ent /\ t.ent[p] = x
      /\ \A q \in DOMAIN s.ent : q # p => t.ent[q] = s.ent[q]
  BY <1>1, <1>3, <1>5, <1>6, <1>7, EntryChanged
<1>9. Rest(t)
  BY <1>6, <1>8 DEF Rest
<1>10. \A q : Cached(t, q) => Cached(s, q) /\ t.ent[q].img = s.ent[q].img
  BY <1>3, <1>8 DEF Cached, Kind
<1> QED
  BY <1>2, <1>9, <1>10

(* invalidate *)
LEMMA DelRests ==
  ASSUME NEW s, Rest(s), NEW p
  PROVE  /\ Rest(CacheDel(s, p)) /\ ~Cached(CacheDel(s, p), p)
         /\ \A q : Cached(CacheDel(s, p), q) => Cached(s, q) /\ CacheDel(s, p).ent[q].img = s.ent[q].img
<1>1. CASE p \notin DOMAIN s.ent
  BY <1>1 DEF CacheDel, Cached
<1>2. CASE p \in DOMAIN s.ent
  <2> DEFINE k == s.ent[p].kind
             n == -PageSize
             a == Resize(s, k, n)
             r == RingWithout(s, p)
             e == Without(s.ent, p)
             hot == HandAfter(s, p, s.hot)
             test == HandAfter(s, p, s.test)
             b == [a EXCEPT !.ring = r, !.hot = hot, !.test = test]
             c == [b EXCEPT !.ent = e]
  <2>1. Good(s) /\ s \in Shard /\ s.ent \in EntryMap /\ s.ent[p] \in Entry /\ s.coldTarget \in 0..MaxSize
    BY <1>2, GoodBasics DEF Rest, Good
  <2>2. k \in KindSet /\ n \in Int
    BY <2>1, Numbers DEF KindSet, Entry
  <2>3. /\ e \in EntryMap /\ DOMAIN e = DOMAIN s.ent \ {p}
        /\ r \in Seq(Page) /\ RingOf(r, DOMAIN e)
        /\ r = <<>> => hot = 0 /\ test = 0
        /\ r # <<>> => hot \in DOMAIN e /\ test \in DOMAIN e
        /\ hot \in Page \cup {0} /\ test \in Page \cup {0}
    BY <1>2, <2>1, Unlinked
  <2>4. /\ \A q \in DOMAIN e : e[q] = s.ent[q]
        /\ \A j : Num(e, j) = Num(s.ent, j) - One(k = j)
    <3> DEFINE f == [q \in DOMAIN s.ent \ {p} |-> s.ent[q]]
    <3>1. /\ \A q \in DOMAIN f : f[q] = s.ent[q]
          /\ \A j : Num(f, j) = Num(s.ent, j) - One(s.ent[p].kind = j)
      BY <1>2, <2>1, DroppedEntry
    <3>2. e = f
      BY DEF Without
    <3> HIDE DEF f, e
    <3> QED
      BY <3>1, <3>2
  <2> HIDE DEF r, e, hot, test, k, n
  <2>5. /\ a \in Shard
        /\ a.ring = s.ring /\ a.ent = s.ent /\ a.hot = s.hot /\ a.test = s.test
        /\ a.coldTarget = s.coldTarget /\ a.stuck = s.stuck
        /\ a.sizeHot = IF k = "hot" THEN s.sizeHot + n ELSE s.sizeHot
        /\ a.sizeCold = IF k = "cold" THEN s.sizeCold + n ELSE s.sizeCold
        /\ a.sizeTest = IF k = "test" THEN s.sizeTest + n ELSE s.sizeTest
    BY <2>1, <2>2, ResizeIs
  <2>6. CacheDel(s, p) = Forget(Unlink(a, p), p)
    BY <1>2 DEF CacheDel, Kind, k, n
  <2> HIDE DEF a
  <2>7. Unlink(a, p) = b
    <3>1. Unlink(a, p) = [a EXCEPT !.ring = RingWithout(a, p),
                                   !.hot = HandAfter(a, p, a.hot), !.test = HandAfter(a, p, a.test)]
      BY UnlinkIs
    <3>2. RingWithout(a, p) = r /\ HandAfter(a, p, a.hot) = hot /\ HandAfter(a, p, a.test) = test
      BY <2>5, SameRing DEF r, hot, test
    <3> QED
      BY <3>1, <3>2
  <2>8. /\ b \in Shard
        /\ b.ring = r /\ b.ent = s.ent /\ b.hot = hot /\ b.test = test
        /\ b.coldTarget = s.coldTarget /\ b.stuck = s.stuck
        /\ b.sizeHot = a.sizeHot /\ b.sizeCold = a.sizeCold /\ b.sizeTest = a.sizeTest
    BY <2>3, <2>5 DEF Shard
  <2> HIDE DEF b
  <2>9. Forget(b, p) = c
    BY <2>8 DEF Forget, e, Without
  <2>10. /\ c \in Shard
         /\ c.ring = r /\ c.ent = e /\ c.hot = hot /\ c.test = test
         /\ c.coldTarget = s.coldTarget /\ c.stuck = s.stuck
         /\ c.sizeHot = a.sizeHot /\ c.sizeCold = a.sizeCold /\ c.sizeTest = a.sizeTest
    BY <2>3, <2>8 DEF Shard
  <2> HIDE DEF c
  <2>11. \A j \in KindSet : /\ PageSize * Num(e, j) = PageSize * Num(s.ent, j) - Size(k = j)
                            /\ PageSize * Num(s.ent, j) \in Nat /\ PageSize * Num(e, j) \in Nat
    <3>1. TAKE j \in KindSet
    <3>2. Num(e, j) = Num(s.ent, j) - One(k = j) /\ Num(e, j) \in Nat /\ Num(s.ent, j) \in Nat
      BY <2>1, <2>3, <2>4, Counts
    <3> QED
      BY <3>2, SizeLess
  <2>12. /\ c.sizeHot = PageSize * Num(e, "hot") /\ c.sizeCold = PageSize * Num(e, "cold")
         /\ c.sizeTest = PageSize * Num(e, "test")
         /\ c.sizeHot <= s.sizeHot /\ c.sizeCold <= s.sizeCold /\ c.sizeTest <= s.sizeTest
         /\ {s.sizeHot, s.sizeCold, s.sizeTest, c.sizeHot, c.sizeCold, c.sizeTest} \subseteq Nat
    <3>1. /\ s.sizeHot = PageSize * Num(s.ent, "hot")
          /\ s.sizeCold = PageSize * Num(s.ent, "cold")
          /\ s.sizeTest = PageSize * Num(s.ent, "test")
      BY <2>1 DEF Good
    <3>2. n = -PageSize /\ PageSize \in Nat
      BY Numbers DEF n
    <3>3. /\ Size(k = "hot") = (IF k = "hot" THEN PageSize ELSE 0)
          /\ Size(k = "cold") = (IF k = "cold" THEN PageSize ELSE 0)
          /\ Size(k = "test") = (IF k = "test" THEN PageSize ELSE 0)
      BY DEF Size
    <3> DEFINE X(j) == PageSize * Num(e, j)
               Y(j) == PageSize * Num(s.ent, j)
    <3>4. /\ X("hot") = Y("hot") - Size(k = "hot") /\ Y("hot") \in Nat /\ X("hot") \in Nat
          /\ X("cold") = Y("cold") - Size(k = "cold") /\ Y("cold") \in Nat /\ X("cold") \in Nat
          /\ X("test") = Y("test") - Size(k = "test") /\ Y("test") \in Nat /\ X("test") \in Nat
      BY <2>11 DEF KindSet
    <3>5. s.sizeHot = Y("hot") /\ s.sizeCold = Y("cold") /\ s.sizeTest = Y("test")
      BY <3>1
    <3> HIDE DEF X, Y
    <3>6. /\ c.sizeHot = X("hot") /\ c.sizeCold = X("cold") /\ c.sizeTest = X("test")
          /\ c.sizeHot <= s.sizeHot /\ c.sizeCold <= s.sizeCold /\ c.sizeTest <= s.sizeTest
          /\ {s.sizeHot, s.sizeCold, s.sizeTest, c.sizeHot, c.sizeCold, c.sizeTest} \subseteq Nat
      BY <2>5, <2>10, <3>2, <3>3, <3>4, <3>5
    <3> QED
      BY <3>6 DEF X
  <2>13. Good(c)
    BY <2>1, <2>3, <2>10, <2>12 DEF Good
  <2>14. Rest(c)
    <3>1. s.sizeHot + s.sizeCold <= MaxSize /\ s.sizeTest <= MaxSize /\ MaxSize \in Nat /\ s.stuck = FALSE
      BY Numbers DEF Rest
    <3>2. c.sizeHot + c.sizeCold <= MaxSize /\ c.sizeTest <= MaxSize
      BY <2>12, <3>1
    <3> QED
      BY <2>10, <2>13, <3>1, <3>2 DEF Rest
  <2>15. ~Cached(c, p) /\ \A q : Cached(c, q) => Cached(s, q) /\ c.ent[q].img = s.ent[q].img
    BY <2>3, <2>4, <2>10 DEF Cached, Kind
  <2>16. CacheDel(s, p) = c
    BY <2>6, <2>7, <2>9
  <2> QED
    BY <2>14, <2>15, <2>16
<1> QED
  BY <1>1, <1>2

(* linkBefore: b is a with p in its ring of the entries D.                 *)
Linked(a, b, D, p) ==
  /\ b \in Shard
  /\ b.ent = a.ent /\ b.sizeHot = a.sizeHot /\ b.sizeCold = a.sizeCold /\ b.sizeTest = a.sizeTest
  /\ b.coldTarget = a.coldTarget /\ b.stuck = a.stuck
  /\ RingOf(b.ring, D \cup {p}) /\ b.ring # <<>>
  /\ b.hot \in D \cup {p} /\ b.test \in D \cup {p}

(* linkBefore puts p into the ring, with hands in it.                      *)
LEMMA LinkIs ==
  ASSUME NEW a, a \in Shard, NEW D, D \subseteq Page, RingOf(a.ring, D), NEW p, p \in Page, p \notin D,
         NEW ref, a.ring # <<>> => a.hot \in D /\ a.test \in D /\ ref \in D
  PROVE  Linked(a, Link(a, p, ref), D, p)
<1>1. a.ring \in Seq(D) /\ D \cup {p} \subseteq Page
  BY DEF RingOf
<1>2. ASSUME NEW r, RingOf(r, D \cup {p}) PROVE r \in Seq(Page) /\ r # <<>>
  <2>1. r \in Seq(D \cup {p})
    BY <1>2 DEF RingOf
  <2>2. r # <<>>
    BY <1>2, RingEmpty
  <2> QED
    BY <1>1, <2>1, <2>2, SeqMonotonic
<1>3. CASE a.ring = <<>>
  <2> DEFINE r == <<p>>
             b == [a EXCEPT !.ring = r, !.hot = p, !.test = p]
  <2>1. Link(a, p, ref) = b
    BY <1>3 DEF Link
  <2>2. D = {}
    BY <1>3, RingEmpty
  <2>3. RingOf(r, D \cup {p})
    <3>1. r \in Seq({p}) /\ Len(r) = 1 /\ r[1] = p
      OBVIOUS
    <3> HIDE DEF r
    <3>2. D \cup {p} = {p}
      BY <2>2
    <3> QED
      BY <3>1, <3>2 DEF RingOf
  <2> HIDE DEF r
  <2>4. r \in Seq(Page) /\ r # <<>>
    BY <1>2, <2>3
  <2>5. /\ b \in Shard
        /\ b.ring = r /\ b.hot = p /\ b.test = p
        /\ b.ent = a.ent /\ b.sizeHot = a.sizeHot /\ b.sizeCold = a.sizeCold /\ b.sizeTest = a.sizeTest
        /\ b.coldTarget = a.coldTarget /\ b.stuck = a.stuck
    BY <2>4 DEF Shard
  <2> HIDE DEF b
  <2> QED
    BY <2>1, <2>3, <2>4, <2>5 DEF Linked
<1>4. CASE a.ring # <<>>
  <2> DEFINE r == IF ref = Head(a.ring) THEN Append(a.ring, p) ELSE InsertAt(a.ring, Place(a, ref), p)
             b == [a EXCEPT !.ring = r]
  <2>1. Link(a, p, ref) = b
    BY <1>4 DEF Link
  <2>2. RingOf(r, D \cup {p})
    <3>1. Place(a, ref) \in 1..Len(a.ring)
      BY <1>4, RingPlace
    <3>2. RingOf(InsertAt(a.ring, Place(a, ref), p), D \cup {p})
      BY <3>1, RingInsert
    <3>3. RingOf(Append(a.ring, p), D \cup {p})
      BY RingAppend
    <3> QED
      BY <3>2, <3>3
  <2> HIDE DEF r
  <2>3. r \in Seq(Page) /\ r # <<>>
    BY <1>2, <2>2
  <2>4. /\ b \in Shard
        /\ b.ring = r /\ b.hot = a.hot /\ b.test = a.test
        /\ b.ent = a.ent /\ b.sizeHot = a.sizeHot /\ b.sizeCold = a.sizeCold /\ b.sizeTest = a.sizeTest
        /\ b.coldTarget = a.coldTarget /\ b.stuck = a.stuck
    BY <2>3 DEF Shard
  <2> HIDE DEF b
  <2> QED
    BY <1>4, <2>1, <2>2, <2>3, <2>4 DEF Linked
<1> QED
  BY <1>3, <1>4

(* Before the eviction: the entry is there, the budget may be exceeded.    *)
Ready(s, u, p, img) ==
  /\ Good(u) /\ Roomy(u) /\ u.stuck = FALSE /\ u.sizeTest <= MaxSize
  /\ \A q : Cached(u, q) =>
       /\ q = p => u.ent[q].img = img
       /\ q # p => Cached(s, q) /\ u.ent[q].img = s.ent[q].img

(* The page at the cold hand, before which a new entry is linked.          *)
ColdHand(s) == IF s.ring = <<>> THEN 0 ELSE Head(s.ring)

(* set of a page that is not known: a cold entry before the cold hand.     *)
LEMMA NewReady ==
  ASSUME NEW s, Rest(s), NEW p \in Page, p \notin DOMAIN s.ent, NEW img \in Int
  PROVE  Ready(s, Resize(Link([s EXCEPT !.ent = Put(s.ent, p, [kind |-> "cold", ref |-> FALSE, img |-> img])],
                              p, ColdHand(s)), "cold", PageSize), p, img)
<1> DEFINE x == [kind |-> "cold", ref |-> FALSE, img |-> img]
           d == Put(s.ent, p, x)
           a == [s EXCEPT !.ent = d]
           b == Link(a, p, ColdHand(s))
           u == Resize(b, "cold", PageSize)
<1>1. /\ Good(s) /\ s \in Shard /\ s.ent \in EntryMap /\ DOMAIN s.ent \subseteq Page
      /\ RingOf(s.ring, DOMAIN s.ent) /\ s.coldTarget \in 0..MaxSize
      /\ s.ring # <<>> => s.hot \in DOMAIN s.ent /\ s.test \in DOMAIN s.ent
      /\ {s.sizeHot, s.sizeCold, s.sizeTest} \subseteq Nat
  BY GoodBasics, SomeOfKind DEF Rest, Good
<1>2. x \in Entry /\ x.kind = "cold" /\ x.ref = FALSE /\ x.img = img
  BY DEF Entry
<1>3. /\ d \in EntryMap /\ DOMAIN d = DOMAIN s.ent \cup {p} /\ d[p] = x
      /\ \A q \in DOMAIN s.ent : d[q] = s.ent[q]
      /\ \A k : Num(d, k) = Num(s.ent, k) + One(x.kind = k)
  <2>1. s.ent \in EntryMap /\ x \in Entry
    BY <1>1, <1>2
  <2> HIDE DEF x
  <2>2. Added(s.ent, d, p, x)
    BY <2>1, AddedEntry
  <2> HIDE DEF d
  <2> QED
    BY <2>2 DEF Added
<1>4. u = Resize(Link([s EXCEPT !.ent = Put(s.ent, p, [kind |-> "cold", ref |-> FALSE, img |-> img])],
                      p, ColdHand(s)), "cold", PageSize)
  OBVIOUS
<1> HIDE DEF x, d
<1>5. /\ a \in Shard
      /\ a.ring = s.ring /\ a.ent = d /\ a.hot = s.hot /\ a.test = s.test
      /\ a.coldTarget = s.coldTarget /\ a.stuck = s.stuck
      /\ a.sizeHot = s.sizeHot /\ a.sizeCold = s.sizeCold /\ a.sizeTest = s.sizeTest
  BY <1>1, <1>3 DEF Shard
<1> HIDE DEF a
<1>6. /\ b \in Shard
      /\ b.ent = a.ent /\ b.sizeHot = a.sizeHot /\ b.sizeCold = a.sizeCold /\ b.sizeTest = a.sizeTest
      /\ b.coldTarget = a.coldTarget /\ b.stuck = a.stuck
      /\ RingOf(b.ring, DOMAIN s.ent \cup {p}) /\ b.ring # <<>>
      /\ b.hot \in DOMAIN s.ent \cup {p} /\ b.test \in DOMAIN s.ent \cup {p}
  <2>1. a.ring # <<>> => ColdHand(s) \in DOMAIN s.ent
    <3>1. s.ring \in Seq(DOMAIN s.ent)
      BY <1>1, GoodBasics
    <3> QED
      BY <1>5, <3>1 DEF ColdHand
  <2>2. RingOf(a.ring, DOMAIN s.ent) /\ (a.ring # <<>> => a.hot \in DOMAIN s.ent /\ a.test \in DOMAIN s.ent)
    BY <1>1, <1>5
  <2> DEFINE ref == ColdHand(s)
             D == DOMAIN s.ent
  <2>3. /\ D \subseteq Page /\ RingOf(a.ring, D) /\ p \in Page /\ p \notin D
        /\ a.ring # <<>> => a.hot \in D /\ a.test \in D /\ ref \in D
    BY <1>1, <2>1, <2>2
  <2> HIDE DEF ref, D
  <2>4. Linked(a, Link(a, p, ref), D, p)
    BY <1>5, <2>3, LinkIs
  <2>5. Link(a, p, ref) = b
    BY DEF ref
  <2> HIDE DEF b
  <2> QED
    BY <2>4, <2>5 DEF Linked, D
<1> HIDE DEF b
<1>7. /\ u \in Shard
      /\ u.ring = b.ring /\ u.ent = b.ent /\ u.hot = b.hot /\ u.test = b.test
      /\ u.coldTarget = b.coldTarget /\ u.stuck = b.stuck
      /\ u.sizeHot = b.sizeHot /\ u.sizeCold = b.sizeCold + PageSize /\ u.sizeTest = b.sizeTest
  <2>1. "cold" \in KindSet /\ PageSize \in Int
    BY Numbers DEF KindSet
  <2> QED
    BY <1>6, <2>1, ResizeIs
<1> HIDE DEF u
<1>8. /\ u.sizeHot = PageSize * Num(d, "hot") /\ u.sizeCold = PageSize * Num(d, "cold")
      /\ u.sizeTest = PageSize * Num(d, "test")
  <2>1. /\ s.sizeHot = PageSize * Num(s.ent, "hot")
        /\ s.sizeCold = PageSize * Num(s.ent, "cold")
        /\ s.sizeTest = PageSize * Num(s.ent, "test")
    BY <1>1 DEF Good
  <2>2. \A k : Num(s.ent, k) \in Nat
    BY <1>1, Counts
  <2>3. Num(d, "hot") = Num(s.ent, "hot") /\ Num(d, "test") = Num(s.ent, "test") /\ Num(d, "cold") = Num(s.ent, "cold") + 1
    BY <1>2, <1>3, <2>2 DEF One
  <2>4. PageSize * (Num(s.ent, "cold") + 1) = PageSize * Num(s.ent, "cold") + PageSize
    BY <2>2, Times
  <2> QED
    BY <1>5, <1>6, <1>7, <2>1, <2>3, <2>4
<1>9. Good(u)
  BY <1>1, <1>3, <1>5, <1>6, <1>7, <1>8 DEF Good
<1>10. Roomy(u)
  <2>1. Roomy(s)
    BY RestRoomy
  <2>2. ~IsWarm(x)
    BY <1>2 DEF IsWarm
  <2>3. \A q \in DOMAIN u.ent : u.ent[q] = x \/ (q \in DOMAIN s.ent /\ u.ent[q] = s.ent[q])
    BY <1>3, <1>5, <1>6, <1>7
  <2> QED
    BY <2>1, <2>2, <2>3 DEF Roomy
<1>11. u.stuck = FALSE /\ u.sizeTest <= MaxSize
  BY <1>5, <1>6, <1>7 DEF Rest
<1>12. \A q : Cached(u, q) =>
         /\ q = p => u.ent[q].img = img
         /\ q # p => Cached(s, q) /\ u.ent[q].img = s.ent[q].img
  BY <1>2, <1>3, <1>5, <1>6, <1>7 DEF Cached, Kind
<1>13. Ready(s, u, p, img)
  BY <1>9, <1>10, <1>11, <1>12 DEF Ready
<1> QED
  BY <1>4, <1>13

(* The wider cold target after a hit of a ghost, and the shard without the *)
(* ghost's place.                                                          *)
Wide(s) == LET c == s.coldTarget + PageSize IN IF c > MaxSize THEN MaxSize ELSE c
Taken(s, p) == Unlink(Resize([s EXCEPT !.coldTarget = Wide(s)], "test", -PageSize), p)

(* The ghost's place is gone and its entry is still in the map.            *)
LEMMA TakenIs ==
  ASSUME NEW s, Rest(s), NEW p, p \in DOMAIN s.ent, s.ent[p].kind = "test"
  PROVE  /\ Taken(s, p) \in Shard /\ Taken(s, p).ent = s.ent
         /\ RingOf(Taken(s, p).ring, DOMAIN s.ent \ {p})
         /\ Taken(s, p).ring # <<>> =>
              Taken(s, p).hot \in DOMAIN s.ent \ {p} /\ Taken(s, p).test \in DOMAIN s.ent \ {p}
         /\ Taken(s, p).coldTarget \in 0..MaxSize /\ Taken(s, p).stuck = FALSE
         /\ Taken(s, p).sizeHot = s.sizeHot /\ Taken(s, p).sizeCold = s.sizeCold
         /\ Taken(s, p).sizeTest = s.sizeTest - PageSize
<1> DEFINE cold == Wide(s)
           n == -PageSize
           w == [s EXCEPT !.coldTarget = cold]
           a == Resize(w, "test", n)
           r == RingWithout(s, p)
           e == Without(s.ent, p)
           hot == HandAfter(s, p, s.hot)
           test == HandAfter(s, p, s.test)
           t == [a EXCEPT !.ring = r, !.hot = hot, !.test = test]
<1>1. Good(s) /\ s \in Shard /\ s.coldTarget \in 0..MaxSize /\ s.stuck = FALSE
  BY GoodBasics DEF Rest, Good
<1>2. cold \in 0..MaxSize /\ cold \in Int /\ n \in Int /\ "test" \in KindSet
  BY <1>1, Numbers DEF Wide, KindSet
<1>3. /\ DOMAIN e = DOMAIN s.ent \ {p}
      /\ r \in Seq(Page) /\ RingOf(r, DOMAIN e)
      /\ r # <<>> => hot \in DOMAIN e /\ test \in DOMAIN e
      /\ hot \in Page \cup {0} /\ test \in Page \cup {0}
  BY <1>1, Unlinked
<1>4. Taken(s, p) = Unlink(a, p)
  BY DEF Taken
<1> HIDE DEF cold, r, e, hot, test
<1>5. /\ w \in Shard
      /\ w.ring = s.ring /\ w.ent = s.ent /\ w.hot = s.hot /\ w.test = s.test
      /\ w.coldTarget = cold /\ w.stuck = s.stuck
      /\ w.sizeHot = s.sizeHot /\ w.sizeCold = s.sizeCold /\ w.sizeTest = s.sizeTest
  BY <1>1, <1>2 DEF Shard
<1> HIDE DEF w, n
<1>6. /\ a \in Shard
      /\ a.ring = s.ring /\ a.ent = s.ent /\ a.hot = s.hot /\ a.test = s.test
      /\ a.coldTarget = cold /\ a.stuck = s.stuck
      /\ a.sizeHot = s.sizeHot /\ a.sizeCold = s.sizeCold /\ a.sizeTest = s.sizeTest + n
  <2>1. /\ a \in Shard
        /\ a.ring = w.ring /\ a.ent = w.ent /\ a.hot = w.hot /\ a.test = w.test
        /\ a.coldTarget = w.coldTarget /\ a.stuck = w.stuck
        /\ a.sizeHot = w.sizeHot /\ a.sizeCold = w.sizeCold /\ a.sizeTest = w.sizeTest + n
    BY <1>2, <1>5, ResizeIs
  <2> HIDE DEF a
  <2> QED
    BY <1>5, <2>1
<1> HIDE DEF a
<1>7. Unlink(a, p) = t
  <2>1. Unlink(a, p) = [a EXCEPT !.ring = RingWithout(a, p),
                                 !.hot = HandAfter(a, p, a.hot), !.test = HandAfter(a, p, a.test)]
    BY UnlinkIs
  <2>2. RingWithout(a, p) = r /\ HandAfter(a, p, a.hot) = hot /\ HandAfter(a, p, a.test) = test
    BY <1>6, SameRing DEF r, hot, test
  <2> QED
    BY <2>1, <2>2
<1>8. /\ t \in Shard
      /\ t.ring = r /\ t.ent = s.ent /\ t.hot = hot /\ t.test = test
      /\ t.coldTarget = cold /\ t.stuck = s.stuck
      /\ t.sizeHot = s.sizeHot /\ t.sizeCold = s.sizeCold /\ t.sizeTest = s.sizeTest + n
  BY <1>3, <1>6 DEF Shard
<1> HIDE DEF t
<1>9. s.sizeTest + n = s.sizeTest - PageSize
  <2>1. s.sizeTest \in Int /\ PageSize \in Int
    BY <1>1, SomeOfKind, Numbers
  <2> QED
    BY <2>1 DEF n
<1>10. Taken(s, p) = t
  BY <1>4, <1>7
<1> QED
  BY <1>1, <1>2, <1>3, <1>8, <1>9, <1>10

(* set of a page whose ghost is known: a hot entry before the hot hand.    *)
LEMMA GhostReady ==
  ASSUME NEW s, Rest(s), NEW p, p \in DOMAIN s.ent, s.ent[p].kind = "test", NEW img, img \in Int
  PROVE  LET t == Taken(s, p)
         IN  Ready(s, Resize(Link([t EXCEPT !.ent = Put(t.ent, p, [kind |-> "hot", ref |-> TRUE, img |-> img])],
                                  p, t.hot), "hot", PageSize), p, img)
<1> DEFINE x == [kind |-> "hot", ref |-> TRUE, img |-> img]
           t == Taken(s, p)
           d == Put(t.ent, p, x)
           a == [t EXCEPT !.ent = d]
           b == Link(a, p, t.hot)
           u == Resize(b, "hot", PageSize)
           D == DOMAIN s.ent \ {p}
<1>1. /\ Good(s) /\ s.ent \in EntryMap /\ DOMAIN s.ent \subseteq Page /\ p \in Page
      /\ {s.sizeHot, s.sizeCold, s.sizeTest} \subseteq Nat
  BY GoodBasics, SomeOfKind DEF Rest
<1>2. x \in Entry /\ x.kind = "hot" /\ x.img = img
  BY DEF Entry
<1>3. /\ t \in Shard /\ t.ent = s.ent /\ RingOf(t.ring, D)
      /\ t.ring # <<>> => t.hot \in D /\ t.test \in D
      /\ t.coldTarget \in 0..MaxSize /\ t.stuck = FALSE
      /\ t.sizeHot = s.sizeHot /\ t.sizeCold = s.sizeCold /\ t.sizeTest = s.sizeTest - PageSize
  BY TakenIs, ZenonT(60)
<1>4. u = Resize(Link([t EXCEPT !.ent = Put(t.ent, p, [kind |-> "hot", ref |-> TRUE, img |-> img])],
                      p, t.hot), "hot", PageSize)
  OBVIOUS
<1> HIDE DEF t, x
<1>5. d = [s.ent EXCEPT ![p] = x]
  <2>1. DOMAIN s.ent \cup {p} = DOMAIN s.ent
    OBVIOUS
  <2>2. d = [q \in DOMAIN s.ent |-> IF q = p THEN x ELSE s.ent[q]]
    BY <1>3, <2>1 DEF Put
  <2> QED
    BY <2>2
<1>6. /\ d \in EntryMap /\ DOMAIN d = DOMAIN s.ent /\ d[p] = x
      /\ \A q \in DOMAIN s.ent : q # p => d[q] = s.ent[q]
      /\ \A k : Num(d, k) = Num(s.ent, k) + One(x.kind = k) - One(s.ent[p].kind = k)
  <2> DEFINE f == [s.ent EXCEPT ![p] = x]
  <2>1. /\ f \in EntryMap /\ DOMAIN f = DOMAIN s.ent /\ f[p] = x
        /\ \A q \in DOMAIN s.ent : q # p => f[q] = s.ent[q]
        /\ \A k : Num(f, k) = Num(s.ent, k) + One(x.kind = k) - One(s.ent[p].kind = k)
    BY <1>1, <1>2, ChangedEntry
  <2>2. d = f
    BY <1>5
  <2> HIDE DEF d, f
  <2> QED
    BY <2>1, <2>2
<1> HIDE DEF d
<1>7. /\ a \in Shard
      /\ a.ring = t.ring /\ a.ent = d /\ a.hot = t.hot /\ a.test = t.test
      /\ a.coldTarget = t.coldTarget /\ a.stuck = t.stuck
      /\ a.sizeHot = t.sizeHot /\ a.sizeCold = t.sizeCold /\ a.sizeTest = t.sizeTest
  BY <1>3, <1>6 DEF Shard
<1> HIDE DEF a
<1>8. Linked(a, b, D, p)
  <2>1. D \subseteq Page /\ p \notin D
    BY <1>1
  <2>2. a.ring # <<>> => a.hot \in D /\ a.test \in D /\ t.hot \in D
    BY <1>3, <1>7
  <2>3. RingOf(a.ring, D)
    BY <1>3, <1>7
  <2> HIDE DEF D
  <2> QED
    BY <1>1, <1>7, <2>1, <2>2, <2>3, LinkIs
<1>9. D \cup {p} = DOMAIN s.ent
  OBVIOUS
<1> HIDE DEF b, D
<1>10. /\ b \in Shard
       /\ b.ent = a.ent /\ b.sizeHot = a.sizeHot /\ b.sizeCold = a.sizeCold /\ b.sizeTest = a.sizeTest
       /\ b.coldTarget = a.coldTarget /\ b.stuck = a.stuck
       /\ RingOf(b.ring, DOMAIN s.ent) /\ b.ring # <<>>
       /\ b.hot \in DOMAIN s.ent /\ b.test \in DOMAIN s.ent
  BY <1>8, <1>9 DEF Linked
<1>11. /\ u \in Shard
       /\ u.ring = b.ring /\ u.ent = b.ent /\ u.hot = b.hot /\ u.test = b.test
       /\ u.coldTarget = b.coldTarget /\ u.stuck = b.stuck
       /\ u.sizeHot = b.sizeHot + PageSize /\ u.sizeCold = b.sizeCold /\ u.sizeTest = b.sizeTest
  <2>1. "hot" \in KindSet /\ PageSize \in Int
    BY Numbers DEF KindSet
  <2> QED
    BY <1>10, <2>1, ResizeIs
<1> HIDE DEF u
<1>12. /\ u.sizeHot = PageSize * Num(d, "hot") /\ u.sizeCold = PageSize * Num(d, "cold")
       /\ u.sizeTest = PageSize * Num(d, "test")
  <2>1. /\ s.sizeHot = PageSize * Num(s.ent, "hot")
        /\ s.sizeCold = PageSize * Num(s.ent, "cold")
        /\ s.sizeTest = PageSize * Num(s.ent, "test")
    BY <1>1 DEF Good
  <2>2. \A k : Num(s.ent, k) \in Nat
    BY <1>1, Counts
  <2>3. /\ Num(d, "hot") = Num(s.ent, "hot") + 1 /\ Num(d, "cold") = Num(s.ent, "cold")
        /\ Num(d, "test") = Num(s.ent, "test") - 1
    BY <1>2, <1>6, <2>2 DEF One
  <2>4. /\ PageSize * (Num(s.ent, "hot") + 1) = PageSize * Num(s.ent, "hot") + PageSize
        /\ PageSize * (Num(s.ent, "test") - 1) = PageSize * Num(s.ent, "test") - PageSize
    BY <2>2, Times
  <2> QED
    BY <1>3, <1>7, <1>10, <1>11, <2>1, <2>3, <2>4
<1>13. Good(u)
  BY <1>3, <1>6, <1>7, <1>10, <1>11, <1>12 DEF Good
<1>14. Roomy(u)
  BY RestSmall, Numbers DEF Roomy
<1>15. u.stuck = FALSE /\ u.sizeTest <= MaxSize
  <2>1. s.sizeTest <= MaxSize /\ u.sizeTest = s.sizeTest - PageSize /\ u.stuck = FALSE
    BY <1>3, <1>7, <1>10, <1>11 DEF Rest
  <2> QED
    BY <1>1, <2>1, Numbers
<1>16. \A q : Cached(u, q) =>
         /\ q = p => u.ent[q].img = img
         /\ q # p => Cached(s, q) /\ u.ent[q].img = s.ent[q].img
  BY <1>2, <1>6, <1>7, <1>10, <1>11 DEF Cached, Kind
<1>17. Ready(s, u, p, img)
  BY <1>13, <1>14, <1>15, <1>16 DEF Ready
<1> QED
  BY <1>4, <1>17 DEF t

(* set of a cached page: the image is replaced and the reference bit set.  *)
LEMMA CachedReady ==
  ASSUME NEW s, Rest(s), NEW p, Cached(s, p), NEW img, img \in Int
  PROVE  Ready(s, [s EXCEPT !.ent = Put(s.ent, p, [kind |-> Kind(s, p), ref |-> TRUE, img |-> img])], p, img)
<1> DEFINE e == s.ent[p]
           x == [kind |-> Kind(s, p), ref |-> TRUE, img |-> img]
           d == Put(s.ent, p, x)
           u == [s EXCEPT !.ent = d]
<1>1. /\ Good(s) /\ s \in Shard /\ s.ent \in EntryMap /\ p \in DOMAIN s.ent /\ e \in Entry
      /\ {s.sizeHot, s.sizeCold, s.sizeTest} \subseteq Int
  BY GoodBasics, SomeOfKind DEF Rest, Cached
<1>2. x \in Entry /\ x.kind = e.kind /\ x.img = img
  BY <1>1 DEF Entry, Kind
<1>3. u = [s EXCEPT !.ent = Put(s.ent, p, [kind |-> Kind(s, p), ref |-> TRUE, img |-> img])]
  OBVIOUS
<1> HIDE DEF x
<1>4. d = [s.ent EXCEPT ![p] = x]
  <2>1. DOMAIN s.ent \cup {p} = DOMAIN s.ent
    BY <1>1
  <2>2. d = [q \in DOMAIN s.ent |-> IF q = p THEN x ELSE s.ent[q]]
    BY <2>1 DEF Put
  <2> QED
    BY <2>2
<1>5. d \in EntryMap
  <2>1. [s.ent EXCEPT ![p] = x] \in EntryMap
    BY <1>1, <1>2, ChangedEntry
  <2> HIDE DEF d
  <2> QED
    BY <1>4, <2>1
<1> HIDE DEF d
<1>6. /\ u \in Shard
      /\ u.ring = s.ring /\ u.ent = d /\ u.hot = s.hot /\ u.test = s.test
      /\ u.coldTarget = s.coldTarget /\ u.stuck = s.stuck
      /\ u.sizeHot = s.sizeHot /\ u.sizeCold = s.sizeCold /\ u.sizeTest = s.sizeTest
  BY <1>1, <1>5 DEF Shard
<1> HIDE DEF u
<1>7. /\ u.sizeHot = s.sizeHot + Size(x.kind = "hot") - Size(e.kind = "hot")
      /\ u.sizeCold = s.sizeCold + Size(x.kind = "cold") - Size(e.kind = "cold")
      /\ u.sizeTest = s.sizeTest + Size(x.kind = "test") - Size(e.kind = "test")
  BY <1>1, <1>2, <1>6, Numbers DEF Size
<1>8. /\ Good(u)
      /\ DOMAIN u.ent = DOMAIN s.ent /\ u.ent[p] = x
      /\ \A q \in DOMAIN s.ent : q # p => u.ent[q] = s.ent[q]
  BY <1>1, <1>2, <1>4, <1>6, <1>7, EntryChanged
<1>9. Roomy(u)
  BY <1>1, RestSmall, Numbers DEF Roomy
<1>10. u.stuck = FALSE /\ u.sizeTest <= MaxSize
  BY <1>6 DEF Rest
<1>11. \A q : Cached(u, q) =>
         /\ q = p => u.ent[q].img = img
         /\ q # p => Cached(s, q) /\ u.ent[q].img = s.ent[q].img
  BY <1>2, <1>8 DEF Cached, Kind
<1>12. Ready(s, u, p, img)
  BY <1>8, <1>9, <1>10, <1>11 DEF Ready
<1> QED
  BY <1>3, <1>12

(* The eviction at the end of set brings the shard to rest and adds no     *)
(* page.                                                                   *)
LEMMA EvictRests ==
  ASSUME NEW s, NEW u, NEW p, NEW img, Ready(s, u, p, img)
  PROVE  /\ Rest(Evict(u))
         /\ \A q : Cached(Evict(u), q) =>
              /\ q = p => Evict(u).ent[q].img = img
              /\ q # p => Cached(s, q) /\ Evict(u).ent[q].img = s.ent[q].img
<1> DEFINE t == Evict(u)
<1>1. Good(u) /\ Roomy(u) /\ u.stuck = FALSE /\ u.sizeTest <= MaxSize
  BY DEF Ready
<1>2. Good(t) /\ Worked(u, t) /\ ~TooLarge(t)
  BY <1>1, EvictEnds
<1> HIDE DEF t
<1>3. t.stuck = FALSE /\ t.sizeTest <= MaxSize
  BY <1>1, <1>2 DEF Worked
<1>4. t.sizeHot + t.sizeCold <= MaxSize
  <2>1. t.sizeHot \in Nat /\ t.sizeCold \in Nat /\ MaxSize \in Nat
    BY <1>2, SomeOfKind, Numbers
  <2>2. CASE t.ring # <<>>
    BY <1>2, <2>1, <2>2 DEF TooLarge
  <2>3. CASE t.ring = <<>>
    <3>1. DOMAIN t.ent = {}
      BY <1>2, <2>3, GoodBasics
    <3>2. ~(t.sizeHot > 0) /\ ~(t.sizeCold > 0)
      BY <1>2, <3>1, SomeOfKind DEF OfKind
    <3> QED
      BY <2>1, <3>2
  <2> QED
    BY <2>2, <2>3
<1>5. Rest(t)
  BY <1>2, <1>3, <1>4 DEF Rest
<1>6. \A q : Cached(t, q) => Cached(u, q) /\ t.ent[q].img = u.ent[q].img
  BY <1>2 DEF Worked, Cached, Kind, HasData
<1>7. \A q : Cached(t, q) =>
        /\ q = p => t.ent[q].img = img
        /\ q # p => Cached(s, q) /\ t.ent[q].img = s.ent[q].img
  BY <1>6 DEF Ready
<1> QED
  BY <1>5, <1>7 DEF t

(* set *)
LEMMA SetRests ==
  ASSUME NEW s, Rest(s), NEW p \in Page, NEW img \in Int
  PROVE  /\ Rest(CacheSet(s, p, img))
         /\ \A q : Cached(CacheSet(s, p, img), q) =>
              /\ q = p => CacheSet(s, p, img).ent[q].img = img
              /\ q # p => Cached(s, q) /\ CacheSet(s, p, img).ent[q].img = s.ent[q].img
<1>1. CASE p \notin DOMAIN s.ent
  <2> DEFINE u == Resize(Link([s EXCEPT !.ent = Put(s.ent, p, [kind |-> "cold", ref |-> FALSE, img |-> img])],
                              p, ColdHand(s)), "cold", PageSize)
  <2>1. CacheSet(s, p, img) = Evict(u)
    BY <1>1 DEF CacheSet, Put, ColdHand
  <2>2. Ready(s, u, p, img)
    BY <1>1, NewReady
  <2> HIDE DEF u
  <2> QED
    BY <2>1, <2>2, EvictRests
<1>2. CASE p \in DOMAIN s.ent /\ s.ent[p].kind = "test"
  <2> DEFINE t == Taken(s, p)
             u == Resize(Link([t EXCEPT !.ent = Put(t.ent, p, [kind |-> "hot", ref |-> TRUE, img |-> img])],
                              p, t.hot), "hot", PageSize)
  <2>1. CacheSet(s, p, img) = Evict(u)
    BY <1>2 DEF CacheSet, Put, Taken, Wide, Kind
  <2>2. Ready(s, u, p, img)
    BY <1>2, GhostReady
  <2> HIDE DEF u
  <2> QED
    BY <2>1, <2>2, EvictRests
<1>3. CASE p \in DOMAIN s.ent /\ s.ent[p].kind # "test"
  <2> DEFINE u == [s EXCEPT !.ent = Put(s.ent, p, [kind |-> Kind(s, p), ref |-> TRUE, img |-> img])]
  <2>1. CacheSet(s, p, img) = Evict(u)
    BY <1>3 DEF CacheSet, Put, Kind
  <2>2. Ready(s, u, p, img)
    BY <1>3, CachedReady DEF Cached, Kind
  <2> HIDE DEF u
  <2> QED
    BY <2>1, <2>2, EvictRests
<1> QED
  BY <1>1, <1>2, <1>3

-----------------------------------------------------------------------------
(* Every loop of the hands ends, for every number of pages, page size and  *)
(* budget: runHandCold's loop over ghosts (PruneGhosts), its loop over hot *)
(* entries (CoolHot), and evict (Evict), on every shard that is in order    *)
(* and holds warm entries only if a page fits the budget.                  *)
THEOREM HandsEnd ==
  ASSUME NEW s, Good(s)
  PROVE  /\ ~TooManyGhosts(PruneGhosts(s))
         /\ ~TooHot(CoolHot(s))
         /\ Roomy(s) => ~TooLarge(Evict(s))
BY PruneEnds, CoolEnds, EvictEnds
=============================================================================
