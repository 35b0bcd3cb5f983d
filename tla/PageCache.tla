------------------------------ MODULE PageCache ------------------------------
(***************************************************************************)
(* One shard of the CLOCK-Pro page cache (page_cache.go).  Shards share    *)
(* nothing and each has its own mutex, so one shard and whole calls are    *)
(* enough.  The ring is a sequence of page ids read cyclically, from       *)
(* handCold on; the other hands are the pages they point at, or 0.  Sizes  *)
(* are counted in units of a part of a page, so that a budget need not be  *)
(* a whole number of pages.                                                *)
(***************************************************************************)
EXTENDS Integers, Sequences, FiniteSets, SequencesExt

CONSTANTS
  Page,        \* page ids
  PageSize,    \* size of a page
  MaxSize      \* the shard's budget

ASSUME PageCacheAssumption ==
  /\ Page \subseteq Nat \ {0} /\ IsFiniteSet(Page)
  /\ {PageSize, MaxSize} \subseteq Nat \ {0}

(* Bound: no loop over the ring may take as many rounds as this.           *)
Fuel == Cardinality(Page) * (3 * Cardinality(Page) + 1)

(* ent holds the entries of the ring; a "test" entry is a ghost: the key   *)
(* without data.  stuck marks a loop that did not end.                     *)
NewShard ==
  [ring |-> <<>>, ent |-> <<>>, hot |-> 0, test |-> 0,
   sizeHot |-> 0, sizeCold |-> 0, sizeTest |-> 0, coldTarget |-> MaxSize, stuck |-> FALSE]

Kind(s, p) == s.ent[p].kind
Cached(s, p) == p \in DOMAIN s.ent /\ Kind(s, p) # "test"
Count(s, k) == Cardinality({p \in DOMAIN s.ent : Kind(s, p) = k})

Place(s, p) == CHOOSE j \in DOMAIN s.ring : s.ring[j] = p

NextInRing(s, p) ==
  s.ring[IF Place(s, p) = Len(s.ring) THEN 1 ELSE Place(s, p) + 1]

(* linkBefore: before ref, or alone in an empty ring with all hands on it. *)
Link(s, p, ref) ==
  IF s.ring = <<>> THEN [s EXCEPT !.ring = <<p>>, !.hot = p, !.test = p]
  ELSE IF ref = Head(s.ring) THEN [s EXCEPT !.ring = Append(@, p)]
  ELSE [s EXCEPT !.ring = InsertAt(@, Place(s, ref), p)]

(* unlinkAdvance: hands that point at p move on. *)
Unlink(s, p) ==
  LET next == IF Len(s.ring) = 1 THEN 0 ELSE NextInRing(s, p)
      Advanced(h) == IF h = p \/ next = 0 THEN next ELSE h
  IN  [s EXCEPT !.ring = RemoveAt(@, Place(s, p)),
                !.hot = Advanced(@), !.test = Advanced(@)]

Forget(s, p) == [s EXCEPT !.ent = [q \in DOMAIN @ \ {p} |-> @[q]]]

(* The counters of the three kinds, moved by n. *)
Resize(s, k, n) ==
  CASE k = "hot" -> [s EXCEPT !.sizeHot = @ + n]
    [] k = "cold" -> [s EXCEPT !.sizeCold = @ + n]
    [] k = "test" -> [s EXCEPT !.sizeTest = @ + n]

Turn(s, p, k) ==
  Resize(Resize([s EXCEPT !.ent[p].kind = k], Kind(s, p), -PageSize), k, PageSize)

(* runHandTest: a ghost is forgotten and the cold target shrinks. *)
RunHandTest(s) ==
  IF s.test = 0 THEN s
  ELSE IF Kind(s, s.test) = "test"
  THEN Forget(Unlink([Resize(s, "test", -PageSize) EXCEPT
                        !.coldTarget = IF @ < PageSize THEN 0 ELSE @ - PageSize], s.test), s.test)
  ELSE IF Len(s.ring) = 1 THEN s
  ELSE [s EXCEPT !.test = NextInRing(s, @)]

(***************************************************************************)
(* The loops over the ring: rounds of a hand until the loop's condition    *)
(* fails.  One that goes on after Fuel rounds is stuck.                    *)
(***************************************************************************)
TooManyGhosts(s) == s.sizeTest > MaxSize /\ s.test # 0

PruneGhosts(s) ==
  LET Round(t) == IF TooManyGhosts(t) THEN RunHandTest(t) ELSE t
      after[n \in 0..Fuel] == IF n = 0 THEN s ELSE Round(after[n - 1])
      last == CHOOSE n \in 0..Fuel : n = Fuel \/ ~TooManyGhosts(after[n])
      Halted(t) == IF TooManyGhosts(t) THEN [t EXCEPT !.stuck = TRUE] ELSE t
  IN  Halted(after[last])

(* runHandHot: a hot entry loses its reference bit or is cooled. *)
RunHandHot(s) ==
  LET u == IF s.hot = s.test THEN RunHandTest(s) ELSE s
      e == u.ent[u.hot]
      v == IF e.kind # "hot" THEN u
           ELSE IF e.ref THEN [u EXCEPT !.ent[u.hot].ref = FALSE]
           ELSE Turn(u, u.hot, "cold")
  IN  IF u.hot = 0 THEN u
      ELSE IF Len(v.ring) = 1 THEN v
      ELSE [v EXCEPT !.hot = NextInRing(v, @)]

TooHot(s) == MaxSize - s.coldTarget < s.sizeHot /\ s.hot # 0

CoolHot(s) ==
  LET Round(t) == IF TooHot(t) THEN RunHandHot(t) ELSE t
      after[n \in 0..Fuel] == IF n = 0 THEN s ELSE Round(after[n - 1])
      last == CHOOSE n \in 0..Fuel : n = Fuel \/ ~TooHot(after[n])
      Halted(t) == IF TooHot(t) THEN [t EXCEPT !.stuck = TRUE] ELSE t
  IN  Halted(after[last])

(* runHandCold: a cold entry is promoted or turned into a ghost. *)
RunHandCold(s) ==
  LET p == Head(s.ring)
      sole == Len(s.ring) = 1
      u == IF Kind(s, p) # "cold" THEN s
           ELSE IF s.ent[p].ref THEN Turn([s EXCEPT !.ent[p].ref = FALSE], p, "hot")
           ELSE PruneGhosts(Turn([s EXCEPT !.ent[p].img = -1], p, "test"))
  IN  IF u.ring = <<>> \/ sole THEN u
      ELSE CoolHot([u EXCEPT !.ring = Append(Tail(@), Head(@))])

TooLarge(s) == s.sizeHot + s.sizeCold > MaxSize /\ s.ring # <<>>

Evict(s) ==
  LET Round(t) == IF TooLarge(t) THEN RunHandCold(t) ELSE t
      after[n \in 0..Fuel] == IF n = 0 THEN s ELSE Round(after[n - 1])
      last == CHOOSE n \in 0..Fuel : n = Fuel \/ ~TooLarge(after[n])
      Halted(t) == IF TooLarge(t) THEN [t EXCEPT !.stuck = TRUE] ELSE t
  IN  Halted(after[last])

(* set: a new page is cold, a ghost becomes hot and widens the cold target, *)
(* a cached page is replaced.                                              *)
CacheSet(s, p, img) ==
  LET Fresh(kind, ref) == [kind |-> kind, ref |-> ref, img |-> img]
      Entry(t, e) == [t EXCEPT !.ent = [q \in DOMAIN @ \cup {p} |-> IF q = p THEN e ELSE @[q]]]
      Wider(t) == LET c == t.coldTarget + PageSize IN IF c > MaxSize THEN MaxSize ELSE c
  IN  Evict(CASE p \notin DOMAIN s.ent ->
                   Resize(Link(Entry(s, Fresh("cold", FALSE)), p, IF s.ring = <<>> THEN 0 ELSE Head(s.ring)),
                          "cold", PageSize)
              [] p \in DOMAIN s.ent /\ Kind(s, p) = "test" ->
                   LET t == Unlink(Resize([s EXCEPT !.coldTarget = Wider(s)], "test", -PageSize), p)
                   IN  Resize(Link(Entry(t, Fresh("hot", TRUE)), p, t.hot), "hot", PageSize)
              [] p \in DOMAIN s.ent /\ Kind(s, p) # "test" ->
                   Entry(s, Fresh(Kind(s, p), TRUE)))

(* get, on a hit: the reference bit. *)
CacheGet(s, p) == [s EXCEPT !.ent[p].ref = TRUE]

(* The size of the entry is not given back. *)
Bug_SizeKept(s, p) ==
  IF p \notin DOMAIN s.ent THEN s ELSE Forget(Unlink(s, p), p)

(* invalidate *)
CacheDel(s, p) ==
  IF p \notin DOMAIN s.ent THEN s
  ELSE Forget(Unlink(Resize(s, Kind(s, p), -PageSize), p), p)

-----------------------------------------------------------------------------
(***************************************************************************)
(* The shard is sound: every loop over the ring ended, hot and cold pages  *)
(* are within the budget and ghosts are no more than it, the counters are  *)
(* those of the entries, the ring holds each entry once, and a hand points *)
(* into the ring whenever it is not empty.                                 *)
(***************************************************************************)
ShardSound(s) ==
  /\ ~s.stuck
  /\ s.sizeHot + s.sizeCold <= MaxSize /\ s.sizeTest <= MaxSize
  /\ s.sizeHot = PageSize * Count(s, "hot")
  /\ s.sizeCold = PageSize * Count(s, "cold")
  /\ s.sizeTest = PageSize * Count(s, "test")
  /\ s.coldTarget \in 0..MaxSize
  /\ ToSet(s.ring) = DOMAIN s.ent /\ Len(s.ring) = Cardinality(DOMAIN s.ent)
  /\ {s.hot, s.test} \subseteq (IF s.ring = <<>> THEN {0} ELSE DOMAIN s.ent)
=============================================================================
