-------------------------------- MODULE BTree --------------------------------
(***************************************************************************)
(* The B+ tree of the engine, its overflow chains and the page allocator   *)
(* (btree*.go, overflow.go, freelist.go, reclaim.go).                      *)
(*                                                                         *)
(* A page is a record, its number the index in the primary file.  Sizes    *)
(* are counted in units of the smallest entry; keys have one size.  What   *)
(* compressValue makes of a value is "small" or "large", stored in the     *)
(* leaf, or "huge", stored in a chain of overflow pages.  Each operation   *)
(* is one call under the engine's write transaction; that a transaction    *)
(* commits as a whole is shown in EngineWal.                               *)
(***************************************************************************)
EXTENDS Integers, Sequences, FiniteSets, SequencesExt

CONSTANTS
  Key,            \* numbers, in byte order
  None,           \* no value under a key
  LeafCap,        \* entries of the smallest size in a leaf
  NodeCap,        \* separators in an internal page
  OverflowPages,  \* pages of a huge value
  InlineFree,     \* HeaderInlineFreelistCapacity
  FreePageCap,    \* freelistPageCapacity
  ReuseModes,     \* subset of BOOLEAN: format v3 reuses pages, v1 and v2 do not
  Loads,          \* what was put before: sequences of pairs of key and value
  MaxOps          \* bound: calls of Put, Delete and ReclaimTail

ASSUME BTreeAssumption ==
  /\ Key \subseteq Nat \ {0} /\ IsFiniteSet(Key)
  /\ {LeafCap, NodeCap, OverflowPages, FreePageCap} \subseteq Nat \ {0} /\ LeafCap >= 2
  /\ InlineFree \in Nat /\ MaxOps \in Nat
  /\ ReuseModes \subseteq BOOLEAN

VARIABLES
  tree,     \* the pages, the header's root and the allocator
  reuse,    \* pageReuseEnabled: fixed when the database is created
  content,  \* history: what the callers have put
  ops

vars == <<tree, reuse, content, ops>>

Value == {"small", "large", "huge"}

-----------------------------------------------------------------------------
(* Pages.                                                                  *)

Leaf(parent, next, es) == [kind |-> "leaf", parent |-> parent, next |-> next, es |-> es]
Node(parent, ptrs, keys) == [kind |-> "node", parent |-> parent, ptrs |-> ptrs, keys |-> keys]
Overflow(next) == [kind |-> "overflow", next |-> next]
Metadata == [kind |-> "freelist"]
Unwritten == [kind |-> "none"]

(* A leaf entry: key, value and first overflow page, or 0. *)
Entry(k, v, chain) == [key |-> k, val |-> v, chain |-> chain]
EntrySize(e) == IF e.val = "large" THEN 2 ELSE 1
Size(es) == FoldLeft(LAMBDA n, e : n + EntrySize(e), 0, es)

minLeafKeys == (LeafCap + 1) \div 2

Write(t, p, page) == [t EXCEPT !.pages[p] = page]
SetParent(t, p, parent) == [t EXCEPT !.pages[p].parent = parent]

(* allocPageID: the first page of the freelist, or a new one at the end. *)
Alloc(t) ==
  IF reuse /\ t.free # <<>>
  THEN [t |-> [t EXCEPT !.free = Tail(@)], ids |-> <<Head(t.free)>>]
  ELSE [t |-> [t EXCEPT !.pages = Append(@, Unwritten)], ids |-> <<Len(t.pages) + 1>>]

AllocN(t, n) ==
  FoldLeft(LAMBDA a, i : LET b == Alloc(a.t) IN [t |-> b.t, ids |-> a.ids \o b.ids],
           [t |-> t, ids |-> <<>>], [i \in 1..n |-> i])

releasePageID(t, p) == IF reuse THEN [t EXCEPT !.free = Append(@, p)] ELSE t

-----------------------------------------------------------------------------
(* Descent.                                                                *)

(* internalPickChild: the child right of the last separator <= k. *)
PickChild(node, k) == 1 + Cardinality({j \in DOMAIN node.keys : node.keys[j] <= k})

RECURSIVE Path(_, _, _)
(* The internal pages on the way to k, each with the index of the child. *)
Path(t, p, k) ==
  LET page == t.pages[p]
      i == PickChild(page, k)
  IN  IF page.kind = "leaf" THEN <<>>
      ELSE <<[page |-> p, child |-> i]>> \o Path(t, page.ptrs[i], k)

LeafOf(t, k) ==
  LET path == Path(t, t.root, k)
  IN  IF path = <<>> THEN t.root ELSE t.pages[Last(path).page].ptrs[Last(path).child]

Find(es, k) == {i \in DOMAIN es : es[i].key = k}

RECURSIVE ChainFrom(_, _)
(* The pages of a chain; a page that is no longer one of a chain ends it. *)
ChainFrom(t, p) ==
  IF p = 0 \/ p > Len(t.pages) THEN <<>>
  ELSE IF t.pages[p].kind # "overflow" THEN <<>>
  ELSE <<p>> \o ChainFrom(t, t.pages[p].next)

freeOverflowChain(t, p) == FoldLeft(releasePageID, t, ChainFrom(t, p))

writeOverflowChain(t) ==
  LET new == AllocN(t, OverflowPages)
      Link(u, i) ==
        Write(u, new.ids[i], Overflow(IF i = OverflowPages THEN 0 ELSE new.ids[i + 1]))
  IN  [t |-> FoldLeft(Link, new.t, [i \in 1..OverflowPages |-> i]), first |-> new.ids[1]]

-----------------------------------------------------------------------------
(* Put.                                                                    *)

insertSorted(es, e) ==
  LET below == SelectSeq(es, LAMBDA f : f.key < e.key)
      above == SelectSeq(es, LAMBDA f : f.key > e.key)
  IN  below \o <<e>> \o above

(* How many leading entries fit a page. *)
Fitting(es) ==
  LET fits == {n \in 1..Len(es) : Size(SubSeq(es, 1, n)) <= LeafCap}
  IN  CHOOSE n \in fits : \A m \in fits : m <= n

RECURSIVE splitRecursively(_)
splitRecursively(es) ==
  IF es = <<>> THEN <<>>
  ELSE LET n == Fitting(es)
       IN  <<SubSeq(es, 1, n)>> \o splitRecursively(SubSeq(es, n + 1, Len(es)))

(* insertIntoLeafCascade: the leftmost part stays in p, the others are     *)
(* written from the right, each linked to the one after it.                *)
InsertLeaf(t, p, e) ==
  LET page == t.pages[p]
      parts == splitRecursively(insertSorted(page.es, e))
      n == Len(parts)
      new == AllocN(t, n - 1)
      id(i) == IF i = 1 THEN p ELSE new.ids[n + 1 - i]
      Put1(u, i) ==
        Write(u, id(i), Leaf(page.parent, IF i = n THEN page.next ELSE id(i + 1), parts[i]))
  IN  [t |-> FoldLeft(Put1, new.t, [i \in 1..n |-> i]),
       refs |-> [i \in 1..(n - 1) |-> [sep |-> parts[i + 1][1].key, page |-> id(i + 1)]]]

(* writeInternal: the page, and the parent pointer of every child. *)
writeInternal(t, p, parent, ptrs, keys) ==
  FoldLeft(LAMBDA u, q : SetParent(u, q, p), Write(t, p, Node(parent, ptrs, keys)), ptrs)

(* spillInternal: full groups from the left; the separator between two     *)
(* groups is promoted.                                                     *)
spillInternal(t, p, parent, ptrs, keys) ==
  LET w == NodeCap + 1
      n == (Len(ptrs) + NodeCap) \div w
      end(i) == IF i * w < Len(ptrs) THEN i * w ELSE Len(ptrs)
      new == AllocN(t, n - 1)
      id(i) == IF i = 1 THEN p ELSE new.ids[i - 1]
      Group(u, i) == writeInternal(u, id(i), parent, SubSeq(ptrs, (i - 1) * w + 1, end(i)),
                                   SubSeq(keys, (i - 1) * w + 1, end(i) - 1))
  IN  [t |-> FoldLeft(Group, new.t, [i \in 1..n |-> i]),
       refs |-> [i \in 1..(n - 1) |-> [sep |-> keys[i * w], page |-> id(i + 1)]]]

Seps(refs) == [i \in DOMAIN refs |-> refs[i].sep]
Pages(refs) == [i \in DOMAIN refs |-> refs[i].page]

RECURSIVE insertInto(_, _, _)
(* insertAt and insertIntoInternal. *)
insertInto(t, p, e) ==
  LET page == t.pages[p]
      i == PickChild(page, e.key)
      r == insertInto(t, page.ptrs[i], e)
  IN  IF page.kind = "leaf" THEN InsertLeaf(t, p, e)
      ELSE IF r.refs = <<>> THEN r
      ELSE spillInternal(r.t, p, page.parent,
             SubSeq(page.ptrs, 1, i) \o Pages(r.refs) \o SubSeq(page.ptrs, i + 1, Len(page.ptrs)),
             SubSeq(page.keys, 1, i - 1) \o Seps(r.refs) \o SubSeq(page.keys, i, Len(page.keys)))

RECURSIVE growRoot(_, _, _)
growRoot(t, old, refs) ==
  IF refs = <<>> THEN [t EXCEPT !.root = old]
  ELSE LET new == Alloc(t)
           r == spillInternal(new.t, new.ids[1], 0, <<old>> \o Pages(refs), Seps(refs))
       IN  growRoot(r.t, new.ids[1], r.refs)

(* Put: the new chain is written first, the old one released last. *)
PutInto(t, k, v) ==
  LET new == IF v = "huge" THEN writeOverflowChain(t) ELSE [t |-> t, first |-> 0]
      e == Entry(k, v, new.first)
      root == Alloc(new.t)
      es == t.pages[LeafOf(t, k)].es
      old == {es[i].chain : i \in Find(es, k)}
      r == insertInto(new.t, t.root, e)
      grown == growRoot(r.t, t.root, r.refs)
  IN  IF t.root = 0 THEN [Write(root.t, root.ids[1], Leaf(0, 0, <<e>>)) EXCEPT !.root = root.ids[1]]
      ELSE IF old \subseteq {0} THEN grown
      ELSE freeOverflowChain(grown, CHOOSE c \in old : TRUE)

-----------------------------------------------------------------------------
(* Delete.                                                                 *)

RECURSIVE Subtree(_, _)
Subtree(t, p) ==
  IF p = 0 THEN {}
  ELSE IF t.pages[p].kind # "node" THEN {p}
  ELSE {p} \cup UNION {Subtree(t, q) : q \in ToSet(t.pages[p].ptrs)}

(* findParentOfPage, searching from the root. *)
ParentOf(t, p) ==
  CHOOSE q \in Subtree(t, t.root) : t.pages[q].kind = "node" /\ p \in ToSet(t.pages[q].ptrs)

IndexOf(node, p) == CHOOSE i \in DOMAIN node.ptrs : node.ptrs[i] = p

Bug_Splice(t, p, ptrs, keys) ==
  LET q == t.pages[p].parent
      at == CHOOSE i \in DOMAIN t.pages[q].ptrs : t.pages[q].ptrs[i] = p
  IN  IF Len(ptrs) = 1
      THEN releasePageID(SetParent([t EXCEPT !.pages[q].ptrs[at] = ptrs[1]], ptrs[1], q), p)
      ELSE Write(t, p, Node(q, ptrs, keys))

(* An internal page that has lost a child stays, even with a single child: *)
(* all leaves are at one depth.                                            *)
KeepNode(t, p, ptrs, keys) == Write(t, p, Node(t.pages[p].parent, ptrs, keys))

RECURSIVE removeInternalChild(_, _, _)
removeInternalChild(t, p, i) ==
  LET page == t.pages[p]
      ptrs == RemoveAt(page.ptrs, i)
      keys == RemoveAt(page.keys, IF i = 1 THEN 1 ELSE i - 1)
      above == ParentOf(t, p)
  IN  CASE p = t.root /\ ptrs = <<>> -> [releasePageID(t, p) EXCEPT !.root = 0]
        [] p = t.root /\ Len(ptrs) = 1 ->
             [releasePageID(SetParent(t, ptrs[1], 0), p) EXCEPT !.root = ptrs[1]]
        [] p # t.root /\ ptrs = <<>> ->
             releasePageID(removeInternalChild(t, above, IndexOf(t.pages[above], p)), p)
        [] OTHER -> KeepNode(t, p, ptrs, keys)

(* updateSeparator *)
SetSeparator(t, p, i, k) == [t EXCEPT !.pages[p].keys[i] = k]

(* cascadeNewMinToAncestors: the nearest ancestor with a key for the leaf. *)
NewMin(t, path, k) ==
  LET right == {l \in DOMAIN path : path[l].child > 1}
      l == CHOOSE l \in right : \A m \in right : m <= l
  IN  IF right = {} THEN t ELSE SetSeparator(t, path[l].page, path[l].child - 1, k)

Bug_NextKept(left, right) == left.next

(* The left leaf takes over the link of the right one. *)
MergedNext(left, right) == right.next

(* mergeRightLeaf: fails when the parent pointer of the right leaf lies. *)
MergeRight(t, l, r) ==
  LET left == t.pages[l]
      right == t.pages[r]
      merged == Write(t, l, Leaf(left.parent, MergedNext(left, right), left.es \o right.es))
      parent == t.pages[right.parent]
  IN  IF right.parent = 0 \/ parent.kind # "node" \/ r \notin ToSet(parent.ptrs)
      THEN [t EXCEPT !.failed = TRUE]
      ELSE releasePageID(removeInternalChild(merged, right.parent, IndexOf(parent, r)), r)

(* borrowFromRight and borrowFromLeft; at is the child index of l. *)
Redistribute(t, p, at, l, r, ls, rs) ==
  LET left == Write(t, l, Leaf(t.pages[l].parent, r, ls))
      both == Write(left, r, Leaf(t.pages[r].parent, t.pages[r].next, rs))
  IN  SetSeparator(both, p, at, rs[1].key)

(* rebalanceLeaf: the right neighbour under the same parent, then the left *)
(* one, each first for a merge and then for a loan.                        *)
Rebalance(t, p, i, leaf) ==
  LET ptrs == t.pages[p].ptrs
      es == t.pages[leaf].es
      hasRight == i < Len(ptrs)
      r == ptrs[i + 1]
      rs == t.pages[r].es
      hasLeft == i > 1 /\ t.pages[ptrs[i - 1]].next = leaf
      l == ptrs[i - 1]
      ls == t.pages[l].es
  IN  CASE hasRight /\ Size(es \o rs) <= LeafCap -> MergeRight(t, leaf, r)
        [] hasRight /\ Size(es \o rs) > LeafCap /\ Len(rs) > minLeafKeys ->
             Redistribute(t, p, i, leaf, r, Append(es, rs[1]), Tail(rs))
        [] OTHER ->
             CASE hasLeft /\ Size(ls \o es) <= LeafCap -> MergeRight(t, l, leaf)
               [] hasLeft /\ Size(ls \o es) > LeafCap /\ Len(ls) > minLeafKeys ->
                    Redistribute(t, p, i - 1, l, leaf, Front(ls), <<Last(ls)>> \o es)
               [] OTHER -> t

DeleteFrom(t, k) ==
  LET path == Path(t, t.root, k)
      leaf == LeafOf(t, k)
      page == t.pages[leaf]
      i == CHOOSE i \in Find(page.es, k) : TRUE
      es == RemoveAt(page.es, i)
      up == Last(path)
      cut == Write(freeOverflowChain(t, page.es[i].chain), leaf, Leaf(page.parent, page.next, es))
      min == IF i = 1 THEN NewMin(cut, path, es[1].key) ELSE cut
  IN  CASE es = <<>> /\ leaf = t.root -> releasePageID([cut EXCEPT !.root = 0], leaf)
        [] es = <<>> /\ leaf # t.root ->
             releasePageID(removeInternalChild(cut, up.page, up.child), leaf)
        [] es # <<>> /\ (leaf = t.root \/ Len(es) >= minLeafKeys) -> min
        [] OTHER -> Rebalance(min, up.page, up.child, leaf)

-----------------------------------------------------------------------------
(* The allocator between transactions.                                     *)

SortedSeq(S) ==
  [i \in 1..Cardinality(S) |-> CHOOSE x \in S : Cardinality({y \in S : y < x}) = i - 1]

(* prepareFreelistCommit: the smallest pages of the pool hold the list of  *)
(* the others when the header cannot.                                      *)
prepareFreelistCommit(t) ==
  LET pool == SortedSeq(ToSet(t.free) \cup ToSet(t.meta))
      enough == {m \in 0..Len(pool) : Len(pool) - m <= InlineFree + m * FreePageCap}
      m == CHOOSE m \in enough : \A n \in enough : m <= n
      meta == SubSeq(pool, 1, m)
  IN  [FoldLeft(LAMBDA u, p : Write(u, p, Metadata), t, meta)
         EXCEPT !.meta = meta, !.free = SubSeq(pool, m + 1, Len(pool))]

Bug_KeepsTail(t, last) == t.free

FreeBelow(t, last) == SelectSeq(t.free, LAMBDA p : p <= last)

(* ReclaimTail: the file ends after the last page the tree still uses. *)
CutTail(t) ==
  LET owned == ToSet(t.free) \cup ToSet(t.meta)
      last == CHOOSE n \in 0..Len(t.pages) :
                /\ \A p \in (n + 1)..Len(t.pages) : p \in owned
                /\ n > 0 => n \notin owned
  IN  prepareFreelistCommit(
        [t EXCEPT !.pages = SubSeq(@, 1, last),
                  !.free = FreeBelow(t, last),
                  !.meta = SelectSeq(@, LAMBDA p : p <= last)])

-----------------------------------------------------------------------------
EmptyTree == [pages |-> <<>>, root |-> 0, free |-> <<>>, meta |-> <<>>, failed |-> FALSE]

(* A database into which one of Loads has been put. *)
Init ==
  /\ reuse \in ReuseModes
  /\ \E load \in Loads :
       /\ tree = FoldLeft(LAMBDA t, p : PutInto(t, p[1], p[2]), EmptyTree, load)
       /\ content = FoldLeft(LAMBDA c, p : [c EXCEPT ![p[1]] = p[2]], [k \in Key |-> None], load)
  /\ ops = 0

Op ==
  /\ ~tree.failed /\ ops < MaxOps
  /\ ops' = ops + 1
  /\ UNCHANGED reuse

Put(k, v) ==
  /\ Op
  /\ tree' = PutInto(tree, k, v)
  /\ content' = [content EXCEPT ![k] = v]

(* A missing key is ignored. *)
Delete(k) ==
  /\ Op
  /\ content[k] # None
  /\ tree' = DeleteFrom(tree, k)
  /\ content' = [content EXCEPT ![k] = None]

(* The end of a write transaction. *)
Commit ==
  /\ ~tree.failed /\ tree # prepareFreelistCommit(tree)
  /\ tree' = prepareFreelistCommit(tree)
  /\ UNCHANGED <<reuse, content, ops>>

(* Outside a transaction, for format v3. *)
ReclaimTail ==
  /\ Op
  /\ reuse /\ tree = prepareFreelistCommit(tree)
  /\ tree' = CutTail(tree) /\ tree' # tree
  /\ UNCHANGED content

Next ==
  \/ \E k \in Key, v \in Value : Put(k, v)
  \/ \E k \in Key : Delete(k)
  \/ Commit \/ ReclaimTail

Spec == Init /\ [][Next]_vars

-----------------------------------------------------------------------------
(* Readers.                                                                *)

(* GetUsingRoot, with the overflow chain. *)
Get(t, k) ==
  LET es == t.pages[LeafOf(t, k)].es
      e == es[CHOOSE i \in Find(es, k) : TRUE]
  IN  IF t.root = 0 THEN None
      ELSE IF Find(es, k) = {} THEN None
      ELSE IF e.val = "huge" /\ Len(ChainFrom(t, e.chain)) # OverflowPages THEN "broken"
      ELSE e.val

Keys(es) == [i \in DOMAIN es |-> es[i].key]

RECURSIVE ScanFrom(_, _, _)
(* The leaves in the order of their next pointers.  0 stands for a page    *)
(* that is not a leaf, or for a scan that does not end.                    *)
ScanFrom(t, p, fuel) ==
  IF p = 0 THEN <<>>
  ELSE IF fuel = 0 \/ p > Len(t.pages) THEN <<0>>
  ELSE IF t.pages[p].kind # "leaf" THEN <<0>>
  ELSE Keys(t.pages[p].es) \o ScanFrom(t, t.pages[p].next, fuel - 1)

(* AscendRange from k on: the first leaf is entered at k. *)
AscendRange(t, k) ==
  LET leaf == t.pages[LeafOf(t, k)]
  IN  IF t.root = 0 THEN <<>>
      ELSE SelectSeq(Keys(leaf.es), LAMBDA j : j >= k) \o ScanFrom(t, leaf.next, Len(t.pages))

RECURSIVE rightmostLeaf(_, _)
rightmostLeaf(t, p) ==
  IF t.pages[p].kind = "leaf" THEN p ELSE rightmostLeaf(t, Last(t.pages[p].ptrs))

RECURSIVE prevLeaf(_, _)
(* The left neighbour, found through the parent pointers. *)
prevLeaf(t, p) ==
  LET q == t.pages[p].parent
      i == IndexOf(t.pages[q], p)
  IN  IF q = 0 \/ p = t.root THEN 0
      ELSE IF t.pages[q].kind # "node" \/ p \notin ToSet(t.pages[q].ptrs) THEN 0
      ELSE IF i = 1 THEN prevLeaf(t, q)
      ELSE rightmostLeaf(t, t.pages[q].ptrs[i - 1])

RECURSIVE DescendFrom(_, _)
DescendFrom(t, p) ==
  IF p = 0 THEN <<>> ELSE Reverse(Keys(t.pages[p].es)) \o DescendFrom(t, prevLeaf(t, p))

DescendRange(t) == IF t.root = 0 THEN <<>> ELSE DescendFrom(t, rightmostLeaf(t, t.root))

-----------------------------------------------------------------------------
Live == {k \in Key : content[k] # None}

(* Smallest and largest key below a page, and the depth of its leaves. *)
RECURSIVE KeysBelow(_, _)
KeysBelow(t, p) ==
  IF t.pages[p].kind = "leaf" THEN ToSet(Keys(t.pages[p].es))
  ELSE UNION {KeysBelow(t, q) : q \in ToSet(t.pages[p].ptrs)}

RECURSIVE Depths(_, _)
Depths(t, p) ==
  IF t.pages[p].kind = "leaf" THEN {0}
  ELSE {d + 1 : d \in UNION {Depths(t, q) : q \in ToSet(t.pages[p].ptrs)}}

(***************************************************************************)
(* The shape that every descent relies on, after any sequence of splits,   *)
(* merges, loans and collapses: all leaves at one depth, no page over its  *)
(* size, every separator between the keys of its two sides, every parent   *)
(* pointer true.                                                           *)
(***************************************************************************)
TreeShape ==
  LET t == tree
  IN  t.root # 0 =>
        /\ t.pages[t.root].parent = 0
        /\ Cardinality(Depths(t, t.root)) = 1
        /\ \A p \in Subtree(t, t.root) :
             LET page == t.pages[p]
             IN  IF page.kind = "leaf" THEN page.es # <<>> /\ Size(page.es) <= LeafCap
                 ELSE /\ page.kind = "node"
                      /\ Len(page.ptrs) = Len(page.keys) + 1 /\ Len(page.keys) <= NodeCap
                      /\ \A i \in DOMAIN page.ptrs :
                           LET q == page.ptrs[i]
                           IN  /\ t.pages[q].parent = p
                               /\ \A k \in KeysBelow(t, q) :
                                    /\ i > 1 => page.keys[i - 1] <= k
                                    /\ i < Len(page.ptrs) => k < page.keys[i]

Chains(t) ==
  {e.chain : e \in UNION {ToSet(t.pages[p].es) : p \in {q \in Subtree(t, t.root) : t.pages[q].kind = "leaf"}}} \ {0}

(***************************************************************************)
(* Every page has one owner: the tree, one overflow chain, the freelist or *)
(* its metadata; with reuse no page is without one, so nothing leaks.      *)
(***************************************************************************)
PagesPartitioned ==
  LET t == tree
      used == Subtree(t, t.root)
      chained == UNION {ToSet(ChainFrom(t, c)) : c \in Chains(t)}
      pool == ToSet(t.free) \cup ToSet(t.meta)
  IN  /\ Cardinality(chained) = OverflowPages * Cardinality({k \in Key : content[k] = "huge"})
      /\ Cardinality(pool) = Len(t.free) + Len(t.meta)
      /\ used \cap chained = {} /\ (used \cup chained) \cap pool = {}
      /\ used \cup chained \cup pool \subseteq 1..Len(t.pages)
      /\ reuse => used \cup chained \cup pool = 1..Len(t.pages)

(***************************************************************************)
(* btree.go: AscendRange "calls fn for every key in [from, to] inclusive   *)
(* (byte order)".                                                          *)
(***************************************************************************)
AscendComplete ==
  \A k \in Key : AscendRange(tree, k) = SortedSeq({j \in Live : j >= k})

(***************************************************************************)
(* What was put is found: Get returns the last value of every key, its     *)
(* overflow chain whole, DescendRange visits exactly these keys, and no    *)
(* call fails on a tree that the calls before it have built.  AscendRange  *)
(* visits them too as long as pages are not reused: a leaf that was        *)
(* emptied then stays in the chain of next pointers for good.              *)
(***************************************************************************)
ContentKept ==
  /\ ~tree.failed
  /\ \A k \in Key : Get(tree, k) = content[k]
  /\ DescendRange(tree) = Reverse(SortedSeq(Live))
  /\ ~reuse => AscendComplete
=============================================================================
