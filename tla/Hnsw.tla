-------------------------------- MODULE Hnsw --------------------------------
(***************************************************************************)
(* The HNSW graph over the embeddings (internal/hnsw), as operators on the *)
(* rows it keeps: hnsw/meta, hnsw/entry, one hnsw/node row per coordinate, *)
(* and the authoritative embed/ rows it only reads.                        *)
(*                                                                         *)
(*   meta   None, or [maxLayer, count]                                     *)
(*   entry  None, or a coordinate                                          *)
(*   nodes  a function: coordinate -> [top, nbrs], top the MaxLayer byte,  *)
(*          nbrs one list of coordinates per layer (layer i at i + 1)      *)
(*   vecs   a function: coordinate -> vector                               *)
(*   ok     FALSE once an operation has returned ErrCorruptGraph           *)
(*                                                                         *)
(* A coordinate is its key's rank, so that scans ascend. A vector is a     *)
(* pair of its dimension and a position, and Similarity is the inverted    *)
(* distance of positions (DistanceL2). sort.Slice is an insertion sort at  *)
(* the sizes of a neighbour list the runs reach, and so keeps equals in    *)
(* order.                                                                  *)
(***************************************************************************)
EXTENDS Integers, SequencesExt

CONSTANTS
  None,
  M,         \* Meta.M: links per node and layer, twice that at layer 0
  EfC,       \* Meta.EfC: the breadth of the search an insertion makes
  LayerOf    \* layerForCoord: a coordinate's layer, fixed by its hash

ASSUME HnswAssumption == M >= 2 /\ EfC >= 1

NoGraph == [meta |-> None, entry |-> None, nodes |-> <<>>]

Similarity(v, w) == IF v[2] > w[2] THEN w[2] - v[2] ELSE v[2] - w[2]

HasNode(s, c) == c \in DOMAIN s.nodes
HasVec(s, c) == c \in DOMAIN s.vecs
PutNode(s, c, node) ==
  [s EXCEPT !.nodes = [d \in DOMAIN @ \cup {c} |-> IF d = c THEN node ELSE @[d]]]
Fail(s) == [s EXCEPT !.ok = FALSE]
Truncate(list, n) == IF Len(list) > n THEN SubSeq(list, 1, n) ELSE list
LayerLimit(lc) == IF lc = 0 THEN 2 * M ELSE M

(* EncodeNode writes the MaxLayer byte and then every list there is,       *)
(* DecodeNode reads one list per layer and refuses what is left over.      *)
Decodes(node) == Len(node.nbrs) = node.top + 1

(* insertSorted: behind every element that scores as well.                 *)
InsertSorted(s, v, list, c) ==
  LET score(d) == Similarity(v, s.vecs[d])
      above == Cardinality({i \in DOMAIN list : score(list[i]) >= score(c)})
  IN InsertAt(list, above + 1, c)

(* neighborsAtLayer: no node or no such layer is a corrupt graph.          *)
HasLayer(s, c, lc) == HasNode(s, c) /\ lc < Len(s.nodes[c].nbrs)
Links(s, c, lc) == s.nodes[c].nbrs[lc + 1]

(* expandSearchNeighbors, for one neighbour.                               *)
Visit(s, v, ef, b, n) ==
  IF ~b.ok \/ n \in b.visited THEN b
  ELSE IF ~HasVec(s, n) THEN [b EXCEPT !.ok = FALSE]
  ELSE LET Score(c) == Similarity(v, s.vecs[c])
           seen == [b EXCEPT !.visited = @ \cup {n}]
       IN IF Len(b.found) < ef \/ Score(n) > Score(Last(b.found))
          THEN [seen EXCEPT !.found = Truncate(InsertSorted(s, v, @, n), ef),
                            !.open = InsertSorted(s, v, @, n)]
          ELSE seen

(* searchLayer's loop over its candidates.                                 *)
RECURSIVE Expand(_, _, _, _, _)
Expand(s, v, ef, lc, b) ==
  IF ~b.ok \/ b.open = <<>> THEN b
  ELSE IF /\ Similarity(v, s.vecs[Head(b.open)]) < Similarity(v, s.vecs[Last(b.found)])
          /\ Len(b.found) >= ef
  THEN b
  ELSE IF ~HasLayer(s, Head(b.open), lc) THEN [b EXCEPT !.ok = FALSE]
  ELSE Expand(s, v, ef, lc,
              FoldLeft(LAMBDA a, n : Visit(s, v, ef, a, n),
                       [b EXCEPT !.open = Tail(@)], Links(s, Head(b.open), lc)))

(* The ef best nodes of a layer that can be reached from ep, best first.   *)
SearchLayer(s, v, ep, ef, lc) ==
  IF ~HasVec(s, ep) THEN [ok |-> FALSE, open |-> <<>>, found |-> <<>>, visited |-> {}]
  ELSE Expand(s, v, ef, lc,
              [ok |-> TRUE, open |-> <<ep>>, found |-> <<ep>>, visited |-> {ep}])

(* One turn of greedyDescend's inner loop: through the links of the node   *)
(* it started the turn with, moving on to every better one. None when the  *)
(* graph is corrupt.                                                       *)
Climb(s, v, ep, lc) ==
  IF \/ ~HasVec(s, ep) \/ ~HasLayer(s, ep, lc)
     \/ \E i \in DOMAIN Links(s, ep, lc) : ~HasVec(s, Links(s, ep, lc)[i])
  THEN None
  ELSE FoldLeft(LAMBDA best, n :
                  IF Similarity(v, s.vecs[n]) > Similarity(v, s.vecs[best]) THEN n ELSE best,
                ep, Links(s, ep, lc))

RECURSIVE GreedyDescend(_, _, _, _, _)
GreedyDescend(s, v, ep, lc, stop) ==
  IF lc < stop THEN ep
  ELSE LET next == Climb(s, v, ep, lc)
       IN IF next = None THEN None
          ELSE GreedyDescend(s, v, next, IF next = ep THEN lc - 1 ELSE lc, stop)

-----------------------------------------------------------------------------
(* Removal.                                                                *)

(* repairWithCoNeighbors: the other links of the removed node, as far as   *)
(* there is room.                                                          *)
RepairWithCoNeighbors(links, self, removed, coNeighbors, limit) ==
  FoldLeft(LAMBDA list, n :
             IF n \notin {self, removed} /\ ~Contains(list, n) /\ Len(list) < limit
             THEN Append(list, n) ELSE list,
           links, coNeighbors)

(* repairNeighborLinks: the nodes the removed one lists forget it. A node  *)
(* that lists it without being listed back is not looked for.              *)
RepairLayer(s, c, lc, nbrs) ==
  FoldLeft(LAMBDA t, n :
             IF ~HasLayer(t, n, lc) THEN t
             ELSE [t EXCEPT !.nodes[n].nbrs[lc + 1] =
                     RepairWithCoNeighbors(Remove(@, c), n, c, nbrs, LayerLimit(lc))],
           s, nbrs)
RepairNeighborLinks(s, c) ==
  LET node == s.nodes[c]
  IN FoldLeft(LAMBDA t, lc : RepairLayer(t, c, lc, node.nbrs[lc + 1]), s,
              [i \in DOMAIN node.nbrs |-> i - 1])

(* findBestNeighborForEntry, promoteNewEntryPoint: the first link at the   *)
(* highest layer that has one; without any the entry row stays.            *)
PromoteNewEntryPoint(s, node) ==
  LET linked == {i \in DOMAIN node.nbrs : node.nbrs[i] # <<>>}
  IN IF linked = {} THEN [s EXCEPT !.meta.maxLayer = 0]
     ELSE LET next == Head(node.nbrs[CHOOSE i \in linked : \A j \in linked : j <= i])
          IN [s EXCEPT !.entry = next,
                       !.meta.maxLayer = IF HasNode(s, next) THEN s.nodes[next].top ELSE 0]

RemoveNode(s, c) ==
  LET node == s.nodes[c]
      repaired == RepairNeighborLinks(s, c)
      without == [repaired EXCEPT !.nodes = [d \in DOMAIN @ \ {c} |-> @[d]],
                                  !.meta.count = @ - 1]
  IN IF without.meta.count = 0
     THEN [without EXCEPT !.meta.maxLayer = 0, !.entry = None]
     ELSE IF s.entry = c THEN PromoteNewEntryPoint(without, node) ELSE without

(* Graph.Delete.                                                           *)
Delete(s, c) ==
  IF s.meta = None \/ ~HasNode(s, c) THEN s
  ELSE IF s.meta.count = 0 THEN s ELSE RemoveNode(s, c)

-----------------------------------------------------------------------------
(* Insertion.                                                              *)

InitSingleNodeGraph(s, c) ==
  [PutNode(s, c, [top |-> 0, nbrs |-> << <<>> >>])
     EXCEPT !.entry = c, !.meta = [maxLayer |-> 0, count |-> 1]]

(* pruneNeighbors: the best by similarity to the owner, if the owner's     *)
(* vector is there; links without a vector are dropped.                    *)
PruneNeighbors(s, owner, list, limit) ==
  LET scored == SelectSeq(list, LAMBDA c : HasVec(s, c))
      sorted == FoldLeft(LAMBDA acc, c : InsertSorted(s, s.vecs[owner], acc, c), <<>>, scored)
  IN IF HasVec(s, owner) THEN Truncate(sorted, limit) ELSE Truncate(list, limit)

(* connectBidirectional, for one selected neighbour. The neighbour may     *)
(* drop the new node, or another one that still lists it.                  *)
Padded(nbrs, lc) == [i \in 1..(IF Len(nbrs) > lc THEN Len(nbrs) ELSE lc + 1) |->
                       IF i <= Len(nbrs) THEN nbrs[i] ELSE <<>>]
Connect(s, c, n, lc) ==
  IF ~HasNode(s, n) THEN s
  ELSE LET nbrs == Padded(s.nodes[n].nbrs, lc)
           list == Append(nbrs[lc + 1], c)
           kept == IF Len(list) > LayerLimit(lc)
                   THEN PruneNeighbors(s, n, list, LayerLimit(lc)) ELSE list
       IN [s EXCEPT !.nodes[n].nbrs = [nbrs EXCEPT ![lc + 1] = kept]]

(* insertConnectLayers, for one layer: search, select, connect, and go on  *)
(* from the best.                                                          *)
ConnectLayer(a, c, lc) ==
  LET b == SearchLayer(a.s, a.s.vecs[c], a.ep, EfC, lc)
      selected == Truncate(b.found, LayerLimit(lc))
  IN IF ~a.s.ok \/ ~b.ok THEN [a EXCEPT !.s = Fail(@)]
     ELSE [s |-> FoldLeft(LAMBDA t, n : Connect(t, c, n, lc), a.s, selected),
           nbrs |-> [a.nbrs EXCEPT ![lc + 1] = selected],
           ep |-> Head(b.found)]

InsertConnectLayers(s, c, ep, layer) ==
  LET top == IF layer < s.meta.maxLayer THEN layer ELSE s.meta.maxLayer
  IN FoldLeft(LAMBDA a, lc : ConnectLayer(a, c, lc),
              [s |-> s, nbrs |-> [i \in 1..(layer + 1) |-> <<>>], ep |-> ep],
              [i \in 1..(top + 1) |-> top + 1 - i])

(* The rest of Graph.Insert, once the node itself is not in the graph.     *)
InsertNew(s, c) ==
  LET layer == LayerOf[c]
      ep == IF HasVec(s, s.entry)
            THEN GreedyDescend(s, s.vecs[c], s.entry, s.meta.maxLayer, layer + 1) ELSE None
      a == InsertConnectLayers(s, c, ep, layer)
      stored == PutNode(a.s, c, [top |-> layer, nbrs |-> a.nbrs])
  IN IF ep = None THEN Fail(s)
     ELSE IF ~a.s.ok THEN a.s
     ELSE IF layer > s.meta.maxLayer
     THEN [stored EXCEPT !.meta = [maxLayer |-> layer, count |-> @.count + 1], !.entry = c]
     ELSE [stored EXCEPT !.meta.count = @ + 1]

(* Graph.Insert, with handleExistingNode: an update removes the node       *)
(* first, and starts the graph again when it was the only one.             *)
Insert(s, c) ==
  IF s.meta = None \/ s.entry = None THEN InitSingleNodeGraph(s, c)
  ELSE LET cleared == IF HasNode(s, c) THEN RemoveNode(s, c) ELSE s
       IN IF cleared.entry = None THEN InitSingleNodeGraph(cleared, c)
          ELSE InsertNew(cleared, c)

-----------------------------------------------------------------------------
(* Graph.Search: whether it is answered at all, and the k best it finds.   *)
Search(s, v, k, efSearch) ==
  LET ef == IF efSearch < k THEN k ELSE efSearch
      ep == IF s.entry # None /\ HasVec(s, s.entry)
            THEN GreedyDescend(s, v, s.entry, s.meta.maxLayer, 1) ELSE None
      b == SearchLayer(s, v, ep, ef, 0)
  IN IF s.meta.count = 0 THEN [ok |-> TRUE, found |-> <<>>]
     ELSE IF ep = None THEN [ok |-> FALSE, found |-> <<>>]
     ELSE [ok |-> b.ok, found |-> Truncate(b.found, k)]

=============================================================================
