------------------------------ MODULE Spatial ------------------------------
(***************************************************************************)
(* The searches over the lattice and over the edges: symmetric             *)
(* shadowcasting (internal/lattice/fov.go), the Voronoi partition by       *)
(* multi-source Dijkstra (internal/lattice/voronoi.go), and the shortest   *)
(* path and the breadth-first walk of internal/pathfind. Their heaps pop   *)
(* any one of several least items; the partition and the length of a path  *)
(* do not depend on which.                                                 *)
(***************************************************************************)
EXTENDS Lattice, Functions, TLC

-----------------------------------------------------------------------------
(* Field of view. A slope is a fraction <<num, den>>.                      *)

SextantRow(s) == Direction(s)
SextantCol(s) == Direction((s + 2) % 6)

RoundTiesUp(f, n) == (2 * f[1] * n + f[2]) \div (2 * f[2])
RoundTiesDown(f, n) == -((f[2] - 2 * f[1] * n) \div (2 * f[2]))
TileSlope(col, depth) == <<2 * col - 1, 2 * depth>>

IsSymmetric(row, col) ==
  /\ col * row.start[2] >= row.start[1] * row.depth
  /\ col * row.end[2] <= row.end[1] * row.depth

(* scanRow, one column of it: a wall that ends moves the row's start, a    *)
(* wall that begins sends the light before it one row out.                 *)
ScanTile(origin, s, opaque, acc, col) ==
  LET row == acc.row
      c == Plus(origin, Plus(Times(row.depth, SextantRow(s)), Times(col, SextantCol(s))))
      wall == c \in opaque
      lit == IF acc.wall /\ ~wall THEN [row EXCEPT !.start = TileSlope(col, row.depth)] ELSE row
  IN  [row |-> lit,
       wall |-> wall,
       seen |-> acc.seen \cup (IF wall \/ IsSymmetric(row, col) THEN {c} ELSE {}),
       next |-> acc.next \cup
                (IF ~acc.wall /\ wall
                 THEN {[depth |-> row.depth + 1, start |-> lit.start, end |-> TileSlope(col, row.depth)]}
                 ELSE {})]

RECURSIVE ScanRow(_, _, _, _, _)
ScanRow(origin, maxR, s, opaque, row) ==
  IF row.depth > maxR THEN {} ELSE
  LET minCol == Max({RoundTiesUp(row.start, row.depth), 0})
      maxCol == Min({RoundTiesDown(row.end, row.depth), row.depth - 1})
      end == FoldLeft(LAMBDA acc, col : ScanTile(origin, s, opaque, acc, col),
                      [row |-> row, wall |-> FALSE, seen |-> {}, next |-> {}],
                      [i \in 1..maxCol - minCol + 1 |-> minCol + i - 1])
      rows == end.next \cup
              (IF end.wall THEN {}
               ELSE {[depth |-> row.depth + 1, start |-> end.row.start, end |-> end.row.end]})
  IN  end.seen \cup UNION {ScanRow(origin, maxR, s, opaque, r) : r \in rows}

(* FieldOfViewShadowcast, as a set and in its order: nearest first.        *)
FieldOfView(origin, maxR, opaque) ==
  {origin} \cup UNION {ScanRow(origin, maxR, s, opaque, [depth |-> 1, start |-> <<0, 1>>, end |-> <<1, 1>>]) :
                         s \in 0..5}
FieldOfViewSeq(origin, maxR, opaque) ==
  Sorted(FieldOfView(origin, maxR, opaque),
         LAMBDA a, b : \/ Distance(origin, a) < Distance(origin, b)
                       \/ Distance(origin, a) = Distance(origin, b) /\ CoordLess(a, b))

-----------------------------------------------------------------------------
(* Voronoi partition.                                                      *)

(* betterVoronoiAssignment. *)
Better(new, old) ==
  \/ new.cost < old.cost
  \/ new.cost = old.cost /\ new.seed < old.seed
  \/ new.cost = old.cost /\ new.seed = old.seed /\ new.hops < old.hops

(* expand: one neighbour of the item just popped. *)
Offer(weight, cur, acc, nb) ==
  LET new == [cost |-> cur.cost + 1 + weight[nb], seed |-> cur.seed, hops |-> cur.hops + 1]
      known == nb \in DOMAIN acc.assigned
  IN  IF known /\ ~Better(new, acc.assigned[nb]) THEN acc
      ELSE [assigned |-> [c \in DOMAIN acc.assigned \cup {nb} |-> IF c = nb THEN new ELSE acc.assigned[c]],
            order |-> IF known THEN acc.order ELSE Append(acc.order, nb),
            queue |-> acc.queue \cup {[at |-> nb] @@ new}]

(* run: pop the least item; an item whose assignment has improved since is *)
(* stale, and one at the hop bound is not expanded.                        *)
RECURSIVE VoronoiRun(_, _, _)
VoronoiRun(weight, maxR, acc) ==
  IF acc.queue = {} THEN acc ELSE
  LET cur == CHOOSE i \in acc.queue : \A j \in acc.queue :
               i.cost < j.cost \/ (i.cost = j.cost /\ i.seed <= j.seed)
      popped == [acc EXCEPT !.queue = @ \ {cur}]
      now == acc.assigned[cur.at]
      stale == <<cur.cost, cur.seed, cur.hops>> # <<now.cost, now.seed, now.hops>>
  IN  VoronoiRun(weight, maxR,
        IF stale \/ cur.hops >= maxR THEN popped
        ELSE FoldLeft(LAMBDA a, nb : Offer(weight, cur, a, nb), popped, Neighbors(cur.at)))

(* VoronoiChecked: of the seeds at one coordinate the first counts. The    *)
(* weights are a function on at least the coordinates within maxR + 1 of a *)
(* seed.                                                                   *)
Voronoi(seeds, maxR, weight) ==
  LET first == {i \in DOMAIN seeds : \A j \in 1..i - 1 : seeds[j] # seeds[i]}
      at == {seeds[i] : i \in first}
      idx(c) == CHOOSE i \in first : seeds[i] = c
      start == [c \in at |-> [cost |-> 0, seed |-> idx(c), hops |-> 0]]
  IN  IF seeds = <<>> \/ maxR <= 0 THEN [assigned |-> <<>>, order |-> <<>>, queue |-> {}]
      ELSE VoronoiRun(weight, maxR,
             [assigned |-> start,
              order |-> [i \in 1..Cardinality(first) |-> seeds[Sorted(first, LAMBDA j, k : j < k)[i]]],
              queue |-> {[at |-> c] @@ start[c] : c \in at}])

-----------------------------------------------------------------------------
(* Searches over a graph given by an adjacency function: for every node    *)
(* the sequence of its neighbours, and for every edge its cost, which is   *)
(* never negative here (edgeTraversal.load).                               *)

(* expandNode: one neighbour. *)
Relax(cost, cur, acc, nb) ==
  LET g == cur.g + cost[<<cur.at, nb>>]
  IN  IF nb \in DOMAIN acc.g /\ g >= acc.g[nb] THEN acc
      ELSE [acc EXCEPT !.g = (nb :> g) @@ @,
                       !.from = (nb :> cur.at) @@ @,
                       !.open = @ \cup {[at |-> nb, g |-> g]}]

RECURSIVE ReconstructPath(_, _)
ReconstructPath(from, c) ==
  IF c \in DOMAIN from THEN Append(ReconstructPath(from, from[c]), c) ELSE <<c>>

(* AStar with the zero heuristic. The bound on expansions is looked at     *)
(* after the goal, so that a goal popped last is still found.              *)
RECURSIVE SearchPath(_, _, _, _, _)
SearchPath(goal, neighbors, cost, maxExpand, acc) ==
  IF acc.open = {} THEN <<>> ELSE
  LET cur == CHOOSE i \in acc.open : \A j \in acc.open : i.g <= j.g
      popped == [acc EXCEPT !.open = @ \ {cur}]
  IN  IF cur.g # acc.g[cur.at] THEN SearchPath(goal, neighbors, cost, maxExpand, popped)
      ELSE IF cur.at = goal THEN ReconstructPath(acc.from, goal)
      ELSE IF maxExpand > 0 /\ acc.expanded >= maxExpand THEN <<>>
      ELSE SearchPath(goal, neighbors, cost, maxExpand,
             FoldLeft(LAMBDA a, nb : Relax(cost, cur, a, nb),
                      [popped EXCEPT !.expanded = @ + 1], neighbors[cur.at]))

Dijkstra(start, goal, neighbors, cost, maxExpand) ==
  IF start = goal THEN <<start>>
  ELSE SearchPath(goal, neighbors, cost, maxExpand,
         [g |-> (start :> 0), from |-> <<>>, open |-> {[at |-> start, g |-> 0]}, expanded |-> 0])

(* BFS: the node limit ends the walk, the depth limit only the branch.     *)
Visit(maxNodes, cur, acc, nb) ==
  IF acc.done \/ (maxNodes > 0 /\ Len(acc.result) >= maxNodes) THEN [acc EXCEPT !.done = TRUE]
  ELSE IF \E i \in DOMAIN acc.result : acc.result[i] = nb THEN acc
  ELSE [acc EXCEPT !.result = Append(@, nb),
                   !.queue = Append(@, [at |-> nb, depth |-> cur.depth + 1])]

RECURSIVE Walk(_, _, _, _)
Walk(neighbors, maxDepth, maxNodes, acc) ==
  IF acc.done \/ acc.queue = <<>> THEN acc.result ELSE
  LET cur == Head(acc.queue)
      popped == [acc EXCEPT !.queue = Tail(@)]
  IN  Walk(neighbors, maxDepth, maxNodes,
        IF maxDepth > 0 /\ cur.depth >= maxDepth THEN popped
        ELSE FoldLeft(LAMBDA a, nb : Visit(maxNodes, cur, a, nb), popped, neighbors[cur.at]))

BFS(start, neighbors, maxDepth, maxNodes) ==
  Walk(neighbors, maxDepth, maxNodes,
       [result |-> <<start>>, queue |-> <<[at |-> start, depth |-> 0]>>, done |-> FALSE])

-----------------------------------------------------------------------------
(* What the algorithms are for, on every small input: TLC evaluates these  *)
(* assumptions, which no proof uses.                                       *)

Disk(n) == {c \in (-n..n) \X (-n..n) : Distance(Origin, c) <= n}

(* RingInto walks every coordinate at distance k exactly once, from each   *)
(* to a neighbour.                                                         *)
ASSUME RingIsSphere ==
  \A k \in 0..4 : /\ ToSet(Ring(Origin, k)) = {c \in Disk(4) : Distance(Origin, c) = k}
                  /\ \A n \in 1..6*k - 1 :
                       Ring(Origin, k)[n + 1] = Plus(Ring(Origin, k)[n], Direction((((n - 1) \div k) + 2) % 6))
                  /\ Len(WalkRings(Origin, k)) = HexDiskCellCount(k)

(* Unpack undoes Pack, so two coordinates never share a key. *)
ASSUME PackInvertible == \A c \in Disk(6) : Unpack(Pack(c), 5) = c

(* A radius validatePackedRadius accepts leaves no coordinate of the disk  *)
(* out of packed range, even in the corners of the grid.                   *)
ASSUME RadiusPackable ==
  \A d \in 0..2, i \in 0..5 :
    LET corner == Times(MaxAxialAbs - d, Direction(i))
    IN  \A r \in 0..3 : PackedRadius(corner, r) <=>
          \A j \in 1..Len(WalkRings(corner, r)) : InPackRange(WalkRings(corner, r)[j])

(* Every coordinate is a child of its parent and of no other: the seven-   *)
(* cell clusters and the parallelograms each tile the plane.               *)
ASSUME CoarseningsTile ==
  \A c \in Disk(5) :
    /\ {p \in Disk(5) : c \in ToSet(SuperHexChildren(p))} = {SuperHexParent(c)}
    /\ {p \in Disk(5) : c \in RefineCoord(p, 3)} = {CoarsenCoord(c, 3)}

(* With equal weights every coordinate within the radius belongs to its    *)
(* nearest seed, the first of several; no other coordinate is assigned.    *)
ASSUME VoronoiNearest ==
  \A a \in Disk(1), b \in Disk(2) :
    LET seeds == <<Origin, a, b>>
        far(c) == Min({Distance(seeds[i], c) : i \in 1..3})
        got == Voronoi(seeds, 2, [c \in Disk(5) |-> 0]).assigned
    IN  /\ DOMAIN got = {c \in Disk(5) : far(c) <= 2}
        /\ \A c \in DOMAIN got :
             /\ got[c].hops = far(c)
             /\ got[c].seed = Min({i \in 1..3 : Distance(seeds[i], c) = far(c)})

(* Whatever the weights, a region holds together: every coordinate but the *)
(* seed has a neighbour of its own region one hop nearer.                  *)
ASSUME VoronoiConnected ==
  \A heavy \in SUBSET ToSet(Ring(Origin, 1)) :
    LET got == Voronoi(<<<<-1, 0>>, <<2, -1>>>>, 2, [c \in Disk(5) |-> IF c \in heavy THEN 2 ELSE 0]).assigned
    IN  \A c \in DOMAIN got : got[c].hops = 0 \/
          \E i \in 1..6 : LET n == Neighbors(c)[i] IN
            n \in DOMAIN got /\ got[n].seed = got[c].seed /\ got[n].hops = got[c].hops - 1

(* In the open everything within the radius is seen; a wall is itself seen *)
(* and hides the coordinates straight behind it; more walls never show     *)
(* open ground that fewer hid.                                             *)
ASSUME SightBlocked ==
  /\ FieldOfView(Origin, 3, {}) = Disk(3)
  /\ \A w \in Disk(2) \ {Origin} :
       LET fov == FieldOfView(Origin, 4, {w})
       IN  w \in fov /\ Times(2, w) \notin fov
  /\ \A w \in Disk(2) \ {Origin}, x \in Disk(2) \ {Origin} :
       FieldOfView(Origin, 3, {w, x}) \ {w, x} \subseteq FieldOfView(Origin, 3, {w})
=============================================================================
