------------------------------- MODULE Views -------------------------------
(***************************************************************************)
(* What is read from the records: seam lookup, snapshot diff, cell         *)
(* queries, edge paths and the context loaders (primitives.go,             *)
(* snapshot_diff.go, query_exec.go, pathfind_api.go, internal/views,       *)
(* fov_context.go, voronoi_context.go). Each is an operator of a reader    *)
(* (Snapshot, InTx of Records); the invariants compare what it returns     *)
(* with what the visible records say it should, in every state of the      *)
(* database. A cell is returned as its coordinate.                         *)
(***************************************************************************)
EXTENDS Records, Spatial

CONSTANTS
  Queries,    \* the cell queries asked of every state
  Contexts,   \* the LoadContext configurations asked of every state
  Centers     \* the centres and endpoints of lookups

(* The elements of s without repetition, in order of first appearance. *)
Distinct(s) == FoldLeft(LAMBDA acc, x : IF x \in ToSet(acc) THEN acc ELSE Append(acc, x), <<>>, s)
Truncate(s, n) == SubSeq(s, 1, Min({Len(s), n}))

Live(rd, c) == GetCell(rd, c) # {}
Cell(rd, c) == (CHOOSE v \in GetCell(rd, c) : TRUE).val
LiveCells(rd) == {c \in {v.at : v \in rd.tree.cells} : Live(rd, c)}
LiveSeams(rd) == {s.val : s \in UNION {GetSeam(rd, v.id) : v \in rd.tree.seams}}

(* Who can read: every snapshot, and the transaction while one is open (a  *)
(* View waits for it, and the committed tree is the one it began with).    *)
Readers == IF tx.open THEN {InTx} ELSE {Snapshot(s) : s \in IF env.mvcc THEN 0..head ELSE {0}}
Latest == {IF tx.open THEN InTx ELSE Snapshot(head)}

-----------------------------------------------------------------------------
(* Seam lookup.                                                            *)

(* SeamByCellsRangeLoFixed: the rows whose first endpoint is c. *)
LoFixed(rd, c) == {k \in rd.tree.byCells : k.lo = c /\ Key(k.hi) >= Key(c)}

(* SeamByCellsRangeHiFixedLoLess: from (0, c) to (c - 1, c) in the order   *)
(* of the keys, which takes in other rows too; nothing is below the        *)
(* origin, whose key is 0.                                                 *)
HiFixedLoLess(rd, c) ==
  LET p == Key(c)
      NotBelow(k) == Key(k.lo) > 0 \/ Key(k.hi) >= p
      NotAbove(k) == Key(k.lo) < p - 1 \/ (Key(k.lo) = p - 1 /\ Key(k.hi) <= p)
  IN  {k \in rd.tree.byCells : p > 0 /\ NotBelow(k) /\ NotAbove(k)}

(* scanSeamsForCoord: the rows of a coordinate. *)
RowsFor(rd, c) == LoFixed(rd, c) \cup HiFixedLoLess(rd, c)

(* collectSeamFind: a row only names a seam; the seam itself decides. *)
Matches(seam, center, radius, unresolvedOnly) ==
  /\ unresolvedOnly => seam.status = None
  /\ Distance(center, seam.a) <= radius \/ Distance(center, seam.b) <= radius

(* findSeams: the seams named by the rows of every coordinate around the   *)
(* centre. The row and result budgets (200 000 and 10 000) are not reached. *)
FindSeams(rd, center, radius, unresolvedOnly) ==
  LET rows == UNION {RowsFor(rd, c) : c \in IF rd.tree.byCells = {} THEN {} ELSE ToSet(WalkRings(center, radius))}
      named == UNION {GetSeam(rd, id) : id \in {k.id : k \in rows}}
  IN  {s \in {v.val : v \in named} : Matches(s, center, radius, unresolvedOnly)}

-----------------------------------------------------------------------------
(* Snapshot diff.                                                          *)

Bug_FromIncluded(seq, from, to) == seq > from /\ seq < to

(* The versions of (from, to]. *)
InWindow(seq, from, to) == seq > from /\ seq <= to

(* diffScanCells, diffScanSeams: in commit order, by key within a commit. *)
CellDiffs(from, to) ==
  Sorted({v \in db.cells : InWindow(v.seq, from, to)},
         LAMBDA a, b : a.seq < b.seq \/ (a.seq = b.seq /\ CoordLess(a.at, b.at)))
SeamDiffs(from, to) ==
  Sorted({v \in db.seams : InWindow(v.seq, from, to)},
         LAMBDA a, b : a.seq < b.seq \/ (a.seq = b.seq /\ a.id < b.id))

-----------------------------------------------------------------------------
(* Cell queries.                                                           *)

HasTags(rec, q) == ToSet(q.require) \subseteq rec.tags /\ q.exclude \cap rec.tags = {}

(* applyPredicates. *)
ApplyPredicates(q, rec, c) ==
  /\ HasTags(rec, q)
  /\ q.source # None => rec.source = q.source
  /\ q.after # None => (rec.from # None /\ rec.from > q.after)
  /\ q.radius > 0 => Distance(c, q.center) <= q.radius

SpatialProbeLimit == 4096
PreferSpatialPlan(q) ==
  q.radius > 0 /\ HexDiskCellCount(q.radius) <= (IF q.maxRows > 0 THEN q.maxRows ELSE SpatialProbeLimit)

RowLess(a, b) == Key(a.at) < Key(b.at) \/ (a.at = b.at /\ a.seq < b.seq)
Ats(rows) == LET s == Sorted(rows, RowLess) IN [i \in DOMAIN s |-> s[i].at]

(* queryCellsByIndex: the coordinates the chosen plan looks at, one per    *)
(* row or probe.                                                           *)
Plan(rd, q) ==
  IF PreferSpatialPlan(q) \/ (q.require = <<>> /\ q.source = None /\ q.after = None /\ q.radius > 0)
  THEN WalkRingsPacked(q.center, q.radius)
  ELSE Ats(IF q.require # <<>> THEN {r \in rd.tree.tag : r.key = q.require[1]}
           ELSE IF q.source # None THEN {r \in rd.tree.source : r.key = q.source}
           ELSE rd.tree.cells)

(* QueryCells, sorted by coordinate; limited says ErrQueryScanLimit.       *)
Top(s, n) == IF n > 0 THEN Truncate(s, n) ELSE s
Answer(rd, q, probes) ==
  LET hits == {c \in ToSet(Top(probes, q.maxRows)) : Live(rd, c) /\ ApplyPredicates(q, Cell(rd, c), c)}
  IN  [cells |-> Top(Sorted(hits, CoordLess), q.maxResults),
       limited |-> q.maxRows > 0 /\ Len(probes) > q.maxRows]
QueryCells(rd, q) == Answer(rd, q, Plan(rd, q))

(* AscendDistinctTags, ListExistingTopics. *)
ListExistingTopics(rd) ==
  {r.key : r \in {r \in rd.tree.tag : Live(rd, r.at) /\ r.key \in Cell(rd, r.at).tags}}

-----------------------------------------------------------------------------
(* Edge paths.                                                             *)

(* edgeTraversal.load: the edges of a node that the filter lets through; a *)
(* weight that is not positive counts as 1, of parallel edges the cheapest *)
(* counts.                                                                 *)
Followed(rd, c, filter) == {e \in EdgesFrom(rd, c) : filter = None \/ e.relation = filter}
Cost(e) == IF e.weight <= 0 THEN 1 ELSE e.weight
Nodes(rd, start) == {start} \cup UNION {{e.from, e.to} : e \in rd.tree.edges}
Adjacent(rd, start, filter) ==
  [c \in Nodes(rd, start) |-> Sorted({e.to : e \in Followed(rd, c, filter)}, PackedLess)]

Bug_LastWeight(rd, filter) ==
  [p \in {<<e.from, e.to>> : e \in rd.tree.edges} |->
     Max({0} \cup {Cost(e) : e \in {e \in Followed(rd, p[1], filter) : e.to = p[2]}})]

EdgeCosts(rd, filter) ==
  [p \in {<<e.from, e.to>> : e \in {f \in rd.tree.edges : filter = None \/ f.relation = filter}} |->
     Min({Cost(e) : e \in {e \in Followed(rd, p[1], filter) : e.to = p[2]}})]

FindEdgePath(rd, start, goal, filter, maxExpand) ==
  Dijkstra(start, goal, Adjacent(rd, start, filter), EdgeCosts(rd, filter), maxExpand)
WalkEdges(rd, start, filter, maxHops, maxNodes) ==
  BFS(start, Adjacent(rd, start, filter), maxHops, maxNodes)

-----------------------------------------------------------------------------
(* Context loading.                                                        *)

MaxSupersessionDepth == 16

(* resolveSupersession: follow the first supersession from each cell. The  *)
(* result is the coordinate to show, and None when there is none.          *)
Superseders(rd, c) == {s \in FindSeams(rd, c, 0, FALSE) : s.type = "supersedes" /\ s.a = c}

(* Of the rows of c in the index those with c as first endpoint are met    *)
(* first, and the others by key.                                           *)
MetBefore(c, s, t) ==
  \/ Key(c) <= Key(s.b) /\ Key(t.b) < Key(c)
  \/ /\ (Key(c) <= Key(s.b)) = (Key(c) <= Key(t.b))
     /\ Key(s.b) < Key(t.b) \/ (s.b = t.b /\ s.id < t.id)
First(c, links) == {s.b : s \in {s \in links : \A t \in links \ {s} : MetBefore(c, s, t)}}

RECURSIVE Resolve(_, _, _)
Resolve(rd, current, visited) ==
  LET onward == First(current, Superseders(rd, current))
      path == visited \cup {current}
  IN  IF Cardinality(visited) = MaxSupersessionDepth \/ onward \cap path # {} THEN None
      ELSE IF onward # {} THEN Resolve(rd, CHOOSE c \in onward : TRUE, path)
      ELSE IF visited = {} \/ Live(rd, current) THEN current ELSE None

Bug_Unresolved(rd, cfg, c) == c

(* resolveTarget. The code's "no live successor" is the zero coordinate,   *)
(* so that a successor at the origin counts as none.                       *)
Successor(c, to) == IF to # c /\ to = Origin THEN None ELSE to
ResolveTarget(rd, cfg, c) == IF cfg.filter THEN Successor(c, Resolve(rd, c, {})) ELSE c

(* AssembleCellView: the cell must be there, and valid at asOf. *)
ValidAt(rec, t) == rec.from = None \/ rec.from <= t
Assembles(rd, cfg, c) == Live(rd, c) /\ (cfg.asOf # None => ValidAt(Cell(rd, c), cfg.asOf))

(* collectCandidates, processCoord: the cells of some coordinates, each    *)
(* once, up to the limit.                                                  *)
ProcessCoord(rd, cfg, acc, to) ==
  IF to = None \/ to \in ToSet(acc) \/ ~Assembles(rd, cfg, to) THEN acc ELSE Append(acc, to)
Collect(rd, cfg, coords) ==
  FoldLeft(LAMBDA acc, c : IF Len(acc) >= cfg.maxCells THEN acc
                           ELSE ProcessCoord(rd, cfg, acc, ResolveTarget(rd, cfg, c)),
           <<>>, coords)

LoadContextByRings(rd, cfg, seed) == Collect(rd, cfg, WalkRings(seed, cfg.maxRing))

(* ForEach(s, Op): Op of every element of s, in order. *)
ForEach(s, Op(_)) == FoldLeft(LAMBDA acc, x : Append(acc, Op(x)), <<>>, s)

(* mergeSeeds: one cell of each seed in turn. *)
MergeSeeds(packs, maxCells) ==
  LET longest == Max({0} \cup {Len(packs[i]) : i \in DOMAIN packs})
      turn(n) == ForEach(SelectSeq(packs, LAMBDA p : n <= Len(p)), LAMBDA p : p[n])
  IN  Truncate(FoldLeft(LAMBDA acc, n : Distinct(acc \o turn(n)), <<>>, [n \in 1..longest |-> n]), maxCells)

(* loadContextByEdges: the limit bounds the coordinates walked, not the    *)
(* cells found at them.                                                    *)
LoadContextByEdges(rd, cfg) ==
  LET walked == FoldLeft(LAMBDA acc, seed : acc \o WalkEdges(rd, seed, cfg.edges, cfg.maxHops, cfg.maxCells),
                         <<>>, cfg.seeds)
  IN  Collect(rd, cfg, Truncate(Distinct(walked), cfg.maxCells))

LoadContext(rd, cfg) ==
  IF cfg.edges # None THEN LoadContextByEdges(rd, cfg)
  ELSE MergeSeeds(ForEach(cfg.seeds, LAMBDA seed : LoadContextByRings(rd, cfg, seed)), cfg.maxCells)

(* LoadContextFOV, once the visible coordinates are known                  *)
(* (fetchVisibleCells).                                                    *)
FetchVisibleCells(rd, visible, maxCells) ==
  Truncate(SelectSeq(visible, LAMBDA c : Live(rd, c)), maxCells)

(* LoadContextVoronoi, once the partition is (loadVoronoiRegions): the     *)
(* cells of a seed's region, in the order they were discovered.            *)
LoadVoronoiRegions(rd, seeds, v, maxPerSeed) ==
  [i \in DOMAIN seeds |->
     Truncate(SelectSeq(v.order, LAMBDA c : v.assigned[c].seed = i /\ Live(rd, c)), maxPerSeed)]

-----------------------------------------------------------------------------
(* Properties.                                                             *)

(* FindSeams, through an index of canonical pairs of which it scans two    *)
(* key ranges per coordinate, returns every seam that is visible and has   *)
(* an endpoint within the radius, and no other: in every snapshot,         *)
(* although the index rows are not versioned.                              *)
FindSeamsExact ==
  \A rd \in Readers, center \in Centers, radius \in 0..1, unresolved \in BOOLEAN :
    FindSeams(rd, center, radius, unresolved) =
    {s \in LiveSeams(rd) : Matches(s, center, radius, unresolved)}

(* SnapshotDiff is complete and in order: replaying the changes of         *)
(* (from, to] over the snapshot at from gives the snapshot at to, cells    *)
(* deleted, put again or written twice in one Update included.             *)
CellMap(seq) == {[key |-> c, val |-> Cell(Snapshot(seq), c)] : c \in LiveCells(Snapshot(seq))}
SeamMap(seq) == {[key |-> s.id, val |-> s] : s \in LiveSeams(Snapshot(seq))}
Replayed(map, diffs, KeyOf(_)) ==
  FoldLeft(LAMBDA m, d : {x \in m : x.key # KeyOf(d)}
                         \cup {[key |-> KeyOf(d), val |-> v] : v \in {d.val} \ {Tombstone}},
           map, diffs)
DiffReplays ==
  env.mvcc => \A to \in 0..head : \A from \in 0..to :
    /\ Replayed(CellMap(from), CellDiffs(from, to), LAMBDA d : d.at) = CellMap(to)
    /\ Replayed(SeamMap(from), SeamDiffs(from, to), LAMBDA d : d.id) = SeamMap(to)

(* Whichever plan QueryCells chooses, index, ring walk or full scan, it    *)
(* returns the cells that satisfy the predicates, and when the row limit   *)
(* stops it, some of them with the error set: of the newest commit and,    *)
(* inside an Update, of what the transaction has written so far. The       *)
(* topics are the tags of those cells.                                     *)
QueryExact(q, got, exact) ==
  IF got.limited THEN ToSet(got.cells) \subseteq exact
  ELSE got.cells = Top(Sorted(exact, CoordLess), q.maxResults)
QueryPlanIndependent ==
  \A rd \in Latest :
    /\ \A q \in Queries :
         QueryExact(q, QueryCells(rd, q), {c \in LiveCells(rd) : ApplyPredicates(q, Cell(rd, c), c)})
    /\ ListExistingTopics(rd) = UNION {Cell(rd, c).tags : c \in LiveCells(rd)}

Superseded(rd, c) == \E s \in LiveSeams(rd) : s.type = "supersedes" /\ s.a = c

(* LoadContext returns cells that exist, each once, within the limit, none *)
(* of them superseded when supersession is filtered; and when the limit is *)
(* not reached, it leaves no such cell of the rings around the seeds out.  *)
PackComplete(rd, cfg, shown) ==
  \A c \in LiveCells(rd) \ shown :
    \/ \A i \in DOMAIN cfg.seeds : Distance(c, cfg.seeds[i]) > cfg.maxRing
    \/ ~Assembles(rd, cfg, c)
    \/ cfg.filter /\ Superseded(rd, c)
PackRight(rd, cfg, pack) ==
  /\ Len(pack) = Cardinality(ToSet(pack)) /\ Len(pack) <= cfg.maxCells
  /\ \A c \in ToSet(pack) : Assembles(rd, cfg, c) /\ ~(cfg.filter /\ Superseded(rd, c))
  /\ cfg.edges = None /\ Len(pack) < cfg.maxCells => PackComplete(rd, cfg, ToSet(pack))
PackSound == \A rd \in Readers, cfg \in Contexts : PackRight(rd, cfg, LoadContext(rd, cfg))

(* LoadContextVoronoi shares the cells out among its seeds: each cell in   *)
(* reach of a seed is in the region of a seed nearest to it, the first of  *)
(* two, and in no other. LoadContextFOV in the open shows the cells        *)
(* nearest to its centre.                                                  *)
SeedPairs == {<<a, b>> : a \in Centers, b \in Centers}
Partition == [seeds \in SeedPairs |-> Voronoi(seeds, 2, [c \in Disk(6) |-> 0])]
OpenSight == [c \in Centers |-> FieldOfViewSeq(c, 2, {})]
SharesSound ==
  \A rd \in Latest :
      /\ \A seeds \in SeedPairs :
           LET regions == LoadVoronoiRegions(rd, seeds, Partition[seeds], 64)
           IN  \A c \in LiveCells(rd) :
                 {i \in 1..2 : c \in ToSet(regions[i])} =
                 {i \in 1..2 : /\ Distance(seeds[i], c) <= 2
                              /\ \A j \in 1..2 : Distance(seeds[i], c) < Distance(seeds[j], c)
                                                  \/ (Distance(seeds[i], c) = Distance(seeds[j], c) /\ i <= j)}
      /\ \A a \in Centers, n \in 1..2 :
           LET shown == FetchVisibleCells(rd, OpenSight[a], n)
               near == {c \in LiveCells(rd) : Distance(a, c) <= 2}
           IN  /\ Len(shown) = Min({n, Cardinality(near)})
               /\ \A c \in ToSet(shown), d \in near \ ToSet(shown) : Distance(a, c) <= Distance(a, d)

(* A context never shows what is not there, never shows it twice and never *)
(* leaves out what its limits allow, whichever loader builds it.           *)
ContextSound == PackSound /\ SharesSound

(* FindEdgePath returns a path of followed edges of least total weight,    *)
(* and none only when there is none; WalkEdges returns exactly the         *)
(* coordinates within the number of hops.                                  *)
Unreachable == 1000
LeastCosts(nodes, edges, start, hops) ==
  FoldLeft(LAMBDA least, k :
             [c \in nodes |-> Min({least[c]} \cup {least[e.from] + Cost(e) : e \in {e \in edges : e.to = c}})],
           [c \in nodes |-> IF c = start THEN 0 ELSE Unreachable],
           [k \in 1..hops |-> k])
EdgePathShortest ==
  \A rd \in Latest :
      rd.tree.edges # {} => \A start \in Centers, filter \in {None} \cup {e.relation : e \in rd.tree.edges} :
        LET nodes == Nodes(rd, start)
            edges == {e \in rd.tree.edges : filter = None \/ e.relation = filter}
            least == LeastCosts(nodes, edges, start, Cardinality(nodes))
            step(a, b) == {Cost(e) : e \in {e \in edges : e.from = a /\ e.to = b}}
        IN  /\ \A goal \in nodes :
                 LET path == FindEdgePath(rd, start, goal, filter, 0)
                     steps == 1..Len(path) - 1
                 IN  IF path = <<>> THEN least[goal] >= Unreachable
                     ELSE /\ path[1] = start /\ path[Len(path)] = goal
                          /\ \A i \in steps : step(path[i], path[i + 1]) # {}
                          /\ MapThenSumSet(LAMBDA i : Min(step(path[i], path[i + 1])), steps) = least[goal]
            /\ \A hops \in 1..2 :
                 LET walked == WalkEdges(rd, start, filter, hops, 0)
                     near == {c \in nodes : LeastCosts(nodes, edges, start, hops)[c] < Unreachable}
                 IN  ToSet(walked) = near /\ Len(walked) = Cardinality(near)
=============================================================================
