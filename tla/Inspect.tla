------------------------------- MODULE Inspect -------------------------------
(***************************************************************************)
(* The remaining reads of the records: walks of a ring, the placement of a *)
(* new cell, scans of the secondary indexes, tag statistics, the health    *)
(* check and the super-hex summary that follows the changelog              *)
(* (primitives.go, cell_secondary.go, seam_secondary.go, tag_analytics.go, *)
(* health.go, superhex_summary.go). As in Views, each is an operator of a  *)
(* reader, and an invariant compares it with the visible records.          *)
(***************************************************************************)
EXTENDS Views

-----------------------------------------------------------------------------
(* Walks. A nil asOf is None.                                              *)

Holds(rd, asOf, c) == Live(rd, c) /\ (asOf # None => ValidAt(Cell(rd, c), asOf))

(* WalkRing calls back for every coordinate of the ring, WalkRingAt for    *)
(* those with a cell that is valid.                                        *)
WalkRing(rd, center, ring) == ForEach(Ring(center, ring), LAMBDA c : [at |-> c, found |-> Live(rd, c)])
WalkRingAt(rd, center, ring, asOf) == SelectSeq(Ring(center, ring), LAMBDA c : Holds(rd, asOf, c))

(* collectFacetsForMask, WalkRingFacets: the facets of a mask in the order *)
(* of their identifiers, with each cell.                                   *)
CollectFacetsForMask(rd, c, mask) ==
  FoldLeft(LAMBDA acc, id : acc \o SetToSeq({f.id : f \in GetFacet(rd, c, id)}),
           <<>>, SelectSeq([i \in 1..MaxFacetID + 1 |-> i - 1], LAMBDA id : id \in mask))
WalkRingFacets(rd, center, ring, mask, asOf) ==
  ForEach(WalkRingAt(rd, center, ring, asOf), LAMBDA c : [at |-> c, ids |-> CollectFacetsForMask(rd, c, mask)])

(* ScanContextRaw (asOf None) and ScanContextAtRaw. *)
ScanContextRaw(rd, center, maxR, maxCells, asOf) ==
  Truncate(SelectSeq(WalkRingsPacked(center, maxR), LAMBDA c : Holds(rd, asOf, c)), maxCells)

(* FindFreeCellPlacement: the first coordinate without a cell, and how     *)
(* many occupied ones came before it; none is ErrNoFreeCellPlacement.      *)
FindFreeCellPlacement(rd, anchor, maxRadius) ==
  LET walk == WalkRingsPacked(anchor, maxRadius)
      free == {n \in DOMAIN walk : ~Live(rd, walk[n])}
  IN  {[coord |-> walk[n], probes |-> n - 1] : n \in {n \in free : \A k \in free : n <= k}}

-----------------------------------------------------------------------------
(* Scans of the secondary indexes, once for each coordinate or identifier. *)

(* AscendCellsInTimeBucket: the cell as it is now, whatever its bucket now *)
(* is. (A bucket is a time here.)                                          *)
AscendCellsInTimeBucket(rd, bucket) ==
  SelectSeq(Distinct(Ats({r \in rd.tree.time : r.key = bucket})), LAMBDA c : Live(rd, c))

(* AscendCellsByTag looks at the cell's tags again. *)
AscendCellsByTag(rd, tag) ==
  SelectSeq(Distinct(Ats({r \in rd.tree.tag : r.key = tag})),
            LAMBDA c : Live(rd, c) /\ tag \in Cell(rd, c).tags)

(* AscendSeamsBySource, AscendSeamsInTimeBucket: of the rows of one key,   *)
(* the visible seams.                                                      *)
SeamsOfRows(rd, rows) == {v.val : v \in UNION {GetSeam(rd, r.id) : r \in rows}}
AscendSeamsBySource(rd, source) == SeamsOfRows(rd, {r \in rd.tree.seamSource : r.key = source})
AscendSeamsInTimeBucket(rd, bucket) == SeamsOfRows(rd, {r \in rd.tree.seamTime : r.key = bucket})

-----------------------------------------------------------------------------
(* What comes with the cells of a context.                                 *)

(* assembleSeams: of the seams near a cell those that end at it. *)
AssembleSeams(rd, c, radius, unresolvedOnly) ==
  {s.id : s \in {s \in FindSeams(rd, c, radius, unresolvedOnly) : c \in {s.a, s.b}}}

(* attachSeams, mergeSeedSeams: the seams around the seeds, each once. A   *)
(* seed whose rings have nothing to show returns early, without its seams; *)
(* a context by edges has no such return (assembleCoordsIntoContextPack).  *)
Bug_OfAllSeeds(rd, cfg) == ToSet(cfg.seeds)
SeedsWithSeams(rd, cfg) ==
  {seed \in ToSet(cfg.seeds) : cfg.edges # None \/ LoadContextByRings(rd, cfg, seed) # <<>>}
AttachSeams(rd, cfg, seamRadius) ==
  LET radius == IF seamRadius = 0 THEN cfg.maxRing ELSE seamRadius
  IN  UNION {FindSeams(rd, seed, radius, FALSE) : seed \in SeedsWithSeams(rd, cfg)}

-----------------------------------------------------------------------------
(* Tag statistics.                                                         *)

TagCounts(rd) == {[tag |-> t, count |-> Len(AscendCellsByTag(rd, t))] : t \in ListExistingTopics(rd)}

(* TagCooccurrences: each cell met under any tag is counted once, for all  *)
(* the pairs of its tags.                                                  *)
TagCooccurrences(rd, minCount) ==
  LET topics == ListExistingTopics(rd)
      processed == UNION {ToSet(AscendCellsByTag(rd, t)) : t \in topics}
      count(pair) == Cardinality({c \in processed : pair \subseteq Cell(rd, c).tags})
  IN  {[pair |-> pair, count |-> count(pair)] :
         pair \in {p \in kSubset(2, topics) : count(p) > 0 /\ count(p) >= minCount}}

UntaggedCells(rd, center, maxR) ==
  SelectSeq(WalkRingsPacked(center, maxR), LAMBDA c : Live(rd, c) /\ Cell(rd, c).tags = {})

-----------------------------------------------------------------------------
(* The health check. Unlike the reads it goes to the rows themselves: the  *)
(* last row of a coordinate is its newest version, and a row of an index   *)
(* is held against the version its key names.                              *)

LastRows(rows) == {v \in rows : \A u \in rows : u.at = v.at => u.seq <= v.seq}
HealthScanCells(rd) == {v.at : v \in {v \in LastRows(rd.tree.cells) : v.val # Tombstone}}

(* healthScanSeams: as the reader sees them. *)
HealthScanSeams(rd) == LiveSeams(rd)
HealthCheckOrphans(seams, cells) == {s.id : s \in {s \in seams : ~({s.a, s.b} \subseteq cells)}}

(* secondaryTagIndexConsistent, secondarySourceIndexConsistent. *)
Indexed(rd, row) == {v \in rd.tree.cells : v.at = row.at /\ v.seq = row.seq /\ v.val # Tombstone}
TagRowConsistent(rd, row, cells) ==
  IF env.mvcc THEN \E v \in Indexed(rd, row) : row.key \in v.val.tags ELSE row.at \in cells
SourceRowConsistent(rd, row, cells) ==
  IF env.mvcc THEN \E v \in Indexed(rd, row) : row.key = v.val.source ELSE row.at \in cells

(* healthCheckTagIndex, healthCheckSourceIndex: counted up to maxErrors,   *)
(* which 0 leaves open.                                                    *)
Counted(bad, maxErrors) == IF maxErrors > 0 THEN Min({maxErrors, Cardinality(bad)}) ELSE Cardinality(bad)
HealthCheckTagIndex(rd, cells, maxErrors) ==
  Counted({r \in rd.tree.tag : ~TagRowConsistent(rd, r, cells)}, maxErrors)
HealthCheckSourceIndex(rd, cells, maxErrors) ==
  Counted({r \in rd.tree.source : ~SourceRowConsistent(rd, r, cells)}, maxErrors)

HealthCheck(rd, maxErrors) ==
  LET cells == HealthScanCells(rd)
      seams == HealthScanSeams(rd)
      resolved == {s \in seams : s.status = "resolved"}
  IN  [cellCount |-> Cardinality(cells), seamCount |-> Cardinality(seams),
       seamsResolved |-> Cardinality(resolved), seamsUnresolved |-> Cardinality(seams \ resolved),
       orphanedSeams |-> HealthCheckOrphans(seams, cells),
       tagIndexErrors |-> HealthCheckTagIndex(rd, cells, maxErrors),
       sourceIndexErrors |-> HealthCheckSourceIndex(rd, cells, maxErrors)]

-----------------------------------------------------------------------------
(* SuperHexSummaryIndex: the parent of every cell it knows (cellParent)    *)
(* and the number of cells of every parent (summaries).                    *)

RECURSIVE SuperHexParentAtLevel(_, _)
SuperHexParentAtLevel(c, level) ==
  IF level <= 0 THEN c ELSE SuperHexParentAtLevel(SuperHexParent(c), level - 1)

Occupied(index, parent) == IF parent \in DOMAIN index.summaries THEN index.summaries[parent] ELSE 0
WithCount(summaries, parent, n) ==
  IF n = 0 THEN Restrict(summaries, DOMAIN summaries \ {parent}) ELSE (parent :> n) @@ summaries

(* applyPut: a cell that is known already changes nothing. *)
ApplyPut(index, c) ==
  LET parent == SuperHexParentAtLevel(c, index.level)
  IN  IF c \in DOMAIN index.cellParent THEN index
      ELSE [index EXCEPT !.cellParent = (c :> parent) @@ @,
                         !.summaries = WithCount(@, parent, Occupied(index, parent) + 1)]
(* applyDelete: the summary of a parent goes with its last cell. *)
ApplyDelete(index, c) ==
  IF c \notin DOMAIN index.cellParent THEN index
  ELSE LET parent == index.cellParent[c]
       IN  [index EXCEPT !.cellParent = Restrict(@, DOMAIN @ \ {c}),
                         !.summaries = WithCount(@, parent, Occupied(index, parent) - 1)]

NewSuperHexSummaryIndex(level) == [level |-> level, cellParent |-> <<>>, summaries |-> <<>>]

(* Rebuild: from the cells of a View. *)
Rebuild(rd, level) ==
  FoldSet(LAMBDA c, index : ApplyPut(index, c), NewSuperHexSummaryIndex(level), LiveCells(rd))

(* Sync: the put and delete of a cell that the changelog holds after the   *)
(* cursor. (Of the records of one cell in one Update the last stands for   *)
(* all: a put after a put and a delete of what is not there change         *)
(* nothing.)                                                               *)
Sync(index, from, to) ==
  FoldLeft(LAMBDA i, d : IF d.val = Tombstone THEN ApplyDelete(i, d.at) ELSE ApplyPut(i, d.at),
           index, CellDiffs(from, to))

-----------------------------------------------------------------------------
(* Properties.                                                             *)

(* HealthCheck agrees with what the reads return: it counts the visible    *)
(* cells and seams and names the seams with an endpoint that is gone, and  *)
(* it finds the indexes in order after any calls the API offers, deletes   *)
(* included. With MVCC and two puts of one cell in one Update it does not: *)
(* the rows of the first put stay under the sequence number of the second. *)
HealthTrue ==
  LET report(rd) == HealthCheck(rd, 0)
      fit(rd, r) ==
        /\ r.cellCount = Cardinality(LiveCells(rd))
        /\ r.seamsUnresolved = Cardinality({s \in LiveSeams(rd) : s.status = None})
        /\ r.orphanedSeams = {s.id : s \in {s \in LiveSeams(rd) : ~Live(rd, s.a) \/ ~Live(rd, s.b)}}
        /\ ~env.mvcc \/ env.maxOps = 1 => r.tagIndexErrors + r.sourceIndexErrors = 0
  IN  ~tx.open => \A rd \in Latest : fit(rd, report(rd))

(* The indexes lead to what the records say. The seams: FindSeamsExact,    *)
(* and a scan by source or time finds every visible seam that has it (in   *)
(* every snapshot: rows of a seam are never removed under MVCC). The       *)
(* cells: a scan by time finds every visible cell of that time, and the    *)
(* tag counts are those of the visible cells.                              *)
ScansComplete(rd) ==
  /\ \A s \in LiveSeams(rd) :
       /\ s.source # None => s \in AscendSeamsBySource(rd, s.source)
       /\ s.from # None => s \in AscendSeamsInTimeBucket(rd, s.from)
  /\ rd \in Latest =>
       \A c \in LiveCells(rd) :
         Cell(rd, c).from # None => c \in ToSet(AscendCellsInTimeBucket(rd, Cell(rd, c).from))
TagsCounted(rd) ==
  LET live == LiveCells(rd)
      having(tags) == Cardinality({c \in live : tags \subseteq Cell(rd, c).tags})
      topics == UNION {Cell(rd, c).tags : c \in live}
  IN  /\ TagCounts(rd) = {[tag |-> t, count |-> having({t})] : t \in topics}
      /\ TagCooccurrences(rd, 1) =
         {[pair |-> p, count |-> having(p)] : p \in {p \in kSubset(2, topics) : having(p) > 0}}
      /\ {c \in live : Distance(Origin, c) <= 2 /\ Cell(rd, c).tags = {}} = ToSet(UntaggedCells(rd, Origin, 2))
IndexesExact ==
  /\ FindSeamsExact
  /\ HealthTrue
  /\ \A rd \in Readers : ScansComplete(rd)
  /\ \A rd \in Latest : TagsCounted(rd)

(* Whoever replays the changes ends where the newest snapshot is: the      *)
(* reader of SnapshotDiff, and the super-hex index, which after Sync is    *)
(* what a Rebuild would make it.  (The index reads the changelog; its      *)
(* records stand here as the diffs of the same commits, and that none of   *)
(* them is missing from the changelog is a matter of ChangelogOutbox.)     *)
SummaryFollows ==
  env.mvcc => \A from \in 0..head, level \in 1..2 :
    Sync(Rebuild(Snapshot(from), level), from, head) = Rebuild(Snapshot(head), level)
ChangesReplay == DiffReplays /\ SummaryFollows

(* The walks and the context loaders, written apart, agree: with neither a *)
(* filter nor edges LoadContext shows the cells of ScanContextRaw, which   *)
(* are the walks of the rings one after another. A new cell is placed on   *)
(* the nearest coordinate that is free for the transaction placing it.     *)
RingsWalked(rd, c, asOf) ==
  ToSet(ScanContextRaw(rd, c, 1, 8, asOf)) =
  {x \in {c} \cup ToSet(Ring(c, 1)) : x \in ToSet(WalkRingAt(rd, c, 0, asOf)) \cup ToSet(WalkRingAt(rd, c, 1, asOf))}
FacetsWalked(rd, c) ==
  /\ {w.at : w \in {w \in ToSet(WalkRing(rd, c, 1)) : w.found}} = ToSet(WalkRingAt(rd, c, 1, None))
  /\ \A w \in ToSet(WalkRingFacets(rd, c, 1, 0..MaxFacetID, None)) :
       ToSet(w.ids) = {f.id : f \in FacetsOf(rd, w.at)} /\ w.ids = Sorted(ToSet(w.ids), <)
PlacedNearest(rd, c) ==
  \A placed \in FindFreeCellPlacement(rd, c, 1) :
    /\ ~Live(rd, placed.coord)
    /\ \A x \in {c} \cup ToSet(Ring(c, 1)) : Distance(c, x) < Distance(c, placed.coord) => Live(rd, x)
WalksAgree ==
  \A rd \in Latest, c \in Centers :
    /\ \A n \in 1..2, asOf \in {None, 0} :
         LoadContext(rd, [seeds |-> <<c>>, maxRing |-> 1, maxCells |-> n, filter |-> FALSE, asOf |-> asOf,
                          edges |-> None, maxHops |-> 0]) = ScanContextRaw(rd, c, 1, n, asOf)
    /\ \A asOf \in {None, 0} : RingsWalked(rd, c, asOf)
    /\ FacetsWalked(rd, c)
    /\ PlacedNearest(rd, c)

(* A context attaches only visible seams that end within reach of a seed,  *)
(* every one of them around a seed that has a cell to show, and none when  *)
(* the rings show nothing at all; a cell view has each seam that ends at   *)
(* the cell.                                                               *)
Near(rd, seed, radius) ==
  {s \in LiveSeams(rd) : \E c \in {s.a, s.b} : Distance(seed, c) <= radius}
HasCell(rd, cfg, seed) ==
  \E c \in LiveCells(rd) : /\ Distance(seed, c) <= cfg.maxRing /\ Assembles(rd, cfg, c)
                           /\ ~(cfg.filter /\ Superseded(rd, c))
SeamsAttached ==
  \A rd \in Latest :
    /\ \A cfg \in Contexts :
         LET attached == AttachSeams(rd, cfg, 0)
             seeds == ToSet(cfg.seeds)
             around(S) == UNION {Near(rd, seed, cfg.maxRing) : seed \in S}
         IN  /\ attached \subseteq around(seeds)
             /\ around({seed \in seeds : HasCell(rd, cfg, seed)}) \subseteq attached
             /\ cfg.edges = None /\ attached # {} => LoadContext(rd, cfg) # <<>>
             /\ cfg.edges # None => around(seeds) \subseteq attached
    /\ \A c \in Centers : AssembleSeams(rd, c, 0, FALSE) = {s.id : s \in {s \in LiveSeams(rd) : c \in {s.a, s.b}}}
LoadersAgree == ContextSound /\ WalksAgree /\ SeamsAttached
=============================================================================
