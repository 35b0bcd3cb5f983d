----------------------------- MODULE MCRecords -----------------------------
(* Small databases around the origin: o, its east neighbour e, its west    *)
(* neighbour w and f, two steps east.                                      *)
EXTENDS Inspect

o == <<0, 0>>
e == <<1, 0>>
w == <<-1, 0>>
f == <<2, 0>>

Rec(source, tags, from, content) == [source |-> source, tags |-> tags, from |-> from, content |-> content]
Plain == Rec("s1", {"t1"}, 1, "x")
Other == Rec("s2", {"t1", "t2"}, None, "y")
Bare == Rec(None, {}, None, "x")
Put(c, rec) == [op |-> "PutCell", at |-> c, rec |-> rec]
Delete(c) == [op |-> "DeleteCell", at |-> c]
Facet(op, c, id, hash) == [op |-> op, at |-> c, id |-> id, hash |-> hash]
Edge(from, to, relation, weight) ==
  [op |-> "PutEdge", edge |-> [from |-> from, to |-> to, relation |-> relation, weight |-> weight]]
Seam(id, a, b, source) ==
  [op |-> "PutSeam", rec |-> [id |-> id, a |-> a, b |-> b, type |-> "contradiction",
                              status |-> None, source |-> source, from |-> 1]]
Conflict(a, b) == [op |-> "MarkConflict", a |-> a, b |-> b]
Supersedes(by, c) == [op |-> "MarkSupersedes", superseder |-> by, superseded |-> c]
Resolved(id) == [op |-> "ResolveSeam", id |-> id, status |-> "resolved"]

CellCalls == {Put(e, Plain), Put(e, Other), Put(w, Other), Delete(e)}
FacetCalls == {Facet("UpdateFacet", e, 0, "x"), Facet("PutFacet", e, 5, "y")}
SeamCalls == {Seam(1, e, w, "s1"), Seam(1, w, e, "s2"), Seam(2, o, e, None), Conflict(w, o), Resolved(1)}
EdgeCalls == {Put(e, Bare), Edge(o, e, "r1", 0), Edge(o, e, "r2", 3), Edge(e, f, "r1", 2), Edge(o, f, "r2", 4),
              Edge(f, w, "r1", 1), Edge(e, o, "r1", 1), Delete(e)}
ContextCalls == {Put(o, Bare), Put(e, Plain), Put(w, Other), Supersedes(e, w), Supersedes(w, e), Supersedes(f, e),
                 Delete(e), Delete(w)}

MCScenarios ==
  {[mvcc |-> m, calls |-> CellCalls \cup FacetCalls, ids |-> {}, maxCommits |-> 2, maxOps |-> 2] : m \in BOOLEAN}
  \cup
  {[mvcc |-> TRUE, calls |-> CellCalls \cup FacetCalls, ids |-> {}, maxCommits |-> 4, maxOps |-> 1]}
  \cup
  {[mvcc |-> m, calls |-> SeamCalls, ids |-> {0, 3}, maxCommits |-> 2, maxOps |-> 2] : m \in BOOLEAN}
  \cup
  {[mvcc |-> TRUE, calls |-> EdgeCalls, ids |-> {}, maxCommits |-> 1, maxOps |-> 5]}
  \cup
  {[mvcc |-> TRUE, calls |-> ContextCalls, ids |-> {1, 2}, maxCommits |-> 1, maxOps |-> 5]}

Query(require, exclude, source, after, radius, maxRows, maxResults) ==
  [require |-> require, exclude |-> exclude, source |-> source, after |-> after, center |-> e,
   radius |-> radius, maxRows |-> maxRows, maxResults |-> maxResults]
MCQueries ==
  {Query(<<>>, {}, None, None, 0, 0, 0), Query(<<"t1">>, {}, None, None, 0, 0, 0),
   Query(<<"t2">>, {}, "s2", None, 0, 0, 1), Query(<<>>, {"t2"}, "s1", None, 0, 0, 0),
   Query(<<>>, {}, None, 0, 0, 0, 0), Query(<<"t1">>, {}, None, None, 1, 0, 0),
   Query(<<"t1">>, {}, None, None, 1, 1, 0), Query(<<>>, {}, None, None, 1, 2, 0)}

Context(seeds, maxRing, maxCells, filter, asOf, edges) ==
  [seeds |-> seeds, maxRing |-> maxRing, maxCells |-> maxCells, filter |-> filter, asOf |-> asOf,
   edges |-> edges, maxHops |-> 2]
MCContexts ==
  {Context(<<o>>, 1, 2, FALSE, None, None), Context(<<e>>, 2, 8, TRUE, None, None),
   Context(<<e, w>>, 1, 3, TRUE, 0, None), Context(<<w, f>>, 1, 2, FALSE, None, None),
   Context(<<o>>, 1, 8, TRUE, None, "r1")}

MCCenters == {o, e, w, f}
=============================================================================
