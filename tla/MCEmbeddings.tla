---- MODULE MCEmbeddings ----
(* Instances of Embeddings: the graph under every order of puts and        *)
(* removals, the rebuild among writers, and, with every node on the upper  *)
(* layer, more links than that layer takes.                                *)
EXTENDS Embeddings

At(x) == <<1, x>>
Puts(S, xs) == {<<"put", c, At(x)>> : c \in S, x \in xs}
Removals(S) == {<<"delete", c>> : c \in S}

\* Layers 0, 1, 2, 0: the second and the third put each become the entry.
Layers == <<0, 1, 2, 0>>
\* All on layer 1, which takes M links: the first node is put on layer 0
\* whatever its coordinate.
Crowded == <<1, 1, 1, 1, 1>>

GraphScenario ==
  [calls |-> Puts({1}, {0, 5}) \cup Puts({2}, {1}) \cup Puts({3}, {3}) \cup Puts({4}, {7})
             \cup Removals({1, 2, 3}),
   dropsFirst |-> TRUE, rebuilders |-> {}, maxVectors |-> 4,
   maxOps |-> 8, maxCommits |-> 1, maxRebuilds |-> 0, maxRestarts |-> 0]

\* Two puts of different dimensions compete for the first, and the process
\* may end at any point of either.
RebuildScenario ==
  [calls |-> Puts({1}, {0}) \cup Puts({2}, {1}) \cup Removals({1})
             \cup {<<"defer", 2, At(3)>>, <<"defer", 3, At(5)>>, <<"put", 2, <<2, 0>>>>},
   dropsFirst |-> FALSE, rebuilders |-> {"r1", "r2"}, maxVectors |-> 2,
   maxOps |-> 1, maxCommits |-> 4, maxRebuilds |-> 2, maxRestarts |-> 1]

CellScenario ==
  [calls |-> {<<"cell", 1>>, <<"cell", 2>>, <<"deleteCell", 1>>, <<"put", 1, At(0)>>,
              <<"defer", 2, At(1)>>, <<"put", 3, At(3)>>,
              <<"reindex", <<At(5), None, None, None>>>>, <<"reindex", <<At(7), At(5), None, None>>>>},
   dropsFirst |-> TRUE, rebuilders |-> {}, maxVectors |-> 3,
   maxOps |-> 4, maxCommits |-> 2, maxRebuilds |-> 0, maxRestarts |-> 0]

MCScenarios == {GraphScenario, RebuildScenario, CellScenario}

CrowdedScenario ==
  {[calls |-> {<<"put", c, At(x)>> : <<c, x>> \in {<<1, 9>>, <<2, 0>>, <<3, 2>>, <<4, 3>>, <<5, 4>>}}
              \cup Removals({2, 3, 4, 5}),
    dropsFirst |-> TRUE, rebuilders |-> {}, maxVectors |-> 5,
    maxOps |-> 6, maxCommits |-> 1, maxRebuilds |-> 0, maxRestarts |-> 0]}
====
