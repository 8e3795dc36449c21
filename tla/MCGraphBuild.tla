---------------------------- MODULE MCGraphBuild ----------------------------
(* Every graph of up to three nodes, and graphs of four nodes with edges     *)
(* between different nodes, as an instance of GraphBuild for TLC.            *)
EXTENDS GraphBuild

AllKernels(n) == [v \in 1 .. n |-> "kernel"]

GraphOf(n, edges) == [size |-> n, edges |-> edges, types |-> AllKernels(n),
                      deviceLaunch |-> FALSE]

UpTo3 == UNION {{GraphOf(n, E) : E \in SUBSET ((0 .. n) \X (1 .. n))} : n \in 0 .. 3}

\* Edges from lower to higher numbers, and one that closes a cycle.
Of4 == {GraphOf(4, E) : E \in SUBSET ({e \in (1 .. 4) \X (1 .. 4) : e[1] < e[2]}
                                        \cup {<<4, 2>>})}

Odd == {[GraphOf(2, {<<1, 2>>}) EXCEPT !.types[2] = "other"],
        [GraphOf(2, {<<1, 2>>}) EXCEPT !.types[2] = "memset"],
        [GraphOf(2, {<<1, 2>>}) EXCEPT !.deviceLaunch = TRUE],
        GraphOf(2, {<<1, 0>>}), GraphOf(2, {<<0, 1>>}),
        GraphOf(5, {<<1, 3>>, <<2, 3>>, <<3, 4>>, <<3, 5>>})}

SmallGraphs == UpTo3 \cup Of4 \cup Odd
============================================================================
