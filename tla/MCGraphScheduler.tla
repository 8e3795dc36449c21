-------------------------- MODULE MCGraphScheduler --------------------------
(* Small instances of GraphScheduler for TLC: one graph that splits in two    *)
(* graphlets, one that does not split, and a kernel.                          *)
EXTENDS GraphScheduler, TLC

CONSTANTS t1, t2, k1, e1, e2, s1

TwoThreads  == {t1, t2}
OneStream   == {s1}
None        == {}
TwoExecs    == {e1, e2}
OneExec     == {e1}
SplitOne    == (e1 :> <<2, 1>>) @@ (e2 :> << >>)
SplitOnly   == e1 :> <<2, 1>>
WholeOnly   == e1 :> << >>
Units       == {k1, e1, e2, <<e1, 1>>, <<e1, 2>>}
UnitBlocks  == (k1 :> 4) @@ (e1 :> 3) @@ (e2 :> 3) @@ (<<e1, 1>> :> 2) @@ (<<e1, 2>> :> 1)
FewUnits    == {k1, e1, <<e1, 1>>, <<e1, 2>>}
FewBlocks   == (k1 :> 4) @@ (e1 :> 3) @@ (<<e1, 1>> :> 2) @@ (<<e1, 2>> :> 1)
WholeUnits  == {k1, e1}
WholeBlocks == (k1 :> 4) @@ (e1 :> 3)
Short       == {4}
LaunchFails == {"launch", "record"}
============================================================================
