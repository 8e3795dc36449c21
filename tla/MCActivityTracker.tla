------------------------- MODULE MCActivityTracker -------------------------
(* Small instances of ActivityTracker for TLC.                             *)
EXTENDS ActivityTracker, TLC

CONSTANTS h1, h2, b1, b2

OneHp    == {h1}
TwoHps   == {h1, h2}
OneBe    == {b1}
TwoBes   == {b1, b2}
None     == {}
Child    == {h2}
AnyOf1   == {h1, b1, b2}
Failing  == {h1, b1}
Symmetry == Permutations(TwoBes)
============================================================================
