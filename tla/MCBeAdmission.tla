--------------------------- MODULE MCBeAdmission ---------------------------
(* Small instances of BeAdmission for TLC.                                 *)
EXTENDS BeAdmission, TLC

CONSTANTS t1, t2, k1, k2, s1, s2

TwoThreads == {t1, t2}
TwoKernels == {k1, k2}
Blocks     == (k1 :> 4) @@ (k2 :> 7)
TwoStreams == {s1, s2}
OneStream  == {s1}
SecondStream == {s2}
None       == {}
EventFaults  == {"launch", "sample", "record", "sync"}
WaitFaults   == {"launch", "record", "sync", "fallback"}
\* Learned predictions of 6, of which two fit a budget of 12.
Short      == {5}
\* Learned predictions of 5 and 11.
ShortLong  == {4, 9}
Symmetry   == Permutations(TwoThreads)
============================================================================
