--------------------------- MODULE MCRateControl ---------------------------
(* A small instance of RateControl for TLC.                                *)
EXTENDS RateControl

CONSTANTS t1, t2, h1, h2

\* An HP that slows down for good, one that wavers, one that falls silent,
\* and one that starts with nothing to report.
SlowsDown   == <<4000, 4000, 4000, 4000, 4000, 4000, 2800, 2800, 2800>>
Wavers      == <<0, 4000, 4000, 4000, 4000, 4000, 3840, 3840, 4000, 3840>>
FallsSilent == <<9000, 4000, 4000, 4000, 4000, 4000, 4000, 0, 0, 0>>
StartsSlow  == <<0, 0, 0, 0, 0, 4000, 4000, 4000, 4000>>
Short       == <<4000, 4000, 4000, 4000, 4000>>

Launches(n, m) == (t1 :> n) @@ (t2 :> m)
Both(r, q)     == (h1 :> r) @@ (h2 :> q)
Work(l, r)     == [launches |-> l, reports |-> r]

\* One thread against each report, an HP that follows another one, and two
\* threads that may both initialize the device.
MainWorkloads ==
  {Work(Launches(3, 0), Both(r, << >>)) :
     r \in {SlowsDown, Wavers, FallsSilent, StartsSlow}}
  \union {Work(Launches(1, 0), Both(SlowsDown, Short)),
          Work(Launches(1, 1), Both(Short, << >>))}

OneBlock == {1}
=============================================================================
