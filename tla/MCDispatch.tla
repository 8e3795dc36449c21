---------------------------- MODULE MCDispatch ----------------------------
(* A small instance of Dispatch for TLC.                                   *)
EXTENDS Dispatch

CONSTANTS t1, t2

TwoThreads == {t1, t2}

OneAndTwo  == (t1 :> 1) @@ (t2 :> 2)

Each(a, b) == (t1 :> a) @@ (t2 :> b)

\* A thread of a BE that links to the launches, and another that loads.
Linked ==
  [role    |-> Each("be", "be"),
   policy  |-> "event",
   library |-> "found",
   exports |-> Functions,
   alias   |-> FALSE,
   handles |-> {"default"},
   lookups |-> Each({}, {}),
   links   |-> Each({Fn("cuLaunchKernel"), Fn("cuLaunchKernelEx"), Ptsz("cuGraphLaunch"),
                     Fn("cuLaunchGrid"), MultiDevice, Fn("cuMemcpy"), Fn("cuDeviceGet")},
                    {Fn("nvmlDeviceGetCount")}),
   memory  |-> FALSE,
   fatal   |-> TRUE,
   ranges  |-> {}]

LinkedHp == [Linked EXCEPT !.role = Each("hp", "hp")]

\* A process of each role, under the other policies.
Tgs    == [Linked EXCEPT !.role = Each("be", "hp"), !.policy = "tgs"]
Passes == [Linked EXCEPT !.role = Each("hp", "be"), !.policy = "passthrough"]

\* A thread that looks its functions up, in a driver that returns the
\* addresses it exports or others, or is older than some functions.
LooksUp ==
  [Linked EXCEPT
     !.lookups = Each(GetProcs \cup {Fn("cuLaunchKernel"), Ptsz("cuLaunchKernel"),
                        Fn("cuLaunchKernelEx"), Fn("cuLaunchGrid"), Fn("cuMemcpy"),
                        Fn("cuGraphInstantiate"), Fn("cuGraphInstantiate_v2"),
                        Fn("cuGraphExecUpdate")}, {}),
     !.links = Each({}, {}), !.fatal = FALSE]

Aliases == [LooksUp EXCEPT !.alias = TRUE, !.role = Each("hp", "hp")]
Older   == [LooksUp EXCEPT !.exports = @ \ {Fn("cuGetProcAddress_v2"), Fn("cuLaunchKernelEx"),
                                           Fn("cuGraphExecUpdate_v2"), Fn("cuMemcpy")}]
Chained == [LooksUp EXCEPT !.handles = {"default", "next"}]

\* A driver that cannot be loaded.
Refused(why) == [Linked EXCEPT !.library = why]

\* Streams of both roles, on devices with six and with three priorities.
Streaming == [Linked EXCEPT !.role = Each("be", "hp"), !.links = Each({}, {}),
                            !.ranges = {<<0, -5>>, <<0, -2>>}]

\* Programs that allocate.
Allocating   == [Linked EXCEPT !.policy = "tgs", !.links = Each({}, {}), !.memory = TRUE,
                                !.fatal = FALSE]
AllocatingHp == [Allocating EXCEPT !.role = Each("hp", "hp")]

AllSetups ==
  {Linked, LinkedHp, Tgs, Passes, LooksUp, Aliases, Older, Chained, Streaming,
   Allocating, AllocatingHp}
  \cup {Refused(why) : why \in {"relative", "missing", "no nvml"}}
============================================================================
