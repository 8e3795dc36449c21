--------------------------- MODULE GraphScheduler ---------------------------
(***************************************************************************)
(* CUDA graphs in a best-effort process (graph_scheduler.c), composed with *)
(* its admission controller: recording an instantiated graph, forgetting   *)
(* and updating it, and launching it, as a whole or as the graphlets       *)
(* GraphBuild makes of it.  Every launch of a graph or a graphlet is a      *)
(* launch of BeAdmission with the executable graph as its signature and    *)
(* the number of nodes as its blocks.                                      *)
(*                                                                         *)
(* g_graph_lock is held across all graphlets of a split launch, and        *)
(* g_be_event_lock is taken inside it.  The driver's side of an executable *)
(* graph is a version: every update of the graph makes a new one.          *)
(***************************************************************************)
EXTENDS BeAdmission, Sequences, Functions

CONSTANTS
  Execs,         \* handles of executable graphs
  NoExec,
  GraphletsOf,   \* node counts of the graphlets of a handle's graph; none: it
                 \* is not splittable
  BuildMayFail,  \* may graph_build_graphlets fail on a splittable graph
  MaxCalls       \* bound: calls of the program

Graphlet(e, i) == <<e, i>>

ASSUME ExecAssumption ==
  /\ NoExec \notin Execs
  /\ GraphletsOf \in [Execs -> Seq(Nat \ {0})]
  /\ \A e \in Execs :
       /\ e \in Kernels
       /\ \A i \in DOMAIN GraphletsOf[e] :
            /\ Graphlet(e, i) \in Kernels
            /\ BlocksOf[Graphlet(e, i)] = GraphletsOf[e][i]
ASSUME GraphBoundAssumption == MaxCalls \in Nat /\ BuildMayFail \in BOOLEAN

VARIABLES
  graphLock,  \* g_graph_lock: its holder
  gpc,        \* where each thread is in a graph call
  gcall,      \* its arguments and locals
  metas,      \* g_graph_metadata: the list, by handle
  driver,     \* environment: the version of every executable graph
  outcome,    \* what the driver's launch returned to the thread
  units,      \* what every launch in flight is: a history variable
  calls       \* calls of the program so far

graphVars == <<graphLock, gpc, gcall, metas, driver, outcome, units, calls>>
gvars == <<vars, graphVars>>

NoCall == [exec |-> NoExec, index |-> 0, handle |-> NoStream]
NoMeta == [known |-> FALSE, splittable |-> FALSE, version |-> 0]
Plain  == [exec |-> NoExec, index |-> 0, thread |-> NoThread]

GInit ==
  /\ Init
  /\ graphLock = NoThread
  /\ gpc = [t \in Threads |-> "none"]
  /\ gcall = [t \in Threads |-> NoCall]
  /\ metas = [e \in Execs |-> NoMeta]
  /\ driver = [e \in Execs |-> 0]
  /\ outcome = [t \in Threads |-> "ok"]
  /\ units = << >>
  /\ calls = 0

GGoto(t, label) == gpc' = [gpc EXCEPT ![t] = label]
Return(t) == GGoto(t, "none") /\ gcall' = [gcall EXCEPT ![t] = NoCall]

\* The program calls, when the thread is in no other call.
Call(t, e, h, label) ==
  /\ gpc[t] = "none" /\ pc[t] = "idle"
  /\ calls < MaxCalls
  /\ calls' = calls + 1
  /\ gcall' = [gcall EXCEPT ![t] = [exec |-> e, index |-> 1, handle |-> h]]
  /\ GGoto(t, label)

\* A program may not update or destroy an executable graph that is in use in
\* another call, nor launch it meanwhile; launches of it may overlap.
NotInUse(e)   == \A t \in Threads : gcall[t].exec # e
NotInChange(e) ==
  \A t \in Threads :
    gcall[t].exec = e => gpc[t] \notin {"record", "invalidate", "forget", "destroy"}

---------------------------------------------------------------------------
(* The list of executable graphs. *)

\* cuGraphInstantiate and its variants: the driver's call ...
Instantiate(t, e) ==
  /\ driver[e] = 0 /\ NotInUse(e)
  /\ Call(t, e, NoStream, "record")
  /\ driver' = [driver EXCEPT ![e] = calls + 1]
  /\ UNCHANGED <<vars, graphLock, metas, outcome, units>>

\* ... then lilt_graph_record, which replaces what the list has of the handle.
Record(t) ==
  LET e == gcall[t].exec IN
  /\ gpc[t] = "record" /\ graphLock = NoThread
  /\ \E built \in BOOLEAN :
       /\ built => GraphletsOf[e] # << >>
       /\ built \/ GraphletsOf[e] = << >> \/ BuildMayFail
       /\ metas' = [metas EXCEPT ![e] =
            [known |-> TRUE, splittable |-> built, version |-> driver[e]]]
  /\ Return(t)
  /\ UNCHANGED <<vars, graphLock, driver, outcome, units, calls>>

\* cuGraphExecUpdate, cuGraphNodeSetEnabled and the SetParams calls the library
\* exports: the driver's call, when it succeeds, ...
Update(t, e) ==
  /\ driver[e] > 0 /\ NotInUse(e)
  /\ Call(t, e, NoStream, "invalidate")
  /\ driver' = [driver EXCEPT ![e] = calls + 1]
  /\ UNCHANGED <<vars, graphLock, metas, outcome, units>>

\* ... then lilt_graph_invalidate: from now on the graph is launched whole.
InvalidateNothing(t) ==        \* mutant: the graphlets are kept
  /\ gpc[t] = "invalidate" /\ graphLock = NoThread
  /\ Return(t)
  /\ UNCHANGED <<vars, graphLock, metas, driver, outcome, units, calls>>
Invalidate(t) ==
  /\ gpc[t] = "invalidate" /\ graphLock = NoThread
  /\ metas' = [metas EXCEPT ![gcall[t].exec].splittable = FALSE]
  /\ Return(t)
  /\ UNCHANGED <<vars, graphLock, driver, outcome, units, calls>>

\* cuGraphExecDestroy: lilt_graph_forget, then the driver's call.
Destroy(t, e) ==
  /\ driver[e] > 0 /\ NotInUse(e)
  /\ Call(t, e, NoStream, "forget")
  /\ UNCHANGED <<vars, graphLock, metas, driver, outcome, units>>

Forget(t) ==
  /\ gpc[t] = "forget" /\ graphLock = NoThread
  /\ metas' = [metas EXCEPT ![gcall[t].exec] = NoMeta]
  /\ GGoto(t, "destroy")
  /\ UNCHANGED <<vars, graphLock, gcall, driver, outcome, units, calls>>

DriverDestroy(t) ==
  /\ gpc[t] = "destroy"
  /\ driver' = [driver EXCEPT ![gcall[t].exec] = 0]
  /\ Return(t)
  /\ UNCHANGED <<vars, graphLock, metas, outcome, units, calls>>

---------------------------------------------------------------------------
(* lilt_graph_launch. *)

GraphLaunch(t, e, h) ==
  /\ driver[e] > 0 /\ NotInChange(e)
  /\ Call(t, e, h, "enter")
  /\ UNCHANGED <<vars, graphLock, metas, driver, outcome, units>>

EnterSplit(t) ==
  /\ gpc[t] = "enter" /\ graphLock = NoThread
  /\ metas[gcall[t].exec].splittable
  /\ graphLock' = t
  /\ GGoto(t, "graphlet")
  /\ UNCHANGED <<vars, gcall, metas, driver, outcome, units, calls>>

EnterWhole(t) ==
  /\ gpc[t] = "enter" /\ graphLock = NoThread
  /\ ~metas[gcall[t].exec].splittable
  /\ GGoto(t, "whole")
  /\ UNCHANGED <<vars, graphLock, gcall, metas, driver, outcome, units, calls>>

\* The next graphlet, or the whole graph, goes through the admission controller.
StartUnit(t) ==
  LET c == gcall[t] IN
  /\ \/ /\ gpc[t] = "graphlet"
        /\ Begin(t, Graphlet(c.exec, c.index), c.handle)
        /\ GGoto(t, "graphlet_out")
     \/ /\ gpc[t] = "whole"
        /\ Begin(t, c.exec, c.handle)
        /\ GGoto(t, "whole_out")
  /\ UNCHANGED <<graphLock, gcall, metas, driver, outcome, units, calls>>

\* A graphlet that was launched is followed by a completion boundary, and so
\* is a whole graph, launched or refused.
StartBoundarySkipped(t) ==     \* mutant: no boundary between graphlets
  /\ gpc[t] = "graphlet_out" /\ outcome[t] = "ok" /\ pc[t] = "idle"
  /\ GGoto(t, "graphlet_boundary")
  /\ UNCHANGED <<vars, graphLock, gcall, metas, driver, outcome, units, calls>>
StartBoundary(t) ==
  /\ \/ /\ gpc[t] = "graphlet_out" /\ outcome[t] = "ok"
        /\ GGoto(t, "graphlet_boundary")
     \/ /\ gpc[t] = "whole_out"
        /\ GGoto(t, "whole_boundary")
  /\ BeginBoundary(t)
  /\ UNCHANGED <<graphLock, gcall, metas, driver, outcome, units, calls>>

\* A graphlet the driver refuses ends the launch.
GraphletRefusedLocked(t) ==    \* mutant: the early return keeps the lock
  /\ gpc[t] = "graphlet_out" /\ pc[t] = "idle" /\ outcome[t] = "failed"
  /\ Return(t)
  /\ UNCHANGED <<vars, graphLock, metas, driver, outcome, units, calls>>
GraphletRefused(t) ==
  /\ gpc[t] = "graphlet_out" /\ pc[t] = "idle" /\ outcome[t] = "failed"
  /\ graphLock' = NoThread
  /\ Return(t)
  /\ UNCHANGED <<vars, metas, driver, outcome, units, calls>>

NextGraphlet(t) ==
  /\ gpc[t] = "graphlet_boundary" /\ pc[t] = "idle"
  /\ gcall[t].index < Len(GraphletsOf[gcall[t].exec])
  /\ gcall' = [gcall EXCEPT ![t].index = @ + 1]
  /\ GGoto(t, "graphlet")
  /\ UNCHANGED <<vars, graphLock, metas, driver, outcome, units, calls>>

LastGraphlet(t) ==
  /\ gpc[t] = "graphlet_boundary" /\ pc[t] = "idle"
  /\ gcall[t].index = Len(GraphletsOf[gcall[t].exec])
  /\ graphLock' = NoThread
  /\ Return(t)
  /\ UNCHANGED <<vars, metas, driver, outcome, units, calls>>

WholeReturns(t) ==
  /\ gpc[t] = "whole_boundary" /\ pc[t] = "idle"
  /\ Return(t)
  /\ UNCHANGED <<vars, graphLock, metas, driver, outcome, units, calls>>

---------------------------------------------------------------------------
(* The other launches of the process, and the steps of the controller. *)

KernelLaunch(t, k, h) ==
  /\ gpc[t] = "none"
  /\ calls < MaxCalls
  /\ calls' = calls + 1
  /\ Begin(t, k, h)
  /\ UNCHANGED <<graphLock, gpc, gcall, metas, driver, outcome, units>>

\* What the thread is launching.
Unit(t) ==
  CASE gpc[t] = "graphlet_out" ->
         [exec |-> gcall[t].exec, index |-> gcall[t].index, thread |-> t]
    [] gpc[t] = "whole_out" -> [exec |-> gcall[t].exec, index |-> 0, thread |-> t]
    [] OTHER -> Plain

\* The driver's launch leaves "issue" for "after" when it succeeds.
Controller(t) ==
  /\ Work(t)
  /\ IF pc[t] = "issue"
     THEN /\ outcome' = [outcome EXCEPT ![t] = IF pc'[t] = "after" THEN "ok" ELSE "failed"]
          /\ units' = IF pc'[t] = "after"
                      THEN [id \in DOMAIN units \cup {launches'} |->
                              IF id \in DOMAIN units THEN units[id] ELSE Unit(t)]
                      ELSE units
     ELSE UNCHANGED <<outcome, units>>
  /\ UNCHANGED <<graphLock, gpc, gcall, metas, driver, calls>>

DeviceCompletes(q) ==
  /\ Complete(q)
  /\ units' = Restrict(units, DOMAIN units \ {q.id})
  /\ UNCHANGED <<graphLock, gpc, gcall, metas, driver, outcome, calls>>

GraphWork(t) ==
  \/ Record(t) \/ Invalidate(t) \/ Forget(t) \/ DriverDestroy(t)
  \/ EnterSplit(t) \/ EnterWhole(t) \/ StartUnit(t) \/ StartBoundary(t)
  \/ GraphletRefused(t) \/ NextGraphlet(t) \/ LastGraphlet(t) \/ WholeReturns(t)

PlainKernels == Kernels \ (Execs \cup (Execs \X Nat))

GNext ==
  \/ \E t \in Threads :
       \/ \E e \in Execs : Instantiate(t, e) \/ Update(t, e) \/ Destroy(t, e)
       \/ \E e \in Execs, h \in Handles : GraphLaunch(t, e, h)
       \/ \E k \in PlainKernels, h \in Handles : KernelLaunch(t, k, h)
       \/ GraphWork(t)
       \/ Controller(t)
  \/ \E q \in inflight : DeviceCompletes(q)
  \/ HpStep /\ UNCHANGED graphVars

GSpec == GInit /\ [][GNext]_gvars

\* The controller's fairness, and threads inside a graph call go on when they can.
GFairness ==
  /\ \A t \in Threads : WF_gvars(Controller(t)) /\ WF_gvars(GraphWork(t))
  /\ WF_gvars(\E q \in inflight : DeviceCompletes(q))

LiveGSpec == GSpec /\ GFairness

---------------------------------------------------------------------------
(* Properties. *)

\* The variables of the scheduler have their types, and a launch in progress
\* stays within the graphlets of its graph.
GraphTypeOK ==
  /\ graphLock \in Threads \cup {NoThread}
  /\ gpc \in [Threads -> {"none", "record", "invalidate", "forget", "destroy",
                          "enter", "graphlet", "graphlet_out", "graphlet_boundary",
                          "whole", "whole_out", "whole_boundary"}]
  /\ gcall \in [Threads -> [exec : Execs \cup {NoExec}, index : Nat,
                            handle : Handles \cup {NoStream}]]
  /\ \A t \in Threads :
       gpc[t] \in {"graphlet", "graphlet_out", "graphlet_boundary"} =>
         gcall[t].index \in DOMAIN GraphletsOf[gcall[t].exec]
  /\ metas \in [Execs -> [known : BOOLEAN, splittable : BOOLEAN, version : Nat]]
  /\ driver \in [Execs -> Nat]
  /\ outcome \in [Threads -> {"ok", "failed"}]
  /\ DOMAIN units = {q.id : q \in inflight}

IsGraphlet(q) == units[q.id].index > 0
IsWhole(q)    == units[q.id].exec # NoExec /\ units[q.id].index = 0

\* "A hard completion boundary prevents later graphlets from becoming
\* irrevocably queued before a new HP arrival is seen": two admitted graphlets
\* are never on the device together, of one launch or of two, unless the waits for
\* the first one failed and the ring gave it up (GiveUp of BeAdmission).
GraphletsOneByOne ==
  \A q, r \in Windowed : IsGraphlet(q) /\ IsGraphlet(r) => q = r

\* The types, and the boundary between graphlets (lilt_graph_launch_impl).
BoundaryHolds == GraphTypeOK /\ GraphletsOneByOne

\* A graphlet that reaches the device is part of what the executable graph is
\* at that moment: not of an older version, and not destroyed.
GraphletsAreCurrent ==
  [][\A t \in Threads :
       pc[t] = "issue" /\ pc'[t] = "after" /\ gpc[t] = "graphlet_out" =>
         LET e == gcall[t].exec IN
         /\ metas[e].splittable
         /\ driver[e] > 0 /\ metas[e].version = driver[e]]_gvars

\* A graph call returns when the graph is done: no admitted unit of the thread
\* is on the device any more, however its tracking went, but one that the ring
\* gave up because the waits for it failed.
GraphCallWaits ==
  [][\A t \in Threads :
       gpc[t] # "none" /\ gpc'[t] = "none" =>
         \A q \in Windowed : units[q.id].thread # t]_gvars

\* "An opaque or unsupported BE Graph must remain a singleton": an admitted
\* whole graph shares the device with no other admitted launch.
WholeGraphIsSingleton ==
  \A q \in Windowed : IsWhole(q) => Windowed = {q}

\* Once the HP stays idle or stays away, every graph call returns: the two locks,
\* one held across waits under the other, block nobody for ever.
GraphCallsReturn ==
  <>[](hp = "idle") \/ <>[](hp = "none") =>
    \A t \in Threads : (gpc[t] # "none") ~> (gpc[t] = "none")
============================================================================
