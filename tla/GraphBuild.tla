----------------------------- MODULE GraphBuild -----------------------------
(***************************************************************************)
(* How graph_build_graphlets (graph_scheduler.c) divides a CUDA graph into *)
(* graphlets: it reads the graph, places its nodes in layers, collects     *)
(* consecutive layers into groups, and makes an executable graph of each   *)
(* group by cloning the whole graph and pruning the other nodes.           *)
(*                                                                         *)
(* One build runs in one thread on its own data; the driver's calls may    *)
(* fail.  The graph is any of Graphs, cyclic and malformed ones included.  *)
(* The indegree of a node is kept as the edges into it whose source has    *)
(* not been placed.  What the driver has made for the build is kept apart  *)
(* from what the array of graphlets says of it: the one is in objects and  *)
(* runs, the other in groups.                                              *)
(***************************************************************************)
EXTENDS Integers, Sequences, FiniteSets

CONSTANTS
  Graphs,     \* the graphs a program may instantiate
  MaxNodes,   \* LILT_EVENT_BE_GRAPHLET_MAX_NODES
  MayFail     \* may the driver's calls fail

\* A graph lists its nodes; an end of an edge that is not in the list is 0.
Nodes(g) == 1 .. g.size
SupportedTypes == {"kernel", "memcpy", "memset", "empty"}

ASSUME GraphAssumption ==
  \A g \in Graphs :
    /\ g.size \in Nat
    /\ g.edges \subseteq (0 .. g.size) \X (0 .. g.size)
    /\ g.types \in [Nodes(g) -> SupportedTypes \cup {"other"}]
    /\ g.deviceLaunch \in BOOLEAN
ASSUME MaxNodesAssumption == MaxNodes \in Nat \ {0}
ASSUME MayFailAssumption == MayFail \in BOOLEAN

VARIABLES
  graph,       \* the graph that is built
  destroyers,  \* environment: the kinds of object the driver can destroy
  pc,
  pending,     \* edges whose source is not placed: indegree
  layers,      \* layer of every node that is placed
  layerCount,
  counted,     \* graphlet_count, of the first pass over the layers
  first, layer, accumulated,  \* locals of the two passes over the layers
  index,       \* graphlet_index of the second pass, group of the cloning loop
  groups,      \* metadata->graphlets
  clone,       \* environment: the nodes left in the clone that is pruned
  objects,     \* environment: the graphs and executable graphs that exist
  runs,        \* environment: the nodes of the executable of every group
  reason       \* metadata->fallback_reason

readVars  == <<graph, destroyers>>
layerVars == <<pending, layers, layerCount>>
passVars  == <<counted, first, layer, accumulated>>
groupVars == <<index, groups>>
cloneVars == <<clone, objects, runs>>

vars == <<readVars, pc, layerVars, passVars, groupVars, cloneVars, reason>>

Kinds == {"graph", "exec"}

Placed     == DOMAIN layers
Unplaced   == Nodes(graph) \ Placed
InLayer(l) == {v \in Placed : layers[v] = l}

Init ==
  /\ graph \in Graphs
  /\ destroyers \in IF MayFail THEN SUBSET Kinds ELSE {Kinds}
  /\ pc = "read"
  /\ pending = {} /\ layers = << >> /\ layerCount = 0
  /\ counted = 0 /\ first = 0 /\ layer = 0 /\ accumulated = 0
  /\ index = 1 /\ groups = << >>
  /\ clone = {} /\ objects = {} /\ runs = << >>
  /\ reason = "none"

\* graph_set_fallback: the graph is launched as a whole.
FallBack(why) ==
  /\ reason' = why
  /\ pc' = "whole"

---------------------------------------------------------------------------
(* Reading the graph. *)

Foreign(e) == e[2] \notin Nodes(graph)

Read ==
  /\ pc = "read"
  /\ graph.size > 0 /\ ~graph.deviceLaunch
  /\ \A v \in Nodes(graph) : graph.types[v] \in SupportedTypes
  /\ \A e \in graph.edges : ~Foreign(e)
  /\ pending' = graph.edges
  /\ pc' = "layer"
  /\ UNCHANGED <<readVars, layers, layerCount, passVars, groupVars, cloneVars,
                 reason>>

ReadRefused ==
  /\ pc = "read"
  /\ \/ graph.size = 0 /\ FallBack("empty_or_unreadable")
     \/ graph.size > 0 /\ graph.deviceLaunch /\ FallBack("device_launch")
     \/ /\ graph.size > 0 /\ ~graph.deviceLaunch
        /\ \E v \in Nodes(graph) : graph.types[v] \notin SupportedTypes
        /\ FallBack("unsupported_node")
     \/ /\ graph.size > 0 /\ ~graph.deviceLaunch
        /\ \A v \in Nodes(graph) : graph.types[v] \in SupportedTypes
        /\ \E e \in graph.edges : Foreign(e)
        /\ FallBack("foreign_edge")
  /\ UNCHANGED <<readVars, layerVars, passVars, groupVars, cloneVars>>

ReadFails ==
  /\ pc = "read" /\ MayFail
  /\ \E why \in {"missing_driver_api", "empty_or_unreadable",
                 "allocation_failure", "node_query_failure",
                 "unsupported_node", "edge_query_failure"} : FallBack(why)
  /\ UNCHANGED <<readVars, layerVars, passVars, groupVars, cloneVars>>

---------------------------------------------------------------------------
(* Layers: a round of the loop places the nodes that wait for no edge. *)

Ready == {v \in Unplaced : \A e \in pending : e[2] # v}

PlaceAfterAny ==               \* mutant: one placed predecessor is enough
  Ready \cup {v \in Unplaced : \E e \in graph.edges \ pending : e[2] = v}
PlaceFirst ==                  \* mutant: the round ends at its first node
  IF Ready = {} THEN {} ELSE {CHOOSE v \in Ready : TRUE}
PlaceRound == Ready

PlaceLayer ==
  /\ pc = "layer" /\ Unplaced # {} /\ PlaceRound # {}
  /\ layers' = [v \in Placed \cup PlaceRound |->
                  IF v \in Placed THEN layers[v] ELSE layerCount]
  /\ pending' = {e \in pending : e[1] \notin PlaceRound}
  /\ layerCount' = layerCount + 1
  /\ UNCHANGED <<readVars, pc, passVars, groupVars, cloneVars, reason>>

NoneReadyLoops == FALSE        \* mutant: an empty round is not noticed
NoneReady ==
  /\ pc = "layer" /\ Unplaced # {} /\ PlaceRound = {}
  /\ FallBack("cyclic_or_invalid_dag")
  /\ UNCHANGED <<readVars, layerVars, passVars, groupVars, cloneVars>>

AllPlaced ==
  /\ pc = "layer" /\ Unplaced = {}
  /\ pc' = "count"
  /\ UNCHANGED <<readVars, layerVars, passVars, groupVars, cloneVars, reason>>

---------------------------------------------------------------------------
(* Groups: a layer joins the group before it unless that one gets too big.  *)
(* A first pass over the layers counts the groups, to make the array, and a *)
(* second one fills it.                                                     *)

ClosesGroup(nodes) == accumulated # 0 /\ accumulated + nodes > MaxNodes

LayerSize == Cardinality(InLayer(layer))

CountLayer ==
  /\ pc = "count" /\ layer < layerCount
  /\ counted' = counted + (IF ClosesGroup(LayerSize) THEN 1 ELSE 0)
  /\ accumulated' = LayerSize + (IF ClosesGroup(LayerSize) THEN 0 ELSE accumulated)
  /\ layer' = layer + 1
  /\ UNCHANGED <<readVars, pc, layerVars, first, groupVars, cloneVars, reason>>

GroupCountClosed == counted    \* mutant: the group still open is not counted
GroupCount == counted + (IF accumulated # 0 THEN 1 ELSE 0)

\* calloc: a group's graph and executable are NULL until they are made.
Blank == [first |-> 0, last |-> 0, nodes |-> 0, made |-> {}]

MakeArray ==
  /\ pc = "count" /\ layer = layerCount
  /\ counted' = GroupCount
  /\ groups' = [i \in 1 .. GroupCount |-> Blank]
  /\ first' = 0 /\ layer' = 0 /\ accumulated' = 0
  /\ pc' = "group"
  /\ UNCHANGED <<readVars, layerVars, index, cloneVars, reason>>

NoRoomForGroups ==
  /\ pc = "count" /\ layer = layerCount /\ MayFail
  /\ FallBack("allocation_failure")
  /\ UNCHANGED <<readVars, layerVars, passVars, groupVars, cloneVars>>

Group(from, to, count) ==
  [first |-> from, last |-> to, nodes |-> count, made |-> {}]

AddLayer ==
  /\ pc = "group" /\ layer < layerCount
  /\ IF ClosesGroup(LayerSize)
     THEN /\ groups' = [groups EXCEPT ![index] = Group(first, layer - 1, accumulated)]
          /\ index' = index + 1
          /\ first' = layer
          /\ accumulated' = LayerSize
     ELSE /\ accumulated' = accumulated + LayerSize
          /\ UNCHANGED <<groupVars, first>>
  /\ layer' = layer + 1
  /\ UNCHANGED <<readVars, pc, layerVars, counted, cloneVars, reason>>

LastGroup ==
  /\ pc = "group" /\ layer = layerCount
  /\ groups' = [groups EXCEPT ![index] = Group(first, layerCount - 1, accumulated)]
  /\ index' = 1
  /\ pc' = "clone"
  /\ UNCHANGED <<readVars, layerVars, passVars, cloneVars, reason>>

---------------------------------------------------------------------------
(* Graphlets: for each group a clone of the graph, the nodes of the other   *)
(* layers destroyed in it one at a time, and its instantiation.             *)

CloneGraph ==
  /\ pc = "clone" /\ index <= Len(groups)
  /\ objects' = objects \cup {<<"graph", index>>}
  /\ groups' = [groups EXCEPT ![index].made = {"graph"}]
  /\ clone' = Nodes(graph)
  /\ pc' = "prune"
  /\ UNCHANGED <<readVars, layerVars, passVars, index, runs, reason>>

OutsideBefore ==               \* mutant: the later layers stay
  {v \in clone : layers[v] < groups[index].first}
Outside ==
  {v \in clone : layers[v] < groups[index].first \/ layers[v] > groups[index].last}

PruneNode ==
  /\ pc = "prune"
  /\ \E v \in Outside : clone' = clone \ {v}
  /\ UNCHANGED <<readVars, pc, layerVars, passVars, groupVars, objects, runs, reason>>

Instantiate ==
  /\ pc = "prune" /\ Outside = {}
  /\ objects' = objects \cup {<<"exec", index>>}
  /\ groups' = [groups EXCEPT ![index].made = Kinds]
  /\ runs' = Append(runs, clone)
  /\ index' = index + 1
  /\ pc' = "clone"
  /\ UNCHANGED <<readVars, layerVars, passVars, clone, reason>>

AllBuilt ==
  /\ pc = "clone" /\ index > Len(groups)
  /\ pc' = "split"
  /\ UNCHANGED <<readVars, layerVars, passVars, groupVars, cloneVars, reason>>

\* graph_destroy_graphlets: what the array names, where the driver has a
\* function that destroys it.
NamedIfBuilt ==                \* mutant: a clone with no executable is kept
  {o \in Kinds \X (DOMAIN groups) : groups[o[2]].made = Kinds}
Named == {o \in Kinds \X (DOMAIN groups) : o[1] \in groups[o[2]].made}

DestroyGraphlets ==
  /\ objects' = objects \ {o \in Named : o[1] \in destroyers}
  /\ groups' = << >>

\* A failure in the middle of a graphlet, before its clone exists or after.
GraphletFails ==
  /\ MayFail
  /\ \/ pc = "clone" /\ index <= Len(groups) /\ FallBack("clone_failure")
     \/ /\ pc = "prune" /\ clone = Nodes(graph)
        /\ \E why \in {"allocation_failure", "clone_mapping_failure"} : FallBack(why)
     \/ pc = "prune" /\ Outside # {} /\ FallBack("clone_prune_failure")
     \/ pc = "prune" /\ Outside = {} /\ FallBack("graphlet_instantiate_failure")
  /\ DestroyGraphlets
  /\ UNCHANGED <<readVars, layerVars, passVars, index, clone, runs>>

Next ==
  \/ Read \/ ReadRefused \/ ReadFails
  \/ PlaceLayer \/ NoneReady \/ AllPlaced
  \/ CountLayer \/ MakeArray \/ NoRoomForGroups \/ AddLayer \/ LastGroup
  \/ CloneGraph \/ PruneNode \/ Instantiate \/ GraphletFails \/ AllBuilt

Spec == Init /\ [][Next]_vars /\ WF_vars(Next)

---------------------------------------------------------------------------
(* Properties. *)

GroupType == [first : Nat, last : Nat, nodes : Nat, made : SUBSET Kinds]

\* The locals have their types, the pending edges are edges of the graph, and
\* the second pass never writes past the array that the first one sized.
TypeOK ==
  /\ graph \in Graphs /\ destroyers \subseteq Kinds
  /\ pc \in {"read", "layer", "count", "group", "clone", "prune", "split", "whole"}
  /\ pending \subseteq graph.edges
  /\ Placed \subseteq Nodes(graph)
  /\ layers \in [Placed -> Nat]
  /\ layerCount \in Nat /\ counted \in Nat
  /\ first \in Nat /\ layer \in Nat /\ accumulated \in Nat
  /\ index \in Nat \ {0}
  /\ groups \in Seq(GroupType)
  /\ pc \in {"group", "prune"} => index \in DOMAIN groups
  /\ clone \subseteq Nodes(graph)
  /\ runs \in Seq(SUBSET Nodes(graph))

\* The nodes a group is to run, by its layers.
Graphlet(i) == {v \in Placed : layers[v] \in groups[i].first .. groups[i].last}

\* A split graph runs every node once: each node is left in exactly one of the
\* executables made of the graph's clones (no group of the array is forgotten
\* by the pass that fills it, and pruning takes all the other nodes).
EveryNodeOnce ==
  pc = "split" =>
    \A v \in Nodes(graph) :
      \E i \in DOMAIN groups :
        /\ v \in runs[i]
        /\ \A j \in DOMAIN groups : v \in runs[j] => j = i

\* Graphlets launched in order respect the graph's dependencies: an edge stays
\* within an executable, whose clone has it too, or leads to a later one.
EdgesLeadForward ==
  pc = "split" =>
    \A e \in graph.edges :
      \E i, j \in DOMAIN groups :
        i <= j /\ e[1] \in runs[i] /\ e[2] \in runs[j]

\* A graphlet has no more nodes than the limit, unless one layer alone has.
GraphletsWithinLimit ==
  pc \in {"clone", "prune", "split"} =>
    \A i \in DOMAIN groups :
      /\ groups[i].nodes = Cardinality(Graphlet(i))
      /\ groups[i].nodes > 0
      /\ groups[i].nodes <= MaxNodes \/ groups[i].first = groups[i].last

\* No object of the driver is lost, whichever of the calls that make, prune and
\* instantiate the clones fails: a graph that falls back leaves only objects
\* the driver has no function to destroy; a graph that is split has one clone
\* and one executable for every graphlet, and the array names them all.
NoObjectLeaks ==
  /\ pc = "whole" => \A o \in objects : o[1] \notin destroyers
  /\ pc = "split" =>
       /\ objects = Kinds \X (DOMAIN groups)
       /\ \A i \in DOMAIN groups : groups[i].made = Kinds

\* What is refused as cyclic is: some nodes all wait for each other, or for a
\* node that is not of the graph.
CyclicMeansCyclic ==
  reason = "cyclic_or_invalid_dag" =>
    \E S \in SUBSET Nodes(graph) :
      /\ S # {}
      /\ \A v \in S : \E u \in S \cup {0} : <<u, v>> \in graph.edges

\* The length of the longest path that leads to a node.
Before(v) == {u \in Nodes(graph) : <<u, v>> \in graph.edges}
Depth[v \in Nodes(graph)] ==
  IF Before(v) = {} THEN 0
  ELSE CHOOSE d \in 1 .. graph.size :
         /\ \E u \in Before(v) : d = Depth[u] + 1
         /\ \A u \in Before(v) : d >= Depth[u] + 1

\* The layer of a node is its depth: no node waits longer than for the nodes
\* before it.
LayersAreDepths ==
  pc \in {"count", "group", "clone", "prune", "split"} => layers = Depth

\* The three passes of graph_build_graphlets agree with their definitions: the
\* layers with the depths, a refusal with a cycle, the groups with the limit.
PassesExact == LayersAreDepths /\ CyclicMeansCyclic /\ GraphletsWithinLimit

\* The build ends: every round of its loop places a node.
BuildEnds == <>(pc \in {"split", "whole"})
============================================================================
