------------------------- MODULE GraphBuild_proofs -------------------------
(***************************************************************************)
(* Theorems about GraphBuild: for every graph, every limit, every driver   *)
(* and every failing call, a graph that is split runs every node once, and *)
(* its graphlets in the order of its edges; the layers are the depths of   *)
(* the nodes, a graphlet over the limit is one layer, a refusal names a    *)
(* cycle; the pass that fills the array of groups stays within what the    *)
(* pass before it counted; and no graph or executable that was made and    *)
(* can be destroyed is lost.                                               *)
(***************************************************************************)
EXTENDS GraphBuild, SumTheorems, FiniteSetTheorems, SequenceTheorems, TLAPS

USE GraphAssumption, MaxNodesAssumption, MayFailAssumption

---------------------------------------------------------------------------
(* The invariant of the layers. *)

\* The phases after the layers are complete.
Passes == {"count", "group", "clone", "prune", "split"}

LayerTypes ==
  /\ graph \in Graphs /\ destroyers \subseteq Kinds
  /\ pc \in {"read", "layer", "whole"} \cup Passes
  /\ pending \subseteq graph.edges
  /\ Placed \subseteq Nodes(graph)
  /\ layers \in [Placed -> Nat]
  /\ layerCount \in Nat

\* Placing nodes never runs ahead of the edges: what is still pending is what
\* leaves an unplaced node, and an edge into a placed node comes from a lower
\* layer.
LayersFollowEdges ==
  /\ \A v \in Placed : layers[v] < layerCount
  /\ pc = "read" => Placed = {}
  /\ pc \in {"layer"} \cup Passes =>
       /\ graph.size > 0
       /\ \A e \in graph.edges : e[2] \in Nodes(graph)
       /\ pending = {e \in graph.edges : e[1] \notin Placed}
       /\ \A e \in graph.edges :
            e[2] \in Placed => e[1] \in Placed /\ layers[e[1]] < layers[e[2]]
  /\ pc \in Passes => Placed = Nodes(graph)

\* Every round places a node, so there are never more layers than placed nodes.
LayersFull ==
  /\ pc = "read" => layerCount = 0
  /\ layerCount <= Cardinality(Placed)
  /\ \A l \in 0 .. layerCount - 1 : InLayer(l) # {}

\* A node of the layer before has an edge to v.
Tight(v, l) == \E u \in Placed : <<u, v>> \in graph.edges /\ layers[u] + 1 = l

\* A node is placed in the first round it is ready for: what waits until round
\* layerCount waited for a node of the round before.
LayersTight ==
  /\ \A v \in Placed : layers[v] = 0 \/ Tight(v, layers[v])
  /\ pc = "layer" => \A v \in Ready : layerCount = 0 \/ Tight(v, layerCount)

LInv == LayerTypes /\ LayersFollowEdges /\ LayersFull /\ LayersTight

\* Sets of nodes are finite.
LEMMA PlacedFinite ==
  ASSUME graph \in Graphs, Placed \subseteq Nodes(graph)
  PROVE  /\ IsFiniteSet(Nodes(graph)) /\ IsFiniteSet(Placed)
         /\ \A S \in SUBSET Placed : IsFiniteSet(S) /\ Cardinality(S) \in Nat
  <1>1. IsFiniteSet(Nodes(graph))
    <2>1. graph.size \in Nat
      OBVIOUS
    <2>2. IsFiniteSet(1 .. graph.size)
      BY <2>1, FS_Interval
    <2> QED
      BY <2>2 DEF Nodes
  <1>2. IsFiniteSet(Placed)
    BY <1>1, FS_Subset
  <1> QED
    BY <1>1, <1>2, FS_Subset, FS_CardinalityType

\* Nodes placed in a round: their edges come from nodes placed before.
LEMMA PlaceLayerFollows ==
  ASSUME LayerTypes, LayersFollowEdges, PlaceLayer
  PROVE  LayerTypes' /\ LayersFollowEdges'
  <1> USE DEF PlaceLayer, PlaceRound, readVars
  <1>1. /\ graph \in Graphs /\ graph' = graph /\ pc = "layer" /\ pc' = pc
        /\ Ready \subseteq Nodes(graph) \ Placed
        /\ Placed \subseteq Nodes(graph)
        /\ layers \in [Placed -> Nat] /\ layerCount \in Nat
    BY DEF LayerTypes, Ready, Unplaced
  <1>2. /\ Placed' = Placed \cup Ready
        /\ \A v \in Placed : layers'[v] = layers[v]
        /\ \A v \in Ready : layers'[v] = layerCount
        /\ \A v \in Placed : layers'[v] < layerCount
        /\ layers' \in [Placed' -> Nat]
    BY <1>1 DEF LayersFollowEdges, Placed
  <1>3. LayerTypes'
    BY <1>1, <1>2 DEF LayerTypes
  <1>4. pending' = {e \in graph.edges : e[1] \notin Placed'}
    BY <1>1, <1>2 DEF LayersFollowEdges
  <1>5. ASSUME NEW e \in graph.edges, e[2] \in Placed'
        PROVE  e[1] \in Placed' /\ layers'[e[1]] < layers'[e[2]]
    <2>1. CASE e[2] \in Placed
      BY <2>1, <1>1, <1>2 DEF LayersFollowEdges
    <2>2. CASE e[2] \in Ready
      <3>1. e \notin pending
        BY <2>2 DEF Ready
      <3>2. e[1] \in Placed
        BY <3>1, <1>1 DEF LayersFollowEdges
      <3> QED
        BY <3>2, <2>2, <1>2
    <2> QED
      BY <2>1, <2>2, <1>2, <1>5
  <1>6. \A v \in Placed' : layers'[v] < layerCount'
    BY <1>1, <1>2
  <1>7. LayersFollowEdges'
    BY <1>1, <1>4, <1>5, <1>6 DEF LayersFollowEdges, Nodes, Passes
  <1> QED
    BY <1>3, <1>7

\* A round fills the next layer, and its nodes waited for the layer before.
LEMMA PlaceLayerFills ==
  ASSUME LayerTypes, LayersFull, LayersTight, PlaceLayer
  PROVE  LayersFull' /\ LayersTight'
  <1>1. /\ graph \in Graphs /\ graph' = graph /\ pc = "layer" /\ pc' = pc
        /\ Ready \subseteq Nodes(graph) \ Placed /\ Ready # {}
        /\ Placed \subseteq Nodes(graph)
        /\ layers \in [Placed -> Nat] /\ layerCount \in Nat
        /\ layerCount' = layerCount + 1
        /\ pending \subseteq graph.edges
        /\ pending' = {e \in pending : e[1] \notin Ready}
    BY DEF LayerTypes, Ready, Unplaced, PlaceLayer, PlaceRound, readVars
  <1>2. /\ Placed' = Placed \cup Ready
        /\ \A v \in Placed : layers'[v] = layers[v]
        /\ \A v \in Ready : layers'[v] = layerCount
    BY <1>1 DEF PlaceLayer, PlaceRound, Placed
  <1>3. Placed' \subseteq Nodes(graph)
    BY <1>1, <1>2
  <1>4. layerCount' <= Cardinality(Placed')
    <2>1. PICK v \in Ready : v \notin Placed
      BY <1>1
    <2>2. IsFiniteSet(Placed) /\ Cardinality(Placed) \in Nat
      BY <1>1, PlacedFinite
    <2>3. Cardinality(Placed \cup {v}) = Cardinality(Placed) + 1
      BY <2>1, <2>2, FS_AddElement
    <2>4. IsFiniteSet(Placed')
      <3>1. IsFiniteSet(Nodes(graph))
        BY <1>1, PlacedFinite
      <3> QED
        BY <1>3, <3>1, FS_Subset
    <2>5. Cardinality(Placed \cup {v}) <= Cardinality(Placed') /\ Cardinality(Placed') \in Nat
      BY <1>2, <2>1, <2>4, FS_Subset, FS_CardinalityType
    <2> QED
      BY <1>1, <2>2, <2>3, <2>5 DEF LayersFull
  <1>5. \A l \in 0 .. layerCount' - 1 : InLayer(l)' # {}
    <2> SUFFICES ASSUME NEW l \in 0 .. layerCount' - 1 PROVE InLayer(l)' # {}
      OBVIOUS
    <2>1. CASE l = layerCount
      <3>1. PICK v \in Ready : TRUE
        BY <1>1
      <3> QED
        BY <1>2, <2>1, <3>1 DEF InLayer
    <2>2. CASE l # layerCount
      <3>1. l \in 0 .. layerCount - 1
        BY <1>1, <2>2
      <3>2. PICK v \in Placed : layers[v] = l
        BY <3>1 DEF LayersFull, InLayer
      <3> QED
        BY <1>2, <3>2 DEF InLayer
    <2> QED
      BY <2>1, <2>2
  <1>6. ASSUME NEW v \in Placed', layers'[v] # 0
        PROVE  \E u \in Placed' : <<u, v>> \in graph.edges /\ layers'[u] + 1 = layers'[v]
    <2>1. CASE v \in Placed
      <3>1. PICK u \in Placed : <<u, v>> \in graph.edges /\ layers[u] + 1 = layers[v]
        BY <1>2, <1>6, <2>1 DEF LayersTight, Tight
      <3> QED
        BY <1>1, <1>2, <2>1, <3>1 DEF Tight
    <2>2. CASE v \in Ready
      <3>1. PICK u \in Placed : <<u, v>> \in graph.edges /\ layers[u] + 1 = layerCount
        BY <1>1, <1>2, <1>6, <2>2 DEF LayersTight, Tight
      <3> QED
        BY <1>1, <1>2, <2>2, <3>1 DEF Tight
    <2> QED
      BY <1>2, <1>6, <2>1, <2>2
  <1>7. ASSUME NEW v \in Ready'
        PROVE  \E u \in Placed' : <<u, v>> \in graph.edges /\ layers'[u] + 1 = layerCount'
    <2>1. /\ v \in Nodes(graph) /\ v \notin Placed' /\ v \notin Ready /\ v \notin Placed
          /\ \A e \in pending' : e[2] # v
      BY <1>1, <1>2, <1>7 DEF Ready, Unplaced
    <2>2. PICK e \in pending : e[2] = v
      BY <2>1 DEF Ready, Unplaced
    <2>3. e[1] \in Ready
      BY <1>1, <2>1, <2>2
    <2>4. e = <<e[1], v>> /\ e \in graph.edges
      <3>1. graph.edges \subseteq (0 .. graph.size) \X (0 .. graph.size)
        BY <1>1
      <3> QED
        BY <1>1, <2>2, <3>1
    <2>5. e[1] \in Placed' /\ layers'[e[1]] + 1 = layerCount'
      BY <1>1, <1>2, <2>3
    <2> QED
      BY <1>1, <2>4, <2>5 DEF Tight
  <1>8. LayersFull'
    BY <1>1, <1>4, <1>5 DEF LayersFull
  <1>9. LayersTight'
    BY <1>1, <1>6, <1>7 DEF LayersTight, Tight
  <1> QED
    BY <1>8, <1>9

\* Steps that place no node and do not go back to the rounds.
LEMMA LayersKept ==
  ASSUME LayersFull, LayersTight, UNCHANGED <<graph, layers, layerCount>>,
         pc' \in {"layer", "read"} => pc' = pc /\ pending' = pending
  PROVE  LayersFull' /\ LayersTight'
  <1>1. Placed' = Placed /\ \A l : InLayer(l)' = InLayer(l) /\ \A v : Tight(v, l)' = Tight(v, l)
    BY DEF Placed, InLayer, Tight
  <1>2. LayersFull'
    BY <1>1 DEF LayersFull
  <1>3. \A v \in Placed : layers[v] = 0 \/ \E u \in Placed : <<u, v>> \in graph.edges /\ layers[u] + 1 = layers[v]
    BY DEF LayersTight, Tight
  <1>4. pc' = "layer" => \A v \in Ready' : layerCount' = 0 \/ \E u \in Placed : <<u, v>> \in graph.edges /\ layers[u] + 1 = layerCount
    BY <1>1 DEF LayersTight, Tight, Ready, Unplaced
  <1> QED
    BY <1>1, <1>2, <1>3, <1>4 DEF LayersTight, Tight

\* Every other step leaves the layers, and goes on with them complete or gives
\* the build up.
LEMMA LayersRest ==
  ASSUME [Next]_vars, ~PlaceLayer, ~Read, ~AllPlaced
  PROVE  /\ UNCHANGED <<readVars, layerVars>>
         /\ pc' = pc \/ pc' = "whole" \/ (pc \in Passes /\ pc' \in Passes)
  BY DEF Next, vars, ReadRefused, ReadFails, NoneReady, CountLayer, MakeArray, NoRoomForGroups,
         AddLayer, LastGroup, CloneGraph, PruneNode, Instantiate, GraphletFails, AllBuilt,
         FallBack, Passes

LEMMA NextLInv == LInv /\ [Next]_vars => LInv'
  <1> SUFFICES ASSUME LInv, [Next]_vars PROVE LInv'
    OBVIOUS
  <1>1. CASE PlaceLayer
    BY <1>1, PlaceLayerFollows, PlaceLayerFills DEF LInv
  <1>2. CASE Read
    <2>1. /\ pc = "read" /\ pc' = "layer" /\ pending' = graph.edges
          /\ \A e \in graph.edges : e[2] \in Nodes(graph)
          /\ graph.size > 0 /\ Placed = {} /\ layerCount = 0
          /\ UNCHANGED <<graph, destroyers, layers, layerCount>>
      BY <1>2 DEF Read, Foreign, LInv, LayersFollowEdges, LayersFull, readVars
    <2>2. Placed' = {}
      BY <2>1 DEF Placed
    <2>3. LayerTypes'
      BY <2>1, <2>2 DEF LInv, LayerTypes, Placed, Nodes
    <2>4. LayersFollowEdges'
      BY <2>1, <2>2 DEF LayersFollowEdges, Passes, Nodes
    <2>5. LayersFull'
      <3>1. Cardinality({}) = 0
        BY FS_EmptySet
      <3> QED
        BY <2>1, <2>2, <3>1 DEF LayersFull
    <2>6. LayersTight'
      BY <2>1, <2>2 DEF LayersTight
    <2> QED
      BY <2>3, <2>4, <2>5, <2>6 DEF LInv
  <1>3. CASE AllPlaced
    <2>1. /\ pc = "layer" /\ pc' = "count" /\ Placed = Nodes(graph)
          /\ UNCHANGED <<readVars, layerVars>>
      BY <1>3 DEF AllPlaced, Unplaced, LInv, LayerTypes
    <2>2. LayerTypes'
      BY <2>1 DEF LInv, LayerTypes, Placed, Nodes, readVars, layerVars, Passes
    <2>3. LayersFollowEdges'
      BY <2>1 DEF LInv, LayersFollowEdges, Placed, Nodes, readVars, layerVars, Passes
    <2> QED
      BY <2>1, <2>2, <2>3, LayersKept DEF LInv, readVars, layerVars
  <1>4. CASE ~PlaceLayer /\ ~Read /\ ~AllPlaced
    <2>1. /\ UNCHANGED <<graph, destroyers, pending, layers, layerCount>>
          /\ pc' = pc \/ pc' = "whole" \/ (pc \in Passes /\ pc' \in Passes)
      BY <1>4, LayersRest DEF readVars, layerVars
    <2>2. LayerTypes'
      BY <2>1 DEF LInv, LayerTypes, Placed, Nodes
    <2>3. LayersFollowEdges'
      BY <2>1 DEF LInv, LayersFollowEdges, Placed, Nodes, Passes
    <2>4. LayersFull' /\ LayersTight'
      BY <2>1, LayersKept DEF LInv, Passes
    <2> QED
      BY <2>2, <2>3, <2>4 DEF LInv
  <1> QED
    BY <1>1, <1>2, <1>3, <1>4

LEMMA InitLInv == Init => LInv
  <1> SUFFICES ASSUME Init PROVE LInv
    OBVIOUS
  <1>1. Placed = {} /\ layerCount = 0 /\ pc = "read" /\ layers = << >> /\ pending = {}
    BY DEF Init, Placed
  <1>2. Cardinality({}) = 0
    BY FS_EmptySet
  <1>3. layers \in [Placed -> Nat]
    BY <1>1
  <1>4. graph \in Graphs /\ destroyers \subseteq Kinds
    BY DEF Init
  <1> QED
    BY <1>1, <1>2, <1>3, <1>4 DEF LInv, LayerTypes, LayersFollowEdges, LayersFull, LayersTight, Passes

\* Once the nodes are placed there is a layer.
LEMMA SomeLayer ==
  ASSUME LInv, pc \in Passes
  PROVE  layerCount > 0 /\ layerCount \in Nat
  <1>1. 1 \in Placed
    BY DEF LInv, LayerTypes, LayersFollowEdges, Nodes, Passes
  <1> QED
    BY <1>1 DEF LInv, LayerTypes, LayersFollowEdges

---------------------------------------------------------------------------
(* Counting nodes in layers. *)

\* The nodes a placement f has in the layers from a to b.
Spanned(f, a, b) == {v \in DOMAIN f : f[v] \in a .. b}
Size(f, l) == Cardinality({v \in DOMAIN f : f[v] = l})

\* The layers of the group that is collected, and of one more.
LEMMA SpannedGrows ==
  ASSUME LInv, NEW a \in Nat, NEW b \in Nat, a <= b
  PROVE  /\ Cardinality(Spanned(layers, a, b)) = Cardinality(Spanned(layers, a, b - 1)) + Size(layers, b)
         /\ Cardinality(Spanned(layers, b, b)) = Size(layers, b)
         /\ Cardinality(Spanned(layers, a, b - 1)) \in Nat /\ Size(layers, b) \in Nat
         /\ Cardinality(Spanned(layers, a, a - 1)) = 0
         /\ b < layerCount => Size(layers, b) > 0
  <1> DEFINE L == {v \in DOMAIN layers : layers[v] = b}
  <1>1. layers \in [Placed -> Nat] /\ graph \in Graphs /\ Placed \subseteq Nodes(graph) /\ layerCount \in Nat
    BY DEF LInv, LayerTypes
  <1>2. /\ Spanned(layers, a, b) = Spanned(layers, a, b - 1) \cup L
        /\ Spanned(layers, a, b - 1) \cap L = {}
        /\ Spanned(layers, b, b) = L
        /\ Spanned(layers, a, a - 1) = {}
    BY <1>1 DEF Spanned, Placed
  <1>3. /\ IsFiniteSet(Spanned(layers, a, b - 1)) /\ IsFiniteSet(L)
        /\ Cardinality(Spanned(layers, a, b - 1)) \in Nat /\ Cardinality(L) \in Nat
    <2>1. Spanned(layers, a, b - 1) \in SUBSET Placed /\ L \in SUBSET Placed
      BY DEF Spanned, Placed
    <2> QED
      BY <1>1, <2>1, PlacedFinite
  <1>4. Cardinality(Spanned(layers, a, b - 1) \cup L)
          = Cardinality(Spanned(layers, a, b - 1)) + Cardinality(L) - Cardinality({})
    BY <1>2, <1>3, FS_Union
  <1>5. Cardinality({}) = 0
    BY FS_EmptySet
  <1>6. ASSUME b < layerCount PROVE Cardinality(L) > 0
    <2>1. L # {}
      BY <1>1, <1>6 DEF LInv, LayersFull, InLayer, Placed
    <2> QED
      BY <1>3, <2>1, FS_EmptySet
  <1>7. Size(layers, b) = Cardinality(L)
    BY DEF Size
  <1> HIDE DEF L
  <1>8. Cardinality(Spanned(layers, a, b)) = Cardinality(Spanned(layers, a, b - 1)) + Size(layers, b)
    <2>1. Cardinality(Spanned(layers, a, b)) = Cardinality(Spanned(layers, a, b - 1) \cup L)
      BY <1>2
    <2> QED
      BY <2>1, <1>3, <1>4, <1>5, <1>7
  <1>9. Cardinality(Spanned(layers, b, b)) = Size(layers, b)
    BY <1>2, <1>7
  <1>10. Cardinality(Spanned(layers, a, b - 1)) \in Nat /\ Size(layers, b) \in Nat
    BY <1>3, <1>7
  <1>11. Cardinality(Spanned(layers, a, a - 1)) = 0
    BY <1>2, <1>5
  <1>12. b < layerCount => Size(layers, b) > 0
    BY <1>6, <1>7
  <1> QED
    BY <1>8, <1>9, <1>10, <1>11, <1>12

\* The counter of the passes' current layer is the size of that layer.
LEMMA LayerSizeIs == LayerSize = Size(layers, layer)
  BY DEF LayerSize, Size, InLayer, Placed

---------------------------------------------------------------------------
(* The two passes over the layers take the same decisions. *)

\* A pass over the first n layers: after l of them it has closed c[l] groups
\* and the open one has a[l] nodes.
Counts(f, c, a, n) ==
  /\ c \in [Nat -> Nat] /\ a \in [Nat -> Nat]
  /\ c[0] = 0 /\ a[0] = 0
  /\ \A l \in Nat : l < n =>
       IF a[l] # 0 /\ a[l] + Size(f, l) > MaxNodes
       THEN c[l + 1] = c[l] + 1 /\ a[l + 1] = Size(f, l)
       ELSE c[l + 1] = c[l] /\ a[l + 1] = a[l] + Size(f, l)

\* Groups are never taken back.
LEMMA CountsGrow ==
  ASSUME NEW f, NEW c, NEW a, NEW n \in Nat, Counts(f, c, a, n), NEW l \in 0 .. n
  PROVE  c[l] <= c[n]
  <1> DEFINE G == {m \in Nat : m <= n /\ l <= m => c[l] <= c[m]}
  <1>1. 0 \in G
    BY DEF Counts
  <1>2. ASSUME NEW m \in Nat, m \in G PROVE m + 1 \in G
    <2>1. l \in Nat /\ c[l] \in Nat /\ c[m] \in Nat /\ c[m + 1] \in Nat
      BY DEF Counts
    <2>2. CASE m + 1 <= n /\ l <= m + 1
      <3>1. c[m + 1] = c[m] \/ c[m + 1] = c[m] + 1
        <4>1. m < n
          BY <2>2
        <4> QED
          BY <4>1 DEF Counts
      <3>2. CASE l = m + 1
        BY <3>2, <2>1
      <3>3. CASE l # m + 1
        BY <3>1, <3>3, <2>1, <2>2, <1>2
      <3> QED
        BY <3>2, <3>3
    <2> QED
      BY <2>2
  <1>3. n \in G
    <2> HIDE DEF G
    <2> QED
      BY <1>1, <1>2, NatInduct
  <1> QED
    BY <1>3

\* A pass goes on by one layer.
LEMMA CountsExtend ==
  ASSUME NEW f, NEW c, NEW a, NEW n \in Nat, Counts(f, c, a, n), Size(f, n) \in Nat
  PROVE  \E d, b : /\ Counts(f, d, b, n + 1)
                   /\ IF a[n] # 0 /\ a[n] + Size(f, n) > MaxNodes
                      THEN d[n + 1] = c[n] + 1 /\ b[n + 1] = Size(f, n)
                      ELSE d[n + 1] = c[n] /\ b[n + 1] = a[n] + Size(f, n)
  <1> DEFINE closes == a[n] # 0 /\ a[n] + Size(f, n) > MaxNodes
             x == IF closes THEN c[n] + 1 ELSE c[n]
             y == IF closes THEN Size(f, n) ELSE a[n] + Size(f, n)
             d == [c EXCEPT ![n + 1] = x]
             b == [a EXCEPT ![n + 1] = y]
  <1>1. x \in Nat /\ y \in Nat /\ n + 1 \in Nat /\ c \in [Nat -> Nat] /\ a \in [Nat -> Nat]
    BY DEF Counts
  <1> HIDE DEF x, y
  <1>2. /\ d \in [Nat -> Nat] /\ b \in [Nat -> Nat]
        /\ d[n + 1] = x /\ b[n + 1] = y
        /\ \A l \in Nat : l # n + 1 => d[l] = c[l] /\ b[l] = a[l]
    BY <1>1
  <1> HIDE DEF d, b
  <1>3. /\ d[n] = c[n] /\ b[n] = a[n] /\ d[0] = 0 /\ b[0] = 0
    BY <1>2 DEF Counts
  <1>4. IF closes THEN d[n + 1] = c[n] + 1 /\ b[n + 1] = Size(f, n)
                  ELSE d[n + 1] = c[n] /\ b[n + 1] = a[n] + Size(f, n)
    BY <1>2 DEF x, y
  <1>5. ASSUME NEW l \in Nat, l < n + 1
        PROVE  IF b[l] # 0 /\ b[l] + Size(f, l) > MaxNodes
               THEN d[l + 1] = d[l] + 1 /\ b[l + 1] = Size(f, l)
               ELSE d[l + 1] = d[l] /\ b[l + 1] = b[l] + Size(f, l)
    <2>1. CASE l = n
      BY <2>1, <1>3, <1>4
    <2>2. CASE l < n
      <3>1. d[l] = c[l] /\ b[l] = a[l] /\ d[l + 1] = c[l + 1] /\ b[l + 1] = a[l + 1]
        BY <2>2, <1>2
      <3> QED
        BY <2>2, <3>1 DEF Counts
    <2> QED
      BY <2>1, <2>2, <1>5
  <1>6. Counts(f, d, b, n + 1)
    BY <1>2, <1>3, <1>5 DEF Counts
  <1> QED
    BY <1>4, <1>6

---------------------------------------------------------------------------
(* The invariant of the groups. *)

\* The first k groups cover the layers below n, each of them once and in order.
Tiles(gs, k, n) ==
  /\ \A l \in 0 .. n - 1 : \E i \in 1 .. k : l \in gs[i].first .. gs[i].last
  /\ \A i \in 1 .. k : gs[i].last < n
  /\ \A i, j \in 1 .. k : i < j => gs[i].last < gs[j].first

\* A group counts the nodes of its layers, and exceeds the limit only as one
\* layer.
GroupExact(f, g) ==
  /\ g.nodes = Cardinality(Spanned(f, g.first, g.last))
  /\ g.nodes > 0
  /\ g.nodes <= MaxNodes \/ g.first = g.last

PassTypes ==
  /\ counted \in Nat /\ first \in Nat /\ layer \in Nat /\ accumulated \in Nat
  /\ index \in Nat \ {0}
  /\ groups \in Seq(GroupType)
  /\ clone \subseteq Nodes(graph)
  /\ runs \in Seq(SUBSET Nodes(graph))

Untouched == index = 1 /\ groups = << >> /\ objects = {} /\ runs = << >>

BeforeCount ==
  pc \in {"read", "layer"} =>
    counted = 0 /\ first = 0 /\ layer = 0 /\ accumulated = 0 /\ Untouched

\* The first pass is a pass over the layers below layer.
Counting ==
  pc = "count" =>
    /\ Untouched /\ layer <= layerCount
    /\ layer > 0 => accumulated > 0
    /\ \E c, a : Counts(layers, c, a, layer) /\ c[layer] = counted /\ a[layer] = accumulated

\* The second one follows a pass over all layers, and the array has room for
\* the groups that one closed and the one it left open.
Filling ==
  pc = "group" =>
    /\ first <= layer /\ layer <= layerCount
    /\ layer = 0 => accumulated = 0
    /\ layer > 0 => first < layer
    /\ \E c, a : /\ Counts(layers, c, a, layerCount) /\ c[layerCount] + 1 = Len(groups)
                 /\ c[layer] = index - 1 /\ a[layer] = accumulated
    /\ Tiles(groups, index - 1, first)
    /\ accumulated = Cardinality(Spanned(layers, first, layer - 1))
    /\ accumulated <= MaxNodes \/ first = layer - 1
    /\ \A i \in 1 .. index - 1 : GroupExact(layers, groups[i])
    /\ \A i \in DOMAIN groups : groups[i].made = {}
    /\ objects = {} /\ runs = << >>

Filled ==
  pc \in {"clone", "prune", "split"} =>
    /\ Tiles(groups, Len(groups), layerCount)
    /\ \A i \in DOMAIN groups : GroupExact(layers, groups[i])

\* What a group's record says has been made of it.
MadeOf(i) == IF i < index THEN Kinds
             ELSE IF i = index /\ pc = "prune" THEN {"graph"} ELSE {}

\* The array names the objects that exist, and every executable has the nodes
\* of its group.
Cloning ==
  pc \in {"clone", "prune", "split"} =>
    /\ index <= Len(groups) + 1
    /\ \A i \in DOMAIN groups : groups[i].made = MadeOf(i)
    /\ objects = {o \in Kinds \X (DOMAIN groups) : o[1] \in MadeOf(o[2])}
    /\ Len(runs) = index - 1
    /\ \A i \in 1 .. index - 1 : runs[i] = Graphlet(i)
    /\ pc = "prune" => index <= Len(groups) /\ Graphlet(index) \subseteq clone
    /\ pc = "split" => index = Len(groups) + 1

GivenBack == pc = "whole" => \A o \in objects : o[1] \notin destroyers

GInv == PassTypes /\ BeforeCount /\ Counting /\ Filling /\ Filled /\ Cloning /\ GivenBack

IInv == LInv /\ GInv

\* The array has room for the entry the second pass writes next.
LEMMA RoomLeft ==
  ASSUME LInv, GInv, pc = "group"
  PROVE  index \in DOMAIN groups /\ (layer = layerCount => index = Len(groups))
  <1>1. layer \in 0 .. layerCount /\ layerCount \in Nat /\ index \in Nat \ {0}
        /\ groups \in Seq(GroupType)
    BY DEF GInv, Filling, PassTypes, LInv, LayerTypes
  <1>2. PICK c, a : /\ Counts(layers, c, a, layerCount) /\ c[layerCount] + 1 = Len(groups)
                    /\ c[layer] = index - 1 /\ a[layer] = accumulated
    BY DEF GInv, Filling
  <1>3. c[layer] <= c[layerCount]
    BY <1>1, <1>2, CountsGrow
  <1>4. c[layerCount] \in Nat
    BY <1>1, <1>2 DEF Counts
  <1> QED
    BY <1>1, <1>2, <1>3, <1>4

LEMMA TypesFollow == IInv => TypeOK
  <1> SUFFICES ASSUME IInv PROVE TypeOK
    OBVIOUS
  <1>1. pc \in {"group", "prune"} => index \in DOMAIN groups
    <2>1. CASE pc = "group"
      BY <2>1, RoomLeft DEF IInv
    <2>2. CASE pc = "prune"
      BY <2>2 DEF IInv, GInv, Cloning, PassTypes
    <2> QED
      BY <2>1, <2>2
  <1> QED
    BY <1>1 DEF TypeOK, IInv, LInv, LayerTypes, GInv, PassTypes, Passes

---------------------------------------------------------------------------
(* Every action preserves it. *)

\* A sequence with one entry replaced.
LEMMA SetEntry ==
  ASSUME NEW S, NEW s \in Seq(S), NEW i \in 1 .. Len(s), NEW g \in S,
         NEW t, t = [s EXCEPT ![i] = g]
  PROVE  /\ t \in Seq(S) /\ Len(t) = Len(s) /\ DOMAIN t = DOMAIN s /\ DOMAIN t = 1 .. Len(s)
         /\ t[i] = g /\ \A j \in 1 .. Len(s) : j # i => t[j] = s[j]
  BY ExceptSeq

\* One more group, from the layer after the last one, covers the layers to its
\* end.
LEMMA TilesGrow ==
  ASSUME NEW gs \in Seq(GroupType), NEW k \in Nat, k < Len(gs), NEW n \in Nat, Tiles(gs, k, n),
         NEW to \in Nat, n <= to, NEW count \in Nat,
         NEW more, more = [gs EXCEPT ![k + 1] = Group(n, to, count)]
  PROVE  Tiles(more, k + 1, to + 1)
  <1> DEFINE g == Group(n, to, count)
  <1>1. g \in GroupType /\ g.first = n /\ g.last = to
    BY DEF Group, GroupType
  <1>2. k + 1 \in 1 .. Len(gs)
    OBVIOUS
  <1> HIDE DEF g
  <1>3. more[k + 1] = g /\ \A i \in 1 .. k : more[i] = gs[i] /\ gs[i] \in GroupType
    BY <1>1, <1>2, SetEntry DEF g
  <1>4. \A i \in 1 .. k : gs[i].first \in Nat /\ gs[i].last \in Nat
    BY <1>3 DEF GroupType
  <1>5. ASSUME NEW l \in 0 .. (to + 1) - 1
        PROVE  \E i \in 1 .. k + 1 : l \in more[i].first .. more[i].last
    <2>1. CASE l < n
      <3>1. PICK i \in 1 .. k : l \in gs[i].first .. gs[i].last
        BY <2>1 DEF Tiles
      <3> QED
        BY <3>1, <1>3
    <2>2. CASE l >= n
      BY <2>2, <1>1, <1>3
    <2> QED
      BY <2>1, <2>2
  <1>6. ASSUME NEW i \in 1 .. k + 1 PROVE more[i].last < to + 1
    <2>1. CASE i \in 1 .. k
      BY <2>1, <1>3, <1>4 DEF Tiles
    <2>2. CASE i = k + 1
      BY <2>2, <1>1, <1>3
    <2> QED
      BY <2>1, <2>2
  <1>7. ASSUME NEW i \in 1 .. k + 1, NEW j \in 1 .. k + 1, i < j
        PROVE  more[i].last < more[j].first
    <2>1. CASE j \in 1 .. k
      <3>1. i \in 1 .. k
        BY <2>1, <1>7
      <3> QED
        BY <2>1, <3>1, <1>3, <1>7 DEF Tiles
    <2>2. CASE j = k + 1
      <3>1. i \in 1 .. k
        BY <2>2, <1>7
      <3>2. gs[i].last < n
        BY <3>1 DEF Tiles
      <3> QED
        BY <2>2, <3>1, <3>2, <1>1, <1>3
    <2> QED
      BY <2>1, <2>2
  <1> QED
    BY <1>5, <1>6, <1>7 DEF Tiles

\* The environment and the counters keep their types in steps that leave the
\* environment.
LEMMA PassTypesKept ==
  ASSUME PassTypes, UNCHANGED <<graph, clone, runs>>,
         counted' \in Nat, first' \in Nat, layer' \in Nat, accumulated' \in Nat,
         index' \in Nat \ {0}, groups' \in Seq(GroupType)
  PROVE  PassTypes'
  BY DEF PassTypes, Nodes

LEMMA CountLayerGInv ==
  ASSUME LInv, GInv, CountLayer
  PROVE  GInv'
  <1> DEFINE size == Size(layers, layer)
  <1>1. /\ pc = "count" /\ pc' = "count" /\ layer < layerCount /\ layer' = layer + 1
        /\ counted' = counted + (IF ClosesGroup(size) THEN 1 ELSE 0)
        /\ accumulated' = size + (IF ClosesGroup(size) THEN 0 ELSE accumulated)
        /\ UNCHANGED <<graph, destroyers, layers, layerCount, first, index, groups, clone, objects, runs>>
    BY LayerSizeIs DEF CountLayer, readVars, layerVars, groupVars, cloneVars
  <1>2. /\ counted \in Nat /\ layer \in Nat /\ accumulated \in Nat /\ layerCount \in Nat
        /\ layer > 0 => accumulated > 0
        /\ Untouched
    BY <1>1 DEF GInv, PassTypes, Counting, LInv, LayerTypes
  <1>3. size \in Nat /\ size > 0
    <2>1. layer <= layer
      BY <1>2
    <2> QED
      BY <1>1, <1>2, <2>1, SpannedGrows
  <1> HIDE DEF size
  <1>4. PassTypes'
    BY <1>1, <1>2, <1>3 DEF GInv, PassTypes, Nodes
  <1>5. \E d, b : Counts(layers, d, b, layer + 1) /\ d[layer + 1] = counted' /\ b[layer + 1] = accumulated'
    <2>1. PICK c, a : Counts(layers, c, a, layer) /\ c[layer] = counted /\ a[layer] = accumulated
      BY <1>1 DEF GInv, Counting
    <2>2. PICK d, b : /\ Counts(layers, d, b, layer + 1)
                      /\ IF a[layer] # 0 /\ a[layer] + size > MaxNodes
                         THEN d[layer + 1] = c[layer] + 1 /\ b[layer + 1] = size
                         ELSE d[layer + 1] = c[layer] /\ b[layer + 1] = a[layer] + size
      BY <1>2, <1>3, <2>1, CountsExtend DEF size
    <2>3. d[layer + 1] = counted' /\ b[layer + 1] = accumulated'
      BY <1>1, <1>2, <1>3, <2>1, <2>2 DEF ClosesGroup
    <2> QED
      BY <2>2, <2>3
  <1>6. Counting'
    <2>1. accumulated' > 0
      BY <1>1, <1>2, <1>3
    <2> QED
      BY <1>1, <1>2, <1>5, <2>1 DEF Counting, Untouched
  <1> QED
    BY <1>1, <1>4, <1>6 DEF GInv, BeforeCount, Filling, Filled, Cloning, GivenBack

LEMMA MakeArrayGInv ==
  ASSUME LInv, GInv, MakeArray
  PROVE  GInv'
  <1> DEFINE n == GroupCount
  <1>1. /\ pc = "count" /\ pc' = "group" /\ layer = layerCount /\ counted' = n
        /\ groups' = [i \in 1 .. n |-> Blank]
        /\ first' = 0 /\ layer' = 0 /\ accumulated' = 0
        /\ UNCHANGED <<graph, destroyers, layers, layerCount, index, clone, objects, runs>>
    BY DEF MakeArray, readVars, layerVars, cloneVars
  <1>2. /\ counted \in Nat /\ layerCount \in Nat /\ layerCount > 0 /\ accumulated > 0 /\ Untouched
    BY <1>1, SomeLayer DEF GInv, PassTypes, Counting, LInv, LayerTypes, Passes
  <1>3. n = counted + 1
    BY <1>2 DEF GroupCount, GInv, PassTypes
  <1> HIDE DEF n
  <1>4. /\ groups' \in Seq(GroupType) /\ Len(groups') = n /\ DOMAIN groups' = 1 .. n
        /\ \A i \in 1 .. n : groups'[i].made = {}
    <2>1. Blank \in GroupType /\ Blank.made = {}
      BY DEF Blank, GroupType
    <2>2. n \in Nat
      BY <1>2, <1>3
    <2> QED
      BY <1>1, <2>1, <2>2
  <1>5. PassTypes'
    BY <1>1, <1>2, <1>3, <1>4 DEF GInv, PassTypes, Nodes
  <1>6. Filling'
    <2>1. PICK c, a : Counts(layers, c, a, layer) /\ c[layer] = counted /\ a[layer] = accumulated
      BY <1>1 DEF GInv, Counting
    <2>2. c[0] = 0 /\ a[0] = 0 /\ index = 1
      BY <1>2, <2>1 DEF Counts, Untouched
    <2>3. \E d, b : /\ Counts(layers, d, b, layerCount) /\ d[layerCount] + 1 = Len(groups')
                    /\ d[0] = index - 1 /\ b[0] = 0
      <3>1. Counts(layers, c, a, layerCount) /\ c[layerCount] + 1 = Len(groups')
        BY <1>1, <1>3, <1>4, <2>1
      <3>2. c[0] = index - 1
        BY <2>2
      <3> QED
        BY <2>2, <3>1, <3>2
    <2>4. Tiles(groups', index - 1, 0)
      BY <2>2 DEF Tiles
    <2>5. Cardinality(Spanned(layers, 0, 0 - 1)) = 0
      BY SpannedGrows
    <2>6. accumulated' = Cardinality(Spanned(layers', first', layer' - 1))
      BY <1>1, <2>5
    <2>7. \A i \in 1 .. index' - 1 : FALSE
      BY <1>1, <2>2
    <2>8. /\ first' <= layer' /\ layer' <= layerCount' /\ ~(layer' > 0)
          /\ accumulated' = 0 /\ accumulated' <= MaxNodes /\ objects' = {} /\ runs' = << >>
      BY <1>1, <1>2 DEF Untouched
    <2>9. Tiles(groups', index' - 1, first')
      BY <1>1, <2>4
    <2>10. \E d, b : /\ Counts(layers', d, b, layerCount') /\ d[layerCount'] + 1 = Len(groups')
                     /\ d[layer'] = index' - 1 /\ b[layer'] = accumulated'
      BY <1>1, <2>3
    <2>11. \A i \in DOMAIN groups' : groups'[i].made = {}
      BY <1>4
    <2> QED
      BY <2>6, <2>7, <2>8, <2>9, <2>10, <2>11 DEF Filling
  <1> QED
    BY <1>1, <1>5, <1>6 DEF GInv, BeforeCount, Counting, Filled, Cloning, GivenBack

\* The second pass closes a group, or its layer joins the open one.
LEMMA AddLayerGInv ==
  ASSUME LInv, GInv, AddLayer
  PROVE  GInv'
  <1> DEFINE size == Size(layers, layer)
  <1>1. /\ pc = "group" /\ pc' = pc /\ layer < layerCount /\ layer' = layer + 1
        /\ UNCHANGED <<graph, destroyers, layers, layerCount, counted, clone, objects, runs>>
        /\ IF ClosesGroup(size)
           THEN /\ groups' = [groups EXCEPT ![index] = Group(first, layer - 1, accumulated)]
                /\ index' = index + 1 /\ first' = layer /\ accumulated' = size
           ELSE /\ accumulated' = accumulated + size
                /\ UNCHANGED <<index, groups, first>>
    BY LayerSizeIs DEF AddLayer, readVars, layerVars, groupVars, cloneVars
  <1>0. /\ first \in Nat /\ layer \in Nat /\ layerCount \in Nat /\ accumulated \in Nat
        /\ index \in Nat \ {0} /\ first <= layer
        /\ (layer = 0 => accumulated = 0) /\ (layer > 0 => first < layer)
        /\ PassTypes /\ counted \in Nat
    BY <1>1 DEF GInv, PassTypes, Filling, LInv, LayerTypes
  <1>2. /\ first \in Nat /\ layer \in Nat /\ layerCount \in Nat /\ accumulated \in Nat
        /\ index \in Nat \ {0} /\ groups \in Seq(GroupType)
        /\ first <= layer /\ (layer = 0 => accumulated = 0) /\ (layer > 0 => first < layer)
        /\ Tiles(groups, index - 1, first)
        /\ accumulated = Cardinality(Spanned(layers, first, layer - 1))
        /\ accumulated <= MaxNodes \/ first = layer - 1
        /\ \A i \in 1 .. index - 1 : GroupExact(layers, groups[i])
        /\ \A i \in DOMAIN groups : groups[i].made = {}
        /\ objects = {} /\ runs = << >>
    BY <1>1 DEF GInv, PassTypes, Filling, LInv, LayerTypes
  <1>3. /\ Cardinality(Spanned(layers, first, layer)) = accumulated + size
        /\ Cardinality(Spanned(layers, layer, layer)) = size
        /\ size \in Nat /\ size > 0
    BY <1>1, <1>2, SpannedGrows
  <1> HIDE DEF size
  <1>4. index \in 1 .. Len(groups) /\ DOMAIN groups = 1 .. Len(groups) /\ Len(groups) \in Nat
    BY <1>1, <1>2, RoomLeft
  <1>5. PICK c, a : /\ Counts(layers, c, a, layerCount) /\ c[layerCount] + 1 = Len(groups)
                    /\ c[layer] = index - 1 /\ a[layer] = accumulated
    BY <1>1 DEF GInv, Filling
  <1>6. IF accumulated # 0 /\ accumulated + size > MaxNodes
        THEN c[layer + 1] = (index - 1) + 1 /\ a[layer + 1] = size
        ELSE c[layer + 1] = index - 1 /\ a[layer + 1] = accumulated + size
    BY <1>1, <1>2, <1>5 DEF Counts, size
  <1>7. CASE ClosesGroup(size)
    <2> DEFINE g == Group(first, layer - 1, accumulated)
    <2>1. /\ groups' = [groups EXCEPT ![index] = g]
          /\ index' = index + 1 /\ first' = layer /\ accumulated' = size
      BY <1>1, <1>7
    <2>2. layer - 1 \in Nat /\ first <= layer - 1 /\ (layer - 1) + 1 = layer /\ (index - 1) + 1 = index
          /\ accumulated > 0 /\ (index + 1) - 1 = index /\ (layer + 1) - 1 = layer
      BY <1>0, <1>7 DEF ClosesGroup
    <2>3. /\ g \in GroupType /\ g.first = first /\ g.last = layer - 1 /\ g.nodes = accumulated
          /\ g.made = {}
      BY <1>2, <2>2 DEF Group, GroupType, Kinds
    <2>4. Tiles(groups', index, layer)
      <3>1. index - 1 \in Nat /\ index - 1 < Len(groups)
        BY <1>2, <1>4
      <3>2. Tiles(groups', (index - 1) + 1, (layer - 1) + 1)
        BY <1>2, <2>1, <2>2, <3>1, TilesGrow
      <3> QED
        BY <2>2, <3>2
    <2> HIDE DEF g
    <2>5. /\ groups' \in Seq(GroupType) /\ Len(groups') = Len(groups)
          /\ DOMAIN groups' = 1 .. Len(groups)
          /\ groups'[index] = g /\ \A i \in 1 .. Len(groups) : i # index => groups'[i] = groups[i]
      BY <1>2, <1>4, <2>1, <2>3, SetEntry
    <2>6. GroupExact(layers, g)
      BY <1>2, <2>2, <2>3 DEF GroupExact
    <2>7. \A i \in 1 .. index : GroupExact(layers, groups'[i])
      BY <1>2, <1>4, <2>5, <2>6
    <2>8. \A i \in DOMAIN groups' : groups'[i].made = {}
      BY <1>2, <1>4, <2>3, <2>5
    <2>9. c[layer + 1] = index /\ a[layer + 1] = size
      BY <1>6, <1>7, <2>2 DEF ClosesGroup
    <2>10. \E d, b : /\ Counts(layers, d, b, layerCount) /\ d[layerCount] + 1 = Len(groups')
                     /\ d[layer + 1] = index /\ b[layer + 1] = size
      BY <1>5, <2>5, <2>9
    <2>11. Filling'
      <3>1. /\ first' <= layer' /\ layer' <= layerCount' /\ first' < layer' /\ layer' # 0
            /\ first' = layer' - 1 /\ objects' = {} /\ runs' = << >>
        BY <1>0, <1>1, <1>2, <2>1
      <3>2. Tiles(groups', index' - 1, first') /\ \A i \in 1 .. index' - 1 : GroupExact(layers', groups'[i])
        BY <1>1, <2>1, <2>2, <2>4, <2>7
      <3>3. accumulated' = Cardinality(Spanned(layers', first', layer' - 1))
        BY <1>1, <1>3, <2>1, <2>2
      <3>4. \E d, b : /\ Counts(layers', d, b, layerCount') /\ d[layerCount'] + 1 = Len(groups')
                      /\ d[layer'] = index' - 1 /\ b[layer'] = accumulated'
        BY <1>1, <2>1, <2>2, <2>10
      <3> QED
        BY <3>1, <3>2, <3>3, <3>4, <2>8 DEF Filling
    <2>12. PassTypes'
      BY <1>0, <1>1, <1>3, <2>1, <2>5, PassTypesKept
    <2> QED
      BY <1>1, <2>11, <2>12 DEF GInv, BeforeCount, Counting, Filled, Cloning, GivenBack
  <1>8. CASE ~ClosesGroup(size)
    <2>1. accumulated' = accumulated + size /\ UNCHANGED <<index, groups, first>>
      BY <1>1, <1>8
    <2>2. accumulated' <= MaxNodes \/ first' = layer' - 1
      <3>1. CASE accumulated # 0
        BY <1>2, <1>3, <1>8, <2>1, <3>1 DEF ClosesGroup
      <3>2. CASE accumulated = 0
        <4>1. layer = 0
          <5> SUFFICES ASSUME layer > 0 PROVE FALSE
            BY <1>2
          <5>1. layer - 1 \in Nat /\ first <= layer - 1 /\ layer - 1 < layerCount
            BY <1>1, <1>2
          <5>2. /\ Cardinality(Spanned(layers, first, layer - 1))
                     = Cardinality(Spanned(layers, first, (layer - 1) - 1)) + Size(layers, layer - 1)
                /\ Cardinality(Spanned(layers, first, (layer - 1) - 1)) \in Nat
                /\ Size(layers, layer - 1) \in Nat /\ Size(layers, layer - 1) > 0
            BY <1>2, <5>1, SpannedGrows
          <5> QED
            BY <1>2, <3>2, <5>2
        <4> QED
          BY <1>1, <1>2, <2>1, <4>1
      <3> QED
        BY <3>1, <3>2
    <2>3. c[layer + 1] = index - 1 /\ a[layer + 1] = accumulated + size
      BY <1>6, <1>8 DEF ClosesGroup
    <2>4. (layer + 1) - 1 = layer
      BY <1>2
    <2>5. Filling'
      <3>1. /\ first' <= layer' /\ layer' <= layerCount' /\ first' < layer' /\ layer' # 0
            /\ objects' = {} /\ runs' = << >>
        BY <1>0, <1>1, <1>2, <2>1
      <3>2. Tiles(groups', index' - 1, first') /\ \A i \in 1 .. index' - 1 : GroupExact(layers', groups'[i])
        BY <1>1, <1>2, <2>1
      <3>3. accumulated' = Cardinality(Spanned(layers', first', layer' - 1))
        BY <1>1, <1>3, <2>1, <2>4
      <3>4. \E d, b : /\ Counts(layers', d, b, layerCount') /\ d[layerCount'] + 1 = Len(groups')
                      /\ d[layer'] = index' - 1 /\ b[layer'] = accumulated'
        BY <1>1, <1>5, <2>1, <2>3
      <3>5. \A i \in DOMAIN groups' : groups'[i].made = {}
        BY <1>2, <2>1
      <3> QED
        BY <2>2, <3>1, <3>2, <3>3, <3>4, <3>5 DEF Filling
    <2>6. PassTypes'
      <3>1. groups' \in Seq(GroupType) /\ index' \in Nat \ {0}
        BY <1>0, <2>1 DEF PassTypes
      <3>2. accumulated' \in Nat /\ layer' \in Nat /\ first' \in Nat /\ counted' \in Nat
        BY <1>0, <1>1, <1>3, <2>1
      <3>3. UNCHANGED <<graph, clone, runs>>
        BY <1>1
      <3> QED
        BY <1>0, <3>1, <3>2, <3>3, PassTypesKept
    <2> QED
      BY <1>1, <2>5, <2>6 DEF GInv, BeforeCount, Counting, Filled, Cloning, GivenBack
  <1> QED
    BY <1>7, <1>8

\* The last group fills the last entry of the array.
LEMMA LastGroupGInv ==
  ASSUME LInv, GInv, LastGroup
  PROVE  GInv'
  <1> DEFINE g == Group(first, layerCount - 1, accumulated)
  <1>1. /\ pc = "group" /\ pc' = "clone" /\ layer = layerCount /\ index' = 1
        /\ groups' = [groups EXCEPT ![index] = g]
        /\ UNCHANGED <<graph, destroyers, layers, layerCount, counted, first, layer, accumulated,
                       clone, objects, runs>>
    BY DEF LastGroup, readVars, layerVars, passVars, cloneVars
  <1>2. /\ first \in Nat /\ layer \in Nat /\ layerCount \in Nat /\ accumulated \in Nat
        /\ index \in Nat \ {0} /\ groups \in Seq(GroupType) /\ layerCount > 0
        /\ first < layerCount
        /\ Tiles(groups, index - 1, first)
        /\ accumulated = Cardinality(Spanned(layers, first, layerCount - 1))
        /\ accumulated <= MaxNodes \/ first = layerCount - 1
        /\ \A i \in 1 .. index - 1 : GroupExact(layers, groups[i])
        /\ \A i \in DOMAIN groups : groups[i].made = {}
        /\ objects = {} /\ runs = << >>
    BY <1>1, SomeLayer DEF GInv, PassTypes, Filling, LInv, LayerTypes, Passes
  <1>3. index = Len(groups) /\ index \in 1 .. Len(groups)
    BY <1>1, <1>2, RoomLeft
  <1>4. /\ layerCount - 1 \in Nat /\ first <= layerCount - 1 /\ (layerCount - 1) + 1 = layerCount
        /\ index - 1 \in Nat /\ index - 1 < Len(groups) /\ (index - 1) + 1 = index
    BY <1>2, <1>3
  <1>5. accumulated > 0
    <2>1. /\ Cardinality(Spanned(layers, first, layerCount - 1))
               = Cardinality(Spanned(layers, first, (layerCount - 1) - 1)) + Size(layers, layerCount - 1)
          /\ Cardinality(Spanned(layers, first, (layerCount - 1) - 1)) \in Nat
          /\ Size(layers, layerCount - 1) \in Nat /\ Size(layers, layerCount - 1) > 0
      BY <1>2, <1>4, SpannedGrows
    <2> QED
      BY <1>2, <2>1
  <1>6. Tiles(groups', index, layerCount)
    <2>1. Tiles(groups', (index - 1) + 1, (layerCount - 1) + 1)
      BY <1>1, <1>2, <1>4, TilesGrow
    <2> QED
      BY <1>4, <2>1
  <1>7. /\ g \in GroupType /\ g.first = first /\ g.last = layerCount - 1 /\ g.nodes = accumulated
        /\ g.made = {}
    BY <1>2, <1>4 DEF Group, GroupType, Kinds
  <1>8. GroupExact(layers, g)
    BY <1>2, <1>5, <1>7 DEF GroupExact
  <1> HIDE DEF g
  <1>9. /\ groups' \in Seq(GroupType) /\ Len(groups') = Len(groups)
        /\ DOMAIN groups' = 1 .. Len(groups)
        /\ groups'[index] = g /\ \A i \in 1 .. Len(groups) : i # index => groups'[i] = groups[i]
    BY <1>1, <1>2, <1>3, <1>7, SetEntry
  <1>10. \A i \in DOMAIN groups' : GroupExact(layers, groups'[i]) /\ groups'[i].made = {}
    BY <1>2, <1>3, <1>7, <1>8, <1>9
  <1>11. PassTypes'
    BY <1>1, <1>2, <1>9 DEF GInv, PassTypes, Nodes
  <1>12. Filled'
    BY <1>3, <1>6, <1>1, <1>9, <1>10 DEF Filled
  <1>13. Cloning'
    <2>1. \A i \in DOMAIN groups' : MadeOf(i)' = {}
      BY <1>1, <1>9 DEF MadeOf
    <2>2. Len(groups) \in Nat /\ Len(runs') = index' - 1 /\ index' <= Len(groups') + 1
      BY <1>1, <1>2, <1>9
    <2>3. objects' = {o \in Kinds \X (DOMAIN groups') : o[1] \in MadeOf(o[2])'}
      <3>1. \A o \in Kinds \X (DOMAIN groups') : o[2] \in DOMAIN groups'
        OBVIOUS
      <3> QED
        BY <1>1, <1>2, <2>1, <3>1
    <2>4. \A i \in 1 .. index' - 1 : FALSE
      BY <1>1
    <2> QED
      BY <1>1, <1>10, <2>1, <2>2, <2>3, <2>4 DEF Cloning
  <1> QED
    BY <1>1, <1>11, <1>12, <1>13 DEF GInv, BeforeCount, Counting, Filling, GivenBack

\* Noting what was made of a group leaves its layers and its count.
LEMMA MadeEntry ==
  ASSUME groups \in Seq(GroupType), index \in 1 .. Len(groups), NEW m \in SUBSET Kinds,
         groups' = [groups EXCEPT ![index].made = m]
  PROVE  /\ groups' \in Seq(GroupType) /\ Len(groups') = Len(groups)
         /\ DOMAIN groups' = DOMAIN groups /\ DOMAIN groups = 1 .. Len(groups)
         /\ \A i \in DOMAIN groups :
              /\ groups'[i].first = groups[i].first /\ groups'[i].last = groups[i].last
              /\ groups'[i].nodes = groups[i].nodes
              /\ groups'[i].made = IF i = index THEN m ELSE groups[i].made
  <1> DEFINE g == [groups[index] EXCEPT !.made = m]
  <1>1. groups' = [groups EXCEPT ![index] = g]
    OBVIOUS
  <1>2. groups[index] \in GroupType /\ DOMAIN groups = 1 .. Len(groups)
    OBVIOUS
  <1>3. /\ g \in GroupType /\ g.first = groups[index].first /\ g.last = groups[index].last
        /\ g.nodes = groups[index].nodes /\ g.made = m
    BY <1>2 DEF GroupType
  <1> HIDE DEF g
  <1>4. /\ groups' \in Seq(GroupType) /\ Len(groups') = Len(groups) /\ DOMAIN groups' = DOMAIN groups
        /\ groups'[index] = g /\ \A j \in 1 .. Len(groups) : j # index => groups'[j] = groups[j]
    BY <1>1, <1>3, SetEntry
  <1> QED
    BY <1>2, <1>3, <1>4

\* Then the groups cover the layers as before.
LEMMA FilledKept ==
  ASSUME Filled, pc \in {"clone", "prune", "split"}, UNCHANGED <<layers, layerCount>>,
         groups \in Seq(GroupType), Len(groups') = Len(groups), DOMAIN groups' = DOMAIN groups,
         \A i \in DOMAIN groups :
           /\ groups'[i].first = groups[i].first /\ groups'[i].last = groups[i].last
           /\ groups'[i].nodes = groups[i].nodes
  PROVE  Filled' /\ \A i \in DOMAIN groups : Graphlet(i)' = Graphlet(i)
  <1>1. DOMAIN groups = 1 .. Len(groups)
    OBVIOUS
  <1>2. Tiles(groups', Len(groups'), layerCount')
    BY <1>1 DEF Filled, Tiles
  <1>3. \A i \in DOMAIN groups' : GroupExact(layers', groups'[i])
    BY DEF Filled, GroupExact
  <1>4. \A i \in DOMAIN groups : Graphlet(i)' = Graphlet(i)
    BY DEF Graphlet, Placed
  <1> QED
    BY <1>2, <1>3, <1>4 DEF Filled

\* Where the clone of a group is, before it is made and after.
LEMMA CloneFacts ==
  ASSUME GInv, pc \in {"clone", "prune", "split"}
  PROVE  /\ groups \in Seq(GroupType) /\ Len(groups) \in Nat /\ DOMAIN groups = 1 .. Len(groups)
         /\ index \in Nat \ {0} /\ index <= Len(groups) + 1
         /\ \A i \in DOMAIN groups : groups[i].made = MadeOf(i)
         /\ objects = {o \in Kinds \X (DOMAIN groups) : o[1] \in MadeOf(o[2])}
         /\ runs \in Seq(SUBSET Nodes(graph)) /\ Len(runs) = index - 1
         /\ \A i \in 1 .. index - 1 : runs[i] = Graphlet(i)
         /\ clone \subseteq Nodes(graph)
  BY DEF GInv, PassTypes, Cloning

LEMMA CloneGraphGInv ==
  ASSUME LInv, GInv, CloneGraph
  PROVE  GInv'
  <1>1. /\ pc = "clone" /\ pc' = "prune" /\ index' = index
        /\ objects' = objects \cup {<<"graph", index>>}
        /\ groups' = [groups EXCEPT ![index].made = {"graph"}]
        /\ clone' = Nodes(graph)
        /\ UNCHANGED <<graph, destroyers, layers, layerCount, counted, first, layer, accumulated, runs>>
    BY DEF CloneGraph, readVars, layerVars, passVars
  <1>2. index \in 1 .. Len(groups)
    BY <1>1, CloneFacts DEF CloneGraph
  <1>3. {"graph"} \in SUBSET Kinds
    BY DEF Kinds
  <1>4. /\ groups' \in Seq(GroupType) /\ Len(groups') = Len(groups)
        /\ DOMAIN groups' = DOMAIN groups /\ DOMAIN groups = 1 .. Len(groups)
        /\ \A i \in DOMAIN groups :
             /\ groups'[i].first = groups[i].first /\ groups'[i].last = groups[i].last
             /\ groups'[i].nodes = groups[i].nodes
             /\ groups'[i].made = IF i = index THEN {"graph"} ELSE groups[i].made
    BY <1>1, <1>2, <1>3, CloneFacts, MadeEntry
  <1>5. Filled' /\ \A i \in DOMAIN groups : Graphlet(i)' = Graphlet(i)
    BY <1>1, <1>4, CloneFacts, FilledKept DEF GInv
  <1>6. PassTypes'
    BY <1>1, <1>4 DEF GInv, PassTypes, Nodes
  <1>7. \A i \in DOMAIN groups : MadeOf(i)' = IF i = index THEN {"graph"} ELSE MadeOf(i)
    BY <1>1, <1>2, <1>4 DEF MadeOf
  <1>8. \A i \in DOMAIN groups' : groups'[i].made = MadeOf(i)'
    BY <1>1, <1>4, <1>7, CloneFacts
  <1>9. objects' = {o \in Kinds \X (DOMAIN groups') : o[1] \in MadeOf(o[2])'}
    <2>1. objects = {o \in Kinds \X (DOMAIN groups) : o[1] \in MadeOf(o[2])}
      BY <1>1, CloneFacts
    <2>2. MadeOf(index) = {}
      BY <1>1, <1>2 DEF MadeOf
    <2>3. \A o \in Kinds \X (DOMAIN groups') :
             o[1] \in MadeOf(o[2])' <=> (o[1] \in MadeOf(o[2]) \/ o = <<"graph", index>>)
      <3> SUFFICES ASSUME NEW k \in Kinds, NEW i \in DOMAIN groups
                   PROVE  k \in MadeOf(i)' <=> (k \in MadeOf(i) \/ <<k, i>> = <<"graph", index>>)
        BY <1>4
      <3> QED
        BY <1>7, <2>2
    <2>4. <<"graph", index>> \in Kinds \X (DOMAIN groups')
      BY <1>2, <1>4 DEF Kinds
    <2> QED
      BY <1>1, <1>4, <2>1, <2>3, <2>4
  <1>10. Graphlet(index)' \subseteq clone'
    BY <1>1, <1>2, <1>4, <1>5 DEF Graphlet, LInv, LayerTypes
  <1>11. \A i \in 1 .. index' - 1 : runs'[i] = Graphlet(i)'
    <2>1. \A i \in 1 .. index - 1 : runs[i] = Graphlet(i) /\ i \in DOMAIN groups
      BY <1>1, <1>2, <1>4, CloneFacts
    <2> QED
      BY <1>1, <1>5, <2>1
  <1>12. Cloning'
    <2>1. index' <= Len(groups') + 1 /\ Len(runs') = index' - 1 /\ index' <= Len(groups')
      BY <1>1, <1>2, <1>4, CloneFacts
    <2> QED
      BY <1>1, <1>8, <1>9, <1>10, <1>11, <2>1 DEF Cloning
  <1> QED
    BY <1>1, <1>5, <1>6, <1>12 DEF GInv, BeforeCount, Counting, Filling, GivenBack

LEMMA PruneNodeGInv ==
  ASSUME LInv, GInv, PruneNode
  PROVE  GInv'
  <1>1. /\ pc = "prune" /\ pc' = pc
        /\ \E v \in Outside : clone' = clone \ {v}
        /\ UNCHANGED <<graph, destroyers, layers, layerCount, counted, first, layer, accumulated,
                       index, groups, objects, runs>>
    BY DEF PruneNode, readVars, layerVars, passVars, groupVars
  <1>2. PICK v \in Outside : clone' = clone \ {v}
    BY <1>1
  <1>3. index \in DOMAIN groups /\ Graphlet(index) \subseteq clone
    BY <1>1, CloneFacts DEF GInv, Cloning
  <1>4. v \notin Graphlet(index)
    <2>1. groups[index] \in GroupType /\ layers \in [Placed -> Nat]
      BY <1>1, <1>3, CloneFacts DEF LInv, LayerTypes
    <2> QED
      BY <1>2, <2>1 DEF Outside, Graphlet, GroupType
  <1>5. Filled' /\ \A i : Graphlet(i)' = Graphlet(i)
    BY <1>1 DEF GInv, Filled, Graphlet, Placed
  <1>6. PassTypes'
    BY <1>1, <1>2 DEF GInv, PassTypes, Nodes
  <1>7. \A i : MadeOf(i)' = MadeOf(i)
    BY <1>1 DEF MadeOf
  <1>8. Cloning'
    <2>1. Graphlet(index) \subseteq clone'
      BY <1>2, <1>3, <1>4
    <2> QED
      BY <1>1, <1>5, <1>7, <2>1 DEF GInv, Cloning
  <1> QED
    BY <1>1, <1>5, <1>6, <1>8 DEF GInv, BeforeCount, Counting, Filling, GivenBack

\* What is left of the clone is the group's: no node outside, all nodes inside.
LEMMA Pruned ==
  ASSUME LInv, GInv, pc = "prune", Outside = {}
  PROVE  clone = Graphlet(index)
  <1>1. /\ index \in DOMAIN groups /\ Graphlet(index) \subseteq clone
        /\ clone \subseteq Nodes(graph) /\ groups[index] \in GroupType
    BY CloneFacts DEF GInv, Cloning
  <1>2. Placed = Nodes(graph) /\ layers \in [Placed -> Nat]
    BY DEF LInv, LayerTypes, LayersFollowEdges, Passes
  <1>3. clone \subseteq Graphlet(index)
    <2> SUFFICES ASSUME NEW v \in clone PROVE v \in Graphlet(index)
      OBVIOUS
    <2>1. v \in Placed /\ layers[v] \in Nat /\ ~(layers[v] < groups[index].first)
          /\ ~(layers[v] > groups[index].last)
      BY <1>1, <1>2 DEF Outside
    <2>2. groups[index].first \in Nat /\ groups[index].last \in Nat
      BY <1>1 DEF GroupType
    <2> QED
      BY <2>1, <2>2 DEF Graphlet
  <1> QED
    BY <1>1, <1>3

LEMMA InstantiateGInv ==
  ASSUME LInv, GInv, Instantiate
  PROVE  GInv'
  <1>1. /\ pc = "prune" /\ pc' = "clone" /\ index' = index + 1
        /\ objects' = objects \cup {<<"exec", index>>}
        /\ groups' = [groups EXCEPT ![index].made = Kinds]
        /\ runs' = Append(runs, clone)
        /\ UNCHANGED <<graph, destroyers, layers, layerCount, counted, first, layer, accumulated, clone>>
    BY DEF Instantiate, readVars, layerVars, passVars
  <1>2. index \in 1 .. Len(groups)
    BY <1>1, CloneFacts DEF GInv, Cloning
  <1>3. clone = Graphlet(index)
    BY <1>1, Pruned DEF Instantiate
  <1>4. /\ groups' \in Seq(GroupType) /\ Len(groups') = Len(groups)
        /\ DOMAIN groups' = DOMAIN groups /\ DOMAIN groups = 1 .. Len(groups)
        /\ \A i \in DOMAIN groups :
             /\ groups'[i].first = groups[i].first /\ groups'[i].last = groups[i].last
             /\ groups'[i].nodes = groups[i].nodes
             /\ groups'[i].made = IF i = index THEN Kinds ELSE groups[i].made
    BY <1>1, <1>2, CloneFacts, MadeEntry
  <1>5. Filled' /\ \A i \in DOMAIN groups : Graphlet(i)' = Graphlet(i)
    BY <1>1, <1>4, CloneFacts, FilledKept DEF GInv
  <1>6. /\ runs' \in Seq(SUBSET Nodes(graph)) /\ Len(runs') = index
        /\ runs'[index] = clone /\ \A i \in 1 .. index - 1 : runs'[i] = runs[i]
    <2>1. clone \in SUBSET Nodes(graph) /\ runs \in Seq(SUBSET Nodes(graph)) /\ Len(runs) = index - 1
          /\ index \in Nat
      BY <1>1, CloneFacts
    <2> QED
      BY <1>1, <2>1
  <1>7. PassTypes'
    BY <1>1, <1>2, <1>4, <1>6 DEF GInv, PassTypes, Nodes
  <1>8. \A i \in DOMAIN groups : MadeOf(i)' = IF i = index THEN Kinds ELSE MadeOf(i)
    BY <1>1, <1>2, <1>4 DEF MadeOf
  <1>9. \A i \in DOMAIN groups' : groups'[i].made = MadeOf(i)'
    BY <1>1, <1>4, <1>8, CloneFacts
  <1>10. objects' = {o \in Kinds \X (DOMAIN groups') : o[1] \in MadeOf(o[2])'}
    <2>1. objects = {o \in Kinds \X (DOMAIN groups) : o[1] \in MadeOf(o[2])}
      BY <1>1, CloneFacts
    <2>2. MadeOf(index) = {"graph"}
      BY <1>1, <1>2 DEF MadeOf
    <2>3. \A o \in Kinds \X (DOMAIN groups') :
             o[1] \in MadeOf(o[2])' <=> (o[1] \in MadeOf(o[2]) \/ o = <<"exec", index>>)
      <3> SUFFICES ASSUME NEW k \in Kinds, NEW i \in DOMAIN groups
                   PROVE  k \in MadeOf(i)' <=> (k \in MadeOf(i) \/ <<k, i>> = <<"exec", index>>)
        BY <1>4
      <3> QED
        BY <1>8, <2>2 DEF Kinds
    <2>4. <<"exec", index>> \in Kinds \X (DOMAIN groups')
      BY <1>2, <1>4 DEF Kinds
    <2> QED
      BY <1>1, <1>4, <2>1, <2>3, <2>4
  <1>11. \A i \in 1 .. index' - 1 : runs'[i] = Graphlet(i)'
    <2>0. 1 .. index' - 1 = 1 .. index
      BY <1>1, <1>2, CloneFacts
    <2> SUFFICES ASSUME NEW i \in 1 .. index PROVE runs'[i] = Graphlet(i)'
      BY <2>0
    <2>1. i \in DOMAIN groups
      BY <1>2, <1>4
    <2>2. CASE i = index
      BY <1>3, <1>5, <1>6, <2>1, <2>2
    <2>3. CASE i # index
      <3>1. i \in 1 .. index - 1
        BY <1>2, <2>3
      <3> QED
        BY <1>1, <1>5, <1>6, <2>1, <3>1, CloneFacts
    <2> QED
      BY <2>2, <2>3
  <1>12. Cloning'
    <2>1. index' <= Len(groups') + 1 /\ Len(runs') = index' - 1
      BY <1>1, <1>2, <1>4, <1>6
    <2> QED
      BY <1>1, <1>9, <1>10, <1>11, <2>1 DEF Cloning
  <1> QED
    BY <1>1, <1>5, <1>7, <1>12 DEF GInv, BeforeCount, Counting, Filling, GivenBack

LEMMA AllBuiltGInv ==
  ASSUME LInv, GInv, AllBuilt
  PROVE  GInv'
  <1>1. /\ pc = "clone" /\ pc' = "split" /\ index > Len(groups)
        /\ UNCHANGED <<graph, destroyers, layers, layerCount, counted, first, layer, accumulated,
                       index, groups, clone, objects, runs>>
    BY DEF AllBuilt, readVars, layerVars, passVars, groupVars, cloneVars
  <1>2. index = Len(groups) + 1
    BY <1>1, CloneFacts
  <1>3. PassTypes'
    BY <1>1 DEF GInv, PassTypes, Nodes
  <1>4. Filled'
    BY <1>1 DEF GInv, Filled
  <1>5. \A i : MadeOf(i)' = MadeOf(i) /\ Graphlet(i)' = Graphlet(i)
    BY <1>1 DEF MadeOf, Graphlet, Placed
  <1>6. Cloning'
    BY <1>1, <1>2, <1>5 DEF GInv, Cloning
  <1> QED
    BY <1>1, <1>3, <1>4, <1>6 DEF GInv, BeforeCount, Counting, Filling, GivenBack

\* What is destroyed is what exists and can be destroyed: the array names it.
LEMMA GraphletFailsGInv ==
  ASSUME LInv, GInv, GraphletFails
  PROVE  GInv'
  <1>1. /\ pc \in {"clone", "prune"} /\ pc' = "whole"
        /\ objects' = objects \ {o \in Named : o[1] \in destroyers}
        /\ groups' = << >>
        /\ UNCHANGED <<graph, destroyers, layers, layerCount, passVars, index, clone, runs>>
    BY DEF GraphletFails, DestroyGraphlets, FallBack, readVars, layerVars
  <1>2. objects = Named
    BY <1>1, CloneFacts DEF Named
  <1>3. GivenBack'
    BY <1>1, <1>2 DEF GivenBack
  <1>4. PassTypes'
    <2>1. << >> \in Seq(GroupType)
      OBVIOUS
    <2> QED
      BY <1>1, <2>1, PassTypesKept DEF GInv, PassTypes, passVars
  <1> QED
    BY <1>1, <1>3, <1>4 DEF GInv, BeforeCount, Counting, Filling, Filled, Cloning

\* The steps before the passes, and those that give the build up before there
\* is an array.
LEMMA EarlyGInv ==
  ASSUME LInv, GInv,
         Read \/ ReadRefused \/ ReadFails \/ PlaceLayer \/ NoneReady \/ AllPlaced \/ NoRoomForGroups
  PROVE  GInv'
  <1>1. /\ pc \in {"read", "layer", "count"}
        /\ pc' \in {"layer", "whole"} \/ (pc = "layer" /\ pc' = "count")
        /\ pc' = "layer" => pc \in {"read", "layer"}
        /\ UNCHANGED <<graph, destroyers, passVars, index, groups, clone, objects, runs>>
    BY DEF Read, ReadRefused, ReadFails, PlaceLayer, NoneReady, AllPlaced, NoRoomForGroups,
           FallBack, readVars, groupVars, cloneVars
  <1>2. Untouched /\ (pc' \in {"layer", "count"} =>
                        counted = 0 /\ first = 0 /\ layer = 0 /\ accumulated = 0)
    BY <1>1 DEF GInv, BeforeCount, Counting
  <1>3. PassTypes'
    BY <1>1, PassTypesKept DEF GInv, PassTypes, passVars
  <1>4. BeforeCount'
    BY <1>1, <1>2 DEF BeforeCount, Untouched, passVars
  <1>5. Counting'
    <2> SUFFICES ASSUME pc' = "count" PROVE Counting'
      BY DEF Counting
    <2> DEFINE z == [l \in Nat |-> 0]
    <2>1. Counts(layers', z, z, 0) /\ z[0] = 0
      BY DEF Counts
    <2>2. layer' = 0 /\ counted' = 0 /\ accumulated' = 0 /\ Untouched' /\ layerCount' \in Nat
      <3>1. AllPlaced
        BY <1>1 DEF Read, ReadRefused, ReadFails, PlaceLayer, NoneReady, NoRoomForGroups, FallBack
      <3>2. layerCount' = layerCount
        BY <3>1 DEF AllPlaced, layerVars
      <3> QED
        BY <1>1, <1>2, <3>2 DEF Untouched, passVars, LInv, LayerTypes
    <2> HIDE DEF z
    <2> QED
      BY <2>1, <2>2 DEF Counting
  <1>6. GivenBack'
    BY <1>1, <1>2 DEF GivenBack, Untouched
  <1> QED
    BY <1>1, <1>3, <1>4, <1>5, <1>6 DEF GInv, Filling, Filled, Cloning

LEMMA NextIInv == IInv /\ [Next]_vars => IInv'
  <1> SUFFICES ASSUME LInv, GInv, [Next]_vars PROVE GInv'
    BY NextLInv DEF IInv
  <1>1. CASE UNCHANGED vars
    <2>1. UNCHANGED <<graph, destroyers, pc, layers, layerCount, counted, first, layer, accumulated,
                      index, groups, clone, objects, runs>>
      BY <1>1 DEF vars, readVars, layerVars, passVars, groupVars, cloneVars
    <2>2. \A i : MadeOf(i)' = MadeOf(i) /\ Graphlet(i)' = Graphlet(i)
      BY <2>1 DEF MadeOf, Graphlet, Placed
    <2>3. PassTypes' /\ BeforeCount' /\ Filled' /\ GivenBack'
      BY <2>1 DEF GInv, PassTypes, BeforeCount, Filled, GivenBack, Untouched, Nodes
    <2>4. Counting' /\ Filling'
      BY <2>1 DEF GInv, Counting, Filling, Untouched
    <2>5. Cloning'
      BY <2>1, <2>2 DEF GInv, Cloning
    <2> QED
      BY <2>3, <2>4, <2>5 DEF GInv
  <1>2. CASE Next
    BY <1>2, EarlyGInv, CountLayerGInv, MakeArrayGInv, AddLayerGInv, LastGroupGInv, CloneGraphGInv,
       PruneNodeGInv, InstantiateGInv, GraphletFailsGInv, AllBuiltGInv DEF Next
  <1> QED
    BY <1>1, <1>2

LEMMA InitIInv == Init => IInv
  <1> SUFFICES ASSUME Init PROVE GInv
    BY InitLInv DEF IInv
  <1>1. << >> \in Seq(GroupType) /\ << >> \in Seq(SUBSET Nodes(graph))
    OBVIOUS
  <1>2. PassTypes
    BY <1>1 DEF Init, PassTypes
  <1> QED
    BY <1>2 DEF Init, GInv, BeforeCount, Counting, Filling, Filled, Cloning, GivenBack, Untouched

LEMMA Invariance == Spec => []IInv
  BY InitIInv, NextIInv, PTL DEF Spec

---------------------------------------------------------------------------
(* Theorems. *)

\* Every build keeps its types, whatever graph it is given, and the pass that
\* fills the groups (graph_scheduler.c:375-399) writes only entries of the array
\* that the pass before it (353-373) sized.
THEOREM TypeCorrect == Spec => []TypeOK
  BY TypesFollow, Invariance, PTL

\* A layer of a placed node lies in one group, and a lower layer in no later
\* one.
LEMMA GroupsOrdered ==
  ASSUME IInv, pc \in {"clone", "prune", "split"}
  PROVE  /\ \A v \in Nodes(graph) : \E i \in DOMAIN groups : v \in Graphlet(i)
         /\ \A u, v \in Placed, i, j \in DOMAIN groups :
              layers[u] <= layers[v] /\ u \in Graphlet(i) /\ v \in Graphlet(j) => i <= j
  <1>1. /\ Placed = Nodes(graph) /\ Tiles(groups, Len(groups), layerCount)
        /\ \A v \in Placed : layers[v] \in 0 .. layerCount - 1
        /\ groups \in Seq(GroupType)
    BY DEF IInv, LInv, LayerTypes, LayersFollowEdges, GInv, PassTypes, Filled, Passes
  <1>2. \A i \in DOMAIN groups : i \in Nat /\ groups[i].first \in Nat /\ groups[i].last \in Nat
    <2>1. DOMAIN groups = 1 .. Len(groups) /\ \A i \in DOMAIN groups : groups[i] \in GroupType
      BY <1>1
    <2> QED
      BY <2>1 DEF GroupType
  <1>3. ASSUME NEW v \in Nodes(graph) PROVE \E i \in DOMAIN groups : v \in Graphlet(i)
    BY <1>1, <1>3 DEF Tiles, Graphlet
  <1>4. ASSUME NEW u \in Placed, NEW v \in Placed, NEW i \in DOMAIN groups,
               NEW j \in DOMAIN groups, layers[u] <= layers[v],
               u \in Graphlet(i), v \in Graphlet(j), ~(i <= j)
        PROVE  FALSE
    <2>1. groups[j].last < groups[i].first
      <3>1. j < i /\ i \in 1 .. Len(groups) /\ j \in 1 .. Len(groups)
        BY <1>1, <1>2, <1>4
      <3> QED
        BY <1>1, <3>1 DEF Tiles
    <2>2. groups[i].first <= layers[u] /\ layers[v] <= groups[j].last
      BY <1>4, <1>2 DEF Graphlet
    <2> QED
      BY <2>1, <2>2, <1>1, <1>2, <1>4
  <1> QED
    BY <1>3, <1>4

\* A graph that is split runs every node in one executable: none is left out
\* and none runs twice (graph_build_graphlets).
THEOREM NodesOnce == Spec => []EveryNodeOnce
  <1>1. IInv => EveryNodeOnce
    <2> SUFFICES ASSUME IInv, pc = "split", NEW v \in Nodes(graph)
                 PROVE  \E i \in DOMAIN groups :
                          /\ v \in runs[i]
                          /\ \A j \in DOMAIN groups : v \in runs[j] => j = i
      BY DEF EveryNodeOnce
    <2>0. \A i \in DOMAIN groups : runs[i] = Graphlet(i) /\ i \in Int
      BY CloneFacts DEF IInv, GInv, Cloning
    <2>1. PICK i \in DOMAIN groups : v \in Graphlet(i)
      BY GroupsOrdered
    <2>2. v \in Placed /\ layers[v] <= layers[v]
      BY <2>1 DEF Graphlet, IInv, LInv, LayerTypes
    <2>3. \A j \in DOMAIN groups : v \in Graphlet(j) => i <= j /\ j <= i
      BY <2>1, <2>2, GroupsOrdered
    <2> QED
      BY <2>0, <2>1, <2>3
  <1> QED
    BY <1>1, Invariance, PTL

\* Graphlets launched one after the other respect every dependency of the
\* graph, whatever the limit and however the layers fall into groups.
THEOREM EdgesForward == Spec => []EdgesLeadForward
  <1>1. IInv => EdgesLeadForward
    <2> SUFFICES ASSUME IInv, pc = "split", NEW e \in graph.edges
                 PROVE  \E i, j \in DOMAIN groups :
                          i <= j /\ e[1] \in runs[i] /\ e[2] \in runs[j]
      BY DEF EdgesLeadForward
    <2>0. \A i \in DOMAIN groups : runs[i] = Graphlet(i)
      BY CloneFacts DEF IInv, GInv, Cloning
    <2>1. /\ e[1] \in Placed /\ e[2] \in Placed /\ layers[e[1]] < layers[e[2]]
          /\ Placed = Nodes(graph) /\ layers \in [Placed -> Nat]
      BY DEF IInv, LInv, LayerTypes, LayersFollowEdges, Passes
    <2>2. layers[e[1]] <= layers[e[2]]
      BY <2>1
    <2>3. PICK i, j \in DOMAIN groups : e[1] \in Graphlet(i) /\ e[2] \in Graphlet(j)
      BY <2>1, GroupsOrdered
    <2>4. i <= j
      BY <2>1, <2>2, <2>3, GroupsOrdered
    <2> QED
      BY <2>0, <2>3, <2>4
  <1> QED
    BY <1>1, Invariance, PTL

\* No object of the driver is lost, whichever call of the cloning fails and
\* whatever the driver can destroy: the array names what there is, at every
\* step (graph_destroy_graphlets, graph_scheduler.c:173-192).
THEOREM ObjectsKept == Spec => []NoObjectLeaks
  <1>1. IInv => NoObjectLeaks
    <2> SUFFICES ASSUME IInv PROVE NoObjectLeaks
      OBVIOUS
    <2>1. CASE pc = "split"
      <3>1. /\ \A i \in DOMAIN groups : groups[i].made = MadeOf(i)
            /\ objects = {o \in Kinds \X (DOMAIN groups) : o[1] \in MadeOf(o[2])}
        BY <2>1, CloneFacts DEF IInv
      <3>2. \A i \in DOMAIN groups : MadeOf(i) = Kinds
        BY <2>1, CloneFacts DEF IInv, GInv, Cloning, MadeOf
      <3> QED
        BY <2>1, <3>1, <3>2 DEF NoObjectLeaks
    <2>2. CASE pc # "split"
      BY <2>2 DEF NoObjectLeaks, IInv, GInv, GivenBack
    <2> QED
      BY <2>1, <2>2
  <1> QED
    BY <1>1, Invariance, PTL

---------------------------------------------------------------------------
(* What the passes compute exactly: layers that are depths, groups that fit *)
(* the limit, and a refusal only of a cycle.                                *)

\* When no node is ready each waits for one that is not placed.
LEMMA NextCyclic ==
  ASSUME LInv, CyclicMeansCyclic, [Next]_vars
  PROVE  CyclicMeansCyclic'
  <1> SUFFICES ASSUME reason' = "cyclic_or_invalid_dag"
               PROVE  \E S \in SUBSET Nodes(graph') :
                        /\ S # {}
                        /\ \A v \in S : \E u \in S \cup {0} : <<u, v>> \in graph'.edges
    BY DEF CyclicMeansCyclic
  <1>1. graph' = graph
    BY DEF Next, vars, Read, ReadRefused, ReadFails, PlaceLayer, NoneReady, AllPlaced, CountLayer,
           MakeArray, NoRoomForGroups, AddLayer, LastGroup, CloneGraph, PruneNode, Instantiate,
           GraphletFails, AllBuilt, readVars
  <1>2. CASE NoneReady
    <2>1. /\ pc = "layer" /\ Unplaced # {} /\ Ready = {}
          /\ graph \in Graphs
          /\ pending = {e \in graph.edges : e[1] \notin Placed}
      BY <1>2 DEF NoneReady, PlaceRound, LInv, LayerTypes, LayersFollowEdges
    <2>2. graph.edges \subseteq (0 .. graph.size) \X (0 .. graph.size) /\ graph.size \in Nat
      BY <2>1
    <2>3. ASSUME NEW v \in Unplaced
          PROVE  \E u \in Unplaced \cup {0} : <<u, v>> \in graph.edges
      <3>1. PICK e \in pending : e[2] = v
        BY <2>1 DEF Ready
      <3>2. e = <<e[1], v>> /\ e \in graph.edges /\ e[1] \in 0 .. graph.size /\ e[1] \notin Placed
        BY <2>1, <2>2, <3>1
      <3>3. e[1] \in Unplaced \cup {0}
        BY <2>2, <3>2 DEF Unplaced, Nodes
      <3> QED
        BY <3>2, <3>3
    <2> QED
      BY <1>1, <2>1, <2>3 DEF Unplaced
  <1>3. CASE ~NoneReady
    <2>1. reason = "cyclic_or_invalid_dag"
      BY <1>3 DEF Next, vars, Read, ReadRefused, ReadFails, PlaceLayer, AllPlaced, CountLayer,
             MakeArray, NoRoomForGroups, AddLayer, LastGroup, CloneGraph, PruneNode, Instantiate,
             GraphletFails, AllBuilt, FallBack
    <2> QED
      BY <1>1, <2>1 DEF CyclicMeansCyclic
  <1> QED
    BY <1>2, <1>3

LEMMA CyclicInvariance == Spec => [](IInv /\ CyclicMeansCyclic)
  <1>1. Init => IInv /\ CyclicMeansCyclic
    <2>1. Init => CyclicMeansCyclic
      BY DEF Init, CyclicMeansCyclic
    <2> QED
      BY <2>1, InitIInv
  <1>2. IInv /\ CyclicMeansCyclic /\ [Next]_vars => (IInv /\ CyclicMeansCyclic)'
    BY NextIInv, NextCyclic DEF IInv
  <1> QED
    BY <1>1, <1>2, PTL DEF Spec

\* The layers satisfy the recursion that defines the depth.
LEMMA LayersRecur ==
  ASSUME LInv, pc \in Passes, NEW v \in Nodes(graph)
  PROVE  /\ v \in Placed
         /\ Before(v) = {} => layers[v] = 0
         /\ Before(v) # {} => /\ layers[v] \in 1 .. graph.size
                              /\ \E u \in Before(v) : layers[v] = layers[u] + 1
         /\ \A u \in Before(v) : u \in Nodes(graph) /\ layers[u] < layers[v]
  <1>1. /\ Placed = Nodes(graph) /\ graph \in Graphs
        /\ layers \in [Placed -> Nat] /\ layerCount \in Nat
        /\ \A e \in graph.edges :
            e[2] \in Placed => e[1] \in Placed /\ layers[e[1]] < layers[e[2]]
        /\ \A u \in Placed : layers[u] < layerCount
    BY DEF LInv, LayerTypes, LayersFollowEdges, Passes
  <1>2. \A u \in Before(v) : u \in Nodes(graph) /\ <<u, v>> \in graph.edges
    BY DEF Before
  <1>3. \A u \in Before(v) : layers[u] < layers[v] /\ layers[u] \in Nat
    BY <1>1, <1>2
  <1>4. layers[v] = 0 \/ \E u \in Before(v) : layers[v] = layers[u] + 1
    BY <1>1 DEF LInv, LayersTight, Tight, Before
  <1>5. layerCount <= graph.size
    <2>1. graph.size \in Nat
      BY <1>1
    <2>2. Cardinality(1 .. graph.size) = graph.size
      BY <2>1, FS_Interval
    <2> QED
      BY <1>1, <2>1, <2>2 DEF LInv, LayersFull, Nodes
  <1>6. graph.size \in Nat
    BY <1>1
  <1>7. ASSUME Before(v) = {} PROVE layers[v] = 0
    BY <1>4, <1>7
  <1>8. ASSUME Before(v) # {}
        PROVE  layers[v] \in 1 .. graph.size /\ \E u \in Before(v) : layers[v] = layers[u] + 1
    <2>1. PICK u \in Before(v) : layers[u] < layers[v] /\ layers[u] \in Nat
      BY <1>3, <1>8
    <2>2. layers[v] \in Nat /\ layers[v] < layerCount
      BY <1>1
    <2>3. layers[v] \in 1 .. graph.size
      BY <1>1, <1>5, <1>6, <2>1, <2>2
    <2>4. layers[v] # 0
      BY <2>1, <2>2
    <2> QED
      BY <1>4, <2>3, <2>4
  <1> QED
    BY <1>1, <1>2, <1>3, <1>7, <1>8

\* What the recursion says of the depth of one node.
DepthStep(f, v) ==
  IF Before(v) = {} THEN 0
  ELSE CHOOSE d \in 1 .. graph.size :
         /\ \E u \in Before(v) : d = f[u] + 1
         /\ \A u \in Before(v) : d >= f[u] + 1

\* The greatest depth before is one value: whatever agrees with the layers on
\* the nodes before v gives v its layer.
LEMMA StepOfLayers ==
  ASSUME LInv, pc \in Passes, NEW v \in Nodes(graph),
         NEW f, \A u \in Before(v) : f[u] = layers[u]
  PROVE  DepthStep(f, v) = layers[v]
  <1>1. CASE Before(v) = {}
    BY <1>1, LayersRecur DEF DepthStep
  <1>2. CASE Before(v) # {}
    <2> DEFINE P(d) == /\ \E u \in Before(v) : d = f[u] + 1
                       /\ \A u \in Before(v) : d >= f[u] + 1
    <2>1. \A u \in Before(v) : f[u] = layers[u] /\ f[u] \in Nat /\ f[u] < layers[v]
      BY LayersRecur DEF LInv, LayerTypes
    <2>2. layers[v] \in 1 .. graph.size /\ graph.size \in Nat
      BY <1>2, LayersRecur DEF LInv, LayerTypes
    <2>3. P(layers[v])
      BY <1>2, <2>1, <2>2, LayersRecur
    <2>4. \A d \in 1 .. graph.size : P(d) => d = layers[v]
      BY <2>1, <2>2, <2>3
    <2>5. DepthStep(f, v) = CHOOSE d \in 1 .. graph.size : P(d)
      BY <1>2 DEF DepthStep
    <2> HIDE DEF P
    <2> QED
      BY <2>2, <2>3, <2>4, <2>5
  <1> QED
    BY <1>1, <1>2

\* The layers are the depths: they satisfy the recursion, and of the nodes of
\* the lowest layer where another solution differs it says the same.
LEMMA LayersDeep ==
  ASSUME LInv, pc \in Passes
  PROVE  layers = Depth
  <1> DEFINE N == Nodes(graph)
             Solves(f) == f = [v \in N |-> DepthStep(f, v)]
  <1>1. /\ DOMAIN layers = N /\ layers = [v \in N |-> layers[v]]
        /\ \A v \in N : layers[v] \in Nat
    BY DEF LInv, LayerTypes, LayersFollowEdges, Passes, Placed
  <1>2. Solves(layers)
    BY <1>1, StepOfLayers
  <1>3. Depth = CHOOSE f : Solves(f)
    BY DEF Depth, DepthStep
  <1>4. Solves(Depth)
    <2> HIDE DEF Solves
    <2> QED
      BY <1>2, <1>3
  <1>5. ASSUME NEW v \in N PROVE Depth[v] = layers[v]
    <2> DEFINE Good == {n \in Nat : \A u \in N : layers[u] < n => Depth[u] = layers[u]}
    <2>1. 0 \in Good
      BY <1>1
    <2>2. ASSUME NEW n \in Nat, n \in Good PROVE n + 1 \in Good
      <3> SUFFICES ASSUME NEW u \in N, layers[u] < n + 1 PROVE Depth[u] = layers[u]
        OBVIOUS
      <3>1. \A w \in Before(u) : Depth[w] = layers[w]
        <4> SUFFICES ASSUME NEW w \in Before(u) PROVE Depth[w] = layers[w]
          OBVIOUS
        <4>1. w \in N /\ layers[w] < layers[u]
          BY LayersRecur
        <4>2. layers[w] < n
          BY <1>1, <4>1
        <4> QED
          BY <2>2, <4>1, <4>2
      <3>2. DepthStep(Depth, u) = layers[u]
        BY <3>1, StepOfLayers
      <3>3. Depth[u] = DepthStep(Depth, u)
        BY <1>4
      <3> QED
        BY <3>2, <3>3
    <2>3. layers[v] + 1 \in Good
      <3> HIDE DEF Good
      <3>1. layers[v] + 1 \in Nat
        BY <1>1
      <3> QED
        BY <2>1, <2>2, <3>1, NatInduct
    <2> QED
      BY <1>1, <2>3
  <1>6. Depth = [v \in N |-> Depth[v]]
    BY <1>4
  <1> QED
    BY <1>1, <1>5, <1>6

\* The three passes do what they are for.
THEOREM PassesAreExact == Spec => []PassesExact
  <1>1. IInv => LayersAreDepths
    BY LayersDeep DEF IInv, LayersAreDepths, Passes
  <1>2. IInv => GraphletsWithinLimit
    <2> SUFFICES ASSUME IInv PROVE GraphletsWithinLimit
      OBVIOUS
    <2>1. \A i : Graphlet(i) = Spanned(layers, groups[i].first, groups[i].last)
      BY DEF Graphlet, Spanned, Placed
    <2> QED
      BY <2>1 DEF IInv, GInv, Filled, GroupExact, GraphletsWithinLimit
  <1> QED
    BY <1>1, <1>2, CyclicInvariance, PTL DEF PassesExact
============================================================================
