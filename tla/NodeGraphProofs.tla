--------------------------- MODULE NodeGraphProofs ---------------------------
(* What NodeFactory and ResourceEstimator know of the nodes is exact, for any *)
(* flows without cycles, also those that change from one deployment to the    *)
(* next, and for any failures.                                               *)
EXTENDS NodeGraph, FiniteSetTheorems, TLAPS

StartedAreNodes == started \subseteq nodes

\* A key of dependents_ that does not dangle names a node.
LinksAreLive == \A d \in Ids : LiveLinks[d] \subseteq nodes

\* No command gives a camera dependencies: it never is a dependent, stale or
\* not, so that destroy takes a camera down only when it names it.
CamerasAreSources == \A c \in Cameras : pending[c] = {} /\ \A d \in Ids : c \notin dependents[d]

IInv ==
    /\ TypeOK
    /\ StartedAreNodes
    /\ LinksAreLive
    /\ CamerasAreSources
    /\ SingletonsAreUnique
    /\ EstimatorTracksNodes

-----------------------------------------------------------------------------
(* The identifiers *)

LEMMA Identifiers ==
  /\ NoId \notin Ids
  /\ Cameras \cap Models = {} /\ Cameras \cap Streams = {} /\ Models \cap Streams = {}
  /\ \A x \in Ids : \A deps \in DepsOf[x] : deps \subseteq Ids
  /\ \A c \in Cameras : \A deps \in DepsOf[c] : deps = {}
BY EstimatorAssumption, NodeGraphAssumption DEF Ids, DataNodes

LEMMA Types ==
  ASSUME TypeOK
  PROVE  /\ nodes \in SUBSET Ids /\ started \in SUBSET Ids /\ held \in SUBSET Ids
         /\ dependencies \in [Ids -> SUBSET Ids] /\ dependents \in [Ids -> SUBSET Ids]
         /\ stale \in [Ids -> SUBSET Ids] /\ pending \in [Ids -> SUBSET Ids]
         /\ attached \in [Ids -> SUBSET Ids] /\ asked \in [Ids -> SUBSET Ids]
BY DEF TypeOK

-----------------------------------------------------------------------------
(* The cascade of starts *)

\* It stays among the nodes when its links do.
LEMMA CascadeStaysInside ==
  ASSUME NEW N \in SUBSET Ids, NEW first \in SUBSET N, NEW deps, NEW links, NEW failing,
         \A d \in N : links[d] \subseteq N
  PROVE  StartCascade(first, deps, links, failing) \subseteq N \ started
<1> DEFINE S == N \ started
           Starts(x) == deps[x] \subseteq started \cup S /\ StartSucceeds(x, deps, failing)
<1>1. first \cup UNION {links[d] : d \in S} \subseteq N
  OBVIOUS
<1>2. \A x \in (first \cup UNION {links[d] : d \in S}) \ started : Starts(x) => x \in S
  BY <1>1
<1>3. S \in SUBSET (Ids \ started)
  OBVIOUS
<1> QED
  BY <1>2, <1>3 DEF StartCascade

LEMMA TopologiesAreTyped == \A deps : TopologyOf(deps) \in Topology /\ TopologyOf(deps).active
BY DEF TopologyOf, Topology

\* start() on the nodes in first keeps the estimator in step.
LEMMA StartsAreReported ==
  ASSUME NEW N \in SUBSET Ids, NEW first \in SUBSET N, NEW deps, NEW links, NEW dangling, NEW failing,
         \A d \in N : links[d] \subseteq N,
         started \subseteq N, held \subseteq Ids, touchedFreed \in BOOLEAN,
         topologies \in [Models -> Topology],
         Active(topologies) = started \cap Models,
         StartNodes(first, deps, links, dangling, failing)
  PROVE  /\ started' \subseteq N
         /\ held' \subseteq Ids
         /\ touchedFreed' \in BOOLEAN
         /\ topologies' \in [Models -> Topology]
         /\ Active(topologies') = started' \cap Models
<1> DEFINE new == StartCascade(first, deps, links, failing)
<1>1. new \subseteq N
  BY CascadeStaysInside
<1> HIDE DEF new
<1>2. /\ started' = started \cup new
      /\ topologies' = [m \in Models |-> IF m \in new THEN TopologyOf(deps[m]) ELSE topologies[m]]
      /\ held' = (held \ new) \cup StartFails(first, new, deps, links, failing)
      /\ touchedFreed' = (touchedFreed \/ \E d \in new : dangling[d] # {})
  BY DEF StartNodes, ModelsStart, new
<1>3. started' \subseteq N
  BY <1>1, <1>2
<1>4. held' \subseteq Ids
  <2>1. StartFails(first, new, deps, links, failing) \subseteq Ids
    BY <1>1 DEF StartFails
  <2> QED
    BY <1>2, <2>1
<1>5. touchedFreed' \in BOOLEAN
  BY <1>2
<1>6. topologies' \in [Models -> Topology] /\ \A m \in Models : topologies'[m].active <=> m \in started'
  <2>1. \A m \in Models : m \in started <=> topologies[m].active
    BY DEF Active
  <2> QED
    BY <1>2, <2>1, TopologiesAreTyped
<1>7. Active(topologies') = started' \cap Models
  BY <1>6 DEF Active
<1> QED
  BY <1>3, <1>4, <1>5, <1>6, <1>7

-----------------------------------------------------------------------------
(* What stops *)

LEMMA StopsAreReported ==
  ASSUME NEW gone, topologies \in [Models -> Topology],
         Active(topologies) = started \cap Models,
         started' = started \ gone, ModelsStop(gone)
  PROVE  topologies' \in [Models -> Topology] /\ Active(topologies') = started' \cap Models
<1>1. Inactive \in Topology /\ ~Inactive.active
  BY DEF Inactive, Topology
<1>2. \A m \in Models : m \in started <=> topologies[m].active
  BY DEF Active
<1>3. topologies' = [m \in Models |-> IF m \in gone THEN Inactive ELSE topologies[m]]
  BY DEF ModelsStop
<1>4. topologies' \in [Models -> Topology]
  BY <1>1, <1>3
<1>5. \A m \in Models : topologies'[m].active <=> m \in started'
  BY <1>1, <1>2, <1>3
<1> QED
  BY <1>4, <1>5 DEF Active

\* destroy names the cameras it takes down.
LEMMA CamerasAreNamed ==
  ASSUME TypeOK, CamerasAreSources, NEW x \in Ids
  PROVE  Dependents(x) \subseteq Ids \ Cameras
<1> DEFINE S == Ids \ Cameras
<1>1. \A d \in Ids : dependents[d] \subseteq S
  BY Types DEF CamerasAreSources
<1>2. S \in SUBSET Ids /\ dependents[x] \subseteq S
      /\ \A z \in S \cup {x} : \A y \in dependents[z] \ stale[z] : y \in S => dependents[y] \subseteq S
  BY <1>1
<1> HIDE DEF S
<1>3. Dependents(x) \subseteq S
  BY <1>2 DEF Dependents
<1> QED
  BY <1>3 DEF S

-----------------------------------------------------------------------------
(* The invariant *)

LEMMA InitIInv == Init => IInv
<1> SUFFICES ASSUME Init PROVE IInv
  OBVIOUS
<1>1. Inactive \in Topology /\ ~Inactive.active
  BY DEF Inactive, Topology
<1>2. TypeOK
  BY <1>1 DEF Init, TypeOK, Empty, Policy
<1>3. StartedAreNodes /\ LinksAreLive /\ CamerasAreSources
  BY DEF Init, Empty, StartedAreNodes, LinksAreLive, LiveLinks, CamerasAreSources, Ids
<1>4. SingletonsAreUnique
  BY DEF Init, SingletonsAreUnique
<1>5. EstimatorTracksNodes
  BY <1>1 DEF Init, EstimatorTracksNodes, Active
<1> QED
  BY <1>2, <1>3, <1>4, <1>5 DEF IInv

\* What a step that leaves the links and the registries alone keeps.
LEMMA GraphUnchanged ==
  ASSUME IInv, UNCHANGED <<nodes, dependencies, dependents, stale, pending, singleton, attached, asked>>
  PROVE  /\ LinksAreLive' /\ CamerasAreSources' /\ SingletonsAreUnique'
         /\ {dependencies', dependents', stale', pending', attached', asked'} \subseteq [Ids -> SUBSET Ids]
         /\ nodes' \subseteq Ids
         /\ singleton' \in [SingletonTypes -> Ids \cup {NoId}]
BY DEF IInv, TypeOK, LinksAreLive, LiveLinks, CamerasAreSources, SingletonsAreUnique

LEMMA StartKeeps ==
  ASSUME IInv, NEW x \in Ids, Start(x)
  PROVE  IInv'
<1> USE DEF IInv
<1>1. /\ LinksAreLive' /\ CamerasAreSources' /\ SingletonsAreUnique'
      /\ {dependencies', dependents', stale', pending', attached', asked'} \subseteq [Ids -> SUBSET Ids]
      /\ nodes' \subseteq Ids
      /\ singleton' \in [SingletonTypes -> Ids \cup {NoId}]
  BY GraphUnchanged DEF Start, graph
<1>2. PICK failing \in Failures : StartNodes({x}, dependencies, LiveLinks, stale, failing)
  BY DEF Start
<1>3. /\ started' \subseteq nodes
      /\ held' \subseteq Ids
      /\ touchedFreed' \in BOOLEAN
      /\ topologies' \in [Models -> Topology]
      /\ Active(topologies') = started' \cap Models
  <2>1. /\ nodes \in SUBSET Ids /\ {x} \in SUBSET nodes /\ \A d \in nodes : LiveLinks[d] \subseteq nodes
        /\ started \subseteq nodes /\ held \subseteq Ids /\ touchedFreed \in BOOLEAN
        /\ topologies \in [Models -> Topology] /\ Active(topologies) = started \cap Models
    BY DEF Start, TypeOK, LinksAreLive, StartedAreNodes, EstimatorTracksNodes
  <2> QED
    BY <1>2, <2>1, StartsAreReported
<1>4. UNCHANGED <<nodes, policies>>
  BY DEF Start, graph
<1>5. TypeOK'
  BY <1>1, <1>3, <1>4 DEF TypeOK
<1>6. StartedAreNodes' /\ EstimatorTracksNodes'
  BY <1>3, <1>4 DEF StartedAreNodes, EstimatorTracksNodes
<1> QED
  BY <1>1, <1>5, <1>6

LEMMA StopKeeps ==
  ASSUME IInv, NEW x \in Ids, Stop(x)
  PROVE  IInv'
<1> USE DEF IInv
<1> DEFINE gone == StopCascade({x}, LiveLinks)
<1>1. /\ LinksAreLive' /\ CamerasAreSources' /\ SingletonsAreUnique'
      /\ {dependencies', dependents', stale', pending', attached', asked'} \subseteq [Ids -> SUBSET Ids]
      /\ nodes' \subseteq Ids
      /\ singleton' \in [SingletonTypes -> Ids \cup {NoId}]
  BY GraphUnchanged DEF Stop, graph
<1>2. /\ started' = started \ gone /\ ModelsStop(gone) /\ held' = held \cup {x}
      /\ touchedFreed' = (touchedFreed \/ \E d \in gone : stale[d] # {})
      /\ UNCHANGED <<nodes, policies>>
  BY DEF Stop, graph
<1> HIDE DEF gone
<1>3. topologies' \in [Models -> Topology] /\ Active(topologies') = started' \cap Models
  BY <1>2, StopsAreReported DEF TypeOK, EstimatorTracksNodes
<1>4. TypeOK'
  <2>1. touchedFreed' \in BOOLEAN
    BY <1>2
  <2> QED
    BY <1>1, <1>2, <1>3, <2>1 DEF TypeOK
<1>5. StartedAreNodes' /\ EstimatorTracksNodes'
  BY <1>2, <1>3 DEF StartedAreNodes, EstimatorTracksNodes
<1> QED
  BY <1>1, <1>4, <1>5

LEMMA SetInferFpsLimitKeeps ==
  ASSUME IInv, NEW c \in Cameras, SetInferFpsLimit(c)
  PROVE  IInv'
<1> USE DEF IInv
<1>1. /\ LinksAreLive' /\ CamerasAreSources' /\ SingletonsAreUnique'
      /\ {dependencies', dependents', stale', pending', attached', asked'} \subseteq [Ids -> SUBSET Ids]
      /\ nodes' \subseteq Ids
      /\ singleton' \in [SingletonTypes -> Ids \cup {NoId}]
  BY GraphUnchanged DEF SetInferFpsLimit, graph
<1>2. PICK policy \in Policies : policies' = [policies EXCEPT ![c] = policy]
  BY DEF SetInferFpsLimit
<1>3. policy \in Policy /\ policy # "none"
  BY NodeGraphAssumption DEF Policy
<1>4. UNCHANGED <<nodes, started, topologies, held, touchedFreed>> /\ c \in nodes
  BY DEF SetInferFpsLimit, graph
<1>5. TypeOK'
  BY <1>1, <1>2, <1>3, <1>4 DEF TypeOK
<1>6. StartedAreNodes' /\ EstimatorTracksNodes'
  BY <1>2, <1>3, <1>4 DEF StartedAreNodes, EstimatorTracksNodes, TypeOK
<1> QED
  BY <1>1, <1>5, <1>6

LEMMA DestroyAllKeeps ==
  ASSUME IInv, DestroyAll
  PROVE  IInv'
<1> USE DEF IInv
<1>1. /\ nodes' = {} /\ started' = {} /\ held' = {} /\ ModelsStop(Models)
      /\ dependencies' = Empty /\ dependents' = Empty /\ stale' = Empty /\ attached' = Empty /\ asked' = Empty
      /\ pending' = pending
      /\ singleton' = [t \in SingletonTypes |-> NoId]
      /\ policies' = [c \in Cameras |-> "none"]
      /\ touchedFreed' = (touchedFreed \/ \E d \in started : stale[d] # {})
  BY DEF DestroyAll
<1>2. topologies' \in [Models -> Topology] /\ Active(topologies') = {}
  BY <1>1 DEF ModelsStop, Active, Inactive, Topology
<1>3. TypeOK'
  <2>1. touchedFreed' \in BOOLEAN
    BY <1>1
  <2>2. Empty \in [Ids -> SUBSET Ids] /\ pending' \in [Ids -> SUBSET Ids]
    BY <1>1 DEF Empty, TypeOK
  <2> QED
    BY <1>1, <1>2, <2>1, <2>2 DEF TypeOK, Policy
<1>4. StartedAreNodes' /\ LinksAreLive' /\ CamerasAreSources'
  BY <1>1 DEF StartedAreNodes, LinksAreLive, LiveLinks, CamerasAreSources, Empty, Ids
<1>5. SingletonsAreUnique' /\ EstimatorTracksNodes'
  BY <1>1, <1>2 DEF SingletonsAreUnique, EstimatorTracksNodes
<1> QED
  BY <1>3, <1>4, <1>5

LEMMA CreateFailsKeeps ==
  ASSUME IInv, NEW x \in Ids, CreateFails(x)
  PROVE  IInv'
<1> USE DEF IInv
<1>1. PICK deps \in DepsOf[x] :
         /\ dependents' = [d \in Ids |-> dependents[d] \cup (IF d \in deps \cap nodes THEN {x} ELSE {})]
         /\ stale' = [d \in Ids |-> stale[d] \cup (IF d \in deps \cap nodes THEN {x} ELSE {})]
         /\ pending' = [pending EXCEPT ![x] = PendingOf(x, deps)]
  BY DEF CreateFails
<1>2. UNCHANGED <<nodes, dependencies, started, singleton, attached, topologies, policies, asked, held, touchedFreed>>
  BY DEF CreateFails
<1>3. deps \subseteq Ids /\ (x \in Cameras => deps = {})
  BY Identifiers
<1>4. PendingOf(x, deps) \subseteq Ids /\ (x \in Cameras => PendingOf(x, deps) = {})
  BY <1>3, Types DEF PendingOf, CamerasAreSources
<1>5. TypeOK'
  <2>1. /\ dependents' \in [Ids -> SUBSET Ids] /\ stale' \in [Ids -> SUBSET Ids]
        /\ pending' \in [Ids -> SUBSET Ids]
    BY <1>1, <1>4, Types
  <2> QED
    BY <1>2, <2>1 DEF TypeOK
<1>6. LinksAreLive'
  BY <1>1, <1>2, Types DEF LinksAreLive, LiveLinks
<1>7. CamerasAreSources'
  BY <1>1, <1>3, <1>4, Types DEF CamerasAreSources, Ids
<1>8. StartedAreNodes' /\ SingletonsAreUnique' /\ EstimatorTracksNodes'
  BY <1>2 DEF StartedAreNodes, SingletonsAreUnique, EstimatorTracksNodes
<1> QED
  BY <1>5, <1>6, <1>7, <1>8

LEMMA CreateKeeps ==
  ASSUME IInv, NEW x \in Ids, Create(x)
  PROVE  IInv'
<1> USE DEF IInv
<1> DEFINE Links(deps) == [d \in Ids |-> LinkedDependents(x, deps)[d] \ StaleAfterLinking(x, deps)[d]]
           First(deps) == IF deps \cap nodes \subseteq started THEN {x} ELSE {}
<1>1. PICK deps \in DepsOf[x], policy \in Policies, failing \in Failures :
         /\ MayCreate(x, deps)
         /\ nodes' = nodes \cup {x}
         /\ dependencies' = LinkedDependencies(x, deps)
         /\ dependents' = LinkedDependents(x, deps)
         /\ stale' = StaleAfterLinking(x, deps)
         /\ pending' = [y \in Ids |-> IF y = x THEN PendingOf(x, deps)
                                      ELSE IF y \in Waiting(x) THEN pending[y] \ {x} ELSE pending[y]]
         /\ attached' = Subscribed(x, deps)
         /\ asked' = [asked EXCEPT ![x] = deps]
         /\ singleton' = [t \in SingletonTypes |-> IF t = Type(x) THEN x ELSE singleton[t]]
         /\ policies' = [c \in Cameras |-> IF c = x THEN policy ELSE policies[c]]
         /\ StartNodes(First(deps), LinkedDependencies(x, deps), Links(deps), StaleAfterLinking(x, deps), failing)
  BY DEF Create
<1>2. /\ deps \subseteq Ids /\ (x \in Cameras => deps = {}) /\ x \notin nodes
      /\ (Type(x) \in SingletonTypes => singleton[Type(x)] = NoId)
  BY <1>1, Identifiers DEF MayCreate
<1>3. PendingOf(x, deps) \subseteq Ids /\ (x \in Cameras => PendingOf(x, deps) = {})
  BY <1>2, Types DEF PendingOf, CamerasAreSources
<1>4. Waiting(x) \subseteq nodes /\ Waiting(x) \cap Cameras = {} /\ nodes' \in SUBSET Ids
  BY <1>1, Types DEF Waiting, CamerasAreSources
<1>5. /\ dependencies' \in [Ids -> SUBSET Ids] /\ dependents' \in [Ids -> SUBSET Ids]
      /\ stale' \in [Ids -> SUBSET Ids] /\ pending' \in [Ids -> SUBSET Ids]
      /\ attached' \in [Ids -> SUBSET Ids] /\ asked' \in [Ids -> SUBSET Ids]
  <2>1. dependencies' \in [Ids -> SUBSET Ids]
    BY <1>1, <1>2, Types DEF LinkedDependencies
  <2>2. dependents' \in [Ids -> SUBSET Ids] /\ stale' \in [Ids -> SUBSET Ids]
    BY <1>1, <1>4, Types DEF LinkedDependents, StaleAfterLinking
  <2>3. pending' \in [Ids -> SUBSET Ids] /\ asked' \in [Ids -> SUBSET Ids]
    BY <1>1, <1>2, <1>3, Types
  <2>4. attached' \in [Ids -> SUBSET Ids]
    BY <1>1, <1>4, Types DEF Subscribed
  <2> QED
    BY <2>1, <2>2, <2>3, <2>4
<1>6. LinksAreLive'
  <2>1. \A d \in Ids : LiveLinks[d] \subseteq nodes
    BY DEF LinksAreLive
  <2>2. \A d \in Ids : dependents'[d] \ stale'[d] \subseteq nodes'
    <3> SUFFICES ASSUME NEW d \in Ids PROVE dependents'[d] \ stale'[d] \subseteq nodes'
      OBVIOUS
    <3>1. CASE d = x
      BY <1>1, <1>4, <3>1 DEF LinkedDependents
    <3>2. CASE d # x
      <4>1. /\ dependents'[d] = dependents[d] \cup (IF d \in deps \cap nodes THEN {x} ELSE {})
            /\ stale'[d] = stale[d] \ (IF d \in deps \cap nodes THEN {x} ELSE {})
        BY <1>1, <3>2 DEF LinkedDependents, StaleAfterLinking
      <4> QED
        BY <1>1, <2>1, <4>1 DEF LiveLinks
    <3> QED
      BY <3>1, <3>2
  <2> QED
    BY <2>2 DEF LinksAreLive, LiveLinks
<1>7. CamerasAreSources'
  <2>1. ASSUME NEW c \in Cameras PROVE pending'[c] = {} /\ \A d \in Ids : c \notin dependents'[d]
    <3>1. c \in Ids /\ pending[c] = {} /\ (\A d \in Ids : c \notin dependents[d]) /\ c \notin Waiting(x)
      BY <1>4 DEF CamerasAreSources, Ids
    <3>2. pending'[c] = {}
      BY <1>1, <1>3, <3>1
    <3>3. \A d \in Ids : c \notin dependents'[d]
      BY <1>1, <1>2, <3>1 DEF LinkedDependents
    <3> QED
      BY <3>2, <3>3
  <2> QED
    BY <2>1 DEF CamerasAreSources
<1>8. SingletonsAreUnique' /\ singleton' \in [SingletonTypes -> Ids \cup {NoId}]
  <2>1. singleton' \in [SingletonTypes -> Ids \cup {NoId}]
    BY <1>1 DEF TypeOK
  <2>2. ASSUME NEW t \in SingletonTypes
        PROVE  {y \in nodes' : Type(y) = t} = IF singleton'[t] = NoId THEN {} ELSE {singleton'[t]}
    <3>1. {y \in nodes : Type(y) = t} = IF singleton[t] = NoId THEN {} ELSE {singleton[t]}
      BY DEF SingletonsAreUnique
    <3>2. CASE t = Type(x)
      BY <1>1, <1>2, <3>1, <3>2, Identifiers
    <3>3. CASE t # Type(x)
      BY <1>1, <3>1, <3>3
    <3> QED
      BY <3>2, <3>3
  <2> QED
    BY <2>1, <2>2 DEF SingletonsAreUnique
<1>9. /\ started' \subseteq nodes' /\ held' \subseteq Ids /\ touchedFreed' \in BOOLEAN
      /\ topologies' \in [Models -> Topology] /\ Active(topologies') = started' \cap Models
  <2>1. First(deps) \in SUBSET nodes'
    BY <1>1
  <2>2. \A d \in nodes' : Links(deps)[d] \subseteq nodes'
    BY <1>1, <1>4, <1>6 DEF LinksAreLive, LiveLinks
  <2>3. /\ started \subseteq nodes' /\ held \subseteq Ids /\ touchedFreed \in BOOLEAN
        /\ topologies \in [Models -> Topology] /\ Active(topologies) = started \cap Models
    BY <1>1 DEF StartedAreNodes, TypeOK, EstimatorTracksNodes
  <2> HIDE DEF Links, First
  <2> QED
    BY <1>1, <1>4, <2>1, <2>2, <2>3, StartsAreReported
<1>10. /\ policies' \in [Cameras -> Policy]
       /\ {c \in Cameras : policies'[c] # "none"} = nodes' \cap Cameras
  <2>1. policy \in Policy /\ policy # "none"
    BY NodeGraphAssumption DEF Policy
  <2> QED
    BY <1>1, <2>1 DEF TypeOK, EstimatorTracksNodes
<1>11. TypeOK'
  BY <1>4, <1>5, <1>8, <1>9, <1>10 DEF TypeOK
<1>12. StartedAreNodes' /\ EstimatorTracksNodes'
  BY <1>9, <1>10 DEF StartedAreNodes, EstimatorTracksNodes
<1> QED
  BY <1>6, <1>7, <1>8, <1>11, <1>12

LEMMA DestroyKeeps ==
  ASSUME IInv, NEW x \in Ids, Destroy(x)
  PROVE  IInv'
<1> USE DEF IInv
<1> DEFINE gone == Doomed(x)
<1>1. /\ x \in nodes /\ nodes' = nodes \ gone /\ started' = started \ (gone \cap started)
      /\ dependencies' = [y \in Ids |-> IF y \in gone THEN {} ELSE dependencies[y]]
      /\ dependents' = [d \in Ids |-> IF d \in gone THEN {} ELSE dependents[d]]
      /\ stale' = [d \in Ids |-> IF d \in gone THEN {} ELSE stale[d] \cup (dependents[d] \cap gone)]
      /\ attached' = Unsubscribed(gone)
      /\ ModelsStop(gone)
      /\ singleton' = [t \in SingletonTypes |-> IF t \in FreedSingletons(x, gone) THEN NoId ELSE singleton[t]]
      /\ asked' = [y \in Ids |-> IF y \in gone THEN {} ELSE asked[y]]
      /\ held' = held \ gone
      /\ policies' = [c \in Cameras |-> IF c = x THEN "none" ELSE policies[c]]
      /\ pending' = [y \in Ids |-> IF y = x THEN {} ELSE pending[y] \ {x}]
      /\ touchedFreed' \in BOOLEAN
  BY DEF Destroy
<1>2. gone \subseteq nodes /\ x \in gone /\ gone \cap Cameras \subseteq {x}
  BY <1>1, CamerasAreNamed DEF Doomed
<1>3. FreedSingletons(x, gone) = {Type(y) : y \in gone}
  BY <1>2 DEF FreedSingletons
<1> HIDE DEF gone
<1>4. topologies' \in [Models -> Topology] /\ Active(topologies') = started' \cap Models
  BY <1>1, StopsAreReported DEF TypeOK, EstimatorTracksNodes
<1>5. /\ policies' \in [Cameras -> Policy]
      /\ {c \in Cameras : policies'[c] # "none"} = nodes' \cap Cameras
  BY <1>1, <1>2 DEF TypeOK, EstimatorTracksNodes, Policy
<1>6. SingletonsAreUnique' /\ singleton' \in [SingletonTypes -> Ids \cup {NoId}]
  <2>1. singleton' \in [SingletonTypes -> Ids \cup {NoId}]
    BY <1>1 DEF TypeOK
  <2>2. ASSUME NEW t \in SingletonTypes
        PROVE  {y \in nodes' : Type(y) = t} = IF singleton'[t] = NoId THEN {} ELSE {singleton'[t]}
    <3>1. {y \in nodes : Type(y) = t} = IF singleton[t] = NoId THEN {} ELSE {singleton[t]}
      BY DEF SingletonsAreUnique
    <3>2. CASE \E y \in gone : Type(y) = t
      BY <1>1, <1>2, <1>3, <3>1, <3>2
    <3>3. CASE ~\E y \in gone : Type(y) = t
      BY <1>1, <1>2, <1>3, <3>1, <3>3
    <3> QED
      BY <3>2, <3>3
  <2> QED
    BY <2>1, <2>2 DEF SingletonsAreUnique
<1>7. LinksAreLive'
  BY <1>1, Types DEF LinksAreLive, LiveLinks
<1>8. CamerasAreSources'
  BY <1>1, Types DEF CamerasAreSources, Ids
<1>9. TypeOK'
  <2>1. /\ dependencies' \in [Ids -> SUBSET Ids] /\ dependents' \in [Ids -> SUBSET Ids]
        /\ stale' \in [Ids -> SUBSET Ids] /\ pending' \in [Ids -> SUBSET Ids]
        /\ attached' \in [Ids -> SUBSET Ids] /\ asked' \in [Ids -> SUBSET Ids]
        /\ nodes' \subseteq Ids /\ started' \subseteq Ids /\ held' \subseteq Ids
    BY <1>1, Types DEF Unsubscribed
  <2> QED
    BY <1>1, <1>4, <1>5, <1>6, <2>1 DEF TypeOK
<1>10. StartedAreNodes' /\ EstimatorTracksNodes'
  BY <1>1, <1>4, <1>5 DEF StartedAreNodes, EstimatorTracksNodes
<1> QED
  BY <1>6, <1>7, <1>8, <1>9, <1>10

LEMMA StutterKeeps == IInv /\ UNCHANGED vars => IInv'
BY DEF vars, graph, IInv, TypeOK, StartedAreNodes, LinksAreLive, LiveLinks, CamerasAreSources,
       SingletonsAreUnique, EstimatorTracksNodes

LEMMA Preservation == IInv /\ [Next]_vars => IInv'
<1> SUFFICES ASSUME IInv, [Next]_vars PROVE IInv'
  OBVIOUS
<1>1. ASSUME NEW x \in Ids, Create(x) \/ CreateFails(x) \/ Start(x) \/ Stop(x) \/ Destroy(x) PROVE IInv'
  BY <1>1, CreateKeeps, CreateFailsKeeps, StartKeeps, StopKeeps, DestroyKeeps
<1>2. ASSUME NEW c \in Cameras, SetInferFpsLimit(c) PROVE IInv'
  BY <1>2, SetInferFpsLimitKeeps
<1> QED
  BY <1>1, <1>2, DestroyAllKeeps, StutterKeeps DEF Next

THEOREM Invariance == Spec => []IInv
BY Preservation, InitIInv, PTL DEF Spec

(* Every operation keeps the types of the variables. *)
THEOREM TypeCorrect == Spec => []TypeOK
<1>1. IInv => TypeOK
  BY DEF IInv
<1> QED
  BY <1>1, Invariance, PTL

(* singleton_instances_ names the live singletons (NodeFactory::create, destroy, *)
(* destroyAll), for any flows, failures and orders of commands.                  *)
THEOREM Singletons == Spec => []SingletonsAreUnique
<1>1. IInv => SingletonsAreUnique
  BY DEF IInv
<1> QED
  BY <1>1, Invariance, PTL

(* The estimator's maps hold the running models and the live cameras, through    *)
(* every cascade of starts, stops and destructions (ResourceEstimator::           *)
(* on_node_started, on_node_stopped, register_camera, unregister_camera).        *)
THEOREM EstimatorIsExact == Spec => []EstimatorTracksNodes
<1>1. IInv => EstimatorTracksNodes
  BY DEF IInv
<1> QED
  BY <1>1, Invariance, PTL
-----------------------------------------------------------------------------
(* The links *)

\* What a live node still lacks of what it was created with is waited for.
MissingArePending == \A x \in nodes : asked[x] \ nodes \subseteq pending[x]

\* A node runs once the dependencies it is linked to do.
ReadyNodesRun == \A x \in nodes \ held : dependencies[x] \subseteq started => x \in started

\* The graph as it is meant to be.
Intact ==
    /\ LinksHold
    /\ MissingArePending
    /\ FlowFollowsLinks
    /\ ReadyNodesRun

\* A key of a live node that dangles names no node that lives again.
StaleAreGone == \A d \in nodes : stale[d] \cap nodes = {}

\* Nothing but what some command asks for is linked or waited for.
LinksAreFromFlows ==
    /\ \A d \in Ids : \A x \in stale[d] : \E deps \in DepsOf[x] : d \in deps
    /\ \A d \in Ids : \A x \in dependents[d] : \E deps \in DepsOf[x] : d \in deps
    /\ \A x \in Ids : \A d \in pending[x] : \E deps \in DepsOf[x] : d \in deps
    /\ \A x \in Ids : \A d \in dependencies[x] : \E deps \in DepsOf[x] : d \in deps
    /\ \A x \in nodes : asked[x] \in DepsOf[x]

\* A node depends on the same nodes whenever it is created.
OneListEach == \A x \in Ids : \A deps, others \in DepsOf[x] : deps = others

-----------------------------------------------------------------------------
(* The cascades are what the recursion of Node::start and Node::stop reaches *)

\* Everything that starts had its dependencies, and starting goes on until
\* nothing more can.
LEMMA StartCascadeIsExact ==
  ASSUME NEW first \in SUBSET Ids, NEW deps, NEW links \in [Ids -> SUBSET Ids], NEW failing, NEW new,
         new = StartCascade(first, deps, links, failing)
  PROVE  /\ new \subseteq Ids \ started
         /\ \A x \in new : deps[x] \subseteq started \cup new
         /\ \A x \in Ids \ started :
                /\ x \in first \cup UNION {links[d] : d \in new}
                /\ deps[x] \subseteq started \cup new
                /\ StartSucceeds(x, deps, failing)
                => x \in new
<1> DEFINE Starts(x, S) == deps[x] \subseteq started \cup S /\ StartSucceeds(x, deps, failing)
           Notified(S) == first \cup UNION {links[d] : d \in S}
           Closed(S) == \A x \in Notified(S) \ started : Starts(x, S) => x \in S
<1>1. new = {x \in Ids \ started : \A S \in SUBSET (Ids \ started) : Closed(S) => x \in S}
  BY DEF StartCascade
<1>2. \A S \in SUBSET (Ids \ started) : Closed(S) => new \subseteq S
  BY <1>1
<1>3. \A x \in Ids \ started : x \in Notified(new) /\ Starts(x, new) => x \in new
  <2> SUFFICES ASSUME NEW x \in Ids \ started, x \in Notified(new), Starts(x, new),
                      NEW S \in SUBSET (Ids \ started), Closed(S)
               PROVE  x \in S
    BY <1>1
  <2>1. new \subseteq S
    BY <1>2
  <2>2. x \in Notified(S) /\ Starts(x, S)
    BY <2>1
  <2> QED
    BY <2>2
<1>4. \A x \in new : deps[x] \subseteq started \cup new
  <2> DEFINE T == {x \in new : deps[x] \subseteq started \cup new}
  <2>1. T \in SUBSET (Ids \ started)
    BY <1>1
  <2>2. Closed(T)
    <3> SUFFICES ASSUME NEW x \in Notified(T) \ started, Starts(x, T) PROVE x \in T
      OBVIOUS
    <3>1. T \subseteq new
      OBVIOUS
    <3>2. x \in Notified(new) /\ Starts(x, new)
      BY <3>1
    <3>3. x \in Ids
      BY <1>1
    <3> QED
      BY <1>3, <3>2, <3>3
  <2> QED
    BY <1>2, <2>1, <2>2
<1> QED
  BY <1>1, <1>3, <1>4

\* What stops was told to, or is a dependent of something that stops; all
\* dependents of what stops do.
LEMMA StopCascadeIsExact ==
  ASSUME NEW first, NEW links, NEW gone, gone = StopCascade(first, links)
  PROVE  /\ gone \subseteq started
         /\ \A d \in gone : links[d] \cap started \subseteq gone
         /\ \A x \in gone : x \in first \/ \E d \in gone : x \in links[d]
<1> DEFINE Closed(S) == /\ first \cap started \subseteq S
                        /\ \A d \in S : links[d] \cap started \subseteq S
<1>1. gone = {x \in started : \A S \in SUBSET started : Closed(S) => x \in S}
  BY DEF StopCascade
<1>2. \A S \in SUBSET started : Closed(S) => gone \subseteq S
  BY <1>1
<1>3. \A d \in gone : links[d] \cap started \subseteq gone
  BY <1>1
<1>4. \A x \in gone : x \in first \/ \E d \in gone : x \in links[d]
  <2> DEFINE T == {x \in gone : x \in first \/ \E d \in gone : x \in links[d]}
  <2>1. T \in SUBSET started /\ first \cap started \subseteq gone
    BY <1>1
  <2>2. Closed(T)
    BY <1>3, <2>1
  <2> QED
    BY <1>2, <2>1, <2>2
<1> QED
  BY <1>1, <1>3, <1>4

\* destroy takes down every node that depends on one it takes down, unless a
\* dangling key on the way names a node that lives again.
LEMMA DoomedIsClosed ==
  ASSUME TypeOK, LinksAreLive, NEW x \in nodes,
         \A z \in Doomed(x) : stale[z] \cap nodes = {}
  PROVE  \A d \in Doomed(x) : dependents[d] \cap nodes \subseteq Doomed(x)
<1> DEFINE Closed(S) == /\ dependents[x] \subseteq S
                        /\ \A z \in S \cup {x} : \A y \in dependents[z] \ stale[z] :
                               y \in S => dependents[y] \subseteq S
           D == Dependents(x)
           T == {y \in D : \E z \in Doomed(x) : y \in dependents[z]}
<1>1. D = {y \in Ids : \A S \in SUBSET Ids : Closed(S) => y \in S}
  BY DEF Dependents
<1>2. \A S \in SUBSET Ids : Closed(S) => D \subseteq S
  BY <1>1
<1>3. nodes \subseteq Ids /\ x \in Ids /\ \A d \in Ids : dependents[d] \in SUBSET Ids /\ stale[d] \in SUBSET Ids
  BY Types
<1>4. D \subseteq Ids /\ dependents[x] \subseteq D
  BY <1>1, <1>3
<1>5. \A z \in D \cup {x} : \A y \in dependents[z] \ stale[z] : y \in D => dependents[y] \subseteq D
  <2> SUFFICES ASSUME NEW z \in D \cup {x}, NEW y \in dependents[z] \ stale[z], y \in D,
                      NEW u \in dependents[y], NEW S \in SUBSET Ids, Closed(S)
               PROVE  u \in S
    BY <1>1, <1>3, <1>4
  <2>1. z \in S \cup {x} /\ y \in S
    BY <1>2
  <2> QED
    BY <2>1
<1>6. Doomed(x) = {x} \cup (D \cap nodes)
  BY DEF Doomed
<1> HIDE DEF D
<1>7. T \in SUBSET Ids
  BY <1>4
<1>8. dependents[x] \subseteq T
  BY <1>4, <1>6
<1>9. ASSUME NEW z \in T \cup {x}, NEW y \in dependents[z] \ stale[z], y \in T PROVE dependents[y] \subseteq T
  <2>1. z \in D \cup {x} /\ z \in Ids /\ y \in D
    BY <1>3, <1>4, <1>9
  <2>2. dependents[y] \subseteq D
    BY <1>5, <1>9, <2>1
  <2>3. y \in nodes
    BY <1>9, <2>1 DEF LinksAreLive, LiveLinks
  <2>4. y \in Doomed(x)
    BY <1>6, <2>1, <2>3
  <2> QED
    BY <2>2, <2>4
<1>10. Closed(T)
  BY <1>8, <1>9
<1>11. D \subseteq T
  BY <1>2, <1>7, <1>10
<1>12. ASSUME NEW d \in Doomed(x) PROVE dependents[d] \subseteq D
  <2>1. CASE d = x
    BY <1>4, <2>1
  <2>2. CASE d # x
    <3>1. d \in D /\ d \in nodes
      BY <1>6, <2>2
    <3>2. PICK z \in Doomed(x) : d \in dependents[z]
      BY <1>11, <3>1
    <3>3. d \notin stale[z] /\ z \in D \cup {x}
      BY <1>6, <3>1, <3>2
    <3> QED
      BY <1>5, <3>1, <3>2, <3>3
  <2> QED
    BY <2>1, <2>2
<1> QED
  BY <1>6, <1>12

-----------------------------------------------------------------------------
(* A step leaves an intact graph intact *)

\* The same, conjunct by conjunct, for a node or a pair of nodes.
LEMMA IntactFacts ==
  ASSUME TypeOK, Intact
  PROVE  /\ \A y \in nodes : dependencies[y] \subseteq nodes
         /\ \A y, d \in nodes : d \in dependencies[y] <=> y \in dependents[d] /\ y \notin stale[d]
         /\ \A y \in nodes : asked[y] \cap nodes \subseteq dependencies[y]
         /\ \A y \in nodes : asked[y] \ nodes \subseteq pending[y]
         /\ \A u \in nodes \cap DataNodes : attached[u] = {y \in nodes \cap DataNodes : u \in dependencies[y]}
         /\ \A y \in nodes \ held : dependencies[y] \subseteq started => y \in started
<1>1. \A y, d \in nodes : d \in dependencies[y] <=> y \in LiveLinks[d]
  BY DEF Intact, LinksHold, LinksAreMutual
<1>2. \A y, d \in nodes : d \in dependencies[y] <=> y \in dependents[d] /\ y \notin stale[d]
  BY <1>1, Types DEF LiveLinks
<1> QED
  BY <1>2 DEF Intact, LinksHold, DependenciesAreLive, LinksAreComplete, MissingArePending, FlowFollowsLinks,
              ReadyNodesRun

\* What a command leaves of the links when it leaves them alone.
LEMMA LinksUnchanged ==
  ASSUME Intact, UNCHANGED graph
  PROVE  LinksHold' /\ MissingArePending' /\ FlowFollowsLinks'
BY DEF graph, Intact, LinksHold, DependenciesAreLive, LinksAreMutual, LiveLinks, LinksAreComplete,
       MissingArePending, FlowFollowsLinks

\* start() leaves no node behind: one that could run and does not failed.
LEMMA StartsAreComplete ==
  ASSUME NEW N \in SUBSET Ids, NEW first \in SUBSET N, NEW failing, NEW dangling,
         NEW deps, NEW links \in [Ids -> SUBSET Ids],
         \A y \in N, d \in N : d \in deps[y] => y \in links[d],
         \A d \in N : links[d] \subseteq N,
         \A y \in N : deps[y] \subseteq N,
         started \subseteq N,
         \A y \in N \ held : deps[y] \subseteq started => y \in started \cup first,
         StartNodes(first, deps, links, dangling, failing)
  PROVE  \A y \in N \ held' : deps[y] \subseteq started' => y \in started'
<1> DEFINE new == StartCascade(first, deps, links, failing)
<1>1. /\ started' = started \cup new
      /\ held' = (held \ new) \cup StartFails(first, new, deps, links, failing)
  BY DEF StartNodes
<1>2. /\ new \subseteq Ids \ started
      /\ \A x \in Ids \ started :
                /\ x \in first \cup UNION {links[d] : d \in new}
                /\ deps[x] \subseteq started \cup new
                /\ StartSucceeds(x, deps, failing)
                => x \in new
  BY StartCascadeIsExact
<1>3. new \subseteq N
  BY CascadeStaysInside
<1> HIDE DEF new
<1> SUFFICES ASSUME NEW y \in N \ held', deps[y] \subseteq started', y \notin started'
             PROVE  FALSE
  OBVIOUS
<1>4. y \notin started /\ y \notin new /\ y \notin held /\ deps[y] \subseteq started \cup new
  BY <1>1
<1>5. y \in first \cup UNION {links[d] : d \in new}
  <2>1. CASE deps[y] \subseteq started
    BY <1>4, <2>1
  <2>2. CASE ~(deps[y] \subseteq started)
    <3>1. PICK d \in deps[y] : d \in new
      BY <1>4, <2>2
    <3> QED
      BY <1>3, <3>1
  <2> QED
    BY <2>1, <2>2
<1>6. CASE StartSucceeds(y, deps, failing)
  BY <1>2, <1>4, <1>5, <1>6
<1>7. CASE ~StartSucceeds(y, deps, failing)
  <2>1. y \in StartFails(first, new, deps, links, failing)
    BY <1>4, <1>5, <1>7 DEF StartFails
  <2> QED
    BY <1>1, <2>1
<1> QED
  BY <1>6, <1>7

LEMMA StartKeepsLinks ==
  ASSUME IInv, Intact, NEW x \in Ids, Start(x)
  PROVE  Intact'
<1>1. TypeOK /\ StartedAreNodes /\ LinksAreLive
  BY DEF IInv
<1>2. UNCHANGED graph /\ x \in nodes
  BY DEF Start
<1>3. LinksHold' /\ MissingArePending' /\ FlowFollowsLinks'
  BY <1>2, LinksUnchanged
<1>4. PICK failing \in Failures : StartNodes({x}, dependencies, LiveLinks, stale, failing)
  BY DEF Start
<1>5. \A y \in nodes \ held' : dependencies[y] \subseteq started' => y \in started'
  <2>1. nodes \in SUBSET Ids /\ {x} \in SUBSET nodes /\ started \subseteq nodes
    BY <1>1, <1>2, Types DEF StartedAreNodes
  <2>2. LiveLinks \in [Ids -> SUBSET Ids] /\ \A d \in nodes : LiveLinks[d] \subseteq nodes
    BY <1>1, Types DEF LiveLinks, LinksAreLive
  <2>3. /\ \A y \in nodes, d \in nodes : d \in dependencies[y] => y \in LiveLinks[d]
        /\ \A y \in nodes : dependencies[y] \subseteq nodes
        /\ \A y \in nodes \ held : dependencies[y] \subseteq started => y \in started \cup {x}
    BY DEF Intact, LinksHold, LinksAreMutual, DependenciesAreLive, ReadyNodesRun
  <2> QED
    BY <1>4, <2>1, <2>2, <2>3, StartsAreComplete
<1>6. ReadyNodesRun'
  BY <1>2, <1>5 DEF ReadyNodesRun, graph
<1> QED
  BY <1>3, <1>6 DEF Intact

LEMMA StopKeepsLinks ==
  ASSUME IInv, Intact, NEW x \in Ids, Stop(x)
  PROVE  Intact'
<1>1. TypeOK /\ StartedAreNodes /\ nodes \subseteq Ids
  BY DEF IInv, TypeOK
<1>2. PICK gone : gone = StopCascade({x}, LiveLinks) /\ started' = started \ gone
  BY DEF Stop
<1>3. UNCHANGED graph /\ x \in nodes /\ started' = started \ gone /\ held' = held \cup {x}
  BY <1>2 DEF Stop
<1>4. LinksHold' /\ MissingArePending' /\ FlowFollowsLinks'
  BY <1>3, LinksUnchanged
<1>5. /\ gone \subseteq started
      /\ \A y \in gone : y \in {x} \/ \E d \in gone : y \in LiveLinks[d]
  <2> DEFINE first == {x}
  <2>1. gone = StopCascade(first, LiveLinks)
    BY <1>2
  <2> HIDE DEF first
  <2>2. gone \subseteq started /\ \A y \in gone : y \in first \/ \E d \in gone : y \in LiveLinks[d]
    BY ONLY <2>1, StopCascadeIsExact
  <2> QED
    BY <2>2 DEF first
<1>6. ReadyNodesRun'
  <2> SUFFICES ASSUME NEW y \in nodes \ held', dependencies[y] \subseteq started' PROVE y \in started'
    BY <1>3 DEF ReadyNodesRun, graph
  <2>1. y \in started
    BY <1>3, IntactFacts, <1>1
  <2>2. ASSUME y \in gone PROVE FALSE
    <3>1. PICK d \in gone : y \in LiveLinks[d]
      BY <1>3, <1>5, <2>2
    <3>2. d \in nodes
      BY <1>1, <1>5, <3>1 DEF StartedAreNodes
    <3>3. d \in dependencies[y]
      BY <3>1, <3>2 DEF Intact, LinksHold, LinksAreMutual
    <3> QED
      BY <1>3, <3>1, <3>3
  <2> QED
    BY <1>3, <2>1, <2>2
<1> QED
  BY <1>4, <1>6 DEF Intact

LEMMA SetInferFpsLimitKeepsLinks ==
  ASSUME Intact, NEW c \in Cameras, SetInferFpsLimit(c)
  PROVE  Intact'
<1>1. UNCHANGED graph /\ UNCHANGED <<started, held>>
  BY DEF SetInferFpsLimit
<1>2. ReadyNodesRun'
  BY <1>1 DEF ReadyNodesRun, Intact, graph
<1> QED
  BY <1>1, <1>2, LinksUnchanged DEF Intact

LEMMA DestroyAllKeepsLinks ==
  ASSUME DestroyAll
  PROVE  Intact'
BY DEF DestroyAll, Intact, LinksHold, DependenciesAreLive, LinksAreMutual, LinksAreComplete,
       MissingArePending, FlowFollowsLinks, ReadyNodesRun

LEMMA CreateFailsKeepsLinks ==
  ASSUME IInv, Intact, NEW x \in Ids, CreateFails(x)
  PROVE  Intact'
<1>1. TypeOK /\ nodes \subseteq Ids
  BY DEF IInv, TypeOK
<1>2. PICK deps \in DepsOf[x] :
         /\ MayCreate(x, deps)
         /\ dependents' = [d \in Ids |-> dependents[d] \cup (IF d \in deps \cap nodes THEN {x} ELSE {})]
         /\ stale' = [d \in Ids |-> stale[d] \cup (IF d \in deps \cap nodes THEN {x} ELSE {})]
         /\ pending' = [pending EXCEPT ![x] = PendingOf(x, deps)]
  BY DEF CreateFails
<1>3. UNCHANGED <<nodes, dependencies, started, singleton, attached, topologies, policies, asked, held, touchedFreed>>
  BY DEF CreateFails
<1>4. x \notin nodes
  BY <1>2 DEF MayCreate
<1>5. LinksAreMutual'
  <2> SUFFICES ASSUME NEW y \in nodes, NEW d \in nodes
               PROVE  d \in dependencies[y] <=> y \in dependents'[d] \ stale'[d]
    BY <1>1, <1>3 DEF LinksAreMutual, LiveLinks
  <2>1. d \in dependencies[y] <=> y \in dependents[d] /\ y \notin stale[d]
    BY <1>1, IntactFacts
  <2> QED
    BY <1>1, <1>2, <1>4, <2>1
<1>6. MissingArePending'
  BY <1>1, <1>2, <1>3, <1>4, Types DEF MissingArePending, Intact
<1>7. DependenciesAreLive' /\ LinksAreComplete' /\ FlowFollowsLinks' /\ ReadyNodesRun'
  BY <1>3 DEF Intact, LinksHold, DependenciesAreLive, LinksAreComplete, FlowFollowsLinks, ReadyNodesRun
<1> QED
  BY <1>5, <1>6, <1>7 DEF Intact, LinksHold

LEMMA CreateKeepsLinks ==
  ASSUME IInv, Intact, NEW x \in Ids, Create(x)
  PROVE  Intact'
<1> DEFINE Links(deps) == [d \in Ids |-> LinkedDependents(x, deps)[d] \ StaleAfterLinking(x, deps)[d]]
           First(deps) == IF deps \cap nodes \subseteq started THEN {x} ELSE {}
<1>1. PICK deps \in DepsOf[x], failing \in Failures :
         /\ MayCreate(x, deps)
         /\ nodes' = nodes \cup {x}
         /\ dependencies' = LinkedDependencies(x, deps)
         /\ dependents' = LinkedDependents(x, deps)
         /\ stale' = StaleAfterLinking(x, deps)
         /\ pending' = [y \in Ids |-> IF y = x THEN PendingOf(x, deps)
                                      ELSE IF y \in Waiting(x) THEN pending[y] \ {x} ELSE pending[y]]
         /\ attached' = Subscribed(x, deps)
         /\ asked' = [asked EXCEPT ![x] = deps]
         /\ StartNodes(First(deps), LinkedDependencies(x, deps), Links(deps), StaleAfterLinking(x, deps), failing)
  BY DEF Create
<1>2. TypeOK /\ StartedAreNodes /\ LinksAreLive /\ IInv'
  BY CreateKeeps DEF IInv
<1>3. deps \subseteq Ids /\ x \notin nodes /\ nodes \subseteq Ids /\ Waiting(x) \subseteq nodes
  BY <1>1, <1>2, Identifiers, Types DEF MayCreate, Waiting
<1>4. /\ dependencies'[x] = deps \cap nodes
      /\ \A y \in Ids \ {x} : \A d : d \in dependencies'[y] <=> d \in dependencies[y] \/ (d = x /\ y \in Waiting(x))
  BY <1>1 DEF LinkedDependencies
<1>5. /\ dependents'[x] = Waiting(x) /\ stale'[x] = {}
      /\ \A d \in Ids \ {x} : \A y :
             /\ y \in dependents'[d] <=> y \in dependents[d] \/ (y = x /\ d \in deps \cap nodes)
             /\ y \in stale'[d] <=> y \in stale[d] /\ ~(y = x /\ d \in deps \cap nodes)
  BY <1>1 DEF LinkedDependents, StaleAfterLinking
<1>6. /\ \A y \in nodes : dependencies[y] \subseteq nodes
      /\ \A y, d \in nodes : d \in dependencies[y] <=> y \in dependents[d] /\ y \notin stale[d]
      /\ \A y \in nodes : asked[y] \cap nodes \subseteq dependencies[y]
      /\ \A y \in nodes : asked[y] \ nodes \subseteq pending[y]
      /\ \A u \in nodes \cap DataNodes : attached[u] = {y \in nodes \cap DataNodes : u \in dependencies[y]}
      /\ \A y \in nodes \ held : dependencies[y] \subseteq started => y \in started
  BY <1>2, IntactFacts
<1>7. \A d \in nodes : x \in dependents[d] => x \in stale[d]
  BY <1>2, <1>3 DEF LinksAreLive, LiveLinks
<1>8. DependenciesAreLive'
  <2> SUFFICES ASSUME NEW y \in nodes', NEW d \in dependencies'[y] PROVE d \in nodes'
    BY DEF DependenciesAreLive
  <2>1. CASE y = x
    BY <1>1, <1>4, <2>1
  <2>2. CASE y # x
    BY <1>1, <1>3, <1>4, <1>6, <2>2
  <2> QED
    BY <2>1, <2>2
<1>9. LinksAreMutual'
  <2> SUFFICES ASSUME NEW y \in nodes', NEW d \in nodes'
               PROVE  d \in dependencies'[y] <=> y \in dependents'[d] /\ y \notin stale'[d]
    BY <1>2, Types DEF LinksAreMutual, LiveLinks, IInv, TypeOK
  <2>1. y \in Ids /\ d \in Ids /\ (y = x \/ y \in nodes) /\ (d = x \/ d \in nodes)
    BY <1>1, <1>3
  <2>2. CASE y = x /\ d = x
    BY <1>3, <1>4, <1>5, <2>1, <2>2
  <2>3. CASE y = x /\ d # x
    BY <1>4, <1>5, <1>7, <2>1, <2>3
  <2>4. CASE y # x /\ d = x
    BY <1>3, <1>4, <1>5, <1>6, <2>1, <2>4
  <2>5. CASE y # x /\ d # x
    BY <1>4, <1>5, <1>6, <2>1, <2>5
  <2> QED
    BY <2>2, <2>3, <2>4, <2>5
<1>10. LinksAreComplete' /\ MissingArePending'
  <2> SUFFICES ASSUME NEW y \in nodes'
               PROVE  asked'[y] \cap nodes' \subseteq dependencies'[y] /\ asked'[y] \ nodes' \subseteq pending'[y]
    BY DEF LinksAreComplete, MissingArePending
  <2>1. CASE y = x
    <3>1. asked'[x] = deps /\ pending'[x] = PendingOf(x, deps)
      BY <1>1, <1>2, Types
    <3>2. x \notin deps
      BY <1>1, NodeGraphAssumption
    <3> QED
      BY <1>1, <1>4, <2>1, <3>1, <3>2 DEF PendingOf
  <2>2. CASE y # x
    <3>1. y \in nodes /\ y \in Ids /\ asked'[y] = asked[y]
          /\ pending'[y] = IF y \in Waiting(x) THEN pending[y] \ {x} ELSE pending[y]
      BY <1>1, <1>2, <1>3, <2>2, Types
    <3>2. x \in asked[y] => y \in Waiting(x)
      BY <1>3, <1>6, <3>1 DEF Waiting
    <3> QED
      BY <1>1, <1>4, <1>6, <2>2, <3>1, <3>2
  <2> QED
    BY <2>1, <2>2
<1>11. FlowFollowsLinks'
  <2> SUFFICES ASSUME NEW u \in nodes' \cap DataNodes
               PROVE  attached'[u] = {y \in nodes' \cap DataNodes : u \in dependencies'[y]}
    BY DEF FlowFollowsLinks
  <2>1. u \in Ids /\ (u = x \/ u \in nodes)
    BY <1>1, <1>3
  <2>2. CASE u = x
    <3>1. attached'[u] = Waiting(x) \cap DataNodes
      BY <1>1, <2>1, <2>2 DEF Subscribed
    <3>2. \A y \in nodes' : x \in dependencies'[y] <=> y \in Waiting(x)
      BY <1>1, <1>3, <1>4, <1>6
    <3> QED
      BY <1>1, <1>3, <2>2, <3>1, <3>2
  <2>3. CASE u # x
    <3>1. attached'[u] = IF u \in deps \cap nodes \cap DataNodes /\ x \in DataNodes
                         THEN attached[u] \cup {x} ELSE attached[u]
      BY <1>1, <2>1, <2>3 DEF Subscribed
    <3>2. \A y \in nodes : u \in dependencies'[y] <=> u \in dependencies[y]
      BY <1>3, <1>4, <2>3
    <3>3. u \in dependencies'[x] <=> u \in deps \cap nodes
      BY <1>4
    <3>4. attached[u] = {y \in nodes \cap DataNodes : u \in dependencies[y]} /\ u \in nodes
      BY <1>6, <2>1, <2>3
    <3> QED
      BY <1>1, <3>1, <3>2, <3>3, <3>4
  <2> QED
    BY <2>2, <2>3
<1>12. ReadyNodesRun'
  <2>1. First(deps) \in SUBSET nodes' /\ nodes' \in SUBSET Ids /\ started \subseteq nodes'
    BY <1>1, <1>2, <1>3 DEF StartedAreNodes
  <2>2. Links(deps) \in [Ids -> SUBSET Ids] /\ \A d \in Ids : Links(deps)[d] = dependents'[d] \ stale'[d]
    BY <1>1, <1>2 DEF IInv, TypeOK
  <2>3. \A d \in nodes' : Links(deps)[d] \subseteq nodes'
    BY <1>2, <2>1, <2>2 DEF IInv, LinksAreLive, LiveLinks
  <2>4. \A y \in nodes', d \in nodes' : d \in dependencies'[y] => y \in Links(deps)[d]
    BY <1>9, <2>1, <2>2 DEF LinksAreMutual, LiveLinks
  <2>5. \A y \in nodes' \ held : dependencies'[y] \subseteq started => y \in started \cup First(deps)
    <3> SUFFICES ASSUME NEW y \in nodes' \ held, dependencies'[y] \subseteq started
                 PROVE  y \in started \cup First(deps)
      OBVIOUS
    <3>1. CASE y = x
      BY <1>4, <3>1
    <3>2. CASE y # x
      BY <1>1, <1>3, <1>4, <1>6, <3>2
    <3> QED
      BY <3>1, <3>2
  <2>6. \A y \in nodes' : dependencies'[y] \subseteq nodes'
    BY <1>8 DEF DependenciesAreLive
  <2> HIDE DEF Links, First
  <2>7. StartNodes(First(deps), dependencies', Links(deps), StaleAfterLinking(x, deps), failing)
    BY <1>1
  <2>8. \A y \in nodes' \ held' : dependencies'[y] \subseteq started' => y \in started'
    BY <2>1, <2>2, <2>3, <2>4, <2>5, <2>6, <2>7, StartsAreComplete
  <2> QED
    BY <2>8 DEF ReadyNodesRun
<1> QED
  BY <1>8, <1>9, <1>10, <1>11, <1>12 DEF Intact, LinksHold

\* destroy, unless it follows a dangling key to a node that lives again.
LEMMA DestroyKeepsLinks ==
  ASSUME IInv, Intact, NEW x \in Ids, Destroy(x),
         \A z \in Doomed(x) : stale[z] \cap nodes = {}
  PROVE  Intact'
<1> DEFINE gone == Doomed(x)
<1>1. /\ x \in nodes /\ nodes' = nodes \ gone /\ started' = started \ (gone \cap started)
      /\ dependencies' = [y \in Ids |-> IF y \in gone THEN {} ELSE dependencies[y]]
      /\ dependents' = [d \in Ids |-> IF d \in gone THEN {} ELSE dependents[d]]
      /\ stale' = [d \in Ids |-> IF d \in gone THEN {} ELSE stale[d] \cup (dependents[d] \cap gone)]
      /\ attached' = Unsubscribed(gone)
      /\ asked' = [y \in Ids |-> IF y \in gone THEN {} ELSE asked[y]]
      /\ held' = held \ gone
      /\ pending' = [y \in Ids |-> IF y = x THEN {} ELSE pending[y] \ {x}]
  BY DEF Destroy
<1>2. TypeOK /\ LinksAreLive /\ nodes \subseteq Ids
  BY DEF IInv, TypeOK
<1>3. gone \subseteq nodes /\ x \in gone
  BY <1>1 DEF Doomed
<1>4. \A d \in gone : dependents[d] \cap nodes \subseteq gone
  BY <1>1, <1>2, DoomedIsClosed
<1> HIDE DEF gone
<1>5. /\ \A y \in nodes : dependencies[y] \subseteq nodes
      /\ \A y, d \in nodes : d \in dependencies[y] <=> y \in dependents[d] /\ y \notin stale[d]
      /\ \A y \in nodes : asked[y] \cap nodes \subseteq dependencies[y]
      /\ \A y \in nodes : asked[y] \ nodes \subseteq pending[y]
      /\ \A u \in nodes \cap DataNodes : attached[u] = {y \in nodes \cap DataNodes : u \in dependencies[y]}
      /\ \A y \in nodes \ held : dependencies[y] \subseteq started => y \in started
  BY <1>2, IntactFacts
<1>6. \A y \in nodes' : dependencies[y] \cap gone = {} /\ asked[y] \cap gone = {}
  BY <1>1, <1>3, <1>4, <1>5
<1>7. \A y \in nodes' : /\ y \in nodes /\ y \in Ids /\ y \notin gone
                        /\ dependencies'[y] = dependencies[y] /\ asked'[y] = asked[y]
                        /\ dependents'[y] = dependents[y]
                        /\ stale'[y] = stale[y] \cup (dependents[y] \cap gone)
                        /\ pending'[y] = pending[y] \ {x}
  BY <1>1, <1>2, <1>3
<1>8. DependenciesAreLive'
  BY <1>1, <1>5, <1>6, <1>7 DEF DependenciesAreLive
<1>9. LinksAreMutual'
  BY <1>5, <1>7 DEF LinksAreMutual, LiveLinks
<1>10. LinksAreComplete' /\ MissingArePending'
  <2> SUFFICES ASSUME NEW y \in nodes'
               PROVE  asked'[y] \cap nodes' \subseteq dependencies'[y] /\ asked'[y] \ nodes' \subseteq pending'[y]
    BY DEF LinksAreComplete, MissingArePending
  <2>1. asked[y] \cap nodes \subseteq dependencies[y] /\ asked[y] \ nodes \subseteq pending[y]
        /\ asked[y] \cap gone = {}
    BY <1>5, <1>6, <1>7
  <2> QED
    BY <1>1, <1>3, <1>7, <2>1
<1>11. FlowFollowsLinks'
  <2> SUFFICES ASSUME NEW u \in nodes' \cap DataNodes
               PROVE  attached'[u] = {y \in nodes' \cap DataNodes : u \in dependencies'[y]}
    BY DEF FlowFollowsLinks
  <2>1. attached'[u] = attached[u] \ {y \in gone : u \in dependencies[y]}
    BY <1>1, <1>7 DEF Unsubscribed
  <2>2. attached[u] = {y \in nodes \cap DataNodes : u \in dependencies[y]}
    BY <1>5, <1>7
  <2> QED
    BY <1>1, <1>7, <2>1, <2>2
<1>12. ReadyNodesRun'
  BY <1>1, <1>5, <1>7 DEF ReadyNodesRun
<1> QED
  BY <1>8, <1>9, <1>10, <1>11, <1>12 DEF Intact, LinksHold

LEMMA StutterKeepsLinks == Intact /\ UNCHANGED vars => Intact'
<1> SUFFICES ASSUME Intact, UNCHANGED vars PROVE Intact'
  OBVIOUS
<1>1. UNCHANGED graph /\ UNCHANGED <<started, held>>
  BY DEF vars
<1>2. ReadyNodesRun'
  BY <1>1 DEF ReadyNodesRun, Intact, graph
<1> QED
  BY <1>1, <1>2, LinksUnchanged DEF Intact

\* A step that leaves no dangling key followed leaves the graph intact.
LEMMA CleanStepsKeepLinks ==
  ASSUME IInv, Intact, [Next]_vars,
         \A x \in Ids : Destroy(x) => \A z \in Doomed(x) : stale[z] \cap nodes = {}
  PROVE  Intact'
<1>1. ASSUME NEW x \in Ids, Create(x) \/ CreateFails(x) \/ Start(x) \/ Stop(x) \/ Destroy(x) PROVE Intact'
  BY <1>1, CreateKeepsLinks, CreateFailsKeepsLinks, StartKeepsLinks, StopKeepsLinks, DestroyKeepsLinks
<1>2. ASSUME NEW c \in Cameras, SetInferFpsLimit(c) PROVE Intact'
  BY <1>2, SetInferFpsLimitKeepsLinks
<1> QED
  BY <1>1, <1>2, DestroyAllKeepsLinks, StutterKeepsLinks DEF Next

LEMMA InitIntact == Init => Intact /\ StaleAreGone /\ LinksAreFromFlows
BY DEF Init, Empty, Intact, LinksHold, DependenciesAreLive, LinksAreMutual, LinksAreComplete, MissingArePending,
       FlowFollowsLinks, ReadyNodesRun, StaleAreGone, LinksAreFromFlows

\* touchedFreed stays set, and destroy sets it when it meets a dangling key.
LEMMA TouchedStays ==
  ASSUME [Next]_vars, ~touchedFreed'
  PROVE  /\ ~touchedFreed
         /\ \A x \in Ids : Destroy(x) => \A z \in Doomed(x) : stale[z] \cap nodes = {}
<1>1. ~touchedFreed
  <2>1. ASSUME NEW x \in Ids, Create(x) \/ CreateFails(x) \/ Start(x) \/ Stop(x) \/ Destroy(x) PROVE ~touchedFreed
    BY <2>1 DEF Create, CreateFails, Start, Stop, Destroy, StartNodes
  <2> QED
    BY <2>1 DEF Next, DestroyAll, SetInferFpsLimit, vars
<1>2. ASSUME NEW x \in Ids, Destroy(x), NEW z \in Doomed(x) PROVE stale[z] \cap nodes = {}
  BY <1>2 DEF Destroy
<1> QED
  BY <1>1, <1>2

(* Whatever flows are deployed one after the other, and whatever fails: until an *)
(* operation follows a pointer to a freed node, the links of the live nodes are  *)
(* mutual, complete and live, inboxes follow them, and no node waits in vain     *)
(* (Node::addDependency, NodeFactory::create, destroy, setupDataFlow).           *)
THEOREM GraphStaysIntact == Spec => [](~touchedFreed => LinksHold /\ FlowFollowsLinks /\ ReadyNodesRun)
<1> DEFINE Inv == ~touchedFreed => Intact
<1>1. Init => Inv
  BY InitIntact
<1>2. IInv /\ Inv /\ [Next]_vars => Inv'
  BY TouchedStays, CleanStepsKeepLinks
<1>3. Inv => (~touchedFreed => LinksHold /\ FlowFollowsLinks /\ ReadyNodesRun)
  BY DEF Intact
<1> QED
  BY <1>1, <1>2, <1>3, Invariance, PTL DEF Spec

-----------------------------------------------------------------------------
(* Nodes that depend on the same nodes whenever they are created *)

\* Links come from flows only.
LEMMA StepKeepsOrigin ==
  ASSUME IInv, LinksAreFromFlows, [Next]_vars
  PROVE  LinksAreFromFlows'
<1> USE DEF LinksAreFromFlows
<1>1. TypeOK
  BY DEF IInv
<1>2. ASSUME UNCHANGED graph PROVE LinksAreFromFlows'
  BY <1>2 DEF graph
<1>3. ASSUME NEW x \in Ids, Create(x) PROVE LinksAreFromFlows'
  <2>1. PICK deps \in DepsOf[x] :
           /\ nodes' = nodes \cup {x}
           /\ dependencies' = LinkedDependencies(x, deps)
           /\ dependents' = LinkedDependents(x, deps)
           /\ stale' = StaleAfterLinking(x, deps)
           /\ pending' = [y \in Ids |-> IF y = x THEN PendingOf(x, deps)
                                        ELSE IF y \in Waiting(x) THEN pending[y] \ {x} ELSE pending[y]]
           /\ asked' = [asked EXCEPT ![x] = deps]
    BY <1>3 DEF Create
  <2>2. \A d \in Ids : \A y \in stale'[d] : y \in stale[d]
    BY <2>1 DEF StaleAfterLinking
  <2>3. \A d \in Ids : \A y \in dependents'[d] : y \in dependents[d] \/ (d = x /\ x \in pending[y] /\ y \in Ids)
                                                 \/ (y = x /\ d \in deps)
    BY <1>1, <2>1, Types DEF LinkedDependents, Waiting
  <2>4. \A y \in Ids : \A d \in pending'[y] : d \in pending[y] \/ (y = x /\ d \in deps)
    BY <2>1 DEF PendingOf
  <2>5. \A y \in Ids : \A d \in dependencies'[y] : d \in dependencies[y] \/ (y = x /\ d \in deps)
                                                   \/ (d = x /\ x \in pending[y])
    BY <2>1 DEF LinkedDependencies, Waiting
  <2>6. \A y \in nodes' : asked'[y] \in DepsOf[y]
    BY <1>1, <2>1, Types
  <2> QED
    BY <2>2, <2>3, <2>4, <2>5, <2>6
<1>4. ASSUME NEW x \in Ids, CreateFails(x) PROVE LinksAreFromFlows'
  <2>1. PICK deps \in DepsOf[x] :
           /\ dependents' = [d \in Ids |-> dependents[d] \cup (IF d \in deps \cap nodes THEN {x} ELSE {})]
           /\ stale' = [d \in Ids |-> stale[d] \cup (IF d \in deps \cap nodes THEN {x} ELSE {})]
           /\ pending' = [pending EXCEPT ![x] = PendingOf(x, deps)]
    BY <1>4 DEF CreateFails
  <2>2. UNCHANGED <<nodes, dependencies, asked>>
    BY <1>4 DEF CreateFails
  <2>3. \A d \in Ids : /\ \A y \in stale'[d] : y \in stale[d] \/ (y = x /\ d \in deps)
                       /\ \A y \in dependents'[d] : y \in dependents[d] \/ (y = x /\ d \in deps)
    BY <2>1
  <2>4. \A y \in Ids : \A d \in pending'[y] : d \in pending[y] \/ (y = x /\ d \in deps)
    BY <1>1, <2>1, Types DEF PendingOf
  <2> QED
    BY <2>2, <2>3, <2>4
<1>5. ASSUME NEW x \in Ids, Destroy(x) PROVE LinksAreFromFlows'
  <2>1. PICK gone :
           /\ nodes' = nodes \ gone
           /\ dependencies' = [y \in Ids |-> IF y \in gone THEN {} ELSE dependencies[y]]
           /\ dependents' = [d \in Ids |-> IF d \in gone THEN {} ELSE dependents[d]]
           /\ stale' = [d \in Ids |-> IF d \in gone THEN {} ELSE stale[d] \cup (dependents[d] \cap gone)]
           /\ asked' = [y \in Ids |-> IF y \in gone THEN {} ELSE asked[y]]
           /\ pending' = [y \in Ids |-> IF y = x THEN {} ELSE pending[y] \ {x}]
    BY <1>5 DEF Destroy
  <2>2. \A d \in Ids : /\ \A y \in stale'[d] : y \in stale[d] \/ y \in dependents[d]
                       /\ \A y \in dependents'[d] : y \in dependents[d]
                       /\ \A y \in pending'[d] : y \in pending[d]
                       /\ \A y \in dependencies'[d] : y \in dependencies[d]
    BY <2>1
  <2>3. \A y \in nodes' : asked'[y] \in DepsOf[y]
    BY <1>1, <2>1, Types
  <2> QED
    BY <2>2, <2>3
<1>6. ASSUME DestroyAll PROVE LinksAreFromFlows'
  BY <1>6 DEF DestroyAll, Empty
<1>7. ASSUME NEW x \in Ids, Start(x) \/ Stop(x) PROVE LinksAreFromFlows'
  BY <1>2, <1>7 DEF Start, Stop
<1>8. ASSUME NEW c \in Cameras, SetInferFpsLimit(c) PROVE LinksAreFromFlows'
  BY <1>2, <1>8 DEF SetInferFpsLimit
<1> QED
  BY <1>2, <1>3, <1>4, <1>5, <1>6, <1>7, <1>8 DEF Next, vars

\* A node that comes back depends on what its dangling keys are in, and takes
\* their place.
LEMMA StepKeepsStaleGone ==
  ASSUME IInv, LinksAreFromFlows, StaleAreGone, OneListEach, [Next]_vars
  PROVE  StaleAreGone'
<1> USE DEF StaleAreGone
<1>1. TypeOK /\ nodes \subseteq Ids
  BY DEF IInv, TypeOK
<1>2. ASSUME UNCHANGED graph PROVE StaleAreGone'
  BY <1>2 DEF graph
<1>3. ASSUME NEW x \in Ids, Create(x) PROVE StaleAreGone'
  <2>1. PICK deps \in DepsOf[x] : nodes' = nodes \cup {x} /\ stale' = StaleAfterLinking(x, deps)
    BY <1>3 DEF Create
  <2>2. /\ stale'[x] = {}
        /\ \A d \in Ids \ {x} : \A y : y \in stale'[d] <=> y \in stale[d] /\ ~(y = x /\ d \in deps \cap nodes)
    BY <2>1 DEF StaleAfterLinking
  <2>3. \A d \in Ids : x \in stale[d] => d \in deps
    BY DEF LinksAreFromFlows, OneListEach
  <2> QED
    BY <1>1, <2>1, <2>2, <2>3
<1>4. ASSUME NEW x \in Ids, CreateFails(x) PROVE StaleAreGone'
  <2>1. PICK deps \in DepsOf[x] :
           /\ MayCreate(x, deps)
           /\ stale' = [d \in Ids |-> stale[d] \cup (IF d \in deps \cap nodes THEN {x} ELSE {})]
    BY <1>4 DEF CreateFails
  <2>2. nodes' = nodes
    BY <1>4 DEF CreateFails
  <2> QED
    BY <1>1, <2>1, <2>2 DEF MayCreate
<1>5. ASSUME NEW x \in Ids, Destroy(x) PROVE StaleAreGone'
  <2>1. PICK gone : /\ nodes' = nodes \ gone
                    /\ stale' = [d \in Ids |-> IF d \in gone THEN {} ELSE stale[d] \cup (dependents[d] \cap gone)]
    BY <1>5 DEF Destroy
  <2> QED
    BY <1>1, <2>1
<1>6. ASSUME DestroyAll PROVE StaleAreGone'
  BY <1>6 DEF DestroyAll
<1>7. ASSUME NEW x \in Ids, Start(x) \/ Stop(x) PROVE StaleAreGone'
  BY <1>2, <1>7 DEF Start, Stop
<1>8. ASSUME NEW c \in Cameras, SetInferFpsLimit(c) PROVE StaleAreGone'
  BY <1>2, <1>8 DEF SetInferFpsLimit
<1> QED
  BY <1>2, <1>3, <1>4, <1>5, <1>6, <1>7, <1>8 DEF Next, vars

OneListInv == Intact /\ LinksAreFromFlows /\ StaleAreGone

(* When each node depends on the same nodes whenever it is created, the graph is *)
(* intact for ever: a dangling key names nobody who lives.                        *)
THEOREM OneListInvariance ==
  ASSUME OneListEach
  PROVE  Spec => []OneListInv
<1>1. Init => OneListInv
  BY InitIntact DEF OneListInv
<1>2. IInv /\ OneListInv /\ [Next]_vars => OneListInv'
  <2> SUFFICES ASSUME IInv, OneListInv, [Next]_vars PROVE OneListInv'
    OBVIOUS
  <2> USE DEF OneListInv
  <2>1. \A x \in Ids : Destroy(x) => \A z \in Doomed(x) : stale[z] \cap nodes = {}
    BY DEF Destroy, Doomed, StaleAreGone
  <2>2. Intact'
    BY <2>1, CleanStepsKeepLinks
  <2>3. LinksAreFromFlows'
    BY StepKeepsOrigin
  <2>4. StaleAreGone'
    BY StepKeepsStaleGone
  <2> QED
    BY <2>2, <2>3, <2>4
<1> QED
  BY <1>1, <1>2, Invariance, PTL DEF Spec

(* Links are mutual, live and complete through late dependencies, failed         *)
(* creations, cascades and re-creations (Node::addDependency, NodeFactory).      *)
THEOREM LinksAreKept ==
  ASSUME OneListEach
  PROVE  Spec => []LinksHold
<1>1. OneListInv => LinksHold
  BY DEF OneListInv, Intact
<1> QED
  BY <1>1, OneListInvariance, PTL

(* Inboxes follow the links (setupDataFlow, teardownDataFlow).                    *)
THEOREM FlowIsKept ==
  ASSUME OneListEach
  PROVE  Spec => []FlowFollowsLinks
<1>1. OneListInv => FlowFollowsLinks
  BY DEF OneListInv, Intact
<1> QED
  BY <1>1, OneListInvariance, PTL

(* No node is left waiting (onDependencyReady, pending_dependencies_).            *)
THEOREM NobodyIsForgotten ==
  ASSUME OneListEach
  PROVE  Spec => []NobodyForgotten
<1>1. IInv /\ OneListInv => NobodyForgotten
  <2> SUFFICES ASSUME IInv, OneListInv, NEW x \in nodes \ held, asked[x] \subseteq started
               PROVE  x \in started
    BY DEF NobodyForgotten
  <2>1. x \in Ids
    BY DEF IInv, TypeOK
  <2>2. dependencies[x] \subseteq asked[x]
    BY <2>1 DEF OneListInv, LinksAreFromFlows, OneListEach
  <2> QED
    BY <2>2 DEF OneListInv, Intact, ReadyNodesRun
<1> QED
  BY <1>1, Invariance, OneListInvariance, PTL

-----------------------------------------------------------------------------
(* Nodes that are created after their dependencies *)

\* Nothing is waited for, and a node is linked to all it was created with.
NothingIsMissing ==
    /\ \A y \in Ids : pending[y] = {}
    /\ \A y \in nodes : dependencies[y] = asked[y]

\* No node runs without what it is linked to.
LinkedRun == \A y \in started : dependencies[y] \subseteq started

LEMMA StepKeepsNothingMissing ==
  ASSUME IInv, NothingIsMissing, DepsFirst, [Next]_vars
  PROVE  NothingIsMissing'
<1> USE DEF NothingIsMissing
<1>1. TypeOK /\ nodes \subseteq Ids
  BY DEF IInv, TypeOK
<1>2. ASSUME UNCHANGED graph PROVE NothingIsMissing'
  BY <1>2 DEF graph
<1>3. ASSUME NEW x \in Ids, Create(x) PROVE NothingIsMissing'
  <2>1. PICK deps \in DepsOf[x] :
           /\ MayCreate(x, deps)
           /\ nodes' = nodes \cup {x}
           /\ dependencies' = LinkedDependencies(x, deps)
           /\ pending' = [y \in Ids |-> IF y = x THEN PendingOf(x, deps)
                                        ELSE IF y \in Waiting(x) THEN pending[y] \ {x} ELSE pending[y]]
           /\ asked' = [asked EXCEPT ![x] = deps]
    BY <1>3 DEF Create
  <2>2. deps \subseteq nodes /\ Waiting(x) = {}
    BY <1>1, <2>1 DEF MayCreate, Waiting
  <2>3. dependencies'[x] = deps /\ \A y \in Ids \ {x} : dependencies'[y] = dependencies[y]
    BY <2>1, <2>2 DEF LinkedDependencies
  <2>4. asked'[x] = deps /\ \A y \in Ids \ {x} : asked'[y] = asked[y]
    BY <1>1, <2>1, Types
  <2>5. \A y \in Ids : pending'[y] = {}
    BY <2>1, <2>2 DEF PendingOf
  <2> QED
    BY <1>1, <2>1, <2>3, <2>4, <2>5
<1>4. ASSUME NEW x \in Ids, CreateFails(x) PROVE NothingIsMissing'
  <2>1. PICK deps \in DepsOf[x] : MayCreate(x, deps) /\ pending' = [pending EXCEPT ![x] = PendingOf(x, deps)]
    BY <1>4 DEF CreateFails
  <2>2. UNCHANGED <<nodes, dependencies, asked>>
    BY <1>4 DEF CreateFails
  <2> QED
    BY <1>1, <2>1, <2>2, Types DEF MayCreate, PendingOf
<1>5. ASSUME NEW x \in Ids, Destroy(x) PROVE NothingIsMissing'
  <2>1. PICK gone :
           /\ nodes' = nodes \ gone
           /\ dependencies' = [y \in Ids |-> IF y \in gone THEN {} ELSE dependencies[y]]
           /\ asked' = [y \in Ids |-> IF y \in gone THEN {} ELSE asked[y]]
           /\ pending' = [y \in Ids |-> IF y = x THEN {} ELSE pending[y] \ {x}]
    BY <1>5 DEF Destroy
  <2> QED
    BY <1>1, <2>1
<1>6. ASSUME DestroyAll PROVE NothingIsMissing'
  BY <1>6 DEF DestroyAll
<1>7. ASSUME NEW x \in Ids, Start(x) \/ Stop(x) PROVE NothingIsMissing'
  BY <1>2, <1>7 DEF Start, Stop
<1>8. ASSUME NEW c \in Cameras, SetInferFpsLimit(c) PROVE NothingIsMissing'
  BY <1>2, <1>8 DEF SetInferFpsLimit
<1> QED
  BY <1>2, <1>3, <1>4, <1>5, <1>6, <1>7, <1>8 DEF Next, vars

\* What starts had what it is linked to, what stops takes its dependents along.
LEMMA StepKeepsLinkedRun ==
  ASSUME IInv, NothingIsMissing, Intact, Intact', LinkedRun, DepsFirst, [Next]_vars
  PROVE  LinkedRun'
<1> USE DEF LinkedRun
<1>1. TypeOK /\ nodes \subseteq Ids /\ started \subseteq nodes /\ LinksAreLive
  BY DEF IInv, TypeOK, StartedAreNodes
<1>2. \A y, d \in nodes : d \in dependencies[y] <=> y \in LiveLinks[d]
  BY DEF Intact, LinksHold, LinksAreMutual
<1>3. ASSUME UNCHANGED <<started, dependencies>> PROVE LinkedRun'
  BY <1>3
<1>4. ASSUME NEW x \in Ids, Create(x) PROVE LinkedRun'
  <2> DEFINE Links(deps) == [d \in Ids |-> LinkedDependents(x, deps)[d] \ StaleAfterLinking(x, deps)[d]]
             First(deps) == IF deps \cap nodes \subseteq started THEN {x} ELSE {}
  <2>1. PICK deps \in DepsOf[x], failing \in Failures :
           /\ MayCreate(x, deps)
           /\ dependencies' = LinkedDependencies(x, deps)
           /\ StartNodes(First(deps), LinkedDependencies(x, deps), Links(deps), StaleAfterLinking(x, deps), failing)
    BY <1>4 DEF Create
  <2>2. x \notin nodes /\ Waiting(x) = {} /\ Waiting(x) \in SUBSET Ids
    BY <1>1, <2>1 DEF MayCreate, Waiting, NothingIsMissing
  <2>3. \A y \in Ids \ {x} : dependencies'[y] = dependencies[y]
    BY <2>1, <2>2 DEF LinkedDependencies
  <2>4. First(deps) \in SUBSET Ids /\ Links(deps) \in [Ids -> SUBSET Ids]
    BY <1>1, <2>2, Types DEF LinkedDependents, StaleAfterLinking
  <2> HIDE DEF First, Links
  <2>5. PICK new : /\ new = StartCascade(First(deps), dependencies', Links(deps), failing)
                   /\ started' = started \cup new
    BY <2>1 DEF StartNodes
  <2>6. new \subseteq Ids \ started /\ \A y \in new : dependencies'[y] \subseteq started \cup new
    BY <2>4, <2>5, StartCascadeIsExact
  <2> QED
    BY <1>1, <2>2, <2>3, <2>5, <2>6
<1>5. ASSUME NEW x \in Ids, Start(x) PROVE LinkedRun'
  <2>1. PICK failing \in Failures : StartNodes({x}, dependencies, LiveLinks, stale, failing)
    BY <1>5 DEF Start
  <2>2. UNCHANGED dependencies
    BY <1>5 DEF Start, graph
  <2>3. LiveLinks \in [Ids -> SUBSET Ids] /\ {x} \in SUBSET Ids
    BY <1>1, Types DEF LiveLinks
  <2>4. PICK new : new = StartCascade({x}, dependencies, LiveLinks, failing) /\ started' = started \cup new
    BY <2>1 DEF StartNodes
  <2>5. \A y \in new : dependencies[y] \subseteq started \cup new
    BY <2>3, <2>4, StartCascadeIsExact
  <2> QED
    BY <2>2, <2>4, <2>5
<1>6. ASSUME NEW x \in Ids, Stop(x) PROVE LinkedRun'
  <2>1. PICK gone : gone = StopCascade({x}, LiveLinks) /\ started' = started \ gone
    BY <1>6 DEF Stop
  <2>2. UNCHANGED dependencies
    BY <1>6 DEF Stop, graph
  <2>3. gone \subseteq started /\ \A d \in gone : LiveLinks[d] \cap started \subseteq gone
    BY <2>1, StopCascadeIsExact
  <2> SUFFICES ASSUME NEW y \in started', NEW d \in dependencies[y], d \notin started' PROVE FALSE
    BY <2>2
  <2>4. y \in started /\ d \in started
    BY <2>1
  <2>5. d \in gone /\ y \in LiveLinks[d]
    BY <1>1, <1>2, <2>1, <2>4
  <2> QED
    BY <2>1, <2>3, <2>4, <2>5
<1>7. ASSUME NEW x \in Ids, Destroy(x) PROVE LinkedRun'
  <2> DEFINE gone == Doomed(x)
  <2>1. /\ nodes' = nodes \ gone
        /\ started' = started \ (gone \cap started)
        /\ dependencies' = [y \in Ids |-> IF y \in gone THEN {} ELSE dependencies[y]]
    BY <1>7 DEF Destroy
  <2> HIDE DEF gone
  <2>2. \A y \in nodes' : dependencies'[y] \subseteq nodes'
    BY DEF Intact, LinksHold, DependenciesAreLive
  <2> QED
    BY <1>1, <2>1, <2>2
<1>8. ASSUME DestroyAll PROVE LinkedRun'
  BY <1>8 DEF DestroyAll
<1> QED
  BY <1>3, <1>4, <1>5, <1>6, <1>7, <1>8 DEF Next, vars, graph, CreateFails, SetInferFpsLimit

(* When nodes are created after their dependencies, whatever flows follow one   *)
(* another: a node runs only while all it was created with does, until an       *)
(* operation follows a pointer to a freed node (Node::start, stop, create).      *)
THEOREM DependenciesRun ==
  ASSUME DepsFirst
  PROVE  Spec => []RunsWithDependencies
<1> DEFINE Inv == NothingIsMissing /\ (~touchedFreed => Intact /\ LinkedRun)
<1>1. Init => Inv
  BY InitIntact DEF Init, Empty, NothingIsMissing, LinkedRun
<1>2. IInv /\ Inv /\ [Next]_vars => Inv'
  <2> SUFFICES ASSUME IInv, Inv, [Next]_vars PROVE Inv'
    OBVIOUS
  <2>1. NothingIsMissing'
    BY StepKeepsNothingMissing
  <2>2. ASSUME ~touchedFreed' PROVE Intact' /\ LinkedRun'
    <3>1. Intact /\ LinkedRun /\ Intact'
      BY <2>2, TouchedStays, CleanStepsKeepLinks
    <3> QED
      BY <3>1, StepKeepsLinkedRun
  <2> QED
    BY <2>1, <2>2
<1>3. IInv /\ Inv => RunsWithDependencies
  BY DEF IInv, StartedAreNodes, NothingIsMissing, LinkedRun, RunsWithDependencies
<1> QED
  BY <1>1, <1>2, <1>3, Invariance, PTL DEF Spec

-----------------------------------------------------------------------------
(* The limits of the estimator *)

\* What the estimator was told of a running model is what it is linked to.
TopologiesMatch == \A m \in started \cap Models : topologies[m] = TopologyOf(dependencies[m])

\* A camera is there, and knows it, as long as a node depends on it.
CamerasHoldOn == \A y \in nodes : \A c \in dependencies[y] \cap Cameras : c \in nodes /\ y \in dependents[c]

\* A model depends on at most one camera and at most one model.
PlainLists ==
    \A m \in Models : \A deps \in DepsOf[m] :
        /\ \A a, b \in deps \cap Cameras : a = b
        /\ \A a, b \in deps \cap Models : a = b

\* What the estimator takes for granted: it is asked when a node is created and
\* never again, so nodes start when they are created, after their dependencies,
\* and cameras keep their policies.
EstimatorIsAsked ==
    /\ DepsFirst
    /\ "start" \notin Ops /\ "set_infer_fps_limit" \notin Ops
    /\ PlainLists
    /\ IsFiniteSet(Models)
    /\ VB_POOL4_TOTAL >= 1 /\ MAX_PARALLEL_MODELS >= 1 /\ MAX_SERIAL_MODELS >= 1

LimitsInv ==
    /\ NothingIsMissing /\ LinksAreFromFlows
    /\ TopologiesMatch /\ CamerasHoldOn
    /\ ParallelLimit /\ FullCameraSkips
    /\ ~touchedFreed => Intact /\ LinkedRun /\ SerialLimit

\* What create does when nothing waits for the node: it starts alone.
LEMMA CreationStartsOne ==
  ASSUME IInv, NothingIsMissing, DepsFirst, NEW x \in Ids, Create(x)
  PROVE  \E deps \in DepsOf[x] :
           /\ x \notin nodes /\ deps \subseteq nodes /\ nodes' = nodes \cup {x}
           /\ x \in Models => Evaluate(topologies, policies, deps)
           /\ dependencies'[x] = deps
           /\ \A y \in Ids \ {x} : dependencies'[y] = dependencies[y]
           /\ \A d \in deps : x \in dependents'[d]
           /\ \A d \in Ids \ {x} : dependents[d] \subseteq dependents'[d]
           /\ started \subseteq started' /\ started' \subseteq started \cup {x}
           /\ x \in started' => deps \subseteq started
           /\ \A m \in Models \cap started : topologies'[m] = topologies[m]
           /\ x \in Models \cap started' => topologies'[x] = TopologyOf(deps)
           /\ \A c \in Cameras \ {x} : policies'[c] = policies[c]
<1> DEFINE Links(deps) == [d \in Ids |-> LinkedDependents(x, deps)[d] \ StaleAfterLinking(x, deps)[d]]
           First(deps) == IF deps \cap nodes \subseteq started THEN {x} ELSE {}
<1>1. PICK deps \in DepsOf[x], policy \in Policies, failing \in Failures :
         /\ MayCreate(x, deps)
         /\ nodes' = nodes \cup {x}
         /\ dependencies' = LinkedDependencies(x, deps)
         /\ dependents' = LinkedDependents(x, deps)
         /\ policies' = [c \in Cameras |-> IF c = x THEN policy ELSE policies[c]]
         /\ StartNodes(First(deps), LinkedDependencies(x, deps), Links(deps), StaleAfterLinking(x, deps), failing)
  BY DEF Create
<1>2. /\ x \notin nodes /\ deps \subseteq nodes
      /\ x \in Models => Evaluate(topologies, policies, deps)
      /\ Waiting(x) = {} /\ nodes \subseteq Ids /\ started \subseteq nodes
  BY <1>1, Types DEF MayCreate, Waiting, NothingIsMissing, IInv, StartedAreNodes
<1>3. dependencies'[x] = deps /\ \A y \in Ids \ {x} : dependencies'[y] = dependencies[y]
  BY <1>1, <1>2 DEF LinkedDependencies
<1>4. (\A d \in deps : x \in dependents'[d]) /\ \A d \in Ids \ {x} : dependents[d] \subseteq dependents'[d]
  BY <1>1, <1>2 DEF LinkedDependents
<1>5. {x} \in SUBSET Ids /\ First(deps) \in SUBSET {x} /\ \A d \in {x} : Links(deps)[d] \subseteq {x}
  BY <1>2 DEF LinkedDependents
<1>6. First(deps) \in SUBSET Ids /\ Links(deps) \in [Ids -> SUBSET Ids]
  BY <1>2, Types DEF LinkedDependents, StaleAfterLinking, IInv
<1> HIDE DEF First, Links
<1> DEFINE new == StartCascade(First(deps), dependencies', Links(deps), failing)
           one == {x}
<1>7. new \subseteq {x} /\ \A y \in new : dependencies'[y] \subseteq started \cup new
  <2>1. \A y \in new : dependencies'[y] \subseteq started \cup new
    BY <1>6, StartCascadeIsExact
  <2>2. one \in SUBSET Ids /\ First(deps) \in SUBSET one /\ \A d \in one : Links(deps)[d] \subseteq one
    BY <1>5
  <2> HIDE DEF one
  <2>3. new \subseteq one
    BY ONLY <2>2, CascadeStaysInside
  <2> QED
    BY <2>1, <2>3 DEF one
<1>8. started' = started \cup new
      /\ topologies' = [m \in Models |-> IF m \in new THEN TopologyOf(dependencies'[m]) ELSE topologies[m]]
  BY <1>1 DEF StartNodes, ModelsStart
<1>9. new \subseteq Ids \ started
  BY DEF StartCascade
<1> HIDE DEF new
<1>10. x \in started' => deps \subseteq started
  BY <1>2, <1>3, <1>7, <1>8
<1>11. \A m \in Models \cap started : topologies'[m] = topologies[m]
  BY <1>8, <1>9
<1>12. x \in Models \cap started' => topologies'[x] = TopologyOf(deps)
  BY <1>2, <1>3, <1>8
<1>13. \A c \in Cameras \ {x} : policies'[c] = policies[c]
  BY <1>1
<1>14. started \subseteq started' /\ started' \subseteq started \cup {x}
  BY <1>7, <1>8
<1> QED
  BY <1>1, <1>2, <1>3, <1>4, <1>10, <1>11, <1>12, <1>13, <1>14

\* What the other operations do: nothing starts, and what runs stays as it is.
LEMMA OthersOnlyStop ==
  ASSUME IInv, EstimatorIsAsked, [Next]_vars, \A x \in Ids : ~Create(x)
  PROVE  /\ nodes' \subseteq nodes /\ started' \subseteq started
         /\ \A y \in nodes' : dependencies'[y] = dependencies[y]
         /\ \A m \in Models \cap started' : topologies'[m] = topologies[m]
         /\ \A c \in Cameras \cap nodes' : policies'[c] = policies[c]
<1>1. nodes \subseteq Ids /\ started \subseteq nodes
  BY Types DEF IInv, StartedAreNodes
<1>2. ASSUME NEW x \in Ids, Stop(x)
      PROVE  /\ started' \subseteq started /\ UNCHANGED <<nodes, dependencies, policies>>
             /\ \A m \in Models \cap started' : topologies'[m] = topologies[m]
  <2> DEFINE gone == StopCascade({x}, LiveLinks)
  <2>1. started' = started \ gone /\ ModelsStop(gone) /\ UNCHANGED <<nodes, dependencies, policies>>
    BY <1>2 DEF Stop, graph
  <2> HIDE DEF gone
  <2> QED
    BY <2>1 DEF ModelsStop
<1>3. ASSUME NEW x \in Ids, Destroy(x)
      PROVE  /\ nodes' \subseteq nodes /\ started' \subseteq started
             /\ \A y \in nodes' : dependencies'[y] = dependencies[y]
             /\ \A m \in Models \cap started' : topologies'[m] = topologies[m]
             /\ \A c \in Cameras \cap nodes' : policies'[c] = policies[c]
  <2> DEFINE gone == Doomed(x)
  <2>1. /\ x \in gone /\ nodes' = nodes \ gone /\ started' = started \ (gone \cap started)
        /\ dependencies' = [y \in Ids |-> IF y \in gone THEN {} ELSE dependencies[y]]
        /\ policies' = [c \in Cameras |-> IF c = x THEN "none" ELSE policies[c]]
        /\ ModelsStop(gone)
    BY <1>3 DEF Destroy, Doomed
  <2> HIDE DEF gone
  <2> QED
    BY <1>1, <2>1 DEF ModelsStop
<1>4. ASSUME DestroyAll PROVE nodes' = {} /\ started' = {}
  BY <1>4 DEF DestroyAll
<1>5. ASSUME NEW x \in Ids, CreateFails(x) PROVE UNCHANGED <<nodes, started, dependencies, topologies, policies>>
  BY <1>5 DEF CreateFails
<1>6. (\A x \in Ids : ~Start(x)) /\ \A c \in Cameras : ~SetInferFpsLimit(c)
  BY DEF EstimatorIsAsked, Start, SetInferFpsLimit
<1> QED
  BY <1>2, <1>3, <1>4, <1>5, <1>6 DEF Next, vars, graph

LEMMA StepKeepsTopologies ==
  ASSUME IInv, LimitsInv, EstimatorIsAsked, [Next]_vars
  PROVE  TopologiesMatch'
<1> USE DEF TopologiesMatch
<1>1. /\ nodes \subseteq Ids /\ started \subseteq nodes /\ started' \subseteq nodes' /\ NothingIsMissing
      /\ \A m \in started \cap Models : topologies[m] = TopologyOf(dependencies[m])
  <2>1. IInv'
    BY Preservation
  <2> QED
    BY <2>1, Types DEF IInv, StartedAreNodes, LimitsInv
<1>2. ASSUME NEW x \in Ids, Create(x) PROVE TopologiesMatch'
  BY <1>1, <1>2, CreationStartsOne DEF EstimatorIsAsked
<1>3. ASSUME \A x \in Ids : ~Create(x) PROVE TopologiesMatch'
  BY <1>1, <1>3, OthersOnlyStop
<1> QED
  BY <1>2, <1>3

LEMMA StepKeepsCameras ==
  ASSUME IInv, LimitsInv, EstimatorIsAsked, [Next]_vars
  PROVE  CamerasHoldOn'
<1> USE DEF CamerasHoldOn
<1>1. TypeOK /\ CamerasAreSources /\ nodes \subseteq Ids /\ NothingIsMissing /\ CamerasHoldOn
  BY Types DEF IInv, LimitsInv
<1>2. ASSUME NEW x \in Ids, Create(x) PROVE CamerasHoldOn'
  <2>1. PICK deps \in DepsOf[x] :
           /\ x \notin nodes /\ deps \subseteq nodes /\ nodes' = nodes \cup {x}
           /\ dependencies'[x] = deps
           /\ \A y \in Ids \ {x} : dependencies'[y] = dependencies[y]
           /\ \A d \in deps : x \in dependents'[d]
           /\ \A d \in Ids \ {x} : dependents[d] \subseteq dependents'[d]
    BY <1>1, <1>2, CreationStartsOne DEF EstimatorIsAsked
  <2> QED
    BY <1>1, <2>1
<1>3. ASSUME NEW x \in Ids, Destroy(x) PROVE CamerasHoldOn'
  <2> DEFINE gone == Doomed(x)
  <2>1. /\ nodes' = nodes \ gone
        /\ dependencies' = [y \in Ids |-> IF y \in gone THEN {} ELSE dependencies[y]]
        /\ dependents' = [d \in Ids |-> IF d \in gone THEN {} ELSE dependents[d]]
    BY <1>3 DEF Destroy
  <2>2. x \in nodes /\ gone \cap Cameras \subseteq {x}
    BY <1>1, <1>3, CamerasAreNamed DEF Destroy, Doomed
  <2>3. dependents[x] \cap nodes \subseteq gone
    <3>1. dependents[x] \subseteq Dependents(x)
      BY <1>1, Types DEF Dependents
    <3> QED
      BY <3>1 DEF Doomed
  <2> HIDE DEF gone
  <2> SUFFICES ASSUME NEW y \in nodes \ gone, NEW c \in dependencies[y] \cap Cameras
               PROVE  c \in nodes \ gone /\ y \in dependents'[c]
    BY <1>1, <2>1
  <2>4. c \in nodes /\ y \in dependents[c]
    BY <1>1
  <2>5. c \notin gone
    BY <2>2, <2>3, <2>4
  <2> QED
    BY <1>1, <2>1, <2>4, <2>5
<1>4. ASSUME NEW x \in Ids, CreateFails(x) PROVE CamerasHoldOn'
  BY <1>1, <1>4 DEF CreateFails
<1>5. ASSUME DestroyAll PROVE CamerasHoldOn'
  BY <1>5 DEF DestroyAll
<1>6. ASSUME UNCHANGED <<nodes, dependencies, dependents>> PROVE CamerasHoldOn'
  BY <1>1, <1>6
<1> QED
  BY <1>2, <1>3, <1>4, <1>5, <1>6 DEF Next, vars, graph, Start, Stop, SetInferFpsLimit

\* The estimator counts the models that run side by side on a camera.
LEMMA ParallelModelsRun ==
  ASSUME IInv, LimitsInv, EstimatorIsAsked, NEW c \in Cameras
  PROVE  ParallelModels(topologies, c) = ModelsReading(c)
<1>1. nodes \subseteq Ids /\ started \subseteq nodes /\ Active(topologies) = started \cap Models
  BY Types DEF IInv, StartedAreNodes, EstimatorTracksNodes
<1>2. ASSUME NEW m \in started \cap Models
      PROVE  /\ topologies[m].upstream = NoId <=> dependencies[m] \cap Models = {}
             /\ topologies[m].camera = c <=> c \in dependencies[m]
  <2>1. topologies[m] = TopologyOf(dependencies[m])
    BY DEF LimitsInv, TopologiesMatch
  <2>2. \A a, b \in dependencies[m] \cap Cameras : a = b
    BY <1>1 DEF LimitsInv, NothingIsMissing, LinksAreFromFlows, EstimatorIsAsked, PlainLists
  <2>3. NoId \notin Cameras /\ NoId \notin Models
    BY EstimatorAssumption
  <2>4. topologies[m].upstream = NoId <=> dependencies[m] \cap Models = {}
    BY <2>1, <2>3 DEF TopologyOf
  <2>5. topologies[m].camera = c <=> c \in dependencies[m]
    BY <2>1, <2>2, <2>3 DEF TopologyOf
  <2> QED
    BY <2>4, <2>5
<1> QED
  BY <1>1, <1>2 DEF ParallelModels, ModelsReading

\* A full camera accepts one more model never, a nearly full one if it skips frames.
LEMMA StepKeepsParallel ==
  ASSUME IInv, LimitsInv, EstimatorIsAsked, [Next]_vars
  PROVE  ParallelLimit' /\ FullCameraSkips'
<1>1. /\ nodes \subseteq Ids /\ started \subseteq nodes /\ started' \subseteq nodes' /\ NothingIsMissing
      /\ CamerasHoldOn'
  <2>1. IInv'
    BY Preservation
  <2> QED
    BY <2>1, Types, StepKeepsCameras DEF IInv, StartedAreNodes, LimitsInv
<1> SUFFICES ASSUME NEW c \in Cameras
             PROVE  /\ Cardinality(ModelsReading(c)') <= MAX_PARALLEL_MODELS
                    /\ 1 + Cardinality(ModelsReading(c)') <= VB_POOL4_TOTAL
                    /\ Cardinality(ModelsReading(c)') >= MAX_PARALLEL_MODELS => policies'[c] = "skip"
  BY DEF ParallelLimit, FullCameraSkips
<1> DEFINE before == ModelsReading(c)
           after == ModelsReading(c)'
           n == Cardinality(before)
<1>2. /\ IsFiniteSet(before) /\ n \in Nat
      /\ n <= MAX_PARALLEL_MODELS /\ 1 + n <= VB_POOL4_TOTAL
      /\ n >= MAX_PARALLEL_MODELS => policies[c] = "skip"
  <2>1. before \in SUBSET Models /\ IsFiniteSet(Models)
    BY DEF ModelsReading, EstimatorIsAsked
  <2>2. IsFiniteSet(before) /\ n \in Nat
    BY <2>1, FS_Subset, FS_CardinalityType
  <2> QED
    BY <2>2 DEF LimitsInv, ParallelLimit, FullCameraSkips
<1>3. {VB_POOL4_TOTAL, VB_BUFFER_RESERVE, MAX_PARALLEL_MODELS} \subseteq Nat /\ MAX_PARALLEL_MODELS >= 1
  BY EstimatorAssumption DEF EstimatorIsAsked
<1>4. ASSUME after \in SUBSET before, after # {} => policies'[c] = policies[c]
      PROVE  /\ Cardinality(after) <= MAX_PARALLEL_MODELS /\ 1 + Cardinality(after) <= VB_POOL4_TOTAL
             /\ Cardinality(after) >= MAX_PARALLEL_MODELS => policies'[c] = "skip"
  <2> HIDE DEF before, after
  <2>1. Cardinality(after) \in Nat /\ Cardinality(after) <= n /\ (after = {} => Cardinality(after) = 0)
    BY <1>2, <1>4, FS_Subset, FS_CardinalityType, FS_EmptySet
  <2> HIDE DEF n
  <2>2. Cardinality(after) >= MAX_PARALLEL_MODELS => n >= MAX_PARALLEL_MODELS /\ after # {}
    BY <1>2, <1>3, <2>1
  <2> QED
    BY <1>2, <1>3, <1>4, <2>1, <2>2
<1>5. ASSUME NEW x \in Ids, Create(x)
      PROVE  /\ Cardinality(after) <= MAX_PARALLEL_MODELS /\ 1 + Cardinality(after) <= VB_POOL4_TOTAL
             /\ Cardinality(after) >= MAX_PARALLEL_MODELS => policies'[c] = "skip"
  <2>1. PICK deps \in DepsOf[x] :
           /\ x \notin nodes /\ deps \subseteq nodes /\ nodes' = nodes \cup {x}
           /\ x \in Models => Evaluate(topologies, policies, deps)
           /\ dependencies'[x] = deps
           /\ \A y \in Ids \ {x} : dependencies'[y] = dependencies[y]
           /\ started \subseteq started' /\ started' \subseteq started \cup {x}
           /\ x \in started' => deps \subseteq started
           /\ \A d \in Cameras \ {x} : policies'[d] = policies[d]
    BY <1>1, <1>5, CreationStartsOne DEF EstimatorIsAsked
  <2>2. after \ {x} \subseteq before
    BY <1>1, <2>1 DEF ModelsReading
  <2>3. x = c => before = {}
    BY <1>1, <2>1 DEF LimitsInv, CamerasHoldOn, ModelsReading
  <2>4. CASE x \notin after
    <3>1. after \in SUBSET before /\ (after # {} => policies'[c] = policies[c])
      BY <2>1, <2>2, <2>3, <2>4
    <3> QED
      BY <1>4, <3>1
  <2>5. CASE x \in after
    <3>1. x \in Models /\ x \in started' /\ c \in deps /\ deps \cap Models = {} /\ x # c
      BY <2>1, <2>5, Identifiers DEF ModelsReading
    <3>2. UpstreamAmong(topologies, deps) = {} /\ c \in CamerasAmong(policies, deps)
      BY <2>1, <3>1 DEF UpstreamAmong, CamerasAmong, Active, IInv, EstimatorTracksNodes
    <3>3. FitsParallel(topologies, policies, c)
      BY <2>1, <3>1, <3>2 DEF Evaluate
    <3>4. ParallelModels(topologies, c) = before
      BY ParallelModelsRun
    <3>5. policies'[c] = policies[c]
      BY <2>1, <3>1
    <3> HIDE DEF before, after
    <3>6. /\ n + 1 >= MAX_PARALLEL_MODELS
             => policies[c] = "skip" /\ 1 + (n + 1) <= VB_POOL4_TOTAL /\ n + 1 <= MAX_PARALLEL_MODELS
          /\ ~(n + 1 >= MAX_PARALLEL_MODELS) => 1 + (n + 1) + VB_BUFFER_RESERVE <= VB_POOL4_TOTAL
      BY <3>3, <3>4 DEF FitsParallel, VbRequirement
    <3> DEFINE wide == before \cup {x}
    <3>7. IsFiniteSet(wide) /\ Cardinality(wide) = IF x \in before THEN n ELSE n + 1
      BY <1>2, FS_AddElement
    <3>8. after \in SUBSET wide
      BY <2>2
    <3> HIDE DEF n, wide
    <3>9. Cardinality(after) \in Nat /\ Cardinality(after) <= Cardinality(wide) /\ Cardinality(wide) \in Nat
      BY <3>7, <3>8, FS_Subset, FS_CardinalityType
    <3>10. Cardinality(after) <= n + 1
      BY <1>2, <3>7, <3>9
    <3>11. CASE n + 1 >= MAX_PARALLEL_MODELS
      BY <1>2, <1>3, <3>5, <3>6, <3>9, <3>10, <3>11
    <3>12. CASE ~(n + 1 >= MAX_PARALLEL_MODELS)
      BY <1>2, <1>3, <3>6, <3>9, <3>10, <3>12
    <3> QED
      BY <3>11, <3>12
  <2> QED
    BY <2>4, <2>5
<1>6. ASSUME \A x \in Ids : ~Create(x)
      PROVE  /\ Cardinality(after) <= MAX_PARALLEL_MODELS /\ 1 + Cardinality(after) <= VB_POOL4_TOTAL
             /\ Cardinality(after) >= MAX_PARALLEL_MODELS => policies'[c] = "skip"
  <2>1. /\ nodes' \subseteq nodes /\ started' \subseteq started
        /\ \A y \in nodes' : dependencies'[y] = dependencies[y]
        /\ \A d \in Cameras \cap nodes' : policies'[d] = policies[d]
    BY <1>6, OthersOnlyStop
  <2>2. after \in SUBSET before
    BY <1>1, <2>1 DEF ModelsReading
  <2>3. after # {} => c \in nodes'
    BY <1>1 DEF CamerasHoldOn, ModelsReading
  <2> QED
    BY <1>4, <2>1, <2>2, <2>3
<1> QED
  BY <1>5, <1>6

\* A chain of running models grows only when one of them is created.
LEMMA ChainsDoNotGrow ==
  ASSUME NEW m \in started \cap Models, LinkedRun,
         \A y \in started : dependencies'[y] \subseteq dependencies[y]
  PROVE  ModelsBefore(m)' \subseteq ModelsBefore(m)
<1> DEFINE Closed(S) == m \in S /\ \A y \in S : dependencies[y] \cap Models \subseteq S
           chain == {x \in Models : \A S \in SUBSET Models : Closed(S) => x \in S}
<1>1. started \cap Models \in SUBSET Models /\ Closed(started \cap Models)
  BY DEF LinkedRun
<1>2. chain \subseteq started
  BY <1>1
<1>3. Closed(chain)
  OBVIOUS
<1>4. m \in chain /\ \A y \in chain : dependencies[y] \cap Models \subseteq chain
  BY <1>3
<1>5. chain \in SUBSET Models
  OBVIOUS
<1> HIDE DEF chain
<1>6. \A y \in chain : dependencies'[y] \cap Models \subseteq chain
  BY <1>2, <1>4
<1>7. ModelsBefore(m)' \subseteq chain
  BY <1>4, <1>5, <1>6 DEF ModelsBefore
<1> QED
  BY <1>7 DEF chain, ModelsBefore

LEMMA StepKeepsSerial ==
  ASSUME IInv, LimitsInv, EstimatorIsAsked, [Next]_vars, ~touchedFreed'
  PROVE  SerialLimit'
<1>1. /\ nodes \subseteq Ids /\ started \subseteq nodes /\ started' \subseteq nodes' /\ NothingIsMissing
      /\ started' \subseteq Ids /\ Active(topologies) = started \cap Models
  <2>1. IInv'
    BY Preservation
  <2> QED
    BY <2>1, Types DEF IInv, StartedAreNodes, LimitsInv, EstimatorTracksNodes, TypeOK
<1>2. LinkedRun /\ \A m \in started \cap Models : Cardinality(ModelsBefore(m)) <= MAX_SERIAL_MODELS
  BY TouchedStays DEF LimitsInv, SerialLimit
<1>3. IsFiniteSet(Models) /\ MAX_SERIAL_MODELS \in Nat /\ MAX_SERIAL_MODELS >= 1 /\ VB_POOL4_TOTAL \in Nat
  BY EstimatorAssumption DEF EstimatorIsAsked
<1> SUFFICES ASSUME NEW m \in started' \cap Models
             PROVE  Cardinality(ModelsBefore(m)') <= MAX_SERIAL_MODELS
  BY DEF SerialLimit
<1> DEFINE after == ModelsBefore(m)'
<1>4. ASSUME m \in started, \A y \in started : dependencies'[y] \subseteq dependencies[y]
      PROVE  Cardinality(after) <= MAX_SERIAL_MODELS
  <2> DEFINE before == ModelsBefore(m)
  <2>1. after \in SUBSET before
    BY <1>2, <1>4, ChainsDoNotGrow
  <2>2. before \in SUBSET Models /\ Cardinality(before) <= MAX_SERIAL_MODELS
    BY <1>2, <1>4 DEF ModelsBefore
  <2> HIDE DEF before, after
  <2>3. IsFiniteSet(before)
    BY <1>3, <2>2, FS_Subset
  <2>4. IsFiniteSet(after) /\ Cardinality(after) <= Cardinality(before)
    BY <2>1, <2>3, FS_Subset
  <2>5. Cardinality(after) \in Nat /\ Cardinality(before) \in Nat
    BY <2>3, <2>4, FS_CardinalityType
  <2> QED
    BY <1>3, <2>2, <2>4, <2>5
<1>5. ASSUME NEW x \in Ids, Create(x) PROVE Cardinality(after) <= MAX_SERIAL_MODELS
  <2>1. PICK deps \in DepsOf[x] :
           /\ x \notin nodes /\ deps \subseteq nodes
           /\ x \in Models => Evaluate(topologies, policies, deps)
           /\ dependencies'[x] = deps
           /\ \A y \in Ids \ {x} : dependencies'[y] = dependencies[y]
           /\ started' \subseteq started \cup {x}
           /\ x \in started' => deps \subseteq started
    BY <1>1, <1>5, CreationStartsOne DEF EstimatorIsAsked
  <2>2. CASE m # x
    BY <1>1, <1>4, <2>1, <2>2
  <2>3. CASE m = x /\ deps \cap Models = {}
    <3> DEFINE one == {x}
    <3>1. one \in SUBSET Models /\ m \in one /\ \A y \in one : dependencies'[y] \cap Models \subseteq one
      BY <2>1, <2>3
    <3>2. Cardinality(one) = 1 /\ IsFiniteSet(one)
      BY FS_Singleton
    <3> HIDE DEF one
    <3>3. after \in SUBSET one
      BY <3>1 DEF ModelsBefore
    <3> HIDE DEF after
    <3>4. Cardinality(after) \in Nat /\ Cardinality(after) <= 1
      BY <3>2, <3>3, FS_Subset, FS_CardinalityType
    <3> QED
      BY <1>3, <3>4
  <2>4. CASE m = x /\ deps \cap Models # {}
    <3>1. PICK u \in Models : deps \cap Models = {u}
      BY <2>1, <2>4 DEF EstimatorIsAsked, PlainLists
    <3> DEFINE chain == SerialChain(topologies, u)
               running == chain \cap started
               wide == running \cup {x}
    <3>2. deps \subseteq started /\ u \in started
      BY <2>1, <2>4, <3>1
    <3>3. UpstreamAmong(topologies, deps) = {u}
      BY <1>1, <3>1, <3>2 DEF UpstreamAmong
    <3>4. Cardinality(chain) + 1 <= MAX_SERIAL_MODELS
      <4>1. SerialCount(topologies, {u}) = Cardinality(chain) + 1
        BY DEF SerialCount
      <4> QED
        BY <2>1, <2>4, <3>3, <4>1 DEF Evaluate, FitsSerial
    <3>5. chain \in SUBSET Models /\ u \in chain
          /\ \A y \in chain \cap Active(topologies) : topologies[y].upstream \in chain \cup {NoId}
      <4> DEFINE Closed(S) == /\ u \in S
                              /\ \A y \in S \cap Active(topologies) : topologies[y].upstream \in S \cup {NoId}
      <4>1. chain = {y \in Models : \A S \in SUBSET Models : Closed(S) => y \in S}
        BY DEF SerialChain
      <4>2. \A S \in SUBSET Models : Closed(S) => chain \subseteq S
        BY <4>1
      <4>3. \A a \in Active(topologies) : topologies[a].upstream \in Models \cup {NoId}
        BY DEF IInv, TypeOK, Active, Topology
      <4> QED
        BY <4>1, <4>2, <4>3
    <3> HIDE DEF chain
    <3>6. ASSUME NEW y \in running PROVE dependencies'[y] \cap Models \subseteq running
      <4>1. y \in started \cap Models /\ y \in Ids \ {x}
        BY <1>1, <2>1, <3>5
      <4>2. topologies[y] = TopologyOf(dependencies[y]) /\ dependencies'[y] = dependencies[y]
        BY <2>1, <4>1 DEF LimitsInv, TopologiesMatch
      <4>3. \A a, b \in dependencies[y] \cap Models : a = b
        BY <1>1, <4>1 DEF LimitsInv, NothingIsMissing, LinksAreFromFlows, EstimatorIsAsked, PlainLists
      <4>4. dependencies[y] \subseteq started
        BY <1>2, <4>1 DEF LinkedRun
      <4>5. ASSUME NEW a \in dependencies[y] \cap Models PROVE topologies[y].upstream = a
        BY <4>2, <4>3 DEF TopologyOf
      <4>6. \A a \in Models : a # NoId
        BY EstimatorAssumption
      <4> QED
        BY <1>1, <3>5, <4>1, <4>2, <4>4, <4>5, <4>6
    <3>7. wide \in SUBSET Models /\ x \in wide /\ \A y \in wide : dependencies'[y] \cap Models \subseteq wide
      BY <2>1, <2>4, <3>1, <3>2, <3>5, <3>6
    <3>8. running \in SUBSET chain /\ IsFiniteSet(chain)
      BY <1>3, <3>5, FS_Subset
    <3> HIDE DEF running
    <3>9. IsFiniteSet(wide) /\ Cardinality(wide) <= Cardinality(running) + 1
          /\ Cardinality(running) <= Cardinality(chain)
          /\ Cardinality(running) \in Nat /\ Cardinality(chain) \in Nat
      <4>1. /\ IsFiniteSet(running) /\ Cardinality(running) <= Cardinality(chain)
            /\ Cardinality(running) \in Nat /\ Cardinality(chain) \in Nat
        BY <3>8, FS_Subset, FS_CardinalityType
      <4>2. IsFiniteSet(wide)
            /\ Cardinality(wide) = IF x \in running THEN Cardinality(running) ELSE Cardinality(running) + 1
        BY <4>1, FS_AddElement
      <4> QED
        BY <4>1, <4>2
    <3> HIDE DEF wide
    <3>10. after \in SUBSET wide
      BY <2>4, <3>7 DEF ModelsBefore
    <3> HIDE DEF after
    <3>11. Cardinality(after) <= Cardinality(wide) /\ Cardinality(after) \in Nat /\ Cardinality(wide) \in Nat
      BY <3>9, <3>10, FS_Subset, FS_CardinalityType
    <3> QED
      BY <1>3, <3>4, <3>9, <3>11
  <2> QED
    BY <2>2, <2>3, <2>4
<1>6. ASSUME \A x \in Ids : ~Create(x) PROVE Cardinality(after) <= MAX_SERIAL_MODELS
  <2>1. started' \subseteq started /\ \A y \in nodes' : dependencies'[y] = dependencies[y]
    BY <1>6, OthersOnlyStop
  <2>2. \A y \in nodes \ nodes' : dependencies'[y] \subseteq dependencies[y]
    <3>1. ASSUME NEW x \in Ids, Destroy(x) PROVE \A y \in nodes \ nodes' : dependencies'[y] = {}
      BY <1>1, <3>1 DEF Destroy
    <3>2. ASSUME DestroyAll PROVE \A y \in nodes \ nodes' : dependencies'[y] = {}
      BY <1>1, <3>2 DEF DestroyAll, Empty
    <3>3. ASSUME UNCHANGED nodes PROVE nodes \ nodes' = {}
      BY <3>3
    <3> QED
      BY <1>6, <3>1, <3>2, <3>3 DEF Next, vars, graph, CreateFails, Start, Stop, SetInferFpsLimit
  <2> QED
    BY <1>1, <1>4, <2>1, <2>2
<1> QED
  BY <1>5, <1>6

(* The estimator's limits hold of the models that run, side by side on a camera   *)
(* and behind one another, for any flows of models with one camera or one model    *)
(* before them, any failures, stops and destructions, and any values of the       *)
(* limits (evaluate_model, and its calls from ModelNode and CameraNode).           *)
THEOREM LimitsHold ==
  ASSUME EstimatorIsAsked
  PROVE  Spec => []ModelLimits
<1>1. Init => LimitsInv
  <2> SUFFICES ASSUME Init PROVE LimitsInv
    OBVIOUS
  <2>1. NothingIsMissing /\ LinksAreFromFlows /\ Intact
    BY InitIntact DEF Init, Empty, NothingIsMissing
  <2>2. TopologiesMatch /\ CamerasHoldOn /\ LinkedRun /\ SerialLimit
    BY DEF Init, TopologiesMatch, CamerasHoldOn, LinkedRun, SerialLimit
  <2>3. \A c \in Cameras : ModelsReading(c) = {}
    BY DEF Init, ModelsReading
  <2>4. Cardinality({}) = 0
    BY FS_EmptySet
  <2>5. MAX_PARALLEL_MODELS \in Nat /\ MAX_PARALLEL_MODELS >= 1 /\ VB_POOL4_TOTAL \in Nat /\ VB_POOL4_TOTAL >= 1
    BY EstimatorAssumption DEF EstimatorIsAsked
  <2>6. ASSUME NEW c \in Cameras
        PROVE  /\ Cardinality(ModelsReading(c)) <= MAX_PARALLEL_MODELS
               /\ 1 + Cardinality(ModelsReading(c)) <= VB_POOL4_TOTAL
               /\ ~(Cardinality(ModelsReading(c)) >= MAX_PARALLEL_MODELS)
    <3>1. Cardinality(ModelsReading(c)) = 0
      BY <2>3, <2>4
    <3> QED
      BY ONLY <2>5, <3>1
  <2>7. ParallelLimit /\ FullCameraSkips
    BY <2>6 DEF ParallelLimit, FullCameraSkips
  <2> QED
    BY <2>1, <2>2, <2>7 DEF LimitsInv
<1>2. IInv /\ LimitsInv /\ [Next]_vars => LimitsInv'
  <2> SUFFICES ASSUME IInv, LimitsInv, [Next]_vars PROVE LimitsInv'
    OBVIOUS
  <2>1. NothingIsMissing /\ LinksAreFromFlows /\ DepsFirst
    BY DEF LimitsInv, EstimatorIsAsked
  <2>2. NothingIsMissing' /\ LinksAreFromFlows'
    BY <2>1, StepKeepsNothingMissing, StepKeepsOrigin
  <2>3. TopologiesMatch' /\ CamerasHoldOn' /\ ParallelLimit' /\ FullCameraSkips'
    BY StepKeepsTopologies, StepKeepsCameras, StepKeepsParallel
  <2>4. ASSUME ~touchedFreed' PROVE Intact' /\ LinkedRun' /\ SerialLimit'
    <3>1. Intact /\ LinkedRun /\ Intact'
      BY <2>4, TouchedStays, CleanStepsKeepLinks DEF LimitsInv
    <3>2. LinkedRun'
      BY <2>1, <3>1, StepKeepsLinkedRun
    <3>3. SerialLimit'
      BY <2>4, StepKeepsSerial
    <3> QED
      BY <3>1, <3>2, <3>3
  <2> QED
    BY <2>2, <2>3, <2>4 DEF LimitsInv
<1>3. LimitsInv => ModelLimits
  BY DEF LimitsInv, ModelLimits, SerialLimit
<1> QED
  BY <1>1, <1>2, <1>3, Invariance, PTL DEF Spec
=============================================================================
