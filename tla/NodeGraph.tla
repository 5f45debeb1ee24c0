----------------------------- MODULE NodeGraph -----------------------------
(***************************************************************************)
(* node::NodeFactory, the lifecycle of node::Node and the links of          *)
(* node::DataNode (src/src/node/node_factory.cpp, node.cpp, data_node.h),   *)
(* with the onCreate/onStart/onStop of the camera, model and stream nodes    *)
(* as far as the graph sees them.                                           *)
(*                                                                         *)
(* NodeServer runs every command on the one worker of its Executor, and     *)
(* calls destroyAll from stop() once that worker has ended: the operations  *)
(* below never overlap, and each is one action.                             *)
(*                                                                         *)
(* A Node keeps raw pointers to its dependencies and dependents and nothing *)
(* removes a destroyed node from the dependents_ of the nodes it depended   *)
(* on.  dependents holds the keys of those maps; stale those of its keys    *)
(* whose pointer dangles.  The program's behaviour is undefined once it     *)
(* follows such a pointer.  The outcome modelled is the mildest a build     *)
(* produces: the freed node still reads as neither created nor started and  *)
(* the operation goes on; touchedFreed records that it happened.            *)
(*                                                                         *)
(* What a cascade reaches is bound by \E v \in {...}: TLC computes it once.  *)
(***************************************************************************)
EXTENDS ResourceEstimator

CONSTANTS
    Streams,     \* ids of nodes of type "stream"
    DepsOf,      \* DepsOf[id]: the dependency lists that create gives id
    DepsFirst,   \* TRUE: a node is created after its dependencies
    Policies,    \* the policies a camera may have when it is created
    Failures,    \* the sets of nodes whose onStart may fail in one operation
    Ops          \* the operations in use, out of those Operation lists

Ids == Cameras \cup Models \cup Streams
DataNodes == Cameras \cup Models
SingletonTypes == {"camera", "stream"}
Operation == {"create", "create_fails", "start", "stop", "destroy", "destroy_all", "set_infer_fps_limit"}

ASSUME NodeGraphAssumption ==
    /\ NoId \notin Streams
    /\ Streams \cap DataNodes = {}
    /\ DepsOf \in [Ids -> SUBSET SUBSET Ids]
    /\ \A c \in Cameras : DepsOf[c] \subseteq {{}} \* a camera is a source
    \* no cycles: collectDependents would not return from one
    /\ \A S \in (SUBSET Ids) \ {{}} : \E x \in S : \A deps \in DepsOf[x] : deps \cap S = {}
    /\ DepsFirst \in BOOLEAN
    /\ Policies \subseteq {"free", "skip"}
    /\ Failures \subseteq SUBSET Ids
    /\ Ops \subseteq Operation

VARIABLES
    nodes,        \* the ids in nodes_, whose nodes are created
    dependencies, \* dependencies[x]: keys of its dependencies_
    dependents,   \* dependents[x]: keys of its dependents_
    stale,        \* stale[x]: the keys in dependents[x] whose node was freed
    started,      \* the nodes whose started_ is set
    pending,      \* pending_dependencies_
    singleton,    \* singleton_instances_
    attached,     \* attached[x]: the nodes whose inboxes are subscribed to x
    topologies,   \* the estimator's active_nodes_ and model_topologies_
    policies,     \* the estimator's camera_policies_
    asked,        \* history: the dependencies create was given for x
    held,         \* history: nodes stopped by command or whose onStart failed
    touchedFreed  \* history: a dangling pointer was followed

graph == <<nodes, dependencies, dependents, stale, pending, singleton, attached, asked>>
vars == <<graph, started, topologies, policies, held, touchedFreed>>

Empty == [x \in Ids |-> {}]

Init ==
    /\ nodes = {}
    /\ dependencies = Empty
    /\ dependents = Empty
    /\ stale = Empty
    /\ started = {}
    /\ pending = Empty
    /\ singleton = [t \in SingletonTypes |-> NoId]
    /\ attached = Empty
    /\ topologies = [m \in Models |-> Inactive]
    /\ policies = [c \in Cameras |-> "none"]
    /\ asked = Empty
    /\ held = {}
    /\ touchedFreed = FALSE

-----------------------------------------------------------------------------
(* Node::start and Node::stop: the cascades, over the links `links` that     *)
(* lead from a node to its live dependents                                  *)

Type(x) == IF x \in Cameras THEN "camera" ELSE IF x \in Models THEN "model" ELSE "stream"

\* onStart of x succeeds; a stream needs a camera among its dependencies.
StartSucceeds(x, deps, failing) ==
    /\ x \notin failing
    /\ x \in Streams => deps[x] \cap Cameras # {}

\* Mutant of StartCascade: a node that starts does not notify its dependents.
StartCascadeFlat(first, deps, links, failing) ==
    {x \in first \ started : StartSucceeds(x, deps, failing)}

\* The nodes that start when start() is called on those in `first`: each node
\* that starts calls onDependencyReady on its dependents, which start once all
\* their dependencies have.
StartCascade(first, deps, links, failing) ==
    LET Starts(x, S) == deps[x] \subseteq started \cup S /\ StartSucceeds(x, deps, failing)
        Notified(S) == first \cup UNION {links[d] : d \in S}
        Closed(S) == \A x \in Notified(S) \ started : Starts(x, S) => x \in S
    IN {x \in Ids \ started : \A S \in SUBSET (Ids \ started) : Closed(S) => x \in S}

\* Nodes that were due to start in the cascade that started `new` and failed.
StartFails(first, new, deps, links, failing) ==
    {x \in (first \cup UNION {links[d] : d \in new}) \ started :
        deps[x] \subseteq started \cup new /\ ~StartSucceeds(x, deps, failing)}

\* Mutant of StopCascade: the dependents are not stopped.
StopCascadeFlat(first, links) == first \cap started

\* The nodes that stop when stop() is called on those in `first`: a started
\* node stops its dependents, whether they started because of it or not.
StopCascade(first, links) ==
    LET Closed(S) == /\ first \cap started \subseteq S
                     /\ \A d \in S : links[d] \cap started \subseteq S
    IN {x \in started : \A S \in SUBSET started : Closed(S) => x \in S}

LiveLinks == [d \in Ids |-> dependents[d] \ stale[d]]

\* Mutant of TopologyOf: on_node_started is called with its arguments swapped.
TopologySwapped(deps) ==
    [active   |-> TRUE,
     upstream |-> IF deps \cap Cameras = {} THEN NoId ELSE CHOOSE c \in deps \cap Cameras : TRUE,
     camera   |-> IF deps \cap Models = {} THEN NoId ELSE CHOOSE m \in deps \cap Models : TRUE]

\* ModelNode::onStart: what it tells the estimator of its dependencies
TopologyOf(deps) ==
    [active   |-> TRUE,
     camera   |-> IF deps \cap Cameras = {} THEN NoId ELSE CHOOSE c \in deps \cap Cameras : TRUE,
     upstream |-> IF deps \cap Models = {} THEN NoId ELSE CHOOSE m \in deps \cap Models : TRUE]

\* on_node_started for the models among the nodes that start
ModelsStart(new, deps) ==
    topologies' = [m \in Models |-> IF m \in new THEN TopologyOf(deps[m]) ELSE topologies[m]]

\* Mutant of ModelsStop: onStop does not tell the estimator.
ModelsStopUnreported(gone) == UNCHANGED topologies

\* on_node_stopped for the models among them
ModelsStop(gone) ==
    topologies' = [m \in Models |-> IF m \in gone THEN Inactive ELSE topologies[m]]

\* start() is called on the nodes in `first`.
StartNodes(first, deps, links, dangling, failing) ==
    \E new \in {StartCascade(first, deps, links, failing)} :
    /\ started' = started \cup new
    /\ ModelsStart(new, deps)
    /\ held' = (held \ new) \cup StartFails(first, new, deps, links, failing)
    /\ touchedFreed' = (touchedFreed \/ \E d \in new : dangling[d] # {})

\* NodeFactory::start
Start(x) ==
    /\ "start" \in Ops
    /\ x \in nodes \ started
    /\ dependencies[x] \subseteq started
    /\ \E failing \in Failures :
           StartNodes({x}, dependencies, LiveLinks, stale, failing)
    /\ UNCHANGED <<graph, policies>>

\* NodeFactory::stop
Stop(x) ==
    /\ "stop" \in Ops
    /\ x \in nodes \cap started
    /\ \E gone \in {StopCascade({x}, LiveLinks)} :
       /\ started' = started \ gone
       /\ ModelsStop(gone)
       /\ touchedFreed' = (touchedFreed \/ \E d \in gone : stale[d] # {})
    /\ held' = held \cup {x}
    /\ UNCHANGED <<graph, policies>>

-----------------------------------------------------------------------------
(* NodeFactory::create *)

\* The early returns: the id is taken, the singleton type is, or the estimator
\* refuses one more model.
MayCreate(x, deps) ==
    /\ x \notin nodes
    /\ Type(x) \in SingletonTypes => singleton[Type(x)] = NoId
    /\ x \in Models => Evaluate(topologies, policies, deps)
    /\ DepsFirst => deps \subseteq nodes

\* pending_dependencies_[x] is overwritten only if a dependency is missing.
PendingOf(x, deps) == IF deps \subseteq nodes THEN pending[x] ELSE deps \ nodes

\* The nodes that wait for x: create links them once x is there.
Waiting(x) == {y \in nodes : x \in pending[y]}

\* addDependency has linked x to its dependencies when onCreate fails and the
\* node is freed: their dependents_ keep its address, pending_dependencies_
\* what it waited for.
CreateFails(x) ==
    /\ "create_fails" \in Ops
    /\ \E deps \in DepsOf[x] :
           /\ MayCreate(x, deps)
           /\ dependents' = [d \in Ids |-> dependents[d] \cup (IF d \in deps \cap nodes THEN {x} ELSE {})]
           /\ stale' = [d \in Ids |-> stale[d] \cup (IF d \in deps \cap nodes THEN {x} ELSE {})]
           /\ pending' = [pending EXCEPT ![x] = PendingOf(x, deps)]
    /\ UNCHANGED <<nodes, dependencies, started, singleton, attached, topologies, policies, asked, held, touchedFreed>>

\* dependencies_ after x was linked to its dependencies and the nodes waiting
\* for x to it
LinkedDependencies(x, deps) ==
    [y \in Ids |-> IF y = x THEN deps \cap nodes
                   ELSE dependencies[y] \cup (IF y \in Waiting(x) THEN {x} ELSE {})]

\* Mutant of LinkedDependents: addDependency stores one direction only for the
\* nodes that waited for x.
LinkedDependentsOneWay(x, deps) ==
    [d \in Ids |-> IF d = x THEN {}
                   ELSE dependents[d] \cup (IF d \in deps \cap nodes THEN {x} ELSE {})]

\* dependents_ after that: a new entry takes the place of a stale one
LinkedDependents(x, deps) ==
    [d \in Ids |-> IF d = x THEN Waiting(x)
                   ELSE dependents[d] \cup (IF d \in deps \cap nodes THEN {x} ELSE {})]
StaleAfterLinking(x, deps) ==
    [d \in Ids |-> IF d = x THEN {}
                   ELSE stale[d] \ (IF d \in deps \cap nodes THEN {x} ELSE {})]

\* Mutant of Subscribed: no inbox is subscribed when a late dependency appears.
SubscribedAtCreation(x, deps) ==
    [u \in Ids |-> IF u = x THEN {}
                   ELSE IF u \in deps \cap nodes \cap DataNodes /\ x \in DataNodes
                   THEN attached[u] \cup {x} ELSE attached[u]]

\* setupDataFlow, for x and for the nodes that waited for it
Subscribed(x, deps) ==
    [u \in Ids |-> IF u = x THEN (IF x \in DataNodes THEN Waiting(x) \cap DataNodes ELSE {})
                   ELSE IF u \in deps \cap nodes \cap DataNodes /\ x \in DataNodes
                   THEN attached[u] \cup {x} ELSE attached[u]]

\* The nodes that wait for x are never started here (lines 162-167): x, which
\* they now depend on, starts only after the loop, and then notifies them.
Create(x) ==
    /\ "create" \in Ops
    /\ \E deps \in DepsOf[x], policy \in Policies, failing \in Failures :
           /\ MayCreate(x, deps)
           /\ nodes' = nodes \cup {x}
           /\ dependencies' = LinkedDependencies(x, deps)
           /\ dependents' = LinkedDependents(x, deps)
           /\ stale' = StaleAfterLinking(x, deps)
           /\ pending' = [y \in Ids |-> IF y = x THEN PendingOf(x, deps)
                                        ELSE IF y \in Waiting(x) THEN pending[y] \ {x} ELSE pending[y]]
           /\ attached' = Subscribed(x, deps)
           /\ asked' = [asked EXCEPT ![x] = deps]
           /\ singleton' = [t \in SingletonTypes |-> IF t = Type(x) THEN x ELSE singleton[t]]
           /\ policies' = [c \in Cameras |-> IF c = x THEN policy ELSE policies[c]]
           /\ LET first == IF deps \cap nodes \subseteq started THEN {x} ELSE {}
                  links == [d \in Ids |-> LinkedDependents(x, deps)[d] \ StaleAfterLinking(x, deps)[d]]
              IN StartNodes(first, LinkedDependencies(x, deps), links, StaleAfterLinking(x, deps), failing)

-----------------------------------------------------------------------------
(* NodeFactory::destroy and destroyAll *)

\* Mutant of Dependents: only the direct ones.
DependentsDirect(x) == dependents[x]

\* collectDependents: the keys reached from x; behind a stale one, nothing.
Dependents(x) ==
    LET Closed(S) == /\ dependents[x] \subseteq S
                     /\ \A z \in S \cup {x} : \A y \in dependents[z] \ stale[z] :
                            y \in S => dependents[y] \subseteq S
    IN {y \in Ids : \A S \in SUBSET Ids : Closed(S) => y \in S}

\* The live nodes destroy(x) destroys: found by key, so that a stale key may
\* name a node created since.
Doomed(x) == {x} \cup (Dependents(x) \cap nodes)

\* Mutant of FreedSingletons: only the type of the node the command names.
FreedSingletonsOfTarget(x, gone) == {Type(x)}

\* singleton_instances_.erase, for x and for every dependent
FreedSingletons(x, gone) == {Type(x)} \cup {Type(y) : y \in gone}

\* Mutant of Unsubscribed: teardownDataFlow is not called.
UnsubscribedNever(gone) == [u \in Ids |-> IF u \in gone THEN {} ELSE attached[u]]

\* teardownDataFlow of the nodes that go
Unsubscribed(gone) ==
    [u \in Ids |-> IF u \in gone THEN {}
                   ELSE attached[u] \ {y \in gone : u \in dependencies[y]}]

\* The dependents of x are freed before x is stopped, and so on up: the stop
\* cascade of a started node with dependents_ runs over freed nodes.  Nothing
\* takes the nodes that go out of the dependents_ of those that stay.
Destroy(x) ==
    /\ "destroy" \in Ops
    /\ x \in nodes
    /\ \E gone \in {Doomed(x)}, stopped \in {Doomed(x) \cap started} :
       /\ nodes' = nodes \ gone
       /\ started' = started \ stopped
       /\ dependencies' = [y \in Ids |-> IF y \in gone THEN {} ELSE dependencies[y]]
       /\ dependents' = [d \in Ids |-> IF d \in gone THEN {} ELSE dependents[d]]
       /\ stale' = [d \in Ids |-> IF d \in gone THEN {}
                                  ELSE stale[d] \cup (dependents[d] \cap gone)]
       /\ attached' = Unsubscribed(gone)
       /\ ModelsStop(gone)
       /\ singleton' = [t \in SingletonTypes |-> IF t \in FreedSingletons(x, gone) THEN NoId ELSE singleton[t]]
       /\ asked' = [y \in Ids |-> IF y \in gone THEN {} ELSE asked[y]]
       /\ held' = held \ gone
       /\ touchedFreed' = \/ touchedFreed
                          \/ \E d \in stopped : dependents[d] # {}
                          \/ \E d \in gone : stale[d] # {}
    /\ policies' = [c \in Cameras |-> IF c = x THEN "none" ELSE policies[c]]
    /\ pending' = [y \in Ids |-> IF y = x THEN {} ELSE pending[y] \ {x}]

\* destroyAll frees the nodes after it stopped them all, and leaves
\* pending_dependencies_ as it is.
DestroyAll ==
    /\ "destroy_all" \in Ops
    /\ nodes # {}
    /\ touchedFreed' = (touchedFreed \/ \E d \in started : stale[d] # {})
    /\ nodes' = {}
    /\ started' = {}
    /\ dependencies' = Empty
    /\ dependents' = Empty
    /\ stale' = Empty
    /\ singleton' = [t \in SingletonTypes |-> NoId]
    /\ attached' = Empty
    /\ ModelsStop(Models)
    /\ policies' = [c \in Cameras |-> "none"]
    /\ asked' = Empty
    /\ held' = {}
    /\ UNCHANGED pending

\* CameraNode::onControl("set_infer_fps_limit"): the camera registers again,
\* with a policy that may differ.
SetInferFpsLimit(c) ==
    /\ "set_infer_fps_limit" \in Ops
    /\ c \in nodes
    /\ \E policy \in Policies \ {policies[c]} : policies' = [policies EXCEPT ![c] = policy]
    /\ UNCHANGED <<graph, started, topologies, held, touchedFreed>>

Next ==
    \/ \E x \in Ids : Create(x) \/ CreateFails(x) \/ Start(x) \/ Stop(x) \/ Destroy(x)
    \/ \E c \in Cameras : SetInferFpsLimit(c)
    \/ DestroyAll

Spec == Init /\ [][Next]_vars
-----------------------------------------------------------------------------
(* Properties *)

(* Types of the variables. *)
TypeOK ==
    /\ nodes \subseteq Ids
    /\ {dependencies, dependents, stale, pending, attached, asked} \subseteq [Ids -> SUBSET Ids]
    /\ started \subseteq Ids
    /\ held \subseteq Ids
    /\ singleton \in [SingletonTypes -> Ids \cup {NoId}]
    /\ topologies \in [Models -> Topology]
    /\ policies \in [Cameras -> Policy]
    /\ touchedFreed \in BOOLEAN

(* A live node points to live nodes only: whatever was created, failed, stopped *)
(* and destroyed before, destroy takes down everything that depends on its      *)
(* target (NodeFactory::destroy, collectDependents).                            *)
DependenciesAreLive == \A x \in nodes : dependencies[x] \subseteq nodes

(* The two directions of a link agree between live nodes, also for dependencies *)
(* that appeared late (Node::addDependency).                                    *)
LinksAreMutual ==
    \A x, d \in nodes : d \in dependencies[x] <=> x \in LiveLinks[d]

(* A live node is linked to every live node it was created to depend on, the one *)
(* that was there before it and the one that came later (pending_dependencies_). *)
LinksAreComplete == \A x \in nodes : asked[x] \cap nodes \subseteq dependencies[x]

(* The links of a live node lead to live nodes, and back, and none is missing.    *)
LinksHold == DependenciesAreLive /\ LinksAreMutual /\ LinksAreComplete

(* A node runs only while all the dependencies it was created with run: the     *)
(* cascades of Node::start and Node::stop, through diamonds, failed starts and  *)
(* re-creations.                                                                *)
RunsWithDependencies == ~touchedFreed => \A x \in started : asked[x] \subseteq started

(* A node whose dependencies all run runs too, unless its own onStart failed or *)
(* it was stopped by command since: no order of creation, failure, stop and     *)
(* restart leaves it waiting (onDependencyReady, pending_dependencies_).        *)
NobodyForgotten ==
    \A x \in nodes \ held : asked[x] \subseteq started => x \in started

(* A data node's output goes to the inboxes of exactly the live data nodes that *)
(* depend on it: no frame to a freed inbox, none withheld from a node that was  *)
(* linked late (setupDataFlow, teardownDataFlow).                               *)
FlowFollowsLinks ==
    \A u \in nodes \cap DataNodes :
        attached[u] = {y \in nodes \cap DataNodes : u \in dependencies[y]}

(* singleton_instances_ names the one live camera and the one live stream: none *)
(* is locked out by a node that is gone, and no second one gets in.             *)
SingletonsAreUnique ==
    \A t \in SingletonTypes :
        {x \in nodes : Type(x) = t} = IF singleton[t] = NoId THEN {} ELSE {singleton[t]}

(* The estimator counts exactly the running models and knows exactly the live    *)
(* cameras, through cascades and destroyAll (on_node_started, on_node_stopped,   *)
(* register_camera, unregister_camera).                                          *)
EstimatorTracksNodes ==
    /\ Active(topologies) = started \cap Models
    /\ {c \in Cameras : policies[c] # "none"} = nodes \cap Cameras

ModelsReading(c) ==
    {m \in started \cap Models : c \in dependencies[m] /\ dependencies[m] \cap Models = {}}

(* "Parallel mode: max 3 models" (resource_limits.h:13), and every one of them   *)
(* and the camera can hold a block of the pool: counted over the running nodes,  *)
(* not over what the estimator believes.                                         *)
ParallelLimit ==
    \A c \in Cameras : LET count == Cardinality(ModelsReading(c)) IN
        count <= MAX_PARALLEL_MODELS /\ 1 + count <= VB_POOL4_TOTAL

(* "Parallel mode with 3 models requires camera infer_fps_limit"                 *)
(* (resource_estimator.cpp:60-62).                                               *)
FullCameraSkips ==
    \A c \in Cameras :
        Cardinality(ModelsReading(c)) >= MAX_PARALLEL_MODELS => policies[c] = "skip"

\* The models m depends on, itself included, along the links.
ModelsBefore(m) ==
    {x \in Models : \A S \in SUBSET Models :
        (m \in S /\ \A y \in S : dependencies[y] \cap Models \subseteq S) => x \in S}

(* "Serial mode: max 3 models" (resource_limits.h:14), along the links of the    *)
(* running models, as long as the graph is intact: once destroy has followed a    *)
(* dangling key it can leave a model whose upstream is gone.                     *)
SerialLimit ==
    ~touchedFreed => \A m \in started \cap Models : Cardinality(ModelsBefore(m)) <= MAX_SERIAL_MODELS

(* The limits of the estimator, over the models that run.                         *)
ModelLimits == ParallelLimit /\ FullCameraSkips /\ SerialLimit

(* A node depends only on what its create command named.                         *)
LinksWereAsked == \A x \in nodes : dependencies[x] \subseteq asked[x]

(* A node is created only when all its dependencies are there: create "with a     *)
(* missing dependency" returns no node (test_node_factory.cpp:127-136).           *)
CreatedWithDependencies == \A x \in nodes : asked[x] \subseteq nodes

(* No operation follows a pointer to a freed node.                               *)
FreedNodesAreLeftAlone == ~touchedFreed
=============================================================================
