------------------------- MODULE ResourceEstimator -------------------------
(***************************************************************************)
(* node::ResourceEstimator (src/src/node/resource_estimator.cpp): decides,  *)
(* before a model node is created, whether the video buffers of pool 4 and  *)
(* the limits of resource_limits.h allow one more model.  NodeGraph keeps   *)
(* the estimator's two maps as its variables topologies and policies and    *)
(* changes them where the nodes call the estimator.                         *)
(*                                                                         *)
(* The memory query of lines 74-82 fills a field that no condition reads,   *)
(* and `available` (line 24) is computed and never compared: both are left  *)
(* out.                                                                     *)
(***************************************************************************)
EXTENDS Naturals, FiniteSets

CONSTANTS
    Cameras,             \* ids of nodes of type "camera"
    Models,              \* ids of nodes of type "model"
    NoId,                \* the empty string as a camera_id or upstream_model_id
    VB_POOL4_TOTAL,      \* the limits of resource_limits.h
    VB_BUFFER_RESERVE,
    MAX_PARALLEL_MODELS,
    MAX_SERIAL_MODELS

ASSUME EstimatorAssumption ==
    /\ NoId \notin Cameras \cup Models
    /\ Cameras \cap Models = {}
    /\ {VB_POOL4_TOTAL, VB_BUFFER_RESERVE, MAX_PARALLEL_MODELS, MAX_SERIAL_MODELS} \subseteq Nat

\* A ModelTopology: the camera and the model a running model is linked to.  The
\* maps are total here; active says whether they have an entry.
Topology == [active : BOOLEAN, camera : Cameras \cup {NoId}, upstream : Models \cup {NoId}]
Inactive == [active |-> FALSE, camera |-> NoId, upstream |-> NoId]

\* "none": no policy is registered; "skip": frame_skip_enabled and a positive
\* infer_fps_limit; "free": a policy that does not require frames to be skipped.
Policy == {"none", "free", "skip"}

\* The ids in active_nodes_, which are those in model_topologies_.
Active(topologies) == {m \in Models : topologies[m].active}

CamerasAmong(policies, deps) == {c \in deps \cap Cameras : policies[c] # "none"}
UpstreamAmong(topologies, deps) == deps \cap Active(topologies)

ParallelModels(topologies, c) ==
    {m \in Active(topologies) : topologies[m].upstream = NoId /\ topologies[m].camera = c}

\* The ids count_serial_chain visits from m: the least set that holds m and the
\* upstream model of each running model in it.
SerialChain(topologies, m) ==
    LET Closed(S) == /\ m \in S
                     /\ \A x \in S \cap Active(topologies) :
                            topologies[x].upstream \in S \cup {NoId}
    IN {x \in Models : \A S \in SUBSET Models : Closed(S) => x \in S}

\* calculate_vb_requirement for a positive count
VbRequirement(count, parallel) == IF parallel THEN 1 + count + VB_BUFFER_RESERVE ELSE 3

\* Mutant of FitsParallel: the branch for a full camera asks for its policy only.
FitsParallelUnbounded(topologies, policies, c) ==
    LET count == Cardinality(ParallelModels(topologies, c)) + 1 IN
    IF count >= MAX_PARALLEL_MODELS
    THEN policies[c] = "skip"
    ELSE VbRequirement(count, TRUE) <= VB_POOL4_TOTAL

\* Mutant of FitsParallel: the policy of the camera is not asked for.
FitsParallelNoPolicy(topologies, policies, c) ==
    LET count == Cardinality(ParallelModels(topologies, c)) + 1 IN
    1 + count <= VB_POOL4_TOTAL /\ count <= MAX_PARALLEL_MODELS

\* One more model beside those that read camera c directly.
FitsParallel(topologies, policies, c) ==
    LET count == Cardinality(ParallelModels(topologies, c)) + 1 IN
    IF count >= MAX_PARALLEL_MODELS
    THEN /\ policies[c] = "skip"
         /\ 1 + count <= VB_POOL4_TOTAL
         /\ count <= MAX_PARALLEL_MODELS
    ELSE VbRequirement(count, TRUE) <= VB_POOL4_TOTAL

\* Mutant of SerialCount: only the model directly upstream counts.
SerialCountOfNeighbour(topologies, upstream) ==
    IF upstream = {} THEN Cardinality(Active(topologies)) + 1 ELSE 2

\* The length of the chain a model behind one of upstream would end, or, for a
\* model without a running upstream model, the number of models.
SerialCount(topologies, upstream) ==
    IF upstream = {} THEN Cardinality(Active(topologies)) + 1
    ELSE Cardinality(SerialChain(topologies, CHOOSE m \in upstream : TRUE)) + 1

FitsSerial(topologies, upstream) ==
    /\ VbRequirement(SerialCount(topologies, upstream), FALSE) <= VB_POOL4_TOTAL
    /\ SerialCount(topologies, upstream) <= MAX_SERIAL_MODELS

\* evaluate_model: estimate.pass.  A dependency list names at most one camera
\* that has a policy and one running model, so that "the last of them" is it.
Evaluate(topologies, policies, deps) ==
    LET cameras == CamerasAmong(policies, deps)
        upstream == UpstreamAmong(topologies, deps)
    IN IF upstream = {} /\ cameras # {}
       THEN \A c \in cameras : FitsParallel(topologies, policies, c)
       ELSE FitsSerial(topologies, upstream)
=============================================================================
