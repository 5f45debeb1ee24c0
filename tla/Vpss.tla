-------------------------------- MODULE Vpss --------------------------------
(***************************************************************************)
(* CviVpssProcessor (modules/cv/cvi_vpss_processor.cpp): every processor of  *)
(* the process - the one of cv_helpers, those that model nodes make for a    *)
(* call - works on the one VPSS group for memory input, and remembers what   *)
(* it has told the driver so as not to tell it again.                        *)
(*                                                                         *)
(* A call is four steps: ensure_group, ensure_channel, the frame is sent,    *)
(* the result is fetched.  Each call of the driver may fail, those that undo   *)
(* something and whose result nobody looks at included, and calls of different *)
(* processors interleave between the steps.  Of a group the driver resets      *)
(* nothing is left.  Which pool the channel draws on is left out.              *)
(***************************************************************************)
EXTENDS Naturals, Sequences

CONSTANTS
    Processors,
    Inputs,      \* sizes and formats of input frames
    Outputs,     \* sizes, formats and borders of results
    Jobs,        \* what is asked: [input, output, crop, mat]; mat: the frame is a matrix
    TooLarge,    \* the outputs within the group's limits that no VB pool can hold
    None

VpssAssumption ==
    /\ None \notin Inputs /\ None \notin Outputs /\ None \notin Jobs
    /\ Jobs \subseteq [input : Inputs, output : Outputs, crop : BOOLEAN, mat : BOOLEAN]

NoGroup == [input |-> None, started |-> FALSE, chn |-> None, enabled |-> FALSE, crop |-> FALSE, queue |-> <<>>]
NewProcessor == [created |-> FALSE, started |-> FALSE, input |-> None, output |-> None]

VARIABLES
    group,    \* the VPSS group for memory input, and the pictures its channel has ready
    proc,     \* proc[p]: group_created_, group_started_, what the group was made for, what the channel was
    pc,       \* the step of p's call that is next
    job,      \* what p is asked
    result,   \* the picture p's last call returned and its caller holds, or None
    mishap    \* what is wrong with the group for its users (history; see the properties)

vars == <<group, proc, pc, job, result, mishap>>

Init ==
    /\ group = NoGroup
    /\ proc = [p \in Processors |-> NewProcessor]
    /\ pc = [p \in Processors |-> "idle"]
    /\ job = [p \in Processors |-> None]
    /\ result = [p \in Processors |-> None]
    /\ mishap = {}

Exists == group.input # None
Others(p) == \E q \in Processors \ {p} : proc[q].created

\* the picture of a job, and the one the group makes of it as it is, reading the
\* frame as one of the kind it was made for
Asked(p) == [by |-> p, input |-> job[p].input, output |-> job[p].output, crop |-> job[p].crop]
Made(p, g) == [by |-> p, input |-> g.input, output |-> g.chn, crop |-> g.crop]

\* select_output_pool: the smallest pool whose blocks can hold the output, if any
NoPool(p) == job[p].output \in TooLarge

\* the call goes on with step s; it ends; it throws, and the caller falls back to the
\* CPU (cv_helpers, ModelNode) or gives up
Goes(p, s) == pc' = [pc EXCEPT ![p] = s] /\ UNCHANGED <<job, result>>
Ends(p) == pc' = [pc EXCEPT ![p] = "idle"] /\ job' = [job EXCEPT ![p] = None]
Throws(p) == Ends(p) /\ UNCHANGED result

-----------------------------------------------------------------------------
\* resize, cvtColor, convert_format, crop, crop_resize, letterbox: the checks of
\* the arguments come first, so that a job is one the group is large enough for
Call(p, j) ==
    /\ pc[p] = "idle"
    /\ pc' = [pc EXCEPT ![p] = "group"]
    /\ job' = [job EXCEPT ![p] = j]
    /\ result' = [result EXCEPT ![p] = None]
    /\ UNCHANGED <<group, proc, mishap>>

\* The group after CVI_VPSS_DisableChn and CVI_VPSS_StopGrp, which may fail
\* unnoticed.
Halted == {[group EXCEPT !.enabled = e, !.started = s] : e \in {FALSE, group.enabled}, s \in {FALSE, group.started}}

\* What is wrong when p gives the group up: nothing is with a group that is gone.
GivenUp(p) ==
    (IF group' = NoGroup THEN {} ELSE mishap \cup {"kept"}) \cup (IF Others(p) THEN {"shared"} ELSE {})

\* destroy_group: the group goes, whoever made it, unless CVI_VPSS_DestroyGrp
\* fails; p forgets it in any case
DestroyGroup(p) ==
    /\ pc[p] = "idle" /\ proc[p].created
    /\ group' \in {NoGroup} \cup (IF proc[p].started THEN Halted ELSE {group})
    /\ proc' = [proc EXCEPT ![p] = NewProcessor]
    /\ mishap' = GivenUp(p)
    /\ UNCHANGED <<pc, job, result>>

\* A new group, or one that existed, reset.
Renew(p) ==
    /\ group' = [NoGroup EXCEPT !.input = job[p].input]
    /\ proc' = [proc EXCEPT ![p] = [NewProcessor EXCEPT !.created = TRUE, !.input = job[p].input]]
    /\ mishap' = IF Others(p) THEN {"shared"} ELSE {}
    /\ Goes(p, "channel")

\* Mutants of EnsureGroup: the group's format and size are not compared; a group
\* that cannot be reset is not destroyed.
EnsureAnyGroup(p) ==
    /\ pc[p] = "group"
    /\ IF proc[p].created
       THEN UNCHANGED <<group, proc, mishap>> /\ Goes(p, "channel")
       ELSE Renew(p)
LeakGroup(p) ==
    /\ pc[p] = "group" /\ ~proc[p].created
    /\ \/ Renew(p)
       \/ /\ group' = [NoGroup EXCEPT !.input = job[p].input]
          /\ proc' = [proc EXCEPT ![p] = NewProcessor]
          /\ Throws(p)
          /\ UNCHANGED mishap

\* ensure_group: another format or size takes a new group.  A group that is
\* still there - another processor's, or one whose destruction failed - is
\* stopped, set and reset.  What fails leaves p without a group: there is none,
\* or a new one that could be neither reset nor destroyed, or the one that was
\* there, halted and perhaps set for the new input.
EnsureGroup(p) ==
    /\ pc[p] = "group"
    /\ \/ /\ proc[p].created /\ proc[p].input = job[p].input
          /\ UNCHANGED <<group, proc, mishap>> /\ Goes(p, "channel")
       \/ /\ ~(proc[p].created /\ proc[p].input = job[p].input)
          /\ Renew(p)
       \/ /\ ~(proc[p].created /\ proc[p].input = job[p].input)
          /\ \/ /\ proc[p].created \/ ~Exists
                /\ group' \in {NoGroup, [NoGroup EXCEPT !.input = job[p].input]}
             \/ /\ Exists
                /\ \E g \in Halted : group' \in {g, [g EXCEPT !.input = job[p].input]}
          /\ proc' = [proc EXCEPT ![p] = NewProcessor]
          /\ mishap' = GivenUp(p)
          /\ Throws(p)

\* What is wrong when the set-up of p's channel ends early.
Halfway(p) == mishap \cup (IF proc[p].started THEN {"halfway"} ELSE {})

\* ensure_channel: a channel that is set up as asked is left alone.  Otherwise it
\* is disabled, if it may run, set, enabled and the group started; then a pool
\* must be found and attached.  The members that say how the channel is set up
\* follow last, after everything that may throw.
EnsureChannel(p) ==
    LET known == proc[p].started /\ proc[p].output = job[p].output
        off == {[group EXCEPT !.enabled = e] : e \in {group.enabled} \cup {b \in {FALSE} : proc[p].started}}
        on == [group EXCEPT !.chn = job[p].output, !.enabled = TRUE]
    IN  /\ pc[p] = "channel"
        /\ \/ known /\ UNCHANGED <<group, proc, mishap>> /\ Goes(p, "send")
           \/ /\ ~known
              /\ IF Exists THEN \/ group' = on
                                \/ \E g \in off : group' \in {g, [g EXCEPT !.chn = job[p].output]}
                           ELSE UNCHANGED group
              /\ mishap' = Halfway(p)
              /\ Throws(p)
              /\ UNCHANGED proc
           \/ /\ ~known /\ Exists
              /\ group' = [on EXCEPT !.started = TRUE]
              /\ proc' = [proc EXCEPT ![p].started = TRUE]
              /\ mishap' = Halfway(p)
              /\ Throws(p)
           \/ /\ ~known /\ Exists /\ ~NoPool(p)
              /\ group' = [on EXCEPT !.started = TRUE]
              /\ proc' = [proc EXCEPT ![p].started = TRUE, ![p].output = job[p].output]
              /\ mishap' = mishap \ {"halfway"}
              /\ Goes(p, "send")

\* process_frame sets the crop and then, for a frame that is a matrix, copies it
\* into a VB block: mat_to_video_frame finds no block in any pool or cannot map it
CopyFails(p) ==
    /\ pc[p] = "send" /\ job[p].mat
    /\ IF job[p].crop /\ Exists
       THEN group' = [group EXCEPT !.crop = TRUE] /\ mishap' = mishap \cup {"crop"}
       ELSE UNCHANGED <<group, mishap>>
    /\ Throws(p)
    /\ UNCHANGED proc

\* The group is g and wrong in the ways of m but for the crop of p's job, which is
\* taken back, or is not: nobody looks at what the second CVI_VPSS_SetChnCrop
\* returns.
Uncrop(p, g, m) ==
    IF job[p].crop /\ Exists
    THEN \/ group' = [g EXCEPT !.crop = FALSE] /\ mishap' = m \ {"crop"}
         \/ group' = [g EXCEPT !.crop = TRUE] /\ mishap' = m \cup {"crop"}
    ELSE group' = g /\ mishap' = m

\* process_frame up to CVI_VPSS_SendFrame: the crop cannot be set; sending fails
\* and the crop is taken back; or the frame is sent.  A result that finds the
\* channel's one place taken is dropped or takes it.
SendFrame(p) ==
    LET g == IF job[p].crop THEN [group EXCEPT !.crop = TRUE] ELSE group
    IN  /\ pc[p] = "send"
        /\ \/ Throws(p) /\ UNCHANGED <<group, mishap>>
           \/ Throws(p) /\ Uncrop(p, group, mishap)
           \/ /\ group.started
              /\ \/ group' = g /\ (g.enabled => g.queue # <<>>)
                 \/ g.enabled /\ group' = [g EXCEPT !.queue = <<Made(p, g)>>]
              /\ Goes(p, "get")
              /\ UNCHANGED mishap
        /\ UNCHANGED proc

\* Mutant of GetFrame: the crop stays when no picture comes.
GetOrLeaveCrop(p) ==
    /\ pc[p] = "get"
    /\ \/ Throws(p) /\ UNCHANGED <<group, mishap>>
       \/ /\ group.queue # <<>>
          /\ Uncrop(p, [group EXCEPT !.queue = Tail(@)], mishap)
          /\ result' = [result EXCEPT ![p] = Head(group.queue)]
          /\ Ends(p)
    /\ UNCHANGED proc

\* the rest of process_frame: five attempts at CVI_VPSS_GetChnFrame, which may
\* give up before the result is there; the crop is taken back either way
GetFrame(p) ==
    /\ pc[p] = "get"
    /\ \/ group.queue = <<>> /\ Uncrop(p, group, mishap) /\ Throws(p)
       \/ /\ group.queue # <<>>
          /\ Uncrop(p, group, mishap \cup {"late"})
          /\ Throws(p)
       \/ /\ group.queue # <<>>
          /\ Uncrop(p, [group EXCEPT !.queue = Tail(@)], mishap)
          /\ result' = [result EXCEPT ![p] = Head(group.queue)]
          /\ Ends(p)
    /\ UNCHANGED proc

Next ==
    \E p \in Processors :
        \/ \E j \in Jobs : Call(p, j)
        \/ DestroyGroup(p) \/ EnsureGroup(p) \/ EnsureChannel(p) \/ CopyFails(p) \/ SendFrame(p) \/ GetFrame(p)

Spec == Init /\ [][Next]_vars

-----------------------------------------------------------------------------
(* Properties *)

Results == [by : Processors, input : Inputs, output : Outputs, crop : BOOLEAN]

TypeOK ==
    /\ group \in [input : Inputs \cup {None}, started : BOOLEAN, chn : Outputs \cup {None}, enabled : BOOLEAN,
                  crop : BOOLEAN, queue : Seq(Results)]
    /\ proc \in [Processors -> [created : BOOLEAN, started : BOOLEAN, input : Inputs \cup {None},
                                output : Outputs \cup {None}]]
    /\ pc \in [Processors -> {"idle", "group", "channel", "send", "get"}]
    /\ job \in [Processors -> Jobs \cup {None}]
    /\ result \in [Processors -> Results \cup {None}]
    /\ mishap \subseteq {"shared", "halfway", "crop", "late", "kept"}

\* A call that returns has made of its frame what it was asked - although the
\* group and the channel are only told of changes, whatever failed before, and
\* whatever was once wrong and is put right since.  What misleads a call is one
\* of these: two processors share the group, the set-up of a running channel
\* stopped halfway, a crop was not taken back, or a result came late and is
\* still in the channel.  A group whose destruction failed misleads nobody: the
\* next ensure_group takes it over.  Without the premise this is refuted in each
\* of the four ways (see the README).
CallsReturnWhatWasAsked ==
    \A p \in Processors :
        result[p] = None /\ result'[p] # None /\ mishap \subseteq {"kept"} => result'[p] = Asked(p)

OnlyMishapsMislead == [][CallsReturnWhatWasAsked]_vars

\* A group that exists has a processor that will destroy it, unless two share it
\* or CVI_VPSS_DestroyGrp failed.
GroupsAreDestroyed == Exists /\ mishap \cap {"shared", "kept"} = {} => \E p \in Processors : proc[p].created

\* The crop of one call does not reach into the next, unless a matrix could not
\* be copied or the call that takes the crop back failed.
CropsEnd ==
    group.crop /\ mishap \cap {"crop", "shared"} = {} => \E p \in Processors : pc[p] = "get" /\ job[p].crop

\* Refuted: a picture is handed on while its group is destroyed, as when a model
\* node's processor goes at the end of its block or takes a frame of another size.
PicturesHaveTheirGroup == (\E p \in Processors : result[p] # None) => Exists
=============================================================================
