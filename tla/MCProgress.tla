----------------------------- MODULE MCProgress -----------------------------
(***************************************************************************)
(* What must get on, for TLC: the frames and the commands of FrameFlow, where *)
(* one model feeds another, and the calls of a MessageBox.  Each is checked    *)
(* under the fairness of its own threads; which says whose behaviour this is,  *)
(* and the other stays as it begins.                                           *)
(***************************************************************************)
EXTENDS MCFrameFlow

CONSTANTS Posters, Fetchers, Controllers, Msgs, Timeouts, ControlOps, NoThread, NoMsg

VARIABLES which, call, shut, queue, mutex, timeout, expired, msg, op, sawOpen

Inbox == INSTANCE MessageBox WITH
    Capacity <- 1, ResetAnytime <- FALSE, pc <- call, interrupted <- shut

inboxVars == <<call, shut, queue, mutex, timeout, expired, msg, op, sawOpen>>
allVars == <<which, vars, inboxVars>>

Start == which \in {"frames", "inbox"} /\ Init /\ Inbox!Init

Either ==
    \/ which = "frames" /\ Next /\ UNCHANGED <<which, inboxVars>>
    \/ which = "inbox" /\ Inbox!Next /\ UNCHANGED <<which, vars>>

FairThreads ==
    /\ SF_vars(which = "frames" /\ Worker)
    /\ \A s \in {camera, m1, m2} : WF_vars(which = "frames" /\ Thread(s))
    /\ \A t \in Posters \cup Fetchers :
        /\ WF_inboxVars(which = "inbox" /\ Inbox!CallerStep(t))
        /\ SF_inboxVars(which = "inbox" /\ Inbox!CallerLock(t))
        /\ SF_inboxVars(which = "inbox" /\ Inbox!Expire(t))
    /\ \A c \in Controllers :
        /\ WF_inboxVars(which = "inbox" /\ Inbox!ControlStep(c))
        /\ SF_inboxVars(which = "inbox" /\ Inbox!ClearLock(c))

Progress == Start /\ [][Either]_allVars /\ FairThreads

-----------------------------------------------------------------------------
\* MessageBox: a call with a finite timeout returns, also when interrupt misses it,
\* and a poster that waits for room gets it while nobody interrupts.
InboxCallsReturn ==
    /\ \A t \in Posters \cup Fetchers : Inbox!CallIsTimed(t) ~> call[t] = "idle"
    /\ \A p \in Posters : Inbox!RoomIsThere(p) ~> ~Inbox!RoomIsThere(p)
=============================================================================
