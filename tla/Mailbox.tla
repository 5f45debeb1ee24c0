------------------------------- MODULE Mailbox -------------------------------
(***************************************************************************)
(* What node::MessageBox promises its callers, with no lock and no          *)
(* condition variable: a bounded FIFO in which every call takes effect at   *)
(* one instant between its start and its return.                            *)
(*                                                                         *)
(*   - post succeeds only when there is room, and only if the box was open  *)
(*     at some instant of the call; it is refused only when the box is full *)
(*     or closed;                                                           *)
(*   - fetch takes the oldest message, and comes back with none only when   *)
(*     there is none: a closed box is drained before it reports the end.    *)
(*                                                                         *)
(* MessageBox implements this specification (see MessageBox!Promise).       *)
(***************************************************************************)
EXTENDS Naturals, Sequences

CONSTANTS
    Posters,    \* threads that call post
    Fetchers,   \* threads that call fetch
    Msgs,       \* messages
    Capacity,   \* capacity_ of the box
    NoMsg       \* no message

VARIABLES
    box,        \* the messages held, oldest first
    open,       \* FALSE between interrupt() and reset()
    phase,      \* how far each caller is
    mayPut,     \* mayPut[p]: the box was open at some instant of p's call
    got         \* got[f]: what the last fetch of f returned

vars == <<box, open, phase, mayPut, got>>

Callers == Posters \cup Fetchers

Init ==
    /\ box = <<>>
    /\ open = TRUE
    /\ phase = [t \in Callers |-> "idle"]
    /\ mayPut = [p \in Posters |-> FALSE]
    /\ got = [f \in Fetchers |-> NoMsg]

Move(t, from, to) ==
    /\ phase[t] = from
    /\ phase' = [phase EXCEPT ![t] = to]

CallPost(p) ==
    /\ Move(p, "idle", "posting")
    /\ mayPut' = [mayPut EXCEPT ![p] = open]
    /\ UNCHANGED <<box, open, got>>

Put(p, m) ==
    /\ Move(p, "posting", "posted")
    /\ Len(box) < Capacity
    /\ mayPut[p]
    /\ box' = Append(box, m)
    /\ UNCHANGED <<open, mayPut, got>>

Refuse(p) ==
    /\ Move(p, "posting", "refused")
    /\ Len(box) >= Capacity \/ ~open
    /\ UNCHANGED <<box, open, mayPut, got>>

CallFetch(f) ==
    /\ Move(f, "idle", "fetching")
    /\ UNCHANGED <<box, open, mayPut, got>>

Take(f) ==
    /\ Move(f, "fetching", "fetched")
    /\ box # <<>>
    /\ got' = [got EXCEPT ![f] = Head(box)]
    /\ box' = Tail(box)
    /\ UNCHANGED <<open, mayPut>>

Miss(f) ==
    /\ Move(f, "fetching", "missed")
    /\ box = <<>>
    /\ UNCHANGED <<box, open, mayPut, got>>

ReturnPost(p) ==
    /\ phase[p] \in {"posted", "refused"}
    /\ phase' = [phase EXCEPT ![p] = "idle"]
    /\ mayPut' = [mayPut EXCEPT ![p] = FALSE]
    /\ UNCHANGED <<box, open, got>>

ReturnFetch(f) ==
    /\ phase[f] \in {"fetched", "missed"}
    /\ phase' = [phase EXCEPT ![f] = "idle"]
    /\ got' = [got EXCEPT ![f] = NoMsg]
    /\ UNCHANGED <<box, open, mayPut>>

DiscardAll ==
    /\ box' = <<>>
    /\ UNCHANGED <<open, phase, mayPut, got>>

Close ==
    /\ open' = FALSE
    /\ UNCHANGED <<box, phase, mayPut, got>>

\* Opening the box lets every post already under way succeed.
Open ==
    /\ open' = TRUE
    /\ mayPut' = [p \in Posters |-> mayPut[p] \/ phase[p] = "posting"]
    /\ UNCHANGED <<box, phase, got>>

Next ==
    \/ \E p \in Posters : CallPost(p) \/ Refuse(p) \/ ReturnPost(p)
    \/ \E p \in Posters, m \in Msgs : Put(p, m)
    \/ \E f \in Fetchers : CallFetch(f) \/ Take(f) \/ Miss(f) \/ ReturnFetch(f)
    \/ DiscardAll
    \/ Close
    \/ Open

Spec == Init /\ [][Next]_vars
=============================================================================
