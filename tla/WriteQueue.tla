----------------------------- MODULE WriteQueue -----------------------------
(***************************************************************************)
(* What the write path of the Firestore client promises, with no streams,  *)
(* pipelines or batch ids in it.  A write is queued under its author and   *)
(* stays queued until the server's answer has come back.  Only the user    *)
(* who is signed in is served, one write after the other.  An answer may   *)
(* be lost; then what is still queued is applied once more from the front  *)
(* (at-least-once, in order), but nothing whose answer came back is.       *)
(***************************************************************************)
EXTENDS Naturals, Sequences

CONSTANTS Users, Writes

VARIABLES
    pending,   \* the queued writes of each user
    signedIn,  \* the user who is served
    applied,   \* how many of the served user's writes await their answer
    log,       \* what the server applied, in order
    told       \* the outcome the app was given for each write

vars == <<pending, signedIn, applied, log, told>>

Outcomes == {"nothing", "ok", "rejected"}

Init ==
    /\ pending = [u \in Users |-> <<>>]
    /\ signedIn \in Users
    /\ applied = 0
    /\ log = <<>>
    /\ told = [w \in Writes |-> "nothing"]

Submit(w) ==
    /\ \A u \in Users : \A i \in DOMAIN pending[u] : pending[u][i] # w
    /\ told[w] = "nothing"
    /\ pending' = [pending EXCEPT ![signedIn] = Append(@, w)]
    /\ UNCHANGED <<signedIn, applied, log, told>>

Apply ==
    /\ applied < Len(pending[signedIn])
    /\ applied' = applied + 1
    /\ log' = Append(log, pending[signedIn][applied + 1])
    /\ UNCHANGED <<pending, signedIn, told>>

\* The app that made the write may be gone: then nobody is told.
Tell(outcome) ==
    told' \in {told, [told EXCEPT ![Head(pending[signedIn])] = outcome]}

Drop == pending' = [pending EXCEPT ![signedIn] = Tail(@)]

\* The answer to the first queued write has come back.
Acknowledge ==
    /\ applied > 0
    /\ applied' = applied - 1
    /\ Drop /\ Tell("ok")
    /\ UNCHANGED <<signedIn, log>>

\* The first queued write is given up; what was answered behind it is not
\* known, and is done again.
Reject ==
    /\ pending[signedIn] # <<>>
    /\ applied' = 0
    /\ Drop /\ Tell("rejected")
    /\ UNCHANGED <<signedIn, log>>

\* Answers on their way are lost, with the first perhaps just delivered.
Lose ==
    /\ applied' \in 0..applied
    /\ \/ UNCHANGED told
       \/ applied > 0 /\ Tell("ok")
    /\ UNCHANGED <<pending, signedIn, log>>

ChangeUser ==
    /\ signedIn' \in Users
    /\ applied' = 0
    /\ UNCHANGED <<pending, log, told>>

Next ==
    \/ \E w \in Writes : Submit(w)
    \/ Apply \/ Acknowledge \/ Reject \/ Lose \/ ChangeUser

Spec == Init /\ [][Next]_vars
=============================================================================
