-------------------------------- MODULE Bank --------------------------------
(***************************************************************************)
(* The bank that Seda's payments amount to when nothing goes wrong: a      *)
(* payment takes its amount out of one account, if the account holds it,   *)
(* and puts the same amount into another account once.                     *)
(***************************************************************************)
EXTENDS Integers

CONSTANTS Users, Transfers, InitBalance

VARIABLES
    account,    \* what each user owns
    moving,     \* the payments that have left one account but not arrived
    arrived,    \* the payments that are complete
    xfer        \* who pays whom how much; never changes

Init ==
    /\ account = InitBalance
    /\ moving = {}
    /\ arrived = {}

Leave(t) ==
    LET p == xfer[t] IN
    /\ t \notin moving \cup arrived
    /\ account[p.from] >= p.amount
    /\ account' = [account EXCEPT ![p.from] = @ - p.amount]
    /\ moving' = moving \cup {t}
    /\ UNCHANGED <<arrived, xfer>>

Arrive(t) ==
    LET p == xfer[t] IN
    /\ t \in moving
    /\ account' = [account EXCEPT ![p.to] = @ + p.amount]
    /\ moving' = moving \ {t}
    /\ arrived' = arrived \cup {t}
    /\ UNCHANGED xfer

Next == \E t \in Transfers : Leave(t) \/ Arrive(t)

Spec == Init /\ [][Next]_<<account, moving, arrived, xfer>>
=============================================================================
