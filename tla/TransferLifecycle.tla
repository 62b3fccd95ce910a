------------------------- MODULE TransferLifecycle -------------------------
(***************************************************************************)
(* What make_transaction and updateAccount promise of a payment, seen from *)
(* the server: it is paid for, then posted, then entered in the receiver's *)
(* books, then removed from the transactions collection; one stage at a    *)
(* time, never back, and never skipping one.                               *)
(***************************************************************************)
CONSTANT Transfers

VARIABLE stage

Stages == {"asked", "paid", "sent", "received", "settled"}

TypeOK == stage \in [Transfers -> Stages]

Init == stage = [t \in Transfers |-> "asked"]

Advance(t, old, new) ==
    /\ stage[t] = old
    /\ stage' = [stage EXCEPT ![t] = new]

Pay(t) == Advance(t, "asked", "paid")
Send(t) == Advance(t, "paid", "sent")
Receive(t) == Advance(t, "sent", "received")
Settle(t) == Advance(t, "received", "settled")

Next == \E t \in Transfers : Pay(t) \/ Send(t) \/ Receive(t) \/ Settle(t)

Spec == Init /\ [][Next]_stage
=============================================================================
