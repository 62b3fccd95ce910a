------------------------------ MODULE MCTopUp ------------------------------
(***************************************************************************)
(* Constants for model-checking TopUp.                                     *)
(***************************************************************************)
EXTENDS TopUp

Fives == {[kind |-> "number", amount |-> 5]}
AnyEntry == Fives \cup {[kind |-> "text", amount |-> 0], [kind |-> "nil", amount |-> 0]}
PayAndReceive == {-2, 1}
=============================================================================
