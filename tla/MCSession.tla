----------------------------- MODULE MCSession -----------------------------
(* Constants for TLC: a payment to each account.                           *)
EXTENDS Session, TLC

CONSTANTS A, B, p, q

MCTo == p :> A @@ q :> B
=============================================================================
