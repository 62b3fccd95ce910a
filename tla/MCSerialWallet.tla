--------------------------- MODULE MCSerialWallet ---------------------------
(***************************************************************************)
(* A third user for SerialWallet: one who is paid while another user's     *)
(* listener still holds the payer's previous receipt.                      *)
(***************************************************************************)
EXTENDS MCWallet

CONSTANT cat

\* Only Ann has money, enough to pay both of the others.
AnnPaysTwo == (ann :> 4) @@ (bob :> 0) @@ (cat :> 0)

\* Bob and Cat start alike.
Payees == Permutations({bob, cat})
=============================================================================
