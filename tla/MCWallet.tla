------------------------------ MODULE MCWallet ------------------------------
(***************************************************************************)
(* Constants for checking Wallet, SerialWallet and WalletClaims with TLC.  *)
(***************************************************************************)
EXTENDS SerialWallet, WalletClaims, WalletInvariants, TLC

CONSTANTS ann, bob

\* Ann can afford one payment of 2 but not two; Bob can afford one.
MCInitBalance == (ann :> 3) @@ (bob :> 2)

\* Only Ann has money: Bob can pay what he was paid.
AnnPays == (ann :> 3) @@ (bob :> 0)
=============================================================================
