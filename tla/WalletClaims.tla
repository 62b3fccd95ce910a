---------------------------- MODULE WalletClaims ----------------------------
(***************************************************************************)
(* What a comment of FirebaseHelper says of the money path and its code    *)
(* does not do: TLC finds a behaviour of Wallet that breaks it.            *)
(***************************************************************************)
EXTENDS Wallet

\* FirebaseHelperTransactions.swift:111, "Add up the new transactions that
\* involve this user": a transaction is new once, so it is added once.  The
\* handler starts a key request per snapshot and deletes the document only
\* when it is answered; a snapshot in between starts another one.
CreditedOnce == \A t \in Transfers : committed[t]["credit"] <= 1
=============================================================================
