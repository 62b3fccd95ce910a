----------------------------- MODULE MCFriends -----------------------------
(***************************************************************************)
(* Constants for model-checking Friends.                                   *)
(***************************************************************************)
EXTENDS Friends

CONSTANTS ann, bob

\* Ann asks Bob, or herself.
AnnAsks == {<<ann, bob>>, <<ann, ann>>}
=============================================================================
