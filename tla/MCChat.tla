-------------------------------- MODULE MCChat --------------------------------
(* Chat for TLC.                                                           *)
EXTENDS Chat

CONSTANTS A, B
=============================================================================
