------------------------------- MODULE MCBoot -------------------------------
(* Instances of Boot for TLC; the constants are all in the .cfg files. *)
EXTENDS Boot, TLC
=============================================================================
