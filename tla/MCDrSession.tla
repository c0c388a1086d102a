---------------------------- MODULE MCDrSession ----------------------------
(***************************************************************************)
(* DrSession with the texts as model values.  Text bounds the behaviours:  *)
(* every member is sent once.  MAX_SKIP is small enough for a chain to     *)
(* outgrow it.                                                             *)
(***************************************************************************)
EXTENDS DrSession, TLC

TextSymmetry == Permutations(Text)
=============================================================================
