----------------------------- MODULE MCRoomSync -----------------------------
(***************************************************************************)
(* RoomSync with the texts as model values.                                *)
(***************************************************************************)
EXTENDS RoomSync, TLC

TextSymmetry == Permutations(Text)
=============================================================================
