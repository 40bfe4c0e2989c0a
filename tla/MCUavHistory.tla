----------------------------- MODULE MCUavHistory -----------------------------
(***************************************************************************)
(* An instance of UavHistory for TLC.                                       *)
(***************************************************************************)
EXTENDS UavHistory
==============================================================================
