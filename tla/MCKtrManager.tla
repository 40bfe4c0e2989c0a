----------------------------- MODULE MCKtrManager -----------------------------
(***************************************************************************)
(* Instances of KtrManager for TLC.                                         *)
(***************************************************************************)
EXTENDS KtrManager, TLC

OneDevice == <<1>>
==============================================================================
