------------------------------ MODULE MCOdServer ------------------------------
(***************************************************************************)
(* Instances of OdServer for TLC.                                           *)
(***************************************************************************)
EXTENDS OdServer
==============================================================================
