---------------------------- MODULE MCDbUavManager ----------------------------
(***************************************************************************)
(* An instance of DbUavManager for TLC.                                     *)
(***************************************************************************)
EXTENDS DbUavManager
==============================================================================
