---------------------------- MODULE MCRoutedServer ----------------------------
(***************************************************************************)
(* Instances of RoutedServer for TLC.                                       *)
(***************************************************************************)
EXTENDS RoutedServer
==============================================================================
