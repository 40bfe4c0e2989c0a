---------------------------- MODULE MCRoutedClient ----------------------------
(***************************************************************************)
(* Instances of RoutedClient for TLC.                                       *)
(***************************************************************************)
EXTENDS RoutedClient

MCRouteOf == [p \in Peers |-> IF p = "od" THEN 1 ELSE 2]
==============================================================================
