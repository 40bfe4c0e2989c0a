------------------------------ MODULE MCTcpClient ------------------------------
(***************************************************************************)
(* An instance of TcpClient for TLC: every explicit connect may leak one    *)
(* timer, so MaxConnects + 2 ids are never exhausted.                       *)
(***************************************************************************)
EXTENDS TcpClient

ASSUME IdsSuffice == Cardinality(TimerIds) >= MaxConnects + 2
==============================================================================
