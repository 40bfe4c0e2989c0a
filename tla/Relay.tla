-------------------------------- MODULE Relay --------------------------------
(***************************************************************************)
(* What a chain of threads that pass requests on to a link promises: each   *)
(* request comes to the link at most once, unchanged, and in the order in   *)
(* which it was made.  The one that finds the link down is lost, and no     *)
(* other.                                                                   *)
(***************************************************************************)
EXTENDS Naturals, Sequences

CONSTANT Requests

VARIABLES made,        \* the requests made so far
          handedOver,  \* the ones that came to the link, and whether it was up
          link         \* the link is up

vars == <<made, handedOver, link>>

Init == made = <<>> /\ handedOver = <<>> /\ link = FALSE

Make(r) ==
    /\ made' = Append(made, r)
    /\ UNCHANGED <<handedOver, link>>

HandOver ==
    /\ Len(handedOver) < Len(made)
    /\ handedOver' = Append(handedOver, [request |-> made[Len(handedOver) + 1], up |-> link])
    /\ UNCHANGED <<made, link>>

LinkChanges ==
    /\ link' = ~link
    /\ UNCHANGED <<made, handedOver>>

Next == (\E r \in Requests : Make(r)) \/ HandOver \/ LinkChanges

Spec == Init /\ [][Next]_vars
==============================================================================
