------------------------------ MODULE RouteTable ------------------------------
(***************************************************************************)
(* RpcRoutedServer without its cache: clients and listeners take seats at   *)
(* routes, at most one of each per route, in any order; a client's message  *)
(* reaches the listener that sits at the client's route, and a listener's   *)
(* call reaches the client that sits at the listener's route.  There is no  *)
(* routing table: who talks to whom is read off the seats at the moment of  *)
(* the message.                                                             *)
(*                                                                         *)
(* Route 0 follows the code and not the comment in RpcRoutedServer.h, which *)
(* has a listener that is registered already refused: see EnrolledOnce in   *)
(* module RoutedServer.                                                     *)
(***************************************************************************)
EXTENDS Naturals

CONSTANTS Clients, Listeners, Routes, NULL, MaxReceivers

VARIABLES clientAt,     \* route -> client seated there, 0 when none
          listenerAt,   \* route -> listener seated there, NULL when none
          audience,     \* listener -> how often a broadcast reaches it
          last          \* the operation just performed and what came of it

vars == <<clientAt, listenerAt, audience, last>>

Init ==
    /\ clientAt = [r \in Routes |-> 0]
    /\ listenerAt = [r \in Routes |-> NULL]
    /\ audience = [l \in Listeners |-> 0]
    /\ last = [op |-> "none"]

Seated(seats, who) == \E r \in Routes : seats[r] = who

\* Route 0 is no seat: it is never taken, and a listener without a seat may enrol for
\* it, or for a seat after it, any number of times.
SeatListener(l, r) ==
    LET ok == listenerAt[r] = NULL /\ ~Seated(listenerAt, l) IN
    /\ ok => audience[l] < MaxReceivers
    /\ last' = [op |-> "registerReceiver", ok |-> ok]
    /\ audience' = IF ok THEN [audience EXCEPT ![l] = @ + 1] ELSE audience
    /\ listenerAt' = IF ok /\ r # 0 THEN [listenerAt EXCEPT ![r] = l]
                                    ELSE listenerAt
    /\ UNCHANGED clientAt

UnseatListener(l) ==
    /\ last' = [op |-> "deregisterReceiver", ok |-> TRUE]
    /\ audience' = [audience EXCEPT ![l] = 0]
    /\ listenerAt' = [r \in Routes |-> IF listenerAt[r] = l THEN NULL
                                                            ELSE listenerAt[r]]
    /\ UNCHANGED clientAt

SeatClient(c, r) ==
    LET ok == clientAt[r] = 0 /\ ~Seated(clientAt, c) IN
    /\ last' = [op |-> "registerClient", ok |-> ok]
    /\ clientAt' = IF ok THEN [clientAt EXCEPT ![r] = c] ELSE clientAt
    /\ UNCHANGED <<listenerAt, audience>>

UnseatClient(c) ==
    /\ last' = [op |-> "deregisterClient", ok |-> TRUE]
    /\ clientAt' = [r \in Routes |-> IF clientAt[r] = c THEN 0 ELSE clientAt[r]]
    /\ UNCHANGED <<listenerAt, audience>>

\* A message of client c: the listeners that hear it.
Hear(c) ==
    /\ last' = [op |-> "dispatch", id |-> c,
                to |-> {l \in Listeners :
                          \E r \in Routes : clientAt[r] = c /\ listenerAt[r] = l}]
    /\ UNCHANGED <<clientAt, listenerAt, audience>>

\* A message with no client: every listener hears it as often as it enrolled.
HearAll ==
    /\ last' = [op |-> "dispatch", id |-> 0, to |-> audience]
    /\ UNCHANGED <<clientAt, listenerAt, audience>>

\* A call of listener l: the clients it is sent to.
Speak(l) ==
    /\ last' = [op |-> "call", sender |-> l,
                to |-> {c \in Clients :
                          \E r \in Routes : clientAt[r] = c /\ listenerAt[r] = l}]
    /\ UNCHANGED <<clientAt, listenerAt, audience>>

\* A call without a sender goes to every connected peer.
SpeakAll ==
    /\ last' = [op |-> "call", sender |-> NULL, to |-> Clients]
    /\ UNCHANGED <<clientAt, listenerAt, audience>>

\* A refused request for the null listener or for client 0.
Refuse(op) ==
    /\ last' = [op |-> op, ok |-> FALSE]
    /\ UNCHANGED <<clientAt, listenerAt, audience>>

Next ==
    \/ \E l \in Listeners, r \in Routes : SeatListener(l, r)
    \/ \E l \in Listeners : UnseatListener(l) \/ Speak(l)
    \/ \E c \in Clients, r \in Routes : SeatClient(c, r)
    \/ \E c \in Clients : UnseatClient(c) \/ Hear(c)
    \/ HearAll
    \/ SpeakAll
    \/ \E op \in {"registerReceiver", "deregisterReceiver",
                  "registerClient", "deregisterClient"} : Refuse(op)

Spec == Init /\ [][Next]_vars
==============================================================================
