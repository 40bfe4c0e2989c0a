----------------------------- MODULE RoutedClient -----------------------------
(***************************************************************************)
(* RpcRoutedClient on top of RpcClientBase, composed with RpcRoutedServer   *)
(* over connections that break.                                             *)
(*                                                                         *)
(* A client connects, asks for its route as soon as it is connected, and    *)
(* tries again every second while it is not.  The server knows a client by  *)
(* the id of its connection.  When a connection breaks the two ends notice  *)
(* it independently: the client may be back, under a new id, before the     *)
(* server has seen the old connection go.                                   *)
(***************************************************************************)
EXTENDS Naturals, Sequences

CONSTANTS Peers,         \* client programs
          RouteOf,       \* the route each of them asks for
          MaxConns,      \* bound: connections made in all
          MaxCalls,      \* bound: calls under way on a connection
          Listeners, Routes, NULL, MaxReceivers  \* of the server

Conns == 1 .. MaxConns   \* ids the server gives to connections, in this order

ASSUME RoutedClientAssumption ==
    /\ MaxConns \in Nat /\ MaxCalls \in Nat
    /\ Routes \subseteq Nat
    /\ RouteOf \in [Peers -> Routes \ {0}]
    /\ \A p, q \in Peers : RouteOf[p] = RouteOf[q] => p = q
    /\ NULL \notin Listeners /\ MaxReceivers \in Nat

VARIABLES started,         \* clients that were started
          link,            \* a client's connection, 0 when it has none
          m_routeId,       \* the route a client takes for its own
          reconnectTimer,  \* runs
          owner,           \* the clients of the connections made so far
          calls,           \* the calls under way on a connection
          broken,          \* connections that broke
          noticed,         \* ... and the server has seen it
          prompt,          \* the server always sees it before the client is back
          m_routes, m_clientRoutes, m_listenerRoutes, m_receiversList, last

client == <<started, link, m_routeId, reconnectTimer>>
network == <<owner, calls, broken, noticed, prompt>>
server == <<m_routes, m_clientRoutes, m_listenerRoutes, m_receiversList, last>>
vars == <<client, network, server>>

Server == INSTANCE RoutedServer WITH Clients <- Conns

TypeOK ==
    /\ started \subseteq Peers
    /\ link \in [Peers -> Conns \cup {0}]
    /\ m_routeId \in [Peers -> Routes \cup {0}]
    /\ reconnectTimer \subseteq Peers
    /\ owner \in Seq(Peers) /\ Len(owner) <= MaxConns
    /\ calls \in [Conns -> Seq({"register", "deregister"})]
    /\ broken \subseteq Conns /\ noticed \subseteq broken
    /\ prompt \in BOOLEAN
    /\ Server!TypeOK

Init ==
    /\ started = {} /\ link = [p \in Peers |-> 0]
    /\ m_routeId = [p \in Peers |-> 0] /\ reconnectTimer = {}
    /\ owner = <<>> /\ calls = [c \in Conns |-> <<>>]
    /\ broken = {} /\ noticed = {} /\ prompt \in BOOLEAN
    /\ Server!Init

----------------------------------------------------------------------------
\* The client.

\* Mutant: does not ask again for a route it takes for its own.
registerCallsOnce(p) ==
    IF m_routeId[p] # 0 THEN <<>> ELSE <<"register">>

\* What registerRoute() and deregisterRoute() send, given what they find.
registerCalls(p) ==
    IF m_routeId[p] # 0 THEN <<"deregister", "register">> ELSE <<"register">>

\* The slot a client adds to connectedToServer(): it asks for its own route over the
\* new connection c.
registerOwnRoute(p, c) ==
    /\ calls' = [calls EXCEPT ![c] = registerCalls(p)]
    /\ m_routeId' = [m_routeId EXCEPT ![p] = RouteOf[p]]

\* Mutant: the timer is not stopped.
ConnectedTimerRuns(p) ==
    LET c == Len(owner) + 1 IN
    /\ c \in Conns
    /\ prompt => broken = noticed
    /\ owner' = Append(owner, p)
    /\ link' = [link EXCEPT ![p] = c]
    /\ registerOwnRoute(p, c)
    /\ UNCHANGED <<reconnectTimer, broken, noticed, prompt>>

\* connectedToServer(): the route is asked for and the timer stopped.
Connected(p) ==
    LET c == Len(owner) + 1 IN
    /\ c \in Conns
    /\ prompt => broken = noticed
    /\ owner' = Append(owner, p)
    /\ link' = [link EXCEPT ![p] = c]
    /\ registerOwnRoute(p, c)
    /\ reconnectTimer' = reconnectTimer \ {p}
    /\ UNCHANGED <<broken, noticed, prompt>>

\* serverError(): the timer is started.
connectionToServerFailedSlot(p) ==
    /\ reconnectTimer' = reconnectTimer \cup {p}
    /\ UNCHANGED <<link, m_routeId, network>>

\* connectToServer(), from start() or from the timer, and what comes of it.
connectToServer(p) ==
    /\ p \notin started \/ p \in reconnectTimer
    /\ started' = started \cup {p}
    /\ Connected(p) \/ connectionToServerFailedSlot(p)
    /\ UNCHANGED server

\* Mutant: the timer is not started.
disconnectedFromServerForGood(p) ==
    /\ link[p] \in broken
    /\ link' = [link EXCEPT ![p] = 0]
    /\ UNCHANGED <<started, m_routeId, reconnectTimer, network, server>>

\* The client notices that its connection is gone; it keeps m_routeId.
disconnectedFromServer(p) ==
    /\ link[p] \in broken
    /\ link' = [link EXCEPT ![p] = 0]
    /\ reconnectTimer' = reconnectTimer \cup {p}
    /\ UNCHANGED <<started, m_routeId, network, server>>

\* registerRoute() while connected.
registerRoute(p) ==
    /\ link[p] # 0 /\ Len(calls[link[p]]) + 2 <= MaxCalls
    /\ m_routeId' = [m_routeId EXCEPT ![p] = RouteOf[p]]
    /\ calls' = [calls EXCEPT ![link[p]] = @ \o registerCalls(p)]
    /\ UNCHANGED <<started, link, reconnectTimer, owner, broken, noticed, prompt, server>>

deregisterRoute(p) ==
    /\ link[p] # 0 /\ m_routeId[p] # 0 /\ Len(calls[link[p]]) < MaxCalls
    /\ m_routeId' = [m_routeId EXCEPT ![p] = 0]
    /\ calls' = [calls EXCEPT ![link[p]] = Append(@, "deregister")]
    /\ UNCHANGED <<started, link, reconnectTimer, owner, broken, noticed, prompt, server>>

----------------------------------------------------------------------------
\* The network and the server.

\* The connection breaks, by itself or by stop().
Break(c) ==
    /\ c \in DOMAIN owner /\ c \notin broken
    /\ broken' = broken \cup {c}
    /\ UNCHANGED <<client, owner, calls, noticed, prompt, server>>

\* Mutant: the last call stays in the buffer until another follows.
ArriveButLast(c) ==
    /\ c \notin noticed /\ Len(calls[c]) > 1
    /\ calls' = [calls EXCEPT ![c] = Tail(@)]
    /\ IF Head(calls[c]) = "register" THEN Server!registerClient(c, RouteOf[owner[c]])
                                      ELSE Server!deregisterClient(c)
    /\ UNCHANGED <<client, owner, broken, noticed, prompt>>

\* A call arrives; on a broken connection it may also be lost, see clientDisconnected.
Arrive(c) ==
    /\ c \notin noticed /\ calls[c] # <<>>
    /\ calls' = [calls EXCEPT ![c] = Tail(@)]
    /\ IF Head(calls[c]) = "register" THEN Server!registerClient(c, RouteOf[owner[c]])
                                      ELSE Server!deregisterClient(c)
    /\ UNCHANGED <<client, owner, broken, noticed, prompt>>

\* Mutant: a connection that works is taken for gone.
clientDisconnectedEarly(c) ==
    /\ c \in DOMAIN owner /\ c \notin noticed
    /\ noticed' = noticed \cup {c}
    /\ calls' = [calls EXCEPT ![c] = <<>>]
    /\ Server!deregisterClient(c)
    /\ UNCHANGED <<client, owner, broken, prompt>>

\* The server notices that a connection is gone.
clientDisconnected(c) ==
    /\ c \in broken \ noticed
    /\ noticed' = noticed \cup {c}
    /\ calls' = [calls EXCEPT ![c] = <<>>]
    /\ Server!deregisterClient(c)
    /\ UNCHANGED <<client, owner, broken, prompt>>

ListenerStep ==
    /\ \/ \E l \in Listeners, r \in Routes : Server!registerReceiver(l, r)
       \/ \E l \in Listeners : Server!deregisterReceiver(l)
    /\ UNCHANGED <<client, network>>

Next ==
    \/ \E p \in Peers : \/ connectToServer(p) \/ disconnectedFromServer(p)
                        \/ registerRoute(p) \/ deregisterRoute(p)
    \/ \E c \in Conns : Break(c) \/ Arrive(c) \/ clientDisconnected(c)
    \/ ListenerStep

Spec == Init /\ [][Next]_vars

\* Both ends notice a break in the end, and calls arrive.  A connection is not
\* owed: an attempt may fail.
FairSpec ==
    /\ Spec
    /\ \A p \in Peers : WF_vars(disconnectedFromServer(p)) /\ WF_vars(connectToServer(p))
    /\ \A c \in Conns : WF_vars(Arrive(c)) /\ WF_vars(clientDisconnected(c))

----------------------------------------------------------------------------
\* Properties

\* A route is held by the present connection of the client that asked for it, or
\* by one of its connections that broke: never by a connection the client has left
\* for another while it still works.
RouteIsCurrentOrBroken ==
    \A r \in Routes :
        LET c == m_clientRoutes[r] IN
        c # 0 => /\ c \in DOMAIN owner /\ RouteOf[owner[c]] = r
                 /\ c \in broken \/ link[owner[c]] = c

\* A connection the server has seen go holds no route: nothing is sent to it, and
\* no registration of its client comes true afterwards.
GoneHoldsNoRoute == \A r \in Routes : m_clientRoutes[r] \notin noticed

\* What a listener sends goes to a connection of the client whose route it listens
\* to, one that the server has not seen go (RpcRoutedServer::internalCall looks
\* the connection up in m_routes, which is not told whose it is).
ListenerReachesItsClient ==
    \A l \in Listeners :
        LET c == m_routes.m_right[l] IN
        c # 0 => /\ c \in DOMAIN owner /\ c \notin noticed
                 /\ m_listenerRoutes[RouteOf[owner[c]]] = l

\* A client that was started and has no connection keeps trying.
KeepsTrying == \A p \in started : link[p] = 0 => p \in reconnectTimer

WantsRoute(p, c) == link[p] = c /\ m_routeId[p] # 0
HoldsRoute(p, c) == m_clientRoutes[RouteOf[p]] = c

\* If the server sees a connection go before the client is back with another, a
\* client that wants its route holds it as soon as its calls have arrived: none of
\* them is refused, whatever broke before and in whatever order it registered and
\* deregistered (RpcRoutedClient::registerRoute).
PromptHoldsRoute ==
    \A p \in Peers, c \in Conns :
        prompt /\ WantsRoute(p, c) /\ c \notin noticed /\ calls[c] = <<>>
            => HoldsRoute(p, c)

\* A client that wants its route and stays connected holds it again and again,
\* whatever broke before, if the server sees a connection go before the client is
\* back with another.
PromptRegisters ==
    \A p \in Peers, c \in Conns :
        (prompt /\ WantsRoute(p, c)) ~> (~WantsRoute(p, c) \/ HoldsRoute(p, c))

\* The same for every server: what "deregister first, if already registered" in
\* registerRoute() is there for.
Registers ==
    \A p \in Peers, c \in Conns :
        WantsRoute(p, c) ~> (~WantsRoute(p, c) \/ HoldsRoute(p, c))
==============================================================================
