-------------------------- MODULE RoutedClientProofs --------------------------
(***************************************************************************)
(* Proofs about RoutedClient for every set of clients, listeners and        *)
(* routes, and any number of connections.                                   *)
(***************************************************************************)
EXTENDS RoutedClient, SequenceTheorems, TLAPS

Calls == {"register", "deregister"}

\* A client's connection was made for it.
LinkIsOwn ==
    \A p \in Peers : link[p] # 0 => link[p] \in DOMAIN owner /\ owner[link[p]] = p

\* A client that may connect has no connection.
TriesWithoutLink ==
    \A p \in Peers : p \in reconnectTimer \/ p \notin started => link[p] = 0

\* Only its last connection may work.
OldIsBroken == \A c \in DOMAIN owner : c \in broken \/ link[owner[c]] = c

\* Calls are made, and breaks seen, on connections that were made.
OnlyMade ==
    /\ broken \subseteq DOMAIN owner
    /\ \A c \in Conns : calls[c] # <<>> => c \in DOMAIN owner

\* A route is held by a connection of the client it belongs to.
RouteIsOwn ==
    \A r \in Routes :
        m_clientRoutes[r] # 0 => /\ m_clientRoutes[r] \in DOMAIN owner
                                 /\ RouteOf[owner[m_clientRoutes[r]]] = r

\* That a route's connection is current or broken needs that a client connects
\* only without a connection, which needs KeepsTrying and the owners.
ClientInv ==
    /\ TypeOK
    /\ LinkIsOwn /\ TriesWithoutLink /\ OldIsBroken /\ OnlyMade
    /\ RouteIsOwn /\ GoneHoldsNoRoute /\ KeepsTrying

\* Nobody is started and the server is empty.
LEMMA InitClient == Init => ClientInv
<1> SUFFICES ASSUME Init PROVE ClientInv
  OBVIOUS
<1> USE RoutedClientAssumption
<1>1. owner \in Seq(Peers) /\ Len(owner) = 0 /\ DOMAIN owner = {}
  BY DEF Init
<1>2. calls \in [Conns -> Seq(Calls)]
  BY DEF Init
<1>3. Server!TypeOK /\ \A r \in Routes : m_clientRoutes[r] = 0
  BY DEF Init, Server!Init, Server!TypeOK, Server!RoutesMap!BiMaps,
     Server!RoutesMap!EmptyBiMap
<1>4. TypeOK
  BY <1>1, <1>2, <1>3 DEF Init, TypeOK, Calls
<1> QED
  BY <1>1, <1>3, <1>4 DEF Init, ClientInv, LinkIsOwn, TriesWithoutLink, OldIsBroken, OnlyMade,
     RouteIsOwn, GoneHoldsNoRoute, KeepsTrying

----------------------------------------------------------------------------
\* What the server's operations do to its registrations.

\* registerClient() adds one route or none.
LEMMA RegisterEffect ==
    ASSUME Server!TypeOK, NEW c \in Conns, NEW r \in Routes, Server!registerClient(c, r)
    PROVE  /\ Server!TypeOK'
           /\ \/ m_clientRoutes' = m_clientRoutes
              \/ m_clientRoutes' = [m_clientRoutes EXCEPT ![r] = c]
<1> USE RoutedClientAssumption
<1>1. \/ m_clientRoutes' = m_clientRoutes
      \/ m_clientRoutes' = [m_clientRoutes EXCEPT ![r] = c]
  BY DEF Server!registerClient
<1>2. m_routes' \in Server!RoutesMap!BiMaps
  BY DEF Server!registerClient, Server!TypeOK, Server!RoutesMap!BiMaps, Server!RoutesMap!insert,
     Conns
<1> QED
  BY <1>1, <1>2 DEF Server!registerClient, Server!TypeOK

\* deregisterClient() removes routes only, and the one of the connection if it
\* has no more than one.
LEMMA DeregisterEffect ==
    ASSUME Server!TypeOK, NEW c \in Conns, Server!deregisterClient(c)
    PROVE  /\ Server!TypeOK'
           /\ \A r \in Routes : m_clientRoutes'[r] = m_clientRoutes[r] \/ m_clientRoutes'[r] = 0
           /\ (\A r, s \in Routes : m_clientRoutes[r] = c /\ m_clientRoutes[s] = c => r = s)
                 => \A r \in Routes : m_clientRoutes'[r] # c
<1> USE RoutedClientAssumption
<1>0. c # 0 /\ m_clientRoutes \in [Routes -> Conns \cup {0}]
  BY DEF Conns, Server!TypeOK
<1>1. m_routes' \in Server!RoutesMap!BiMaps
  BY <1>0 DEF Server!deregisterClient, Server!TypeOK, Server!RoutesMap!BiMaps,
     Server!RoutesMap!removeByLeft
<1>2. m_clientRoutes' \in [Routes -> Conns \cup {0}]
  BY <1>0 DEF Server!deregisterClient, Server!RemoveKeyOf
<1>3. \A r \in Routes : m_clientRoutes'[r] = m_clientRoutes[r] \/ m_clientRoutes'[r] = 0
  BY <1>0 DEF Server!deregisterClient, Server!RemoveKeyOf
<1>4. ASSUME \A r, s \in Routes : m_clientRoutes[r] = c /\ m_clientRoutes[s] = c => r = s
      PROVE  \A r \in Routes : m_clientRoutes'[r] # c
  <2>1. CASE ~Server!HasValue(m_clientRoutes, c)
    BY <1>0, <2>1 DEF Server!deregisterClient, Server!HasValue
  <2>2. CASE Server!HasValue(m_clientRoutes, c)
    <3>1. PICK r \in Routes : m_clientRoutes[r] = c
      BY <2>2 DEF Server!HasValue
    <3> DEFINE First(k) == m_clientRoutes[k] = c /\ \A s \in Routes : m_clientRoutes[s] = c => k <= s
    <3>2. First(r) /\ \A k \in Routes : First(k) => k = r
      BY <1>4, <3>1
    <3>3. (CHOOSE k \in Routes : First(k)) = r
      BY <3>2
    <3>4. m_clientRoutes' = [m_clientRoutes EXCEPT ![r] = 0]
      BY <1>0, <2>2, <3>3 DEF Server!deregisterClient, Server!RemoveKeyOf
    <3> QED
      BY <1>0, <1>4, <3>1, <3>4
  <2> QED
    BY <2>1, <2>2
<1> QED
  BY <1>1, <1>2, <1>3, <1>4 DEF Server!deregisterClient, Server!TypeOK

\* Listeners leave the clients' registrations alone.
LEMMA ListenerEffect ==
    ASSUME Server!TypeOK, ListenerStep
    PROVE  Server!TypeOK' /\ m_clientRoutes' = m_clientRoutes
<1> USE RoutedClientAssumption
<1>1. ASSUME NEW l \in Listeners, NEW r \in Routes, Server!registerReceiver(l, r)
      PROVE  Server!TypeOK' /\ m_clientRoutes' = m_clientRoutes
  <2>1. m_routes' \in Server!RoutesMap!BiMaps
    BY <1>1 DEF Server!registerReceiver, Server!TypeOK, Server!RoutesMap!BiMaps,
       Server!RoutesMap!insert
  <2> QED
    BY <1>1, <2>1 DEF Server!registerReceiver, Server!TypeOK
<1>2. ASSUME NEW l \in Listeners, Server!deregisterReceiver(l)
      PROVE  Server!TypeOK' /\ m_clientRoutes' = m_clientRoutes
  <2>1. m_routes' \in Server!RoutesMap!BiMaps
    BY <1>2 DEF Server!deregisterReceiver, Server!TypeOK, Server!RoutesMap!BiMaps,
       Server!RoutesMap!removeByRight
  <2>2. m_listenerRoutes' \in [Routes -> Listeners \cup {NULL}]
    BY <1>2 DEF Server!deregisterReceiver, Server!TypeOK, Server!RemoveKeyOf
  <2> QED
    BY <1>2, <2>1, <2>2 DEF Server!deregisterReceiver, Server!TypeOK
<1> QED
  BY <1>1, <1>2 DEF ListenerStep

----------------------------------------------------------------------------
\* The steps.

\* What a client asks for is made of the two calls.
LEMMA RegisterCallsType == ASSUME NEW p PROVE registerCalls(p) \in Seq(Calls)
<1>1. <<"register">> \in Seq(Calls)
  BY DEF Calls
<1>2. <<"deregister", "register">> \in Seq(Calls)
  BY DEF Calls
<1> QED
  BY <1>1, <1>2 DEF registerCalls

\* A client connects only without a connection, so all its old ones are broken.
LEMMA ConnectClient ==
    ASSUME ClientInv, NEW p \in Peers, connectToServer(p)
    PROVE  ClientInv'
<1> USE RoutedClientAssumption
<1>1. /\ link[p] = 0 /\ started' = started \cup {p}
      /\ UNCHANGED server
  BY DEF connectToServer, ClientInv, TriesWithoutLink
<1>2. Server!TypeOK' /\ m_clientRoutes' = m_clientRoutes
  BY <1>1 DEF server, ClientInv, TypeOK, Server!TypeOK
<1>3. CASE Connected(p)
  <2> DEFINE n == Len(owner) + 1
  <2>1. /\ n \in Conns
        /\ owner' = Append(owner, p)
        /\ link' = [link EXCEPT ![p] = n]
        /\ calls' = [calls EXCEPT ![n] = registerCalls(p)]
        /\ m_routeId' = [m_routeId EXCEPT ![p] = RouteOf[p]]
        /\ reconnectTimer' = reconnectTimer \ {p}
        /\ UNCHANGED <<broken, noticed, prompt>>
    BY <1>3 DEF Connected, registerOwnRoute
  <2>2. /\ owner' \in Seq(Peers) /\ Len(owner') = n
        /\ DOMAIN owner = 1 .. Len(owner) /\ Len(owner) \in Nat
        /\ DOMAIN owner' = DOMAIN owner \cup {n} /\ n \notin DOMAIN owner
        /\ owner'[n] = p /\ \A c \in DOMAIN owner : owner'[c] = owner[c]
    <3>1. owner \in Seq(Peers)
      BY DEF ClientInv, TypeOK
    <3> QED
      BY <2>1, <3>1, AppendProperties, LenProperties
  <2> HIDE DEF n
  <2>3. n # 0 /\ n <= MaxConns
    BY <2>1 DEF Conns
  <2>4. TypeOK'
    BY <1>1, <1>2, <2>1, <2>2, <2>3, RegisterCallsType DEF ClientInv, TypeOK, Calls
  <2>5. LinkIsOwn' /\ TriesWithoutLink' /\ KeepsTrying'
    BY <1>1, <2>1, <2>2, <2>3 DEF ClientInv, TypeOK, LinkIsOwn, TriesWithoutLink, KeepsTrying
  <2>6. OldIsBroken'
    <3> SUFFICES ASSUME NEW c \in DOMAIN owner' PROVE c \in broken \/ link'[owner'[c]] = c
      BY <2>1 DEF OldIsBroken
    <3>1. CASE c = n
      BY <2>1, <2>2, <3>1 DEF ClientInv, TypeOK
    <3>2. CASE c \in DOMAIN owner
      <4>1. owner[c] \in Peers /\ owner'[c] = owner[c] /\ c # 0
        BY <2>2, <3>2 DEF ClientInv, TypeOK
      <4>2. c \in broken \/ link[owner[c]] = c
        BY <3>2 DEF ClientInv, OldIsBroken
      <4> QED
        BY <1>1, <2>1, <4>1, <4>2 DEF ClientInv, TypeOK
    <3> QED
      BY <2>2, <3>1, <3>2
  <2>7. OnlyMade'
    BY <2>1, <2>2 DEF ClientInv, TypeOK, OnlyMade
  <2>8. RouteIsOwn' /\ GoneHoldsNoRoute'
    BY <1>2, <2>1, <2>2 DEF ClientInv, RouteIsOwn, GoneHoldsNoRoute
  <2> QED
    BY <2>4, <2>5, <2>6, <2>7, <2>8 DEF ClientInv
<1>4. CASE connectionToServerFailedSlot(p)
  <2>1. /\ reconnectTimer' = reconnectTimer \cup {p}
        /\ UNCHANGED <<link, m_routeId, owner, calls, broken, noticed, prompt>>
    BY <1>4 DEF connectionToServerFailedSlot, network
  <2>2. TypeOK'
    BY <1>1, <1>2, <2>1 DEF ClientInv, TypeOK
  <2>3. LinkIsOwn' /\ TriesWithoutLink' /\ KeepsTrying'
    BY <1>1, <2>1 DEF ClientInv, TypeOK, LinkIsOwn, TriesWithoutLink, KeepsTrying
  <2> QED
    BY <1>2, <2>1, <2>2, <2>3 DEF ClientInv, OldIsBroken, OnlyMade, RouteIsOwn, GoneHoldsNoRoute
<1> QED
  BY <1>3, <1>4 DEF connectToServer

\* A client leaves a connection only when it broke, and tries again.
LEMMA DisconnectedClient ==
    ASSUME ClientInv, NEW p \in Peers, disconnectedFromServer(p)
    PROVE  ClientInv'
<1> USE RoutedClientAssumption
<1>1. /\ link[p] \in broken
      /\ link' = [link EXCEPT ![p] = 0]
      /\ reconnectTimer' = reconnectTimer \cup {p}
      /\ UNCHANGED <<started, m_routeId, owner, calls, broken, noticed, prompt>>
      /\ UNCHANGED <<m_routes, m_clientRoutes, m_listenerRoutes, m_receiversList>>
  BY DEF disconnectedFromServer, network, server
<1>2. TypeOK'
  BY <1>1 DEF ClientInv, TypeOK, Server!TypeOK
<1>3. LinkIsOwn' /\ TriesWithoutLink' /\ KeepsTrying'
  BY <1>1 DEF ClientInv, TypeOK, LinkIsOwn, TriesWithoutLink, KeepsTrying
<1>4. OldIsBroken'
  BY <1>1 DEF ClientInv, TypeOK, OldIsBroken
<1> QED
  BY <1>1, <1>2, <1>3, <1>4 DEF ClientInv, OnlyMade, RouteIsOwn, GoneHoldsNoRoute

\* A call sent on a client's connection changes nothing else.
LEMMA CallClient ==
    ASSUME ClientInv, NEW p \in Peers, registerRoute(p) \/ deregisterRoute(p)
    PROVE  ClientInv'
<1> USE RoutedClientAssumption
<1>1. /\ link[p] # 0 /\ m_routeId' \in [Peers -> Routes \cup {0}]
      /\ UNCHANGED <<started, link, reconnectTimer, owner, broken, noticed, prompt>>
      /\ UNCHANGED <<m_routes, m_clientRoutes, m_listenerRoutes, m_receiversList>>
  BY DEF registerRoute, deregisterRoute, server, ClientInv, TypeOK
<1>2. PICK s \in Seq(Calls) : calls' = [calls EXCEPT ![link[p]] = s]
  <2>1. calls \in [Conns -> Seq(Calls)] /\ link[p] \in Conns
    BY <1>1 DEF ClientInv, TypeOK, Calls
  <2>2. CASE registerRoute(p)
    <3>1. calls[link[p]] \o registerCalls(p) \in Seq(Calls)
      BY <2>1, RegisterCallsType, ConcatProperties
    <3> QED
      BY <2>1, <2>2, <3>1 DEF registerRoute
  <2>3. CASE deregisterRoute(p)
    <3>1. Append(calls[link[p]], "deregister") \in Seq(Calls)
      BY <2>1, AppendProperties DEF Calls
    <3> QED
      BY <2>1, <2>3, <3>1 DEF deregisterRoute
  <2> QED
    BY <2>2, <2>3
<1>3. TypeOK'
  BY <1>1, <1>2 DEF ClientInv, TypeOK, Server!TypeOK, Calls
<1>4. OnlyMade'
  BY <1>1, <1>2 DEF ClientInv, TypeOK, OnlyMade, LinkIsOwn
<1> QED
  BY <1>1, <1>3, <1>4 DEF ClientInv, LinkIsOwn, TriesWithoutLink, KeepsTrying, OldIsBroken,
     RouteIsOwn, GoneHoldsNoRoute

\* A break is not seen by anybody yet.
LEMMA BreakClient ==
    ASSUME ClientInv, NEW c \in Conns, Break(c)
    PROVE  ClientInv'
<1>1. /\ c \in DOMAIN owner /\ broken' = broken \cup {c}
      /\ UNCHANGED <<started, link, m_routeId, reconnectTimer, owner, calls, noticed, prompt>>
      /\ UNCHANGED <<m_routes, m_clientRoutes, m_listenerRoutes, m_receiversList>>
  BY DEF Break, client, server
<1>2. TypeOK'
  BY <1>1 DEF ClientInv, TypeOK, Server!TypeOK
<1> QED
  BY <1>1, <1>2 DEF ClientInv, LinkIsOwn, TriesWithoutLink, KeepsTrying, OldIsBroken, OnlyMade,
     RouteIsOwn, GoneHoldsNoRoute

\* A call that arrives registers its connection for its client's route, on a
\* connection the server has not seen go.
LEMMA ArriveClient ==
    ASSUME ClientInv, NEW c \in Conns, Arrive(c)
    PROVE  ClientInv'
<1> USE RoutedClientAssumption
<1>1. /\ c \notin noticed /\ c \in DOMAIN owner /\ c # 0
      /\ UNCHANGED <<started, link, m_routeId, reconnectTimer, owner, broken, noticed, prompt>>
  BY DEF Arrive, client, ClientInv, OnlyMade, Conns
<1>2. owner[c] \in Peers /\ RouteOf[owner[c]] \in Routes /\ Server!TypeOK
  BY <1>1 DEF ClientInv, TypeOK
<1>3. calls' \in [Conns -> Seq(Calls)] /\ \A d \in Conns : calls'[d] # <<>> => calls[d] # <<>>
  <2>1. calls \in [Conns -> Seq(Calls)] /\ calls[c] # <<>>
    BY DEF ClientInv, TypeOK, Calls, Arrive
  <2>2. Tail(calls[c]) \in Seq(Calls)
    BY <2>1, HeadTailProperties
  <2> QED
    BY <2>1, <2>2 DEF Arrive
<1>4. /\ Server!TypeOK'
      /\ RouteIsOwn' /\ GoneHoldsNoRoute'
  <2>1. CASE Server!registerClient(c, RouteOf[owner[c]])
    <3>1. /\ Server!TypeOK'
          /\ \/ m_clientRoutes' = m_clientRoutes
             \/ m_clientRoutes' = [m_clientRoutes EXCEPT ![RouteOf[owner[c]]] = c]
      BY <1>2, <2>1, RegisterEffect
    <3> QED
      BY <1>1, <1>2, <3>1 DEF ClientInv, RouteIsOwn, GoneHoldsNoRoute, Server!TypeOK
  <2>2. CASE Server!deregisterClient(c)
    <3>1. /\ Server!TypeOK'
          /\ \A r \in Routes : m_clientRoutes'[r] = m_clientRoutes[r] \/ m_clientRoutes'[r] = 0
      BY <1>2, <2>2, DeregisterEffect
    <3>2. 0 \notin noticed
      BY DEF ClientInv, TypeOK, Conns
    <3> QED
      BY <1>1, <3>1, <3>2 DEF ClientInv, RouteIsOwn, GoneHoldsNoRoute
  <2> QED
    BY <2>1, <2>2 DEF Arrive
<1>5. TypeOK'
  BY <1>1, <1>3, <1>4 DEF ClientInv, TypeOK, Calls
<1> QED
  BY <1>1, <1>3, <1>4, <1>5 DEF ClientInv, LinkIsOwn, TriesWithoutLink, KeepsTrying, OldIsBroken, OnlyMade

\* The server frees the routes of a connection it sees go.
LEMMA ClientDisconnectedClient ==
    ASSUME ClientInv, NEW c \in Conns, clientDisconnected(c)
    PROVE  ClientInv'
<1> USE RoutedClientAssumption
<1>1. /\ c \in broken /\ noticed' = noticed \cup {c} /\ c # 0
      /\ calls' = [calls EXCEPT ![c] = <<>>]
      /\ UNCHANGED <<started, link, m_routeId, reconnectTimer, owner, broken, prompt>>
  BY DEF clientDisconnected, client, Conns
<1>2. \A r, s \in Routes : m_clientRoutes[r] = c /\ m_clientRoutes[s] = c => r = s
  BY <1>1 DEF ClientInv, RouteIsOwn
<1>3. /\ Server!TypeOK'
      /\ \A r \in Routes : m_clientRoutes'[r] = m_clientRoutes[r] \/ m_clientRoutes'[r] = 0
      /\ \A r \in Routes : m_clientRoutes'[r] # c
  <2>1. Server!TypeOK /\ Server!deregisterClient(c)
    BY DEF clientDisconnected, ClientInv, TypeOK
  <2> QED
    BY <1>2, <2>1, DeregisterEffect
<1>4. 0 \notin noticed
  BY DEF ClientInv, TypeOK, Conns
<1>5. calls' \in [Conns -> Seq(Calls)]
  <2>1. <<>> \in Seq(Calls)
    OBVIOUS
  <2> QED
    BY <1>1, <2>1 DEF ClientInv, TypeOK, Calls
<1>6. TypeOK'
  BY <1>1, <1>3, <1>5 DEF ClientInv, TypeOK, Calls
<1>7. RouteIsOwn' /\ GoneHoldsNoRoute'
  BY <1>1, <1>3, <1>4 DEF ClientInv, RouteIsOwn, GoneHoldsNoRoute
<1>8. OnlyMade'
  BY <1>1 DEF ClientInv, TypeOK, OnlyMade
<1> QED
  BY <1>1, <1>6, <1>7, <1>8 DEF ClientInv, LinkIsOwn, TriesWithoutLink, KeepsTrying, OldIsBroken

\* One step of client, network or server preserves the invariant.
LEMMA NextClient == ClientInv /\ [Next]_vars => ClientInv'
<1> SUFFICES ASSUME ClientInv, [Next]_vars PROVE ClientInv'
  OBVIOUS
<1>1. CASE ListenerStep
  <2>1. /\ Server!TypeOK' /\ m_clientRoutes' = m_clientRoutes
        /\ UNCHANGED <<started, link, m_routeId, reconnectTimer>>
        /\ UNCHANGED <<owner, calls, broken, noticed, prompt>>
    BY <1>1, ListenerEffect DEF ClientInv, TypeOK, ListenerStep, client, network
  <2>2. TypeOK'
    BY <2>1 DEF ClientInv, TypeOK
  <2> QED
    BY <2>1, <2>2 DEF ClientInv, LinkIsOwn, TriesWithoutLink, KeepsTrying, OldIsBroken,
       OnlyMade, RouteIsOwn, GoneHoldsNoRoute
<1>2. CASE UNCHANGED vars
  <2>1. TypeOK'
    BY <1>2 DEF vars, client, network, server, ClientInv, TypeOK, Server!TypeOK
  <2> QED
    BY <1>2, <2>1 DEF vars, client, network, server, ClientInv, LinkIsOwn, TriesWithoutLink,
       KeepsTrying, OldIsBroken, OnlyMade, RouteIsOwn, GoneHoldsNoRoute
<1> QED
  BY <1>1, <1>2, ConnectClient, DisconnectedClient, CallClient, BreakClient, ArriveClient,
     ClientDisconnectedClient DEF Next

\* The invariant holds in every reachable state.
THEOREM ClientInvariant == Spec => []ClientInv
  BY InitClient, NextClient, PTL DEF Spec

\* For any clients, connections and breaks, the variables of client, network and
\* server keep their types.
THEOREM ClientTypeCorrect == Spec => []TypeOK
<1>1. ClientInv => TypeOK
  BY DEF ClientInv
<1> QED
  BY <1>1, ClientInvariant, PTL

\* However often connections break and in whatever order the two ends notice it, a
\* route is held by the present connection of its client or by a broken one.
THEOREM RoutesAreCurrentOrBroken == Spec => []RouteIsCurrentOrBroken
<1>1. ClientInv => RouteIsCurrentOrBroken
  BY DEF ClientInv, OldIsBroken, RouteIsOwn, RouteIsCurrentOrBroken
<1> QED
  BY <1>1, ClientInvariant, PTL

\* A registration that arrives late never gives a route to a connection the
\* server has seen go.
THEOREM GoneConnectionsHoldNoRoute == Spec => []GoneHoldsNoRoute
<1>1. ClientInv => GoneHoldsNoRoute
  BY DEF ClientInv
<1> QED
  BY <1>1, ClientInvariant, PTL

\* A client that was started is connected or will try again.
THEOREM ClientsKeepTrying == Spec => []KeepsTrying
<1>1. ClientInv => KeepsTrying
  BY DEF ClientInv
<1> QED
  BY <1>1, ClientInvariant, PTL

----------------------------------------------------------------------------
\* The server inside the composition: what RoutedServerProofs proves of any clients
\* holds of the connections that come and go here.

Routing == INSTANCE RoutedServerProofs WITH Clients <- Conns

\* Connections are numbered from 1: the server's assumption on its clients.
LEMMA ConnsAreClients == Routing!RoutedServerAssumption
  BY RoutedClientAssumption DEF Conns, Routing!RoutedServerAssumption

\* The operations are the ones the proofs speak of.
LEMMA SameOperations ==
    ASSUME NEW c, NEW l, NEW r
    PROVE  /\ Server!Init => Routing!Init
           /\ Server!registerClient(c, r) => Routing!registerClient(c, r)
           /\ Server!deregisterClient(c) => Routing!deregisterClient(c)
           /\ Server!registerReceiver(l, r) => Routing!registerReceiver(l, r)
           /\ Server!deregisterReceiver(l) => Routing!deregisterReceiver(l)
<1>1. Server!Init => Routing!Init
  BY DEF Server!Init, Routing!Init, Server!RoutesMap!EmptyBiMap, Routing!RoutesMap!EmptyBiMap
<1>2. Server!registerClient(c, r) => Routing!registerClient(c, r)
  BY DEF Server!registerClient, Routing!registerClient, Server!HasValue, Routing!HasValue,
     Server!RoutesMap!insert, Routing!RoutesMap!insert,
     Server!RoutesMap!containsLeft, Routing!RoutesMap!containsLeft,
     Server!RoutesMap!containsRight, Routing!RoutesMap!containsRight
<1>3. Server!deregisterClient(c) => Routing!deregisterClient(c)
  BY DEF Server!deregisterClient, Routing!deregisterClient, Server!HasValue, Routing!HasValue,
     Server!RemoveKeyOf, Routing!RemoveKeyOf,
     Server!RoutesMap!removeByLeft, Routing!RoutesMap!removeByLeft,
     Server!RoutesMap!containsLeft, Routing!RoutesMap!containsLeft,
     Server!RoutesMap!RightOf, Routing!RoutesMap!RightOf
<1>4. Server!registerReceiver(l, r) => Routing!registerReceiver(l, r)
  BY DEF Server!registerReceiver, Routing!registerReceiver, Server!HasValue, Routing!HasValue,
     Server!RoutesMap!insert, Routing!RoutesMap!insert,
     Server!RoutesMap!containsLeft, Routing!RoutesMap!containsLeft,
     Server!RoutesMap!containsRight, Routing!RoutesMap!containsRight
<1>5. Server!deregisterReceiver(l) => Routing!deregisterReceiver(l)
  BY DEF Server!deregisterReceiver, Routing!deregisterReceiver, Server!HasValue, Routing!HasValue,
     Server!RemoveKeyOf, Routing!RemoveKeyOf,
     Server!RoutesMap!removeByRight, Routing!RoutesMap!removeByRight,
     Server!RoutesMap!containsRight, Routing!RoutesMap!containsRight,
     Server!RoutesMap!LeftOf, Routing!RoutesMap!LeftOf
<1> QED
  BY <1>1, <1>2, <1>3, <1>4, <1>5

\* The server's invariant depends on its maps only.
LEMMA RoutingFrame ==
    ASSUME Routing!RoutingInv, UNCHANGED server
    PROVE  Routing!RoutingInv'
  BY DEF server, Routing!RoutingInv, Routing!TypeOK, Routing!RoutesOneToOne, Routing!OneRouteEach,
     Routing!RoutesAreJoin, Routing!RoutesMap!OneToOne

\* Every step of the composition is an operation of the server or none.
LEMMA NextKeepsRouting == ClientInv /\ Routing!RoutingInv /\ [Next]_vars => Routing!RoutingInv'
<1> SUFFICES ASSUME ClientInv, Routing!RoutingInv, [Next]_vars PROVE Routing!RoutingInv'
  OBVIOUS
<1>1. CASE UNCHANGED server
  BY <1>1, RoutingFrame
<1>2. ASSUME NEW c \in Conns, Arrive(c) PROVE Routing!RoutingInv'
  <2>1. RouteOf[owner[c]] \in Routes
    BY <1>2, RoutedClientAssumption DEF Arrive, ClientInv, TypeOK, OnlyMade
  <2>2. \/ Routing!registerClient(c, RouteOf[owner[c]])
        \/ Routing!deregisterClient(c)
    BY <1>2, SameOperations DEF Arrive
  <2> QED
    BY <2>1, <2>2, ConnsAreClients, Routing!RegisterClientRouting, Routing!DeregisterClientRouting
<1>3. ASSUME NEW c \in Conns, clientDisconnected(c) PROVE Routing!RoutingInv'
  <2>1. Routing!deregisterClient(c)
    BY <1>3, SameOperations DEF clientDisconnected
  <2> QED
    BY <2>1, ConnsAreClients, Routing!DeregisterClientRouting
<1>4. CASE ListenerStep
  <2>1. ASSUME NEW l \in Listeners, NEW r \in Routes, Server!registerReceiver(l, r)
        PROVE  Routing!RoutingInv'
    <3>1. Routing!registerReceiver(l, r)
      BY <2>1, SameOperations
    <3> QED
      BY <3>1, ConnsAreClients, Routing!RegisterReceiverRouting
  <2>2. ASSUME NEW l \in Listeners, Server!deregisterReceiver(l) PROVE Routing!RoutingInv'
    <3>1. Routing!deregisterReceiver(l)
      BY <2>2, SameOperations
    <3> QED
      BY <3>1, ConnsAreClients, Routing!DeregisterReceiverRouting
  <2> QED
    BY <1>4, <2>1, <2>2 DEF ListenerStep
<1>5. CASE UNCHANGED vars
  BY <1>1, <1>5 DEF vars
<1>6. ASSUME NEW p \in Peers,
             connectToServer(p) \/ disconnectedFromServer(p) \/ registerRoute(p) \/ deregisterRoute(p)
      PROVE  UNCHANGED server
  BY <1>6 DEF connectToServer, disconnectedFromServer, registerRoute, deregisterRoute
<1>7. ASSUME NEW c \in Conns, Break(c) PROVE UNCHANGED server
  BY <1>7 DEF Break
<1> QED
  BY <1>1, <1>2, <1>3, <1>4, <1>5, <1>6, <1>7 DEF Next

\* The server's routing stays exact under clients that break, come back and repeat
\* their calls.
THEOREM RoutingStaysExact == Spec => []Routing!RoutingInv
<1>1. Init => Routing!RoutingInv
  <2> SUFFICES ASSUME Init PROVE Routing!RoutingInv
    OBVIOUS
  <2>1. Routing!Init
    BY SameOperations DEF Init
  <2> QED
    BY <2>1, ConnsAreClients, Routing!InitRouting
<1> QED
  BY <1>1, NextKeepsRouting, ClientInvariant, PTL DEF Spec

\* For every set of clients and listeners, what a listener sends goes to a connection
\* of the client whose route it listens to, and never to one the server has seen go.
THEOREM ListenersReachTheirClients == Spec => []ListenerReachesItsClient
<1>1. ClientInv /\ Routing!RoutingInv => ListenerReachesItsClient
  <2> SUFFICES ASSUME ClientInv, Routing!RoutingInv, NEW l \in Listeners, m_routes.m_right[l] # 0
               PROVE  LET c == m_routes.m_right[l] IN
                      /\ c \in DOMAIN owner /\ c \notin noticed
                      /\ m_listenerRoutes[RouteOf[owner[c]]] = l
    BY DEF ListenerReachesItsClient
  <2> DEFINE c == m_routes.m_right[l]
  <2>1. c \in Conns
    BY DEF Routing!RoutingInv, Routing!TypeOK, Routing!RoutesMap!BiMaps
  <2>2. m_routes.m_left[c] = l
    BY <2>1 DEF Routing!RoutingInv, Routing!RoutesOneToOne, Routing!RoutesMap!OneToOne
  <2>3. PICK r \in Routes : m_clientRoutes[r] = c /\ m_listenerRoutes[r] = l
    BY <2>1, <2>2 DEF Routing!RoutingInv, Routing!RoutesAreJoin
  <2>4. c \in DOMAIN owner /\ RouteOf[owner[c]] = r /\ c \notin noticed
    BY <2>3 DEF ClientInv, RouteIsOwn, GoneHoldsNoRoute
  <2> QED
    BY <2>3, <2>4
<1> QED
  BY <1>1, ClientInvariant, RoutingStaysExact, PTL

----------------------------------------------------------------------------
\* What a server that sees connections go in time makes of the calls.

\* A connection its client has left for another is seen gone.
OldIsGone == \A c \in DOMAIN owner : c \in noticed \/ link[owner[c]] \in {c, 0}

\* The last of the calls under way asks for the route.
Pending(c) == calls[c] # <<>> /\ calls[c][Len(calls[c])] = "register"

\* A client that wants its route has asked for it last, or holds it.
Settled(p) ==
    link[p] # 0 /\ link[p] \notin noticed /\ m_routeId[p] # 0
        => \/ Pending(link[p])
           \/ calls[link[p]] = <<>> /\ HoldsRoute(p, link[p])

\* No call is refused if only the present connection can hold the route.
PromptInv == prompt => OldIsGone /\ \A p \in Peers : Settled(p)

\* The last call stays the last one when an earlier one arrives.
LEMMA LastOfTail ==
    ASSUME NEW s \in Seq(Calls), s # <<>>
    PROVE  /\ Tail(s) # <<>> => Tail(s)[Len(Tail(s))] = s[Len(s)]
           /\ Tail(s) = <<>> => Head(s) = s[Len(s)]
<1>1. /\ Tail(s) \in Seq(Calls) /\ Len(Tail(s)) = Len(s) - 1
      /\ \A i \in 1 .. Len(Tail(s)) : Tail(s)[i] = s[i + 1]
  BY HeadTailProperties
<1>2. Len(s) \in Nat /\ Len(s) # 0 /\ Head(s) = s[1]
  BY EmptySeq
<1> DEFINE t == Tail(s)
           n == Len(s)
<1>3. t \in Seq(Calls) /\ Len(t) = n - 1 /\ (t = <<>> <=> Len(t) = 0)
  BY <1>1, EmptySeq
<1> HIDE DEF t, n
<1>4. ASSUME t # <<>> PROVE t[Len(t)] = s[n]
  <2>1. Len(t) \in 1 .. Len(t) /\ Len(t) + 1 = n
    BY <1>2, <1>3, <1>4 DEF n
  <2> QED
    BY <1>1, <2>1 DEF t
<1>5. ASSUME t = <<>> PROVE n = 1
  BY <1>2, <1>3, <1>5 DEF n
<1> QED
  BY <1>2, <1>4, <1>5 DEF t, n

\* registerRoute() asks for the route last.
LEMMA RegisterIsLast ==
    ASSUME NEW s \in Seq(Calls), NEW p
    PROVE  LET t == s \o registerCalls(p) IN t # <<>> /\ t[Len(t)] = "register"
<1> DEFINE q == registerCalls(p)
           t == s \o q
<1>1. q \in Seq(Calls) /\ Len(q) \in Nat /\ Len(q) # 0 /\ q[Len(q)] = "register"
  <2>1. q \in Seq(Calls)
    BY RegisterCallsType
  <2>2. CASE m_routeId[p] # 0
    BY <2>1, <2>2 DEF registerCalls
  <2>3. CASE m_routeId[p] = 0
    BY <2>1, <2>3 DEF registerCalls
  <2> QED
    BY <2>1, <2>2, <2>3
<1> HIDE DEF q
<1>2. t \in Seq(Calls) /\ Len(t) = Len(s) + Len(q) /\ Len(s) \in Nat
  BY <1>1, ConcatProperties, LenProperties
<1>3. t[Len(s) + Len(q)] = q[Len(q)]
  BY <1>1, <1>2, ConcatProperties
<1>4. t # <<>>
  BY <1>1, <1>2, EmptySeq
<1> QED
  BY <1>1, <1>2, <1>3, <1>4 DEF q

\* Nobody is connected.
LEMMA InitPrompt == Init => PromptInv
  BY DEF Init, PromptInv, OldIsGone, Settled

\* The clients' steps that leave connections and calls alone, the listeners' steps
\* and a break, which nobody has seen yet.
LEMMA PromptFrame ==
    ASSUME PromptInv,
           UNCHANGED <<link, m_routeId, owner, calls, noticed, prompt, m_clientRoutes>>
    PROVE  PromptInv'
  BY DEF PromptInv, OldIsGone, Settled, Pending, HoldsRoute

\* A client comes back when all its broken connections are seen gone, and asks for
\* its route last.
LEMMA ConnectedPrompt ==
    ASSUME ClientInv, PromptInv, NEW p \in Peers, link[p] = 0, Connected(p), UNCHANGED server
    PROVE  PromptInv'
<1> USE RoutedClientAssumption
<1> DEFINE n == Len(owner) + 1
<1>1. /\ n \in Conns
      /\ prompt => broken = noticed
      /\ owner' = Append(owner, p)
      /\ link' = [link EXCEPT ![p] = n]
      /\ calls' = [calls EXCEPT ![n] = registerCalls(p)]
      /\ m_routeId' = [m_routeId EXCEPT ![p] = RouteOf[p]]
      /\ UNCHANGED <<noticed, prompt, m_clientRoutes>>
  BY DEF Connected, registerOwnRoute, server
<1>2. /\ DOMAIN owner' = DOMAIN owner \cup {n} /\ n \notin DOMAIN owner
      /\ owner'[n] = p /\ \A c \in DOMAIN owner : owner'[c] = owner[c]
  <2>1. owner \in Seq(Peers)
    BY DEF ClientInv, TypeOK
  <2> QED
    BY <1>1, <2>1, AppendProperties, LenProperties
<1> HIDE DEF n
<1>3. calls'[n] # <<>> /\ calls'[n][Len(calls'[n])] = "register"
  <2>1. <<>> \in Seq(Calls) /\ <<>> \o registerCalls(p) = registerCalls(p)
    BY RegisterCallsType, ConcatEmptySeq
  <2>2. registerCalls(p) # <<>> /\ registerCalls(p)[Len(registerCalls(p))] = "register"
    BY <2>1, RegisterIsLast
  <2>3. calls'[n] = registerCalls(p)
    BY <1>1 DEF ClientInv, TypeOK
  <2> QED
    BY <2>2, <2>3
<1> SUFFICES ASSUME prompt PROVE OldIsGone' /\ \A q \in Peers : Settled(q)'
  BY <1>1 DEF PromptInv
<1>4. OldIsGone'
  <2> SUFFICES ASSUME NEW c \in DOMAIN owner' PROVE c \in noticed \/ link'[owner'[c]] \in {c, 0}
    BY <1>1 DEF OldIsGone
  <2>1. CASE c = n
    BY <1>1, <1>2, <2>1 DEF ClientInv, TypeOK
  <2>2. CASE c \in DOMAIN owner
    <3>1. owner[c] \in Peers /\ owner'[c] = owner[c] /\ c \in Nat \ {0}
      BY <1>2, <2>2 DEF ClientInv, TypeOK
    <3>2. CASE owner[c] = p
      BY <1>1, <2>2, <3>1, <3>2 DEF ClientInv, OldIsBroken
    <3>3. CASE owner[c] # p
      BY <1>1, <2>2, <3>1, <3>3 DEF ClientInv, TypeOK, PromptInv, OldIsGone
    <3> QED
      BY <3>2, <3>3
  <2> QED
    BY <1>2, <2>1, <2>2
<1>5. ASSUME NEW q \in Peers PROVE Settled(q)'
  <2>1. CASE q = p
    <3>1. link'[q] = n
      BY <1>1, <2>1 DEF ClientInv, TypeOK
    <3> QED
      BY <1>3, <3>1 DEF Settled, Pending
  <2>2. CASE q # p
    <3>1. link'[q] = link[q] /\ m_routeId'[q] = m_routeId[q]
      BY <1>1, <2>2 DEF ClientInv, TypeOK
    <3>2. link[q] # 0 => calls'[link[q]] = calls[link[q]]
      BY <1>1, <1>2 DEF ClientInv, TypeOK, LinkIsOwn
    <3> QED
      BY <1>1, <3>1, <3>2 DEF PromptInv, Settled, Pending, HoldsRoute
  <2> QED
    BY <2>1, <2>2
<1> QED
  BY <1>4, <1>5

\* A client that lost its connection waits for none.
LEMMA DisconnectedPrompt ==
    ASSUME ClientInv, PromptInv, NEW p \in Peers, disconnectedFromServer(p)
    PROVE  PromptInv'
<1>1. /\ link' = [link EXCEPT ![p] = 0]
      /\ UNCHANGED <<m_routeId, owner, calls, noticed, prompt, m_clientRoutes>>
  BY DEF disconnectedFromServer, network, server
<1> SUFFICES ASSUME prompt PROVE OldIsGone' /\ \A q \in Peers : Settled(q)'
  BY <1>1 DEF PromptInv
<1>2. OldIsGone'
  BY <1>1 DEF ClientInv, TypeOK, PromptInv, OldIsGone
<1>3. ASSUME NEW q \in Peers PROVE Settled(q)'
  <2>1. CASE q = p
    BY <1>1, <2>1 DEF ClientInv, TypeOK, Settled
  <2>2. CASE q # p
    <3>1. link'[q] = link[q]
      BY <1>1, <2>2 DEF ClientInv, TypeOK
    <3> QED
      BY <1>1, <3>1 DEF PromptInv, Settled, Pending, HoldsRoute
  <2> QED
    BY <2>1, <2>2
<1> QED
  BY <1>2, <1>3

\* A client asks for its route last, or no longer wants it.
LEMMA CallPrompt ==
    ASSUME ClientInv, PromptInv, NEW p \in Peers, registerRoute(p) \/ deregisterRoute(p)
    PROVE  PromptInv'
<1>1. /\ link[p] # 0
      /\ UNCHANGED <<link, owner, noticed, prompt, m_clientRoutes>>
  BY DEF registerRoute, deregisterRoute, server
<1>2. calls \in [Conns -> Seq(Calls)] /\ link[p] \in Conns /\ m_routeId \in [Peers -> Routes \cup {0}]
  BY <1>1 DEF ClientInv, TypeOK, Calls
<1> SUFFICES ASSUME prompt, NEW q \in Peers PROVE Settled(q)'
  BY <1>1 DEF PromptInv, OldIsGone
<1>3. CASE q # p
  <2>1. m_routeId'[q] = m_routeId[q]
    BY <1>2, <1>3 DEF registerRoute, deregisterRoute
  <2>2. link[q] # 0 => link[q] # link[p]
    BY <1>1, <1>3 DEF ClientInv, LinkIsOwn
  <2>3. link[q] # 0 => calls'[link[q]] = calls[link[q]]
    BY <1>2, <2>2 DEF registerRoute, deregisterRoute, ClientInv, TypeOK
  <2> QED
    BY <1>1, <2>1, <2>3 DEF PromptInv, Settled, Pending, HoldsRoute
<1>4. CASE q = p /\ registerRoute(p)
  <2>1. calls'[link[p]] = calls[link[p]] \o registerCalls(p)
    BY <1>2, <1>4 DEF registerRoute
  <2>2. Pending(link[p])'
    BY <1>1, <1>2, <2>1, RegisterIsLast DEF Pending
  <2> QED
    BY <1>1, <1>4, <2>2 DEF Settled, Pending
<1>5. CASE q = p /\ deregisterRoute(p)
  <2>1. m_routeId'[p] = 0
    BY <1>2, <1>5 DEF deregisterRoute
  <2> QED
    BY <1>5, <2>1 DEF Settled
<1> QED
  BY <1>3, <1>4, <1>5

\* Only the client's present connection can hold its route, so the server does not
\* refuse it.
LEMMA RegisterAccepted ==
    ASSUME ClientInv, Routing!RoutingInv, OldIsGone, NEW p \in Peers, link[p] # 0,
           Server!registerClient(link[p], RouteOf[p])
    PROVE  m_clientRoutes'[RouteOf[p]] = link[p]
<1> USE RoutedClientAssumption
<1> DEFINE c == link[p]
           r == RouteOf[p]
           d == m_clientRoutes[r]
<1>1. c \in Conns /\ c \in DOMAIN owner /\ owner[c] = p /\ r \in Routes
  BY DEF ClientInv, TypeOK, LinkIsOwn
<1>2. m_clientRoutes \in [Routes -> Conns \cup {0}]
  BY DEF ClientInv, TypeOK, Server!TypeOK
<1>3. CASE d # 0
  <2>1. d \in DOMAIN owner /\ RouteOf[owner[d]] = r /\ d \notin noticed
    BY <1>1, <1>3 DEF ClientInv, RouteIsOwn, GoneHoldsNoRoute
  <2>2. owner[d] = p
    BY <2>1 DEF ClientInv, TypeOK
  <2>3. d = c
    BY <2>1, <2>2 DEF OldIsGone
  <2> QED
    BY <1>1, <1>2, <1>3, <2>3 DEF Server!registerClient
<1>4. CASE d = 0
  <2>1. \A s \in Routes : m_clientRoutes[s] # c
    BY <1>1, <1>4 DEF ClientInv, RouteIsOwn
  <2>2. m_routes.m_left[c] = NULL
    <3>1. m_routes.m_left[c] \in Listeners \cup {NULL}
      BY <1>1 DEF ClientInv, TypeOK, Server!TypeOK, Server!RoutesMap!BiMaps
    <3>2. ASSUME NEW l \in Listeners, m_routes.m_left[c] = l PROVE FALSE
      BY <1>1, <2>1, <3>2 DEF Routing!RoutingInv, Routing!RoutesAreJoin
    <3> QED
      BY <3>1, <3>2
  <2> QED
    BY <1>1, <1>2, <1>4, <2>1, <2>2 DEF Server!registerClient, Server!HasValue,
       Server!RoutesMap!containsLeft
<1> QED
  BY <1>3, <1>4

\* What another connection does leaves a client's route alone.
LEMMA OthersKeepRoute ==
    ASSUME ClientInv, Routing!RoutingInv, NEW c \in Conns, NEW r \in Routes, NEW s \in Routes,
           Server!registerClient(c, s) \/ Server!deregisterClient(c),
           m_clientRoutes[r] # 0, m_clientRoutes[r] # c
    PROVE  m_clientRoutes'[r] = m_clientRoutes[r]
<1>1. m_clientRoutes \in [Routes -> Conns \cup {0}]
  BY DEF ClientInv, TypeOK, Server!TypeOK
<1>2. CASE Server!registerClient(c, s)
  BY <1>1, <1>2 DEF Server!registerClient
<1>3. CASE Server!deregisterClient(c)
  <2>1. Routing!deregisterClient(c)
    BY <1>3, SameOperations
  <2>2. m_clientRoutes' = [q \in Routes |-> IF m_clientRoutes[q] = c THEN 0 ELSE m_clientRoutes[q]]
    BY <2>1, ConnsAreClients, Routing!DeregisterClientEffect
  <2> QED
    BY <2>2
<1> QED
  BY <1>2, <1>3

\* The last call to arrive is the one that asks for the route, and it is granted.
LEMMA ArrivePrompt ==
    ASSUME ClientInv, Routing!RoutingInv, PromptInv, NEW c \in Conns, Arrive(c)
    PROVE  PromptInv'
<1> USE RoutedClientAssumption
<1>1. /\ c \notin noticed /\ calls[c] # <<>>
      /\ calls' = [calls EXCEPT ![c] = Tail(calls[c])]
      /\ UNCHANGED <<link, m_routeId, owner, noticed, prompt>>
  BY DEF Arrive, client
<1>2. calls \in [Conns -> Seq(Calls)] /\ link \in [Peers -> Conns \cup {0}]
  BY DEF ClientInv, TypeOK, Calls
<1> SUFFICES ASSUME prompt, NEW p \in Peers, link[p] # 0, link[p] \notin noticed, m_routeId[p] # 0
             PROVE  Settled(p)'
  BY <1>1 DEF PromptInv, OldIsGone, Settled
<1>3. OldIsGone /\ Settled(p)
  BY DEF PromptInv
<1>4. link[p] \in Conns /\ owner[link[p]] = p /\ RouteOf[p] \in Routes
  BY <1>2 DEF ClientInv, LinkIsOwn
<1>5. CASE link[p] # c
  <2>1. calls'[link[p]] = calls[link[p]]
    BY <1>1, <1>2, <1>4, <1>5
  <2>2. ASSUME HoldsRoute(p, link[p]) PROVE m_clientRoutes'[RouteOf[p]] = link[p]
    <3>1. RouteOf[owner[c]] \in Routes
      BY <1>1 DEF ClientInv, TypeOK, OnlyMade
    <3>2. Server!registerClient(c, RouteOf[owner[c]]) \/ Server!deregisterClient(c)
      BY DEF Arrive
    <3>3. m_clientRoutes[RouteOf[p]] # 0 /\ m_clientRoutes[RouteOf[p]] # c
      BY <1>5, <2>2 DEF HoldsRoute
    <3> QED
      BY <1>4, <2>2, <3>1, <3>2, <3>3, OthersKeepRoute DEF HoldsRoute
  <2> QED
    BY <1>1, <1>3, <2>1, <2>2 DEF Settled, Pending, HoldsRoute
<1>6. CASE link[p] = c
  <2>1. Pending(c) /\ calls'[c] = Tail(calls[c])
    BY <1>1, <1>2, <1>3, <1>6 DEF Settled
  <2>2. CASE Tail(calls[c]) # <<>>
    <3>1. Tail(calls[c])[Len(Tail(calls[c]))] = "register"
      BY <1>1, <1>2, <2>1, <2>2, LastOfTail DEF Pending
    <3> QED
      BY <1>1, <1>6, <2>1, <2>2, <3>1 DEF Settled, Pending
  <2>3. CASE Tail(calls[c]) = <<>>
    <3>1. Head(calls[c]) = "register"
      BY <1>1, <1>2, <2>1, <2>3, LastOfTail DEF Pending
    <3>2. Server!registerClient(link[p], RouteOf[p])
      BY <1>4, <1>6, <3>1 DEF Arrive
    <3>3. m_clientRoutes'[RouteOf[p]] = link[p]
      BY <1>3, <3>2, RegisterAccepted
    <3> QED
      BY <1>1, <1>6, <2>1, <2>3, <3>3 DEF Settled, HoldsRoute
  <2> QED
    BY <2>2, <2>3
<1> QED
  BY <1>5, <1>6

\* A connection seen gone takes only its own route with it.
LEMMA ClientDisconnectedPrompt ==
    ASSUME ClientInv, Routing!RoutingInv, PromptInv, NEW c \in Conns, clientDisconnected(c)
    PROVE  PromptInv'
<1> USE RoutedClientAssumption
<1>1. /\ noticed' = noticed \cup {c} /\ calls' = [calls EXCEPT ![c] = <<>>]
      /\ UNCHANGED <<link, m_routeId, owner, prompt>>
  BY DEF clientDisconnected, client
<1> SUFFICES ASSUME prompt, NEW p \in Peers, link[p] # 0, link[p] \notin noticed, link[p] # c,
                    m_routeId[p] # 0
             PROVE  Settled(p)'
  BY <1>1 DEF PromptInv, OldIsGone, Settled
<1>2. Settled(p)
  BY DEF PromptInv
<1>3. link[p] \in Conns /\ RouteOf[p] \in Routes
  BY DEF ClientInv, TypeOK
<1>4. calls'[link[p]] = calls[link[p]]
  BY <1>1, <1>3 DEF ClientInv, TypeOK
<1>5. ASSUME HoldsRoute(p, link[p]) PROVE m_clientRoutes'[RouteOf[p]] = link[p]
  <2>1. Server!deregisterClient(c)
    BY DEF clientDisconnected
  <2>2. m_clientRoutes[RouteOf[p]] # 0 /\ m_clientRoutes[RouteOf[p]] # c
    BY <1>5 DEF HoldsRoute
  <2> QED
    BY <1>3, <1>5, <2>1, <2>2, OthersKeepRoute DEF HoldsRoute
<1> QED
  BY <1>1, <1>2, <1>4, <1>5 DEF Settled, Pending, HoldsRoute

\* Every step keeps it.
LEMMA NextPrompt == ClientInv /\ Routing!RoutingInv /\ PromptInv /\ [Next]_vars => PromptInv'
<1> SUFFICES ASSUME ClientInv, Routing!RoutingInv, PromptInv, [Next]_vars PROVE PromptInv'
  OBVIOUS
<1>1. ASSUME NEW p \in Peers, connectToServer(p) PROVE PromptInv'
  <2>1. link[p] = 0 /\ UNCHANGED server
    BY <1>1 DEF connectToServer, ClientInv, TriesWithoutLink
  <2>2. CASE Connected(p)
    BY <2>1, <2>2, ConnectedPrompt
  <2>3. CASE connectionToServerFailedSlot(p)
    BY <2>1, <2>3, PromptFrame DEF connectionToServerFailedSlot, network, server
  <2> QED
    BY <1>1, <2>2, <2>3 DEF connectToServer
<1>2. ASSUME NEW c \in Conns, Break(c) PROVE PromptInv'
  BY <1>2, PromptFrame DEF Break, client, server
<1>3. CASE ListenerStep
  <2>1. m_clientRoutes' = m_clientRoutes
    BY <1>3, ListenerEffect DEF ClientInv, TypeOK
  <2> QED
    BY <1>3, <2>1, PromptFrame DEF ListenerStep, client, network
<1>4. CASE UNCHANGED vars
  BY <1>4, PromptFrame DEF vars, client, network, server
<1> QED
  BY <1>1, <1>2, <1>3, <1>4, DisconnectedPrompt, CallPrompt, ArrivePrompt,
     ClientDisconnectedPrompt DEF Next

\* For any clients, routes and number of connections: if the server sees a connection
\* go before the client is back with another, a client that wants its route holds it
\* as soon as its calls have arrived, whatever broke and in whatever order it called
\* registerRoute() and deregisterRoute() before.
THEOREM PromptClientsHoldTheirRoute == Spec => []PromptHoldsRoute
<1>1. ClientInv /\ PromptInv => PromptHoldsRoute
  <2> SUFFICES ASSUME ClientInv, PromptInv, NEW p \in Peers, NEW c \in Conns,
                      prompt, WantsRoute(p, c), c \notin noticed, calls[c] = <<>>
               PROVE  HoldsRoute(p, c)
    BY DEF PromptHoldsRoute
  <2>1. c # 0 /\ link[p] = c
    BY DEF Conns, WantsRoute
  <2> QED
    BY <2>1 DEF PromptInv, Settled, Pending, WantsRoute
<1> QED
  BY <1>1, InitPrompt, NextPrompt, ClientInvariant, RoutingStaysExact, PTL DEF Spec

==============================================================================
