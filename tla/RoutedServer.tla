----------------------------- MODULE RoutedServer -----------------------------
(***************************************************************************)
(* RpcRoutedServer of CISCommonLib.  Clients register for a route over the  *)
(* network, listeners register for one in the process, in either order; the *)
(* server keeps both registrations (m_clientRoutes, m_listenerRoutes) and,  *)
(* as a cache, the BiMap m_routes of the client-listener pairs that share a *)
(* route.  Messages are routed with the cache alone.                        *)
(*                                                                         *)
(* Every operation runs to completion in the server's thread; call() with a *)
(* direct connection, as in the repository's tests, is internalCall().      *)
(***************************************************************************)
EXTENDS Naturals

CONSTANTS Clients,       \* client ids other than 0, which stands for "no id"
          Listeners,     \* IRpcListener objects
          Routes,        \* route ids; route 0 listens to all clients
          NULL,          \* the null IRpcListener*
          MaxReceivers   \* bound: enrolments of one listener in m_receiversList

ASSUME RoutedServerAssumption ==
    /\ Clients \subseteq Nat \ {0}
    /\ Routes \subseteq Nat
    /\ NULL \notin Listeners
    /\ MaxReceivers \in Nat

VARIABLES m_routes,          \* BiMap of linked clients and listeners
          m_clientRoutes,    \* route -> client, 0 when the QMap has no such key
          m_listenerRoutes,  \* route -> listener, NULL when it has none
          m_receiversList,   \* listener -> its occurrences in the QList
          last               \* the operation just performed and its outcome

vars == <<m_routes, m_clientRoutes, m_listenerRoutes, m_receiversList, last>>

RoutesMap == INSTANCE BiMap WITH Left <- Clients, Right <- Listeners,
                                 NoLeft <- 0, NoRight <- NULL

TypeOK ==
    /\ m_routes \in RoutesMap!BiMaps
    /\ m_clientRoutes \in [Routes -> Clients \cup {0}]
    /\ m_listenerRoutes \in [Routes -> Listeners \cup {NULL}]
    /\ m_receiversList \in [Listeners -> 0 .. MaxReceivers]

Init ==
    /\ m_routes = RoutesMap!EmptyBiMap
    /\ m_clientRoutes = [r \in Routes |-> 0]
    /\ m_listenerRoutes = [r \in Routes |-> NULL]
    /\ m_receiversList = [l \in Listeners |-> 0]
    /\ last = [op |-> "none"]

\* QMap::values().contains(v)
HasValue(map, v) == \E r \in Routes : map[r] = v

\* Mutant: the entry is left behind.
RemoveKeyOfKeeps(map, v, default) == map

\* The value at QMap::key(v), the first key that holds v, removed.
RemoveKeyOf(map, v, default) ==
    [map EXCEPT ![CHOOSE r \in Routes :
                    map[r] = v /\ \A s \in Routes : map[s] = v => r <= s] = default]

----------------------------------------------------------------------------
\* Operations

registerReceiver(l, r) ==
    LET ok == /\ l # NULL
              /\ m_listenerRoutes[r] = NULL
              /\ ~HasValue(m_listenerRoutes, l)
              /\ ~RoutesMap!containsRight(m_routes, l)
        client == m_clientRoutes[r]
    IN
    /\ ok => m_receiversList[l] < MaxReceivers
    /\ last' = [op |-> "registerReceiver", ok |-> ok]
    /\ m_receiversList' = IF ok THEN [m_receiversList EXCEPT ![l] = @ + 1]
                                ELSE m_receiversList
    /\ m_listenerRoutes' = IF ok /\ r # 0 THEN [m_listenerRoutes EXCEPT ![r] = l]
                                          ELSE m_listenerRoutes
    /\ m_routes' = IF /\ ok /\ r # 0
                      /\ client # 0
                      /\ ~RoutesMap!containsLeft(m_routes, client)
                   THEN RoutesMap!insert(m_routes, client, l)
                   ELSE m_routes
    /\ UNCHANGED m_clientRoutes

deregisterReceiver(l) ==
    /\ last' = [op |-> "deregisterReceiver", ok |-> l # NULL]
    /\ IF l = NULL
       THEN UNCHANGED <<m_receiversList, m_routes, m_listenerRoutes>>
       ELSE /\ m_receiversList' = [m_receiversList EXCEPT ![l] = 0]
            /\ m_routes' = RoutesMap!removeByRight(m_routes, l)
            /\ m_listenerRoutes' = IF HasValue(m_listenerRoutes, l)
                                   THEN RemoveKeyOf(m_listenerRoutes, l, NULL)
                                   ELSE m_listenerRoutes
    /\ UNCHANGED m_clientRoutes

registerClient(c, r) ==
    LET ok == /\ c # 0
              /\ m_clientRoutes[r] = 0
              /\ ~HasValue(m_clientRoutes, c)
              /\ ~RoutesMap!containsLeft(m_routes, c)
        listener == m_listenerRoutes[r]
    IN
    /\ last' = [op |-> "registerClient", ok |-> ok]
    /\ m_clientRoutes' = IF ok THEN [m_clientRoutes EXCEPT ![r] = c]
                               ELSE m_clientRoutes
    /\ m_routes' = IF /\ ok
                      /\ listener # NULL
                      /\ ~RoutesMap!containsRight(m_routes, listener)
                   THEN RoutesMap!insert(m_routes, c, listener)
                   ELSE m_routes
    /\ UNCHANGED <<m_listenerRoutes, m_receiversList>>

\* Also the slot of clientDisconnected: a lost connection deregisters.
deregisterClient(c) ==
    /\ last' = [op |-> "deregisterClient", ok |-> c # 0]
    /\ IF c = 0
       THEN UNCHANGED <<m_routes, m_clientRoutes>>
       ELSE /\ m_routes' = RoutesMap!removeByLeft(m_routes, c)
            /\ m_clientRoutes' = IF HasValue(m_clientRoutes, c)
                                 THEN RemoveKeyOf(m_clientRoutes, c, 0)
                                 ELSE m_clientRoutes
    /\ UNCHANGED <<m_listenerRoutes, m_receiversList>>

dispatch(c) ==
    /\ last' = [op |-> "dispatch", id |-> c,
                to |-> IF c = 0 THEN m_receiversList
                       ELSE IF RoutesMap!containsLeft(m_routes, c)
                            THEN {RoutesMap!RightOf(m_routes, c)}
                            ELSE {}]
    /\ UNCHANGED <<m_routes, m_clientRoutes, m_listenerRoutes, m_receiversList>>

internalCall(sender) ==
    /\ last' = [op |-> "call", sender |-> sender,
                to |-> IF sender = NULL THEN Clients
                       ELSE IF RoutesMap!containsRight(m_routes, sender)
                            THEN {RoutesMap!LeftOf(m_routes, sender)}
                            ELSE {}]
    /\ UNCHANGED <<m_routes, m_clientRoutes, m_listenerRoutes, m_receiversList>>

Next ==
    \/ \E l \in Listeners \cup {NULL}, r \in Routes : registerReceiver(l, r)
    \/ \E l \in Listeners \cup {NULL} : deregisterReceiver(l)
    \/ \E c \in Clients \cup {0}, r \in Routes : registerClient(c, r)
    \/ \E c \in Clients \cup {0} : deregisterClient(c)
    \/ \E c \in Clients \cup {0} : dispatch(c)
    \/ \E l \in Listeners \cup {NULL} : internalCall(l)

Spec == Init /\ [][Next]_vars

----------------------------------------------------------------------------
\* Properties

\* The two halves of m_routes never disagree, so the Q_ASSERTs of BiMap hold
\* in removeByLeft() and removeByRight() whatever the order of registrations.
RoutesOneToOne == RoutesMap!OneToOne(m_routes)

\* A client holds at most one route and a listener at most one: what makes
\* QMap::key() in the two deregister operations find the only entry there is.
OneRouteEach ==
    \A r, s \in Routes :
        /\ m_clientRoutes[r] # 0 /\ m_clientRoutes[r] = m_clientRoutes[s] => r = s
        /\ m_listenerRoutes[r] # NULL /\ m_listenerRoutes[r] = m_listenerRoutes[s]
              => r = s

\* The cache is exact: a client and a listener are linked in m_routes if and
\* only if they are registered for the same route now, whichever of the two
\* came first and whatever was deregistered in between.
RoutesAreJoin ==
    \A c \in Clients, l \in Listeners :
        m_routes.m_left[c] = l <=>
            \E r \in Routes : m_clientRoutes[r] = c /\ m_listenerRoutes[r] = l

\* A listener that is registered already is refused ("@return false, if route id or
\* listener already registered", RpcRoutedServer.h), so that no listener is enrolled
\* twice and hears a broadcast twice.
EnrolledOnce == \A l \in Listeners : m_receiversList[l] <= 1

\* The server implements the route table that has no cache at all.
Table == INSTANCE RouteTable WITH clientAt <- m_clientRoutes,
                                  listenerAt <- m_listenerRoutes,
                                  audience <- m_receiversList

\* Every operation of the server is the route table's operation with the same
\* outcome and the same recipients: the cache m_routes is never observable.
ImplementsRouteTable == Table!Spec
==============================================================================
