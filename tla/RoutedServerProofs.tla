-------------------------- MODULE RoutedServerProofs --------------------------
(***************************************************************************)
(* Proofs about RoutedServer for every set of clients, listeners and        *)
(* routes.                                                                  *)
(***************************************************************************)
EXTENDS RoutedServer, TLAPS

\* None of the invariants is inductive alone: that a registration may skip the
\* containsLeft / containsRight tests of the cache, or that QMap::key() hits the
\* right entry, needs the other two.
RoutingInv ==
    /\ TypeOK
    /\ RoutesOneToOne
    /\ OneRouteEach
    /\ RoutesAreJoin

\* QMap::remove(QMap::key(v)): with v at one key only, it clears that key and
\* leaves every other entry alone.
LEMMA RemoveKeyOfUnique ==
    ASSUME NEW map, NEW default, NEW v, NEW r \in Routes, map[r] = v,
           \A s \in Routes : map[s] = v => s = r
    PROVE  RemoveKeyOf(map, v, default) = [map EXCEPT ![r] = default]
<1> DEFINE First(k) == map[k] = v /\ \A s \in Routes : map[s] = v => k <= s
<1>1. First(r)
  BY RoutedServerAssumption
<1>2. \A k \in Routes : First(k) => k = r
  OBVIOUS
<1>3. (CHOOSE k \in Routes : First(k)) = r
  BY <1>1, <1>2
<1> QED
  BY <1>3 DEF RemoveKeyOf

\* The empty server satisfies the invariant.
LEMMA InitRouting == Init => RoutingInv
  BY RoutedServerAssumption DEF Init, RoutingInv, TypeOK, RoutesOneToOne, OneRouteEach, RoutesAreJoin,
     RoutesMap!BiMaps, RoutesMap!EmptyBiMap, RoutesMap!OneToOne

\* registerReceiver preserves the invariant: the client found at the new
\* route cannot be linked already, so the insertion is never refused.
LEMMA RegisterReceiverRouting ==
    ASSUME RoutingInv, NEW l \in Listeners \cup {NULL}, NEW r \in Routes,
           registerReceiver(l, r)
    PROVE  RoutingInv'
<1> USE RoutedServerAssumption
<1> DEFINE ok == /\ l # NULL
                 /\ m_listenerRoutes[r] = NULL
                 /\ ~HasValue(m_listenerRoutes, l)
                 /\ ~RoutesMap!containsRight(m_routes, l)
           client == m_clientRoutes[r]
<1>1. CASE ~ok
  <2>1. UNCHANGED <<m_routes, m_clientRoutes, m_listenerRoutes, m_receiversList>>
    BY <1>1 DEF registerReceiver
  <2> QED
    BY <2>1 DEF RoutingInv, TypeOK, RoutesOneToOne, OneRouteEach, RoutesAreJoin,
       RoutesMap!OneToOne, RoutesMap!BiMaps
<1>2. CASE ok /\ r = 0
  <2>1. /\ l \in Listeners
        /\ UNCHANGED <<m_routes, m_clientRoutes, m_listenerRoutes>>
        /\ m_receiversList' = [m_receiversList EXCEPT ![l] = @ + 1]
        /\ m_receiversList[l] < MaxReceivers
    BY <1>2 DEF registerReceiver
  <2> QED
    BY <2>1 DEF RoutingInv, TypeOK, RoutesOneToOne, OneRouteEach, RoutesAreJoin,
       RoutesMap!OneToOne, RoutesMap!BiMaps
<1>3. CASE ok /\ r # 0
  <2>1. /\ l \in Listeners
        /\ m_receiversList' = [m_receiversList EXCEPT ![l] = @ + 1]
        /\ m_receiversList[l] < MaxReceivers
        /\ m_listenerRoutes' = [m_listenerRoutes EXCEPT ![r] = l]
        /\ m_clientRoutes' = m_clientRoutes
    BY <1>3 DEF registerReceiver
  <2>2. \A c \in Clients : m_clientRoutes[r] = c => m_routes.m_left[c] = NULL
    BY <1>3 DEF RoutingInv, TypeOK, OneRouteEach, RoutesAreJoin, RoutesMap!BiMaps
  <2>3. m_routes' = IF client # 0
                    THEN [m_left  |-> [m_routes.m_left EXCEPT ![client] = l],
                          m_right |-> [m_routes.m_right EXCEPT ![l] = client]]
                    ELSE m_routes
    BY <1>3, <2>2 DEF registerReceiver, RoutesMap!insert, RoutesMap!containsLeft,
       RoutesMap!containsRight, RoutingInv, TypeOK
  <2>4. TypeOK'
    BY <2>1, <2>3 DEF RoutingInv, TypeOK, RoutesMap!BiMaps
  <2>5. RoutesOneToOne'
    BY <1>3, <2>1, <2>2, <2>3 DEF RoutingInv, TypeOK, RoutesOneToOne,
       RoutesMap!OneToOne, RoutesMap!BiMaps, RoutesMap!containsRight
  <2>6. OneRouteEach'
    BY <1>3, <2>1 DEF RoutingInv, TypeOK, OneRouteEach, HasValue
  <2>7. RoutesAreJoin'
    BY <1>3, <2>1, <2>2, <2>3 DEF RoutingInv, TypeOK, RoutesAreJoin, OneRouteEach,
       HasValue, RoutesMap!BiMaps, RoutesMap!containsRight
  <2> QED
    BY <2>4, <2>5, <2>6, <2>7 DEF RoutingInv
<1> QED
  BY <1>1, <1>2, <1>3

\* With the listener linked or not, deregisterReceiver clears exactly the
\* listener's entries: the one in m_listenerRoutes and the one in m_routes.
LEMMA DeregisterReceiverEffect ==
    ASSUME RoutingInv, NEW l \in Listeners, deregisterReceiver(l)
    PROVE  /\ m_listenerRoutes' = [r \in Routes |->
                  IF m_listenerRoutes[r] = l THEN NULL ELSE m_listenerRoutes[r]]
           /\ m_routes'.m_left = [c \in Clients |->
                  IF m_routes.m_left[c] = l THEN NULL ELSE m_routes.m_left[c]]
           /\ m_routes'.m_right = [m_routes.m_right EXCEPT ![l] = 0]
           /\ m_routes' = [m_left |-> m_routes'.m_left, m_right |-> m_routes'.m_right]
           /\ m_receiversList' = [m_receiversList EXCEPT ![l] = 0]
           /\ m_clientRoutes' = m_clientRoutes
<1> USE RoutedServerAssumption
<1>1. /\ m_receiversList' = [m_receiversList EXCEPT ![l] = 0]
      /\ m_clientRoutes' = m_clientRoutes
      /\ m_routes' = RoutesMap!removeByRight(m_routes, l)
      /\ m_listenerRoutes' = IF HasValue(m_listenerRoutes, l)
                             THEN RemoveKeyOf(m_listenerRoutes, l, NULL)
                             ELSE m_listenerRoutes
  BY DEF deregisterReceiver
<1>2. m_listenerRoutes' = [r \in Routes |->
           IF m_listenerRoutes[r] = l THEN NULL ELSE m_listenerRoutes[r]]
  <2>1. CASE HasValue(m_listenerRoutes, l)
    <3>1. PICK r \in Routes : m_listenerRoutes[r] = l
      BY <2>1 DEF HasValue
    <3>2. \A s \in Routes : m_listenerRoutes[s] = l => s = r
      BY <3>1 DEF RoutingInv, OneRouteEach
    <3>3. m_listenerRoutes \in [Routes -> Listeners \cup {NULL}]
      BY DEF RoutingInv, TypeOK
    <3>4. RemoveKeyOf(m_listenerRoutes, l, NULL) = [m_listenerRoutes EXCEPT ![r] = NULL]
      BY <3>1, <3>2, <3>3, RemoveKeyOfUnique
    <3> QED
      BY <1>1, <2>1, <3>1, <3>2, <3>3, <3>4
  <2>2. CASE ~HasValue(m_listenerRoutes, l)
    BY <1>1, <2>2 DEF HasValue, RoutingInv, TypeOK
  <2> QED
    BY <2>1, <2>2
<1>3. /\ m_routes'.m_left = [c \in Clients |->
             IF m_routes.m_left[c] = l THEN NULL ELSE m_routes.m_left[c]]
      /\ m_routes'.m_right = [m_routes.m_right EXCEPT ![l] = 0]
      /\ m_routes' = [m_left |-> m_routes'.m_left, m_right |-> m_routes'.m_right]
  <2>1. CASE m_routes.m_right[l] = 0
    <3>1. m_routes' = m_routes
      BY <1>1, <2>1 DEF RoutesMap!removeByRight, RoutesMap!containsRight
    <3>2. \A c \in Clients : m_routes.m_left[c] # l
      BY <2>1 DEF RoutingInv, RoutesOneToOne, RoutesMap!OneToOne
    <3> QED
      BY <2>1, <3>1, <3>2 DEF RoutingInv, TypeOK, RoutesMap!BiMaps
  <2>2. CASE m_routes.m_right[l] # 0
    <3> DEFINE c0 == m_routes.m_right[l]
    <3>1. c0 \in Clients /\ \A c \in Clients : m_routes.m_left[c] = l <=> c = c0
      BY <2>2 DEF RoutingInv, TypeOK, RoutesOneToOne, RoutesMap!OneToOne, RoutesMap!BiMaps
    <3>2. m_routes' = [m_left  |-> [m_routes.m_left EXCEPT ![c0] = NULL],
                       m_right |-> [m_routes.m_right EXCEPT ![l] = 0]]
      BY <1>1, <2>2 DEF RoutesMap!removeByRight, RoutesMap!containsRight, RoutesMap!LeftOf
    <3> QED
      BY <3>1, <3>2 DEF RoutingInv, TypeOK, RoutesMap!BiMaps
  <2> QED
    BY <2>1, <2>2
<1> QED
  BY <1>1, <1>2, <1>3

\* deregisterReceiver preserves the invariant.
LEMMA DeregisterReceiverRouting ==
    ASSUME RoutingInv, NEW l \in Listeners \cup {NULL}, deregisterReceiver(l)
    PROVE  RoutingInv'
<1> USE RoutedServerAssumption
<1>1. CASE l = NULL
  BY <1>1 DEF deregisterReceiver, RoutingInv, TypeOK, RoutesOneToOne, OneRouteEach,
     RoutesAreJoin, RoutesMap!OneToOne, RoutesMap!BiMaps
<1>2. CASE l \in Listeners
  <2>0. /\ m_listenerRoutes' = [r \in Routes |->
               IF m_listenerRoutes[r] = l THEN NULL ELSE m_listenerRoutes[r]]
        /\ m_routes'.m_left = [c \in Clients |->
               IF m_routes.m_left[c] = l THEN NULL ELSE m_routes.m_left[c]]
        /\ m_routes'.m_right = [m_routes.m_right EXCEPT ![l] = 0]
        /\ m_routes' = [m_left |-> m_routes'.m_left, m_right |-> m_routes'.m_right]
        /\ m_receiversList' = [m_receiversList EXCEPT ![l] = 0]
        /\ m_clientRoutes' = m_clientRoutes
    BY <1>2, DeregisterReceiverEffect
  <2>1. TypeOK'
    BY <1>2, <2>0 DEF RoutingInv, TypeOK, RoutesMap!BiMaps
  <2>2. RoutesOneToOne'
    BY <1>2, <2>0 DEF RoutingInv, TypeOK, RoutesOneToOne,
       RoutesMap!OneToOne, RoutesMap!BiMaps
  <2>3. OneRouteEach'
    BY <1>2, <2>0 DEF RoutingInv, TypeOK, OneRouteEach
  <2>4. RoutesAreJoin'
    BY <1>2, <2>0 DEF RoutingInv, TypeOK, RoutesAreJoin,
       RoutesMap!BiMaps
  <2> QED
    BY <2>1, <2>2, <2>3, <2>4 DEF RoutingInv
<1> QED
  BY <1>1, <1>2

\* registerClient preserves the invariant: the listener found at the new
\* route cannot be linked already.
LEMMA RegisterClientRouting ==
    ASSUME RoutingInv, NEW c \in Clients \cup {0}, NEW r \in Routes,
           registerClient(c, r)
    PROVE  RoutingInv'
<1> USE RoutedServerAssumption
<1> DEFINE ok == /\ c # 0
                 /\ m_clientRoutes[r] = 0
                 /\ ~HasValue(m_clientRoutes, c)
                 /\ ~RoutesMap!containsLeft(m_routes, c)
           listener == m_listenerRoutes[r]
<1>1. CASE ~ok
  <2>1. UNCHANGED <<m_routes, m_clientRoutes, m_listenerRoutes, m_receiversList>>
    BY <1>1 DEF registerClient
  <2> QED
    BY <2>1 DEF RoutingInv, TypeOK, RoutesOneToOne, OneRouteEach, RoutesAreJoin,
       RoutesMap!OneToOne, RoutesMap!BiMaps
<1>2. CASE ok
  <2>1. /\ c \in Clients
        /\ m_clientRoutes' = [m_clientRoutes EXCEPT ![r] = c]
        /\ UNCHANGED <<m_listenerRoutes, m_receiversList>>
    BY <1>2 DEF registerClient
  <2>2. \A l \in Listeners : m_listenerRoutes[r] = l => m_routes.m_right[l] = 0
    <3> SUFFICES ASSUME NEW l \in Listeners, m_listenerRoutes[r] = l,
                        m_routes.m_right[l] # 0
                 PROVE  FALSE
      OBVIOUS
    <3> DEFINE d == m_routes.m_right[l]
    <3>0. d \in Clients
      BY DEF RoutingInv, TypeOK, RoutesMap!BiMaps
    <3>1. m_routes.m_left[d] = l
      BY <3>0 DEF RoutingInv, RoutesOneToOne, RoutesMap!OneToOne
    <3>2. PICK s \in Routes : m_clientRoutes[s] = d /\ m_listenerRoutes[s] = l
      BY <3>0, <3>1 DEF RoutingInv, RoutesAreJoin
    <3>3. s = r
      BY <3>2 DEF RoutingInv, OneRouteEach
    <3> QED
      BY <1>2, <3>0, <3>2, <3>3
  <2>3. m_routes' = IF listener # NULL
                    THEN [m_left  |-> [m_routes.m_left EXCEPT ![c] = listener],
                          m_right |-> [m_routes.m_right EXCEPT ![listener] = c]]
                    ELSE m_routes
    BY <1>2, <2>2 DEF registerClient, RoutesMap!insert, RoutesMap!containsLeft,
       RoutesMap!containsRight, RoutingInv, TypeOK
  <2>4. TypeOK'
    BY <2>1, <2>3 DEF RoutingInv, TypeOK, RoutesMap!BiMaps
  <2>5. RoutesOneToOne'
    BY <1>2, <2>1, <2>2, <2>3 DEF RoutingInv, TypeOK, RoutesOneToOne,
       RoutesMap!OneToOne, RoutesMap!BiMaps, RoutesMap!containsLeft
  <2>6. OneRouteEach'
    BY <1>2, <2>1 DEF RoutingInv, TypeOK, OneRouteEach, HasValue
  <2>7. RoutesAreJoin'
    BY <1>2, <2>1, <2>2, <2>3 DEF RoutingInv, TypeOK, RoutesAreJoin, OneRouteEach,
       HasValue, RoutesMap!BiMaps, RoutesMap!containsLeft
  <2> QED
    BY <2>4, <2>5, <2>6, <2>7 DEF RoutingInv
<1> QED
  BY <1>1, <1>2


\* With the client linked or not, deregisterClient clears exactly the
\* client's entries.
LEMMA DeregisterClientEffect ==
    ASSUME RoutingInv, NEW c \in Clients, deregisterClient(c)
    PROVE  /\ m_clientRoutes' = [r \in Routes |->
                  IF m_clientRoutes[r] = c THEN 0 ELSE m_clientRoutes[r]]
           /\ m_routes'.m_right = [l \in Listeners |->
                  IF m_routes.m_right[l] = c THEN 0 ELSE m_routes.m_right[l]]
           /\ m_routes'.m_left = [m_routes.m_left EXCEPT ![c] = NULL]
           /\ m_routes' = [m_left |-> m_routes'.m_left, m_right |-> m_routes'.m_right]
           /\ m_receiversList' = m_receiversList
           /\ m_listenerRoutes' = m_listenerRoutes
<1> USE RoutedServerAssumption
<1>1. /\ m_receiversList' = m_receiversList
      /\ m_listenerRoutes' = m_listenerRoutes
      /\ m_routes' = RoutesMap!removeByLeft(m_routes, c)
      /\ m_clientRoutes' = IF HasValue(m_clientRoutes, c)
                           THEN RemoveKeyOf(m_clientRoutes, c, 0)
                           ELSE m_clientRoutes
  BY DEF deregisterClient
<1>2. m_clientRoutes' = [r \in Routes |->
           IF m_clientRoutes[r] = c THEN 0 ELSE m_clientRoutes[r]]
  <2>1. CASE HasValue(m_clientRoutes, c)
    <3>1. PICK r \in Routes : m_clientRoutes[r] = c
      BY <2>1 DEF HasValue
    <3>2. \A s \in Routes : m_clientRoutes[s] = c => s = r
      BY <3>1 DEF RoutingInv, OneRouteEach
    <3>3. m_clientRoutes \in [Routes -> Clients \cup {0}]
      BY DEF RoutingInv, TypeOK
    <3>4. RemoveKeyOf(m_clientRoutes, c, 0) = [m_clientRoutes EXCEPT ![r] = 0]
      BY <3>1, <3>2, RemoveKeyOfUnique
    <3> QED
      BY <1>1, <2>1, <3>1, <3>2, <3>3, <3>4
  <2>2. CASE ~HasValue(m_clientRoutes, c)
    BY <1>1, <2>2 DEF HasValue, RoutingInv, TypeOK
  <2> QED
    BY <2>1, <2>2
<1>3. /\ m_routes'.m_right = [l \in Listeners |->
             IF m_routes.m_right[l] = c THEN 0 ELSE m_routes.m_right[l]]
      /\ m_routes'.m_left = [m_routes.m_left EXCEPT ![c] = NULL]
      /\ m_routes' = [m_left |-> m_routes'.m_left, m_right |-> m_routes'.m_right]
  <2>1. CASE m_routes.m_left[c] = NULL
    <3>1. m_routes' = m_routes
      BY <1>1, <2>1 DEF RoutesMap!removeByLeft, RoutesMap!containsLeft
    <3>2. \A l \in Listeners : m_routes.m_right[l] # c
      BY <2>1 DEF RoutingInv, RoutesOneToOne, RoutesMap!OneToOne
    <3> QED
      BY <2>1, <3>1, <3>2 DEF RoutingInv, TypeOK, RoutesMap!BiMaps
  <2>2. CASE m_routes.m_left[c] # NULL
    <3> DEFINE l0 == m_routes.m_left[c]
    <3>1. l0 \in Listeners /\ \A l \in Listeners : m_routes.m_right[l] = c <=> l = l0
      BY <2>2 DEF RoutingInv, TypeOK, RoutesOneToOne, RoutesMap!OneToOne, RoutesMap!BiMaps
    <3>2. m_routes' = [m_left  |-> [m_routes.m_left EXCEPT ![c] = NULL],
                       m_right |-> [m_routes.m_right EXCEPT ![l0] = 0]]
      BY <1>1, <2>2 DEF RoutesMap!removeByLeft, RoutesMap!containsLeft, RoutesMap!RightOf
    <3> QED
      BY <3>1, <3>2 DEF RoutingInv, TypeOK, RoutesMap!BiMaps
  <2> QED
    BY <2>1, <2>2
<1> QED
  BY <1>1, <1>2, <1>3

\* deregisterClient, also on a lost connection, preserves the invariant.
LEMMA DeregisterClientRouting ==
    ASSUME RoutingInv, NEW c \in Clients \cup {0}, deregisterClient(c)
    PROVE  RoutingInv'
<1> USE RoutedServerAssumption
<1>1. CASE c = 0
  BY <1>1 DEF deregisterClient, RoutingInv, TypeOK, RoutesOneToOne, OneRouteEach,
     RoutesAreJoin, RoutesMap!OneToOne, RoutesMap!BiMaps
<1>2. CASE c \in Clients
  <2>0. /\ m_clientRoutes' = [r \in Routes |->
               IF m_clientRoutes[r] = c THEN 0 ELSE m_clientRoutes[r]]
        /\ m_routes'.m_right = [l \in Listeners |->
               IF m_routes.m_right[l] = c THEN 0 ELSE m_routes.m_right[l]]
        /\ m_routes'.m_left = [m_routes.m_left EXCEPT ![c] = NULL]
        /\ m_routes' = [m_left |-> m_routes'.m_left, m_right |-> m_routes'.m_right]
        /\ m_receiversList' = m_receiversList
        /\ m_listenerRoutes' = m_listenerRoutes
    BY <1>2, DeregisterClientEffect
  <2>1. TypeOK'
    BY <1>2, <2>0 DEF RoutingInv, TypeOK, RoutesMap!BiMaps
  <2>2. RoutesOneToOne'
    BY <1>2, <2>0 DEF RoutingInv, TypeOK, RoutesOneToOne,
       RoutesMap!OneToOne, RoutesMap!BiMaps
  <2>3. OneRouteEach'
    BY <1>2, <2>0 DEF RoutingInv, TypeOK, OneRouteEach
  <2>4. RoutesAreJoin'
    BY <1>2, <2>0 DEF RoutingInv, TypeOK, RoutesAreJoin, RoutesMap!BiMaps
  <2> QED
    BY <2>1, <2>2, <2>3, <2>4 DEF RoutingInv
<1> QED
  BY <1>1, <1>2

\* One step of the server preserves the invariant.
LEMMA NextRouting == RoutingInv /\ [Next]_vars => RoutingInv'
<1> SUFFICES ASSUME RoutingInv, [Next]_vars PROVE RoutingInv'
  OBVIOUS
<1>1. ASSUME NEW l \in Listeners \cup {NULL}, NEW r \in Routes, registerReceiver(l, r)
      PROVE  RoutingInv'
  BY <1>1, RegisterReceiverRouting
<1>2. ASSUME NEW l \in Listeners \cup {NULL}, deregisterReceiver(l)
      PROVE  RoutingInv'
  BY <1>2, DeregisterReceiverRouting
<1>3. ASSUME NEW c \in Clients \cup {0}, NEW r \in Routes, registerClient(c, r)
      PROVE  RoutingInv'
  BY <1>3, RegisterClientRouting
<1>4. ASSUME NEW c \in Clients \cup {0}, deregisterClient(c)
      PROVE  RoutingInv'
  BY <1>4, DeregisterClientRouting
<1>5. CASE UNCHANGED <<m_routes, m_clientRoutes, m_listenerRoutes, m_receiversList>>
  BY <1>5 DEF RoutingInv, TypeOK, RoutesOneToOne, OneRouteEach, RoutesAreJoin,
     RoutesMap!OneToOne, RoutesMap!BiMaps
<1>6. ASSUME NEW c \in Clients \cup {0}, dispatch(c)
      PROVE  RoutingInv'
  BY <1>5, <1>6 DEF dispatch
<1>7. ASSUME NEW l \in Listeners \cup {NULL}, internalCall(l)
      PROVE  RoutingInv'
  BY <1>5, <1>7 DEF internalCall
<1>8. CASE UNCHANGED vars
  BY <1>5, <1>8 DEF vars
<1> QED
  BY <1>1, <1>2, <1>3, <1>4, <1>6, <1>7, <1>8 DEF Next

\* RpcRoutedServer routes exactly: for any clients, listeners and routes, and any
\* order of registrations, deregistrations and disconnections, m_routes links a
\* client and a listener if and only if they hold the same route.
THEOREM RoutingIsExact == Spec => [](RoutesOneToOne /\ OneRouteEach /\ RoutesAreJoin)
<1>1. RoutingInv => RoutesOneToOne /\ OneRouteEach /\ RoutesAreJoin
  BY DEF RoutingInv
<1> QED
  BY <1>1, InitRouting, NextRouting, PTL DEF Spec


\* The registrations and both halves of the cache keep their types: no operation
\* stores the default value of the other side.
THEOREM RoutingTypeCorrect == Spec => []TypeOK
<1>1. RoutingInv => TypeOK
  BY DEF RoutingInv
<1> QED
  BY <1>1, InitRouting, NextRouting, PTL DEF Spec

\* The two QMaps of BiMap stay inverse to each other.
THEOREM CacheStaysOneToOne == Spec => []RoutesOneToOne
<1>1. RoutesOneToOne /\ OneRouteEach /\ RoutesAreJoin => RoutesOneToOne
  OBVIOUS
<1> QED
  BY <1>1, RoutingIsExact, PTL

\* Nobody ever holds two routes, so QMap::key() finds the only entry.
THEOREM EachHoldsOneRoute == Spec => []OneRouteEach
<1>1. RoutesOneToOne /\ OneRouteEach /\ RoutesAreJoin => OneRouteEach
  OBVIOUS
<1> QED
  BY <1>1, RoutingIsExact, PTL


\* A step of the server is the same step of the route table.
LEMMA NextRefines == RoutingInv /\ [Next]_vars => [Table!Next]_(Table!vars)
<1> SUFFICES ASSUME RoutingInv, [Next]_vars PROVE [Table!Next]_(Table!vars)
  OBVIOUS
<1> USE RoutedServerAssumption
<1>1. ASSUME NEW l \in Listeners \cup {NULL}, NEW r \in Routes, registerReceiver(l, r)
      PROVE  Table!Next
  <2>1. CASE l = NULL
    <3>1. Table!Refuse("registerReceiver")
      BY <1>1, <2>1 DEF registerReceiver, Table!Refuse
    <3> QED
      BY <3>1 DEF Table!Next
  <2>2. CASE l \in Listeners
    <3>1. ~HasValue(m_listenerRoutes, l) => ~RoutesMap!containsRight(m_routes, l)
      <4> SUFFICES ASSUME RoutesMap!containsRight(m_routes, l)
                   PROVE  HasValue(m_listenerRoutes, l)
        OBVIOUS
      <4>1. m_routes.m_right[l] \in Clients
        BY <2>2 DEF RoutesMap!containsRight, RoutingInv, TypeOK, RoutesMap!BiMaps
      <4>2. m_routes.m_left[m_routes.m_right[l]] = l
        BY <2>2, <4>1 DEF RoutingInv, RoutesOneToOne, RoutesMap!OneToOne
      <4> QED
        BY <2>2, <4>1, <4>2 DEF RoutingInv, RoutesAreJoin, HasValue
    <3>2. Table!SeatListener(l, r)
      BY <1>1, <2>2, <3>1 DEF registerReceiver, Table!SeatListener, Table!Seated, HasValue
    <3> QED
      BY <2>2, <3>2 DEF Table!Next
  <2> QED
    BY <2>1, <2>2
<1>2. ASSUME NEW l \in Listeners \cup {NULL}, deregisterReceiver(l)
      PROVE  Table!Next
  <2>1. CASE l = NULL
    <3>1. Table!Refuse("deregisterReceiver")
      BY <1>2, <2>1 DEF deregisterReceiver, Table!Refuse
    <3> QED
      BY <3>1 DEF Table!Next
  <2>2. CASE l \in Listeners
    <3>1. Table!UnseatListener(l)
      <4>1. last' = [op |-> "deregisterReceiver", ok |-> TRUE]
        BY <1>2, <2>2 DEF deregisterReceiver
      <4> QED
        BY <1>2, <2>2, <4>1, DeregisterReceiverEffect DEF Table!UnseatListener
    <3> QED
      BY <2>2, <3>1 DEF Table!Next
  <2> QED
    BY <2>1, <2>2
<1>3. ASSUME NEW c \in Clients \cup {0}, NEW r \in Routes, registerClient(c, r)
      PROVE  Table!Next
  <2>1. CASE c = 0
    <3>1. Table!Refuse("registerClient")
      BY <1>3, <2>1 DEF registerClient, Table!Refuse
    <3> QED
      BY <3>1 DEF Table!Next
  <2>2. CASE c \in Clients
    <3>1. ~HasValue(m_clientRoutes, c) => ~RoutesMap!containsLeft(m_routes, c)
      BY <2>2 DEF RoutesMap!containsLeft, RoutingInv, TypeOK, RoutesMap!BiMaps,
         RoutesAreJoin, HasValue
    <3>2. Table!SeatClient(c, r)
      BY <1>3, <2>2, <3>1 DEF registerClient, Table!SeatClient, Table!Seated, HasValue
    <3> QED
      BY <2>2, <3>2 DEF Table!Next
  <2> QED
    BY <2>1, <2>2
<1>4. ASSUME NEW c \in Clients \cup {0}, deregisterClient(c)
      PROVE  Table!Next
  <2>1. CASE c = 0
    <3>1. Table!Refuse("deregisterClient")
      BY <1>4, <2>1 DEF deregisterClient, Table!Refuse
    <3> QED
      BY <3>1 DEF Table!Next
  <2>2. CASE c \in Clients
    <3>1. Table!UnseatClient(c)
      <4>1. last' = [op |-> "deregisterClient", ok |-> TRUE]
        BY <1>4, <2>2 DEF deregisterClient
      <4> QED
        BY <1>4, <2>2, <4>1, DeregisterClientEffect DEF Table!UnseatClient
    <3> QED
      BY <2>2, <3>1 DEF Table!Next
  <2> QED
    BY <2>1, <2>2
<1>5. ASSUME NEW c \in Clients \cup {0}, dispatch(c)
      PROVE  Table!Next
  <2>1. CASE c = 0
    <3>1. Table!HearAll
      BY <1>5, <2>1 DEF dispatch, Table!HearAll
    <3> QED
      BY <3>1 DEF Table!Next
  <2>2. CASE c \in Clients
    <3>1. {l \in Listeners : \E r \in Routes : m_clientRoutes[r] = c /\ m_listenerRoutes[r] = l}
            = {l \in Listeners : m_routes.m_left[c] = l}
      BY <2>2 DEF RoutingInv, RoutesAreJoin
    <3>2. {l \in Listeners : m_routes.m_left[c] = l}
            = IF m_routes.m_left[c] # NULL THEN {m_routes.m_left[c]} ELSE {}
      BY <2>2 DEF RoutingInv, TypeOK, RoutesMap!BiMaps
    <3>3. Table!Hear(c)
      BY <1>5, <2>2, <3>1, <3>2 DEF dispatch, Table!Hear, RoutesMap!containsLeft, RoutesMap!RightOf
    <3> QED
      BY <2>2, <3>3 DEF Table!Next
  <2> QED
    BY <2>1, <2>2
<1>6. ASSUME NEW l \in Listeners \cup {NULL}, internalCall(l)
      PROVE  Table!Next
  <2>1. CASE l = NULL
    <3>1. Table!SpeakAll
      BY <1>6, <2>1 DEF internalCall, Table!SpeakAll
    <3> QED
      BY <3>1 DEF Table!Next
  <2>2. CASE l \in Listeners
    <3>1. {c \in Clients : \E r \in Routes : m_clientRoutes[r] = c /\ m_listenerRoutes[r] = l}
            = {c \in Clients : m_routes.m_right[l] = c}
      <4>1. \A c \in Clients : m_routes.m_left[c] = l <=> m_routes.m_right[l] = c
        BY <2>2 DEF RoutingInv, RoutesOneToOne, RoutesMap!OneToOne
      <4>2. \A c \in Clients : m_routes.m_left[c] = l <=>
              \E r \in Routes : m_clientRoutes[r] = c /\ m_listenerRoutes[r] = l
        BY <2>2 DEF RoutingInv, RoutesAreJoin
      <4> QED
        BY <4>1, <4>2
    <3>2. {c \in Clients : m_routes.m_right[l] = c}
            = IF m_routes.m_right[l] # 0 THEN {m_routes.m_right[l]} ELSE {}
      BY <2>2 DEF RoutingInv, TypeOK, RoutesMap!BiMaps
    <3>3. Table!Speak(l)
      BY <1>6, <2>2, <3>1, <3>2 DEF internalCall, Table!Speak, RoutesMap!containsRight, RoutesMap!LeftOf
    <3> QED
      BY <2>2, <3>3 DEF Table!Next
  <2> QED
    BY <2>1, <2>2
<1>7. CASE UNCHANGED vars
  BY <1>7 DEF vars, Table!vars
<1> QED
  BY <1>1, <1>2, <1>3, <1>4, <1>5, <1>6, <1>7 DEF Next

\* The server implements the route table without a cache: the outcome and the
\* recipients of every operation are those the registrations alone determine.
THEOREM ServerImplementsRouteTable == Spec => ImplementsRouteTable
<1>1. Init => Table!Init
  BY DEF Init, Table!Init
<1>2. RoutingInv /\ [Next]_vars => [Table!Next]_(Table!vars)
  BY NextRefines
<1> QED
  BY <1>1, <1>2, InitRouting, NextRouting, PTL
     DEF Spec, ImplementsRouteTable, Table!Spec

==============================================================================
