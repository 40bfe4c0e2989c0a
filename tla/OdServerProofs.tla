---------------------------- MODULE OdServerProofs ----------------------------
(***************************************************************************)
(* Proofs about OdServer for any number of connections, addresses, devices  *)
(* and messages.                                                            *)
(***************************************************************************)
EXTENDS OdServer, FiniteSetTheorems, SequenceTheorems, TLAPS

----------------------------------------------------------------------------
\* Subscriber::remove_subscription() on a vector without repetitions.

\* With one position p left out, position i is the i-th or the (i-1)-th.
LEMMA CountWithout ==
    ASSUME NEW n \in Nat, NEW p \in 1 .. n, NEW i \in 1 .. n
    PROVE  Cardinality((1 .. n \ {p}) \cap 1 .. i) = IF i < p THEN i ELSE i - 1
<1>1. IsFiniteSet(1 .. i) /\ Cardinality(1 .. i) = i
  BY FS_Interval
<1>2. CASE i < p
  <2>1. (1 .. n \ {p}) \cap 1 .. i = 1 .. i
    BY <1>2
  <2> QED
    BY <1>1, <1>2, <2>1
<1>3. CASE ~(i < p)
  <2>1. (1 .. n \ {p}) \cap 1 .. i = 1 .. i \ {p} /\ p \in 1 .. i
    BY <1>3
  <2>2. Cardinality(1 .. i \ {p}) = i - 1
    BY <1>1, <2>1, FS_RemoveElement
  <2> QED
    BY <1>3, <2>1, <2>2
<1> QED
  BY <1>2, <1>3

\* The loop removes the address wherever it is: the element it steps over is
\* another one.
LEMMA KeptPositions ==
    ASSUME NEW vec \in Seq(Addrs), IsInjective(vec), NEW a
    PROVE  Kept(vec, a) = {i \in DOMAIN vec : vec[i] # a}
<1> DEFINE Run(i) == {j \in 1 .. i : \A k \in j .. i : vec[k] = a}
<1>0. Len(vec) \in Nat /\ DOMAIN vec = 1 .. Len(vec)
  BY LenProperties
<1>1. ASSUME NEW i \in DOMAIN vec
      PROVE  Cardinality(Run(i)) % 2 = 0 <=> vec[i] # a
  <2>1. CASE vec[i] # a
    <3>1. Run(i) = {}
      BY <1>0, <2>1
    <3>2. Cardinality(Run(i)) = 0
      BY <3>1, FS_EmptySet
    <3> QED
      BY <2>1, <3>2
  <2>2. CASE vec[i] = a
    <3>1. \A j \in 1 .. i : j # i => ~(\A k \in j .. i : vec[k] = a)
      BY <1>0, <2>2 DEF IsInjective
    <3>2. Run(i) = {i}
      BY <1>0, <2>2, <3>1
    <3>3. Cardinality(Run(i)) = 1
      BY <3>2, FS_Singleton
    <3> QED
      BY <2>2, <3>3
  <2> QED
    BY <2>1, <2>2
<1> QED
  BY <1>1 DEF Kept

\* What remains of a vector without repetitions: the other elements, once each.
LEMMA RemoveFromVector ==
    ASSUME NEW vec \in Seq(Addrs), IsInjective(vec), NEW a
    PROVE  /\ RemoveFrom(vec, a) \in Seq(Addrs)
           /\ IsInjective(RemoveFrom(vec, a))
           /\ Range(RemoveFrom(vec, a)) = Range(vec) \ {a}
<1> DEFINE n == Len(vec)
           kept == Kept(vec, a)
           Nth(m) == CHOOSE i \in kept : Cardinality(kept \cap 1 .. i) = m
<1>0. n \in Nat /\ DOMAIN vec = 1 .. n /\ vec \in [1 .. n -> Addrs]
  BY LenProperties
<1>1. kept = {i \in 1 .. n : vec[i] # a}
  BY <1>0, KeptPositions
<1>2. RemoveFrom(vec, a) = [m \in 1 .. Cardinality(kept) |-> vec[Nth(m)]]
  BY DEF RemoveFrom
<1> HIDE DEF n, kept
<1>3. CASE a \notin Range(vec)
  <2>1. kept = 1 .. n
    BY <1>0, <1>1, <1>3 DEF Range
  <2>2. Cardinality(kept) = n
    BY <1>0, <2>1, FS_Interval
  <2>3. ASSUME NEW m \in 1 .. n PROVE Nth(m) = m
    <3>1. \A i \in 1 .. n : Cardinality(kept \cap 1 .. i) = i
      <4> SUFFICES ASSUME NEW i \in 1 .. n PROVE Cardinality(kept \cap 1 .. i) = i
        OBVIOUS
      <4>1. kept \cap 1 .. i = 1 .. i
        BY <1>0, <2>1
      <4>2. i \in Int /\ i >= 1 /\ Cardinality(1 .. i) = i
        BY <1>0, FS_Interval
      <4> QED
        BY <4>1, <4>2
    <3> QED
      BY <2>1, <3>1
  <2>4. RemoveFrom(vec, a) = vec
    BY <1>0, <1>2, <2>2, <2>3
  <2> QED
    BY <1>3, <2>4
<1>4. CASE a \in Range(vec)
  <2>1. PICK p \in 1 .. n : vec[p] = a
    BY <1>0, <1>4 DEF Range
  <2>2. kept = 1 .. n \ {p}
    BY <1>0, <1>1, <2>1 DEF IsInjective
  <2>3. Cardinality(kept) = n - 1
    <3>1. IsFiniteSet(1 .. n) /\ Cardinality(1 .. n) = n
      BY <1>0, FS_Interval
    <3> QED
      BY <2>2, <3>1, FS_RemoveElement
  <2> DEFINE at(m) == IF m < p THEN m ELSE m + 1
  <2>4. ASSUME NEW m \in 1 .. n - 1 PROVE Nth(m) = at(m)
    <3>1. \A i \in kept : Cardinality(kept \cap 1 .. i) = IF i < p THEN i ELSE i - 1
      BY <1>0, <2>2, CountWithout
    <3>2. at(m) \in kept
      BY <1>0, <2>2
    <3>3. \A i \in kept : Cardinality(kept \cap 1 .. i) = m <=> i = at(m)
      <4> SUFFICES ASSUME NEW i \in kept
                   PROVE  Cardinality(kept \cap 1 .. i) = m <=> i = at(m)
        OBVIOUS
      <4>1. i \in Int /\ i # p /\ m \in Int /\ p \in Int
        BY <1>0, <2>2
      <4>2. (IF i < p THEN i ELSE i - 1) = m <=> i = at(m)
        BY <4>1
      <4> QED
        BY <3>1, <4>2
    <3> QED
      BY <3>2, <3>3
  <2>5. RemoveFrom(vec, a) = [m \in 1 .. n - 1 |-> vec[at(m)]]
    BY <1>2, <2>3, <2>4
  <2>6. \A m \in 1 .. n - 1 : at(m) \in 1 .. n /\ at(m) # p
    BY <1>0
  <2>7. \A i \in 1 .. n : i # p => \E m \in 1 .. n - 1 : at(m) = i
    <3> SUFFICES ASSUME NEW i \in 1 .. n, i # p PROVE \E m \in 1 .. n - 1 : at(m) = i
      OBVIOUS
    <3>1. CASE i < p
      <4>1. i \in 1 .. n - 1 /\ at(i) = i
        BY <1>0, <3>1
      <4> QED
        BY <4>1
    <3>2. CASE ~(i < p)
      <4>1. i - 1 \in 1 .. n - 1 /\ at(i - 1) = i
        BY <1>0, <3>2
      <4> QED
        BY <4>1
    <3> QED
      BY <3>1, <3>2
  <2>8. \A k, m \in 1 .. n - 1 : at(k) = at(m) => k = m
    BY <1>0
  <2> HIDE DEF at
  <2>9. RemoveFrom(vec, a) \in Seq(Addrs)
    <3>1. n - 1 \in Nat
      BY <1>0
    <3> QED
      BY <1>0, <2>5, <2>6, <3>1
  <2>10. IsInjective(RemoveFrom(vec, a))
    BY <1>0, <2>5, <2>6, <2>8 DEF IsInjective
  <2>11. Range(RemoveFrom(vec, a)) = Range(vec) \ {a}
    <3>1. \A i \in 1 .. n : vec[i] = a <=> i = p
      BY <1>0, <2>1 DEF IsInjective
    <3>2. Range(RemoveFrom(vec, a)) = {vec[at(m)] : m \in 1 .. n - 1}
      BY <2>5 DEF Range
    <3>3. {vec[at(m)] : m \in 1 .. n - 1} = {vec[i] : i \in 1 .. n \ {p}}
      BY <2>6, <2>7
    <3>4. {vec[i] : i \in 1 .. n \ {p}} = Range(vec) \ {a}
      BY <1>0, <3>1 DEF Range
    <3> QED
      BY <3>2, <3>3, <3>4
  <2> QED
    BY <2>9, <2>10, <2>11
<1> QED
  BY <1>3, <1>4

----------------------------------------------------------------------------
\* The invariant, by parts of the state.

\* What QxtRPCPeer was given: a request, and whether the link was up.
Sent == [request : Solver, up : BOOLEAN]

\* The set-up: what the constructor has done when the loop runs, that nobody
\* asks before, and that initSlot() is in front of every request.
SetUpInv ==
    /\ armrMode \in {"tcp", "rpc", "none"} /\ adsbDevice \in BOOLEAN
    /\ main \in {"devices", "armr", "loop"}
    /\ m_controllersMap \subseteq Devices \cup ArmrDevices
    /\ m_adsbController \in BOOLEAN /\ m_rpcClient \in BOOLEAN
    /\ requests \in Seq(TcpRequests)
    /\ wrapperCalls \in Seq(Solver \cup {"init"}) /\ wrapperClient \in BOOLEAN
    /\ armrLink \in BOOLEAN /\ asked \in Seq(Solver) /\ armr \in Seq(Sent)
    /\ main # "devices" /\ adsbDevice => m_adsbController
    /\ main = "loop" /\ armrMode = "rpc" => m_rpcClient
    /\ main # "loop" => ~m_rpcClient /\ requests = <<>>
    /\ ~m_rpcClient => wrapperCalls = <<>>
    /\ m_rpcClient => wrapperClient \/ (wrapperCalls # <<>> /\ Head(wrapperCalls) = "init")

\* The clients: every object belongs to one open connection.
ClientsInv ==
    /\ DOMAIN _map_clients \subseteq Ids
    /\ _map_clients \in [DOMAIN _map_clients -> Addrs]
    /\ DOMAIN heap \subseteq Addrs
    /\ heap \in [DOMAIN heap -> [id : ViewIds \cup {0}, type : {0, 1}]]
    /\ _map_subscribe \in [Types -> Seq(Addrs)]
    /\ connects \in 0 .. MaxConnects
    /\ IsInjective(_map_clients)
    /\ Range(_map_clients) = DOMAIN heap
    /\ SubscribersAreIdentified

\* The messages: no more than the bound in all.
ViewsInv ==
    /\ mainCalls \in Seq(Types \cup {"device"})
    /\ log \in Seq(Types \cup {"device", "config"})
    /\ Len(log) + Len(mainCalls) <= MaxRecords
    /\ received \in [Ids -> Seq(1 .. Len(log))]
    /\ since \in [Ids -> [made : 0 .. MaxRecords, identified : 0 .. Never]]

FaultInv ==
    /\ fault \in {"none", "rpcClient", "wrapper", "adsb", "deleted"}
    /\ ConfiguredNeverFaults

\* Whether a request meets a pointer depends on the set-up, whether a message
\* meets a deleted client on the subscriptions.
OdInv == SetUpInv /\ ClientsInv /\ ViewsInv /\ FaultInv

\* The parts make up the type invariant.
LEMMA OdTypes == OdInv => TypeOK
<1> SUFFICES ASSUME OdInv PROVE TypeOK
  OBVIOUS
<1>1. _map_clients \in UNION {[S -> Addrs] : S \in SUBSET Ids}
  BY DEF OdInv, ClientsInv
<1>2. heap \in UNION {[S -> [id : ViewIds \cup {0}, type : {0, 1}]] : S \in SUBSET Addrs}
  BY DEF OdInv, ClientsInv
<1>3. Len(log) <= MaxRecords
  <2>1. Len(log) \in Nat /\ Len(mainCalls) \in Nat
    BY LenProperties DEF OdInv, ViewsInv
  <2> QED
    BY <2>1, OdServerAssumption DEF OdInv, ViewsInv
<1> QED
  BY <1>1, <1>2, <1>3 DEF OdInv, SetUpInv, ClientsInv, ViewsInv, FaultInv, TypeOK, Sent

\* Each part depends on its variables only.
LEMMA SetUpFrame ==
    ASSUME SetUpInv, UNCHANGED <<config, main, manager, solver>>
    PROVE  SetUpInv'
  BY DEF SetUpInv, config, manager, solver

LEMMA ClientsFrame ==
    ASSUME ClientsInv, UNCHANGED clients
    PROVE  ClientsInv'
<1>1. UNCHANGED <<_map_clients, heap, _map_subscribe, connects>>
  BY DEF clients
<1>2. SubscribersAreIdentified'
  BY <1>1 DEF ClientsInv, SubscribersAreIdentified
<1> QED
  BY <1>1, <1>2 DEF ClientsInv, IsInjective, Range

LEMMA ViewsFrame ==
    ASSUME ViewsInv, UNCHANGED <<views, mainCalls>>
    PROVE  ViewsInv'
  BY DEF ViewsInv, views

LEMMA FaultFrame ==
    ASSUME FaultInv, UNCHANGED <<config, fault>>
    PROVE  FaultInv'
  BY DEF FaultInv, ConfiguredNeverFaults, config

\* Everything is empty and the constructor has not begun.
LEMMA InitOd == Init => OdInv
<1> SUFFICES ASSUME Init PROVE OdInv
  OBVIOUS
<1> USE OdServerAssumption
<1>1. SetUpInv
  <2>1. /\ requests \in Seq(TcpRequests) /\ wrapperCalls \in Seq(Solver \cup {"init"})
        /\ asked \in Seq(Solver) /\ armr \in Seq(Sent)
    BY DEF Init
  <2>2. /\ main = "devices" /\ m_controllersMap = {} /\ requests = <<>> /\ wrapperCalls = <<>>
        /\ m_adsbController = FALSE /\ m_rpcClient = FALSE /\ wrapperClient = FALSE
        /\ armrMode \in {"tcp", "rpc", "none"} /\ adsbDevice \in BOOLEAN /\ armrLink = FALSE
    BY DEF Init
  <2>3. armrLink \in BOOLEAN
    BY <2>2
  <2> QED
    BY <2>1, <2>2, <2>3, Zenon DEF SetUpInv
<1>2. ClientsInv
  <2>1. DOMAIN _map_clients = {} /\ DOMAIN heap = {}
    BY DEF Init
  <2>2. _map_clients \in [{} -> Addrs] /\ heap \in [{} -> [id : ViewIds \cup {0}, type : {0, 1}]]
    BY DEF Init
  <2>3. Range(_map_clients) = DOMAIN heap /\ IsInjective(_map_clients)
    BY <2>1 DEF Range, IsInjective
  <2>4. SubscribersAreIdentified
    <3> SUFFICES ASSUME NEW t \in Types
                 PROVE  /\ IsInjective(_map_subscribe[t])
                        /\ Range(_map_subscribe[t]) = {}
      BY <2>1 DEF SubscribersAreIdentified
    <3>1. _map_subscribe[t] = <<>> /\ DOMAIN _map_subscribe[t] = {}
      BY DEF Init
    <3> QED
      BY <3>1 DEF IsInjective, Range
  <2>5. _map_subscribe \in [Types -> Seq(Addrs)] /\ connects \in 0 .. MaxConnects
    BY DEF Init
  <2> QED
    BY <2>1, <2>2, <2>3, <2>4, <2>5 DEF ClientsInv
<1>3. ViewsInv
  <2>1. Len(log) = 0 /\ Len(mainCalls) = 0 /\ received \in [Ids -> Seq(1 .. Len(log))]
    BY DEF Init
  <2>2. since \in [Ids -> [made : 0 .. MaxRecords, identified : 0 .. Never]]
    BY DEF Init, Never
  <2> QED
    BY <2>1, <2>2 DEF Init, ViewsInv
<1>4. FaultInv
  BY DEF Init, FaultInv, ConfiguredNeverFaults
<1> QED
  BY <1>1, <1>2, <1>3, <1>4 DEF OdInv


----------------------------------------------------------------------------
\* The steps.

\* The constructor: initSlot() is posted to an empty queue.
LEMMA ConstructorOd == ASSUME OdInv, Constructor PROVE OdInv'
<1>1. UNCHANGED <<config, clients, views, mainCalls, fault>>
  BY DEF Constructor, addTcpDevice, createAdsbDevice, devicesAdded, addTcpArmrConnection,
     addRpcArmrConnection, noArmrConnection
<1>2. ClientsInv' /\ ViewsInv' /\ FaultInv'
  BY <1>1, ClientsFrame, ViewsFrame, FaultFrame DEF OdInv
<1> USE DEF OdInv, SetUpInv
<1>3. ASSUME NEW d \in Devices, addTcpDevice(d) PROVE SetUpInv'
  BY <1>3 DEF addTcpDevice, config, solver
<1>4. ASSUME createAdsbDevice PROVE SetUpInv'
  BY <1>4 DEF createAdsbDevice, config, solver
<1>5. ASSUME devicesAdded PROVE SetUpInv'
  BY <1>5 DEF devicesAdded, config, solver, manager
<1>6. ASSUME addTcpArmrConnection PROVE SetUpInv'
  BY <1>6 DEF addTcpArmrConnection, config, solver
<1>7. ASSUME addRpcArmrConnection PROVE SetUpInv'
  <2>1. wrapperCalls' = Append(<<>>, "init")
    BY <1>7 DEF addRpcArmrConnection
  <2>2. wrapperCalls' # <<>> /\ Head(wrapperCalls') = "init"
    BY <2>1
  <2>3. wrapperCalls' \in Seq(Solver \cup {"init"})
    BY <2>1
  <2> QED
    BY <1>7, <2>2, <2>3 DEF addRpcArmrConnection, config
<1>8. ASSUME noArmrConnection PROVE SetUpInv'
  BY <1>8 DEF noArmrConnection, config, solver, manager
<1> QED
  BY <1>2, <1>3, <1>4, <1>5, <1>6, <1>7, <1>8 DEF Constructor

\* A request is queued only in the loop.
LEMMA RequestOd ==
    ASSUME OdInv, NEW c \in Ids, NEW r \in TcpRequests, onMethodCalled(c, r)
    PROVE  OdInv'
<1>1. ClientsInv' /\ ViewsInv' /\ FaultInv'
  BY ClientsFrame, ViewsFrame, FaultFrame DEF OdInv, onMethodCalled
<1>2. requests' \in Seq(TcpRequests) /\ asked' \in Seq(Solver)
  BY AppendProperties DEF OdInv, SetUpInv, onMethodCalled
<1>3. SetUpInv'
  BY <1>2 DEF OdInv, SetUpInv, onMethodCalled, config, manager
<1> QED
  BY <1>1, <1>3 DEF OdInv

\* TcpManager finds its pointers set when they are configured.
LEMMA ManagerOd == ASSUME OdInv, ManagerLoop PROVE OdInv'
<1>1. UNCHANGED <<config, main, manager, clients, views, wrapperClient, armrLink, asked, armr,
                  mainCalls>>
  BY DEF ManagerLoop, onSolverRequest, onNiippRequest, onAdsbRequest
<1>2. ClientsInv' /\ ViewsInv'
  BY <1>1, ClientsFrame, ViewsFrame DEF OdInv
<1>3. requests # <<>> /\ requests' \in Seq(TcpRequests) /\ main = "loop"
  <2>1. requests # <<>> /\ requests' = Tail(requests) /\ requests \in Seq(TcpRequests)
    BY DEF ManagerLoop, onSolverRequest, onNiippRequest, onAdsbRequest, OdInv, SetUpInv
  <2>2. Tail(requests) \in Seq(TcpRequests)
    BY <2>1, HeadTailProperties
  <2> QED
    BY <2>1, <2>2 DEF OdInv, SetUpInv
<1>4. FaultInv'
  BY <1>1, <1>3 DEF ManagerLoop, onSolverRequest, onNiippRequest, onAdsbRequest, OdInv, SetUpInv,
     FaultInv, ConfiguredNeverFaults, config
<1>5. SetUpInv'
  <2>1. CASE wrapperCalls' = wrapperCalls
    BY <1>1, <1>3, <2>1 DEF OdInv, SetUpInv, config, manager
  <2>2. CASE wrapperCalls' # wrapperCalls
    <3> DEFINE E == Solver \cup {"init"}
    <3>1. /\ wrapperCalls' = Append(wrapperCalls, Head(requests)) /\ m_rpcClient
          /\ Head(requests) \in E /\ wrapperCalls \in Seq(E)
      BY <2>2 DEF ManagerLoop, onSolverRequest, onNiippRequest, onAdsbRequest, OdInv, SetUpInv
    <3> HIDE DEF E
    <3>2. wrapperCalls' \in Seq(E) /\ wrapperCalls' # <<>>
      BY <3>1, AppendProperties
    <3>3. wrapperCalls # <<>> => Head(wrapperCalls') = Head(wrapperCalls)
      BY <3>1, AppendProperties, HeadTailProperties
    <3>4. UNCHANGED <<armrMode, adsbDevice, main, m_controllersMap, m_adsbController,
                      m_rpcClient, wrapperClient, armrLink, asked, armr>>
      BY <1>1 DEF config, manager
    <3>5. wrapperClient' \/ (wrapperCalls' # <<>> /\ Head(wrapperCalls') = "init")
      BY <3>1, <3>2, <3>3, <3>4 DEF OdInv, SetUpInv
    <3> QED
      BY <1>3, <3>1, <3>2, <3>4, <3>5, Zenon DEF OdInv, SetUpInv, E
  <2> QED
    BY <2>1, <2>2
<1> QED
  BY <1>2, <1>4, <1>5 DEF OdInv

\* The wrapper has its client before the first request.
LEMMA WrapperOd == ASSUME OdInv, WrapperLoop PROVE OdInv'
<1>1. /\ UNCHANGED <<config, main, manager, clients, views, requests, armrLink, asked, mainCalls>>
      /\ wrapperCalls # <<>> /\ wrapperCalls' = Tail(wrapperCalls)
  BY DEF WrapperLoop, initSlot, wrapperSendDataByRpcSlot
<1>2. ClientsInv' /\ ViewsInv'
  BY <1>1, ClientsFrame, ViewsFrame DEF OdInv
<1>3. wrapperCalls' \in Seq(Solver \cup {"init"})
  BY <1>1, HeadTailProperties DEF OdInv, SetUpInv
<1>4. m_rpcClient
  BY <1>1 DEF OdInv, SetUpInv
<1>5. wrapperClient' = TRUE /\ armr' \in Seq(Sent) /\ fault' = fault
  <2>1. CASE initSlot
    BY <2>1 DEF initSlot, OdInv, SetUpInv
  <2>2. CASE wrapperSendDataByRpcSlot
    <3>1. Head(wrapperCalls) \in Solver /\ Head(wrapperCalls) # "init"
      BY <2>2 DEF wrapperSendDataByRpcSlot, Solver
    <3>2. wrapperClient = TRUE
      BY <1>4, <3>1 DEF OdInv, SetUpInv
    <3> DEFINE e == [request |-> Head(wrapperCalls), up |-> armrLink]
    <3>3. armr' = Append(armr, e) /\ fault' = fault /\ wrapperClient' = TRUE
      BY <2>2, <3>2 DEF wrapperSendDataByRpcSlot
    <3>4. e \in Sent /\ armr \in Seq(Sent)
      BY <3>1 DEF OdInv, SetUpInv, Sent
    <3> HIDE DEF e
    <3> QED
      BY <3>3, <3>4, AppendProperties
  <2> QED
    BY <2>1, <2>2 DEF WrapperLoop
<1>6. SetUpInv'
  <2>1. UNCHANGED <<armrMode, adsbDevice, main, m_controllersMap, m_adsbController, m_rpcClient,
                    requests, armrLink, asked>>
    BY <1>1 DEF config, manager
  <2> QED
    BY <1>3, <1>4, <1>5, <2>1, Zenon DEF OdInv, SetUpInv
<1>7. FaultInv'
  BY <1>1, <1>5, FaultFrame DEF OdInv
<1> QED
  BY <1>2, <1>6, <1>7 DEF OdInv

\* The link to ARM-R comes up or goes down.
LinkSlot == connectedToServerSlot \/ connectionToServerFailedSlot

LEMMA LinkOd == ASSUME OdInv, LinkSlot PROVE OdInv'
<1>1. /\ UNCHANGED <<config, main, manager, clients, views, mainCalls, fault>>
      /\ UNCHANGED <<requests, wrapperCalls, wrapperClient, asked, armr>>
      /\ armrLink' \in BOOLEAN
  BY DEF LinkSlot, connectedToServerSlot, connectionToServerFailedSlot
<1>2. SetUpInv'
  BY <1>1 DEF OdInv, SetUpInv, config, manager
<1> QED
  BY <1>1, <1>2, ClientsFrame, ViewsFrame, FaultFrame DEF OdInv

\* A message for the views is queued.
LEMMA QueueOd ==
    ASSUME OdInv, onMessageReceived \/ \E t \in Types : data_ready(t)
    PROVE  OdInv'
<1>1. UNCHANGED <<config, main, manager, clients, views, solver, fault>>
  BY DEF onMessageReceived, data_ready
<1>2. SetUpInv' /\ ClientsInv' /\ FaultInv'
  BY <1>1, SetUpFrame, ClientsFrame, FaultFrame DEF OdInv
<1> DEFINE E == Types \cup {"device"}
<1>3. PICK e \in E : mainCalls' = Append(mainCalls, e)
  BY DEF onMessageReceived, data_ready
<1>4. Len(log) + Len(mainCalls) < MaxRecords
  BY DEF onMessageReceived, data_ready, Pending
<1> HIDE DEF E
<1>5. mainCalls \in Seq(E) /\ Len(log) \in Nat
  BY LenProperties DEF OdInv, ViewsInv, E
<1>6. mainCalls' \in Seq(E) /\ Len(mainCalls') = Len(mainCalls) + 1 /\ Len(mainCalls) \in Nat
  BY <1>3, <1>5, AppendProperties, LenProperties
<1>7. Len(log) + Len(mainCalls') <= MaxRecords
  BY <1>4, <1>5, <1>6, OdServerAssumption
<1>8. ViewsInv'
  BY <1>1, <1>6, <1>7 DEF OdInv, ViewsInv, views, E
<1> QED
  BY <1>2, <1>8 DEF OdInv

\* The objects of the connections that named themselves.
Named == {_map_clients[c] : c \in {x \in DOMAIN _map_clients : heap[_map_clients[x]].type = 1}}

\* Subscribing to every type adds the address where it is missing.
LEMMA AddSubscription ==
    ASSUME ClientsInv, NEW a \in Addrs, NEW t \in Types
    PROVE  /\ add_subscription(_map_subscribe, a)[t] \in Seq(Addrs)
           /\ IsInjective(add_subscription(_map_subscribe, a)[t])
           /\ Range(add_subscription(_map_subscribe, a)[t]) = Named \cup {a}
<1> DEFINE vec == _map_subscribe[t]
<1>1. vec \in Seq(Addrs) /\ IsInjective(vec) /\ Range(vec) = Named
  BY DEF ClientsInv, SubscribersAreIdentified, Named
<1>2. add_subscription(_map_subscribe, a)[t] = IF a \in Range(vec) THEN vec ELSE Append(vec, a)
  BY DEF add_subscription
<1> HIDE DEF vec
<1>3. CASE a \in Range(vec)
  BY <1>1, <1>2, <1>3
<1>4. CASE a \notin Range(vec)
  <2>1. /\ Append(vec, a) \in Seq(Addrs) /\ Len(vec) \in Nat
        /\ DOMAIN vec = 1 .. Len(vec) /\ DOMAIN Append(vec, a) = 1 .. Len(vec) + 1
        /\ \A i \in 1 .. Len(vec) : Append(vec, a)[i] = vec[i]
        /\ Append(vec, a)[Len(vec) + 1] = a
    BY <1>1, AppendProperties, LenProperties
  <2>2. \A i \in 1 .. Len(vec) + 1 : i \in 1 .. Len(vec) \/ i = Len(vec) + 1
    BY <2>1
  <2>3. \A i \in 1 .. Len(vec) : vec[i] # a
    BY <1>4, <2>1 DEF Range
  <2>4. IsInjective(Append(vec, a))
    BY <1>1, <2>1, <2>2, <2>3 DEF IsInjective
  <2>5. Range(Append(vec, a)) = Range(vec) \cup {a}
    <3>1. Len(vec) + 1 \in 1 .. Len(vec) + 1 /\ 1 .. Len(vec) \subseteq 1 .. Len(vec) + 1
      BY <2>1
    <3> QED
      BY <2>1, <2>2, <3>1 DEF Range
  <2> QED
    BY <1>1, <1>2, <1>4, <2>1, <2>4, <2>5
<1> QED
  BY <1>3, <1>4

\* A new object is nobody's subscriber, even at an address that was freed.
LEMMA ConnectOd ==
    ASSUME OdInv, NEW c \in Ids, NEW a \in Addrs, _slotRPCConnetion(c, a)
    PROVE  OdInv'
<1>1. /\ SetUpInv' /\ FaultInv'
  BY SetUpFrame, FaultFrame DEF OdInv, _slotRPCConnetion
<1>2. ViewsInv'
  <2>1. Len(log) \in 0 .. MaxRecords
    BY LenProperties, OdServerAssumption DEF OdInv, ViewsInv
  <2>2. Never \in 0 .. Never
    BY OdServerAssumption DEF Never
  <2> QED
    BY <2>1, <2>2 DEF OdInv, ViewsInv, _slotRPCConnetion
<1>3. /\ c \notin DOMAIN _map_clients /\ a \notin DOMAIN heap
      /\ connects < MaxConnects /\ connects' = connects + 1
      /\ DOMAIN _map_clients' = DOMAIN _map_clients \cup {c}
      /\ _map_clients'[c] = a
      /\ \A x \in DOMAIN _map_clients : _map_clients'[x] = _map_clients[x]
      /\ _map_clients' = [x \in DOMAIN _map_clients' |-> _map_clients'[x]]
      /\ DOMAIN heap' = DOMAIN heap \cup {a}
      /\ heap'[a] = [id |-> 0, type |-> 0]
      /\ \A x \in DOMAIN heap : heap'[x] = heap[x]
      /\ heap' = [x \in DOMAIN heap' |-> heap'[x]]
      /\ _map_subscribe' = _map_subscribe
  BY DEF _slotRPCConnetion
<1>4. \A x \in DOMAIN _map_clients : _map_clients[x] \in DOMAIN heap /\ _map_clients[x] # a
  BY <1>3 DEF OdInv, ClientsInv, Range
<1>5. /\ DOMAIN _map_clients' \subseteq Ids
      /\ _map_clients' \in [DOMAIN _map_clients' -> Addrs]
      /\ DOMAIN heap' \subseteq Addrs
      /\ heap' \in [DOMAIN heap' -> [id : ViewIds \cup {0}, type : {0, 1}]]
      /\ connects' \in 0 .. MaxConnects
  BY <1>3, OdServerAssumption DEF OdInv, ClientsInv
<1>6. IsInjective(_map_clients') /\ Range(_map_clients') = DOMAIN heap'
  BY <1>3, <1>4 DEF OdInv, ClientsInv, IsInjective, Range
<1>7. SubscribersAreIdentified'
  <2>1. Named' = Named
    BY <1>3, <1>4 DEF Named
  <2>2. \A t \in Types : IsInjective(_map_subscribe[t]) /\ Range(_map_subscribe[t]) = Named
    BY DEF OdInv, ClientsInv, SubscribersAreIdentified, Named
  <2>3. \A t \in Types : IsInjective(_map_subscribe'[t]) /\ Range(_map_subscribe'[t]) = Named'
    BY <1>3, <2>1, <2>2
  <2> QED
    BY <2>3 DEF SubscribersAreIdentified, Named
<1>8. ClientsInv'
  BY <1>3, <1>5, <1>6, <1>7 DEF OdInv, ClientsInv
<1> QED
  BY <1>1, <1>2, <1>8 DEF OdInv

\* An object that goes takes all its subscriptions along.
LEMMA DisconnectOd ==
    ASSUME OdInv, NEW c \in Ids, _slotRPCDisconnected(c)
    PROVE  OdInv'
<1>1. /\ SetUpInv' /\ FaultInv'
  BY SetUpFrame, FaultFrame DEF OdInv, _slotRPCDisconnected
<1>2. ViewsInv'
  <2>1. Never \in 0 .. Never /\ 0 \in 0 .. MaxRecords
    BY OdServerAssumption DEF Never
  <2>2. <<>> \in Seq(1 .. Len(log))
    OBVIOUS
  <2> QED
    BY <2>1, <2>2 DEF OdInv, ViewsInv, _slotRPCDisconnected
<1> DEFINE a == _map_clients[c]
<1>3. /\ c \in DOMAIN _map_clients
      /\ _map_subscribe' = remove_subscription(_map_subscribe, a)
      /\ DOMAIN heap' = DOMAIN heap \ {a}
      /\ heap' = [x \in DOMAIN heap' |-> heap[x]]
      /\ DOMAIN _map_clients' = DOMAIN _map_clients \ {c}
      /\ _map_clients' = [x \in DOMAIN _map_clients' |-> _map_clients[x]]
      /\ connects' = connects
  BY DEF _slotRPCDisconnected, Restrict
<1>4. a \in Addrs /\ \A x \in DOMAIN _map_clients : _map_clients[x] = a => x = c
  BY <1>3 DEF OdInv, ClientsInv, IsInjective
<1> HIDE DEF a
<1>5. /\ DOMAIN _map_clients' \subseteq Ids
      /\ _map_clients' \in [DOMAIN _map_clients' -> Addrs]
      /\ DOMAIN heap' \subseteq Addrs
      /\ heap' \in [DOMAIN heap' -> [id : ViewIds \cup {0}, type : {0, 1}]]
      /\ connects' \in 0 .. MaxConnects
  BY <1>3 DEF OdInv, ClientsInv
<1>6. IsInjective(_map_clients') /\ Range(_map_clients') = DOMAIN heap'
  <2>1. IsInjective(_map_clients')
    BY <1>3 DEF OdInv, ClientsInv, IsInjective
  <2>2. Range(_map_clients') = {_map_clients[x] : x \in DOMAIN _map_clients \ {c}}
    BY <1>3 DEF Range
  <2>3. {_map_clients[x] : x \in DOMAIN _map_clients \ {c}} = Range(_map_clients) \ {a}
    BY <1>3, <1>4 DEF Range, a
  <2> QED
    BY <1>3, <2>1, <2>2, <2>3 DEF OdInv, ClientsInv
<1>7. ASSUME NEW t \in Types
      PROVE  /\ _map_subscribe'[t] \in Seq(Addrs)
             /\ IsInjective(_map_subscribe'[t])
             /\ Range(_map_subscribe'[t]) = Named \ {a}
  <2>1. /\ _map_subscribe[t] \in Seq(Addrs) /\ IsInjective(_map_subscribe[t])
        /\ Range(_map_subscribe[t]) = Named
    BY DEF OdInv, ClientsInv, SubscribersAreIdentified, Named
  <2>2. _map_subscribe'[t] = RemoveFrom(_map_subscribe[t], a)
    BY <1>3 DEF remove_subscription
  <2> QED
    BY <2>1, <2>2, RemoveFromVector
<1>8. Named' = Named \ {a}
  <2>1. \A x \in DOMAIN _map_clients' : /\ _map_clients'[x] = _map_clients[x]
                                        /\ _map_clients[x] # a
                                        /\ heap'[_map_clients[x]] = heap[_map_clients[x]]
    BY <1>3, <1>4 DEF OdInv, ClientsInv, Range
  <2>2. Named' \subseteq Named \ {a}
    BY <1>3, <2>1 DEF Named
  <2>3. Named \ {a} \subseteq Named'
    <3> SUFFICES ASSUME NEW b \in Named, b # a PROVE b \in Named'
      OBVIOUS
    <3>1. PICK x \in DOMAIN _map_clients : b = _map_clients[x] /\ heap[_map_clients[x]].type = 1
      BY DEF Named
    <3>2. x \in DOMAIN _map_clients'
      BY <1>3, <3>1 DEF a
    <3> QED
      BY <2>1, <3>1, <3>2 DEF Named
  <2> QED
    BY <2>2, <2>3
<1>9. _map_subscribe' \in [Types -> Seq(Addrs)]
  BY <1>3, <1>7 DEF remove_subscription
<1>10. SubscribersAreIdentified'
  BY <1>7, <1>8 DEF SubscribersAreIdentified, Named
<1>11. ClientsInv'
  BY <1>5, <1>6, <1>9, <1>10 DEF ClientsInv
<1> QED
  BY <1>1, <1>2, <1>11 DEF OdInv

\* A view that names itself, once or often, is subscribed once.
LEMMA SetClientIdOd ==
    ASSUME OdInv, NEW c \in Ids, NEW id \in ViewIds, rpc_slot_set_client_id(c, id)
    PROVE  OdInv'
<1>1. /\ SetUpInv' /\ FaultInv'
  BY SetUpFrame, FaultFrame DEF OdInv, rpc_slot_set_client_id
<1>2. ViewsInv'
  <2>1. Len(log) \in 0 .. Never
    BY LenProperties, OdServerAssumption DEF OdInv, ViewsInv, Never
  <2> QED
    BY <2>1 DEF OdInv, ViewsInv, rpc_slot_set_client_id
<1> DEFINE a == _map_clients[c]
<1>3. /\ c \in DOMAIN _map_clients
      /\ heap' = [heap EXCEPT ![a] = [id |-> id, type |-> 1]]
      /\ _map_subscribe' = add_subscription(_map_subscribe, a)
      /\ UNCHANGED <<_map_clients, connects>>
  BY DEF rpc_slot_set_client_id
<1>4. a \in Addrs /\ a \in DOMAIN heap /\ \A x \in DOMAIN _map_clients : _map_clients[x] \in DOMAIN heap
  BY <1>3 DEF OdInv, ClientsInv, Range
<1> HIDE DEF a
<1>5. heap' \in [DOMAIN heap -> [id : ViewIds \cup {0}, type : {0, 1}]] /\ DOMAIN heap' = DOMAIN heap
  BY <1>3 DEF OdInv, ClientsInv
<1>6. \A b \in DOMAIN heap : heap'[b].type = 1 <=> heap[b].type = 1 \/ b = a
  BY <1>3, <1>4 DEF OdInv, ClientsInv
<1>7. Named' = Named \cup {a}
  BY <1>3, <1>4, <1>6 DEF Named, a
<1>8. \A t \in Types : /\ _map_subscribe'[t] \in Seq(Addrs)
                       /\ IsInjective(_map_subscribe'[t])
                       /\ Range(_map_subscribe'[t]) = Named'
  BY <1>3, <1>4, <1>7, AddSubscription DEF OdInv
<1>9. _map_subscribe' \in [Types -> Seq(Addrs)]
  BY <1>3, <1>8 DEF add_subscription
<1>10. SubscribersAreIdentified'
  BY <1>8 DEF SubscribersAreIdentified, Named
<1>11. ClientsInv'
  BY <1>3, <1>5, <1>9, <1>10 DEF OdInv, ClientsInv, IsInjective, Range
<1> QED
  BY <1>1, <1>2, <1>11 DEF OdInv

\* Indices of a log are indices of a longer one.
LEMMA LongerLog ==
    ASSUME NEW n \in Nat, NEW sent \in Seq(1 .. n)
    PROVE  sent \in Seq(1 .. n + 1)
<1>1. sent \in [1 .. Len(sent) -> 1 .. n] /\ Len(sent) \in Nat
  BY LenProperties
<1>2. sent \in [1 .. Len(sent) -> 1 .. n + 1]
  BY <1>1
<1> QED
  BY <1>1, <1>2

\* Copies of a new message behind what a connection was sent.
LEMMA AddCopiesType ==
    ASSUME NEW n \in Nat, NEW sent \in Seq(1 .. n), NEW times \in Nat
    PROVE  AddCopies(sent, n + 1, times) \in Seq(1 .. n + 1)
<1>1. sent \in Seq(1 .. n + 1)
  BY LongerLog
<1>2. [i \in 1 .. times |-> n + 1] \in Seq(1 .. n + 1)
  OBVIOUS
<1> QED
  BY <1>1, <1>2, ConcatProperties DEF AddCopies

\* A message is sent a whole number of times to each connection.
LEMMA CopiesType ==
    ASSUME ClientsInv, NEW t \in Types, NEW c
    PROVE  CopiesOf(t, c) \in Nat
<1>1. IsFiniteSet(DOMAIN _map_subscribe[t])
  <2>1. _map_subscribe[t] \in Seq(Addrs)
    BY DEF ClientsInv
  <2>2. Len(_map_subscribe[t]) \in Nat /\ DOMAIN _map_subscribe[t] = 1 .. Len(_map_subscribe[t])
    BY <2>1, LenProperties
  <2>3. \A n \in Nat : IsFiniteSet(1 .. n)
    BY FS_Interval
  <2> QED
    BY <2>2, <2>3
<1>2. \A S \in SUBSET (DOMAIN _map_subscribe[t]) : Cardinality(S) \in Nat
  BY <1>1, FS_Subset, FS_CardinalityType
<1>3. Cardinality({i \in DOMAIN _map_subscribe[t] : _map_subscribe[t][i] = _map_clients[c]}) \in Nat
  BY <1>2
<1>4. Cardinality({i \in DOMAIN _map_subscribe[t] : _map_subscribe[t][i] \in Served(t)}) \in Nat
  BY <1>2
<1> QED
  BY <1>3, <1>4 DEF CopiesOf

\* A message that is sent goes to the log, and its copies to the connections.
LEMMA SendViews ==
    ASSUME OdInv, NEW e \in Types \cup {"device", "config"}, log' = Append(log, e),
           mainCalls' \in Seq(Types \cup {"device"}),
           Len(log) + 1 + Len(mainCalls') <= MaxRecords,
           NEW copies, \A c \in DOMAIN _map_clients : copies[c] \in Nat,
           received' = [c \in Ids |->
               IF c \in DOMAIN _map_clients
                 THEN AddCopies(received[c], Len(log) + 1, copies[c]) ELSE received[c]],
           UNCHANGED since
    PROVE  ViewsInv'
<1> DEFINE F == Types \cup {"device", "config"}
<1>1. /\ e \in F /\ log \in Seq(F)
      /\ received \in [Ids -> Seq(1 .. Len(log))]
  BY DEF OdInv, ViewsInv
<1> HIDE DEF F
<1>2. Len(log) \in Nat
  BY <1>1, LenProperties
<1>3. log' \in Seq(F) /\ Len(log') = Len(log) + 1
  BY <1>1, AppendProperties
<1>4. received' \in [Ids -> Seq(1 .. Len(log'))]
  <2> SUFFICES ASSUME NEW c \in Ids PROVE received'[c] \in Seq(1 .. Len(log) + 1)
    BY <1>3
  <2>1. received[c] \in Seq(1 .. Len(log))
    BY <1>1
  <2>2. received[c] \in Seq(1 .. Len(log) + 1)
    BY <1>2, <2>1, LongerLog
  <2> QED
    BY <1>2, <2>1, <2>2, AddCopiesType
<1> QED
  BY <1>3, <1>4 DEF OdInv, ViewsInv, F

\* The main thread takes a message from its queue.
LEMMA TakeCall ==
    ASSUME OdInv, mainCalls # <<>>, mainCalls' = Tail(mainCalls)
    PROVE  /\ mainCalls' \in Seq(Types \cup {"device"})
           /\ Len(log) + 1 + Len(mainCalls') <= MaxRecords
<1> DEFINE E == Types \cup {"device"}
<1>1. /\ mainCalls \in Seq(E) /\ Len(log) \in Nat
      /\ Len(log) + Len(mainCalls) <= MaxRecords
  BY LenProperties DEF OdInv, ViewsInv
<1> HIDE DEF E
<1>2. mainCalls' \in Seq(E) /\ Len(mainCalls') = Len(mainCalls) - 1 /\ Len(mainCalls) \in Nat
  BY <1>1, HeadTailProperties, LenProperties
<1> QED
  BY <1>1, <1>2, OdServerAssumption DEF E

\* A message to the subscribers meets live objects only.
LEMMA GetDataOd == ASSUME OdInv, _slotGetData PROVE OdInv'
<1> DEFINE t == Head(mainCalls)
<1>1. SetUpInv' /\ ClientsInv'
  BY SetUpFrame, ClientsFrame DEF OdInv, _slotGetData
<1>2. ViewsInv'
  <2> DEFINE copies == [c \in DOMAIN _map_clients |-> CopiesOf(t, c)]
  <2>1. t \in Types
    BY DEF _slotGetData
  <2>2. \A c \in DOMAIN _map_clients : copies[c] \in Nat
    BY <2>1, CopiesType DEF OdInv
  <2>3. /\ mainCalls # <<>> /\ mainCalls' = Tail(mainCalls) /\ log' = Append(log, t)
        /\ received' = [c \in Ids |->
               IF c \in DOMAIN _map_clients
                 THEN AddCopies(received[c], Len(log) + 1, copies[c]) ELSE received[c]]
        /\ UNCHANGED since
    BY DEF _slotGetData, Send
  <2> QED
    BY <2>1, <2>2, <2>3, TakeCall, SendViews
<1>3. Range(_map_subscribe[t]) \subseteq DOMAIN heap
  <2>1. Range(_map_subscribe[t]) \subseteq Range(_map_clients)
    <3>1. t \in Types
      BY DEF _slotGetData
    <3>2. Range(_map_subscribe[t]) = Named
      BY <3>1 DEF OdInv, ClientsInv, SubscribersAreIdentified, Named
    <3>3. Named \subseteq Range(_map_clients)
      BY DEF Named, Range
    <3> QED
      BY <3>2, <3>3
  <2> QED
    BY <2>1 DEF OdInv, ClientsInv
<1>4. FaultInv'
  BY <1>3, FaultFrame DEF OdInv, _slotGetData
<1> QED
  BY <1>1, <1>2, <1>4 DEF OdInv

\* A message to everybody.
LEMMA SendDataOd == ASSUME OdInv, sendDataByRpcSlot PROVE OdInv'
<1>1. SetUpInv' /\ ClientsInv' /\ FaultInv'
  BY SetUpFrame, ClientsFrame, FaultFrame DEF OdInv, sendDataByRpcSlot
<1>2. ViewsInv'
  <2> DEFINE copies == [c \in DOMAIN _map_clients |-> 1]
  <2>2. \A c \in DOMAIN _map_clients : copies[c] \in Nat
    OBVIOUS
  <2>3. /\ mainCalls # <<>> /\ mainCalls' = Tail(mainCalls) /\ log' = Append(log, "device")
        /\ received' = [c \in Ids |->
               IF c \in DOMAIN _map_clients
                 THEN AddCopies(received[c], Len(log) + 1, copies[c]) ELSE received[c]]
        /\ UNCHANGED since
    BY DEF sendDataByRpcSlot, Send
  <2> QED
    BY <2>2, <2>3, TakeCall, SendViews
<1> QED
  BY <1>1, <1>2 DEF OdInv

\* The answer to a request for the configuration.
LEMMA ConfigOd == ASSUME OdInv, NEW c \in Ids, onMethodCalledConfig(c) PROVE OdInv'
<1>1. SetUpInv' /\ ClientsInv' /\ FaultInv'
  BY SetUpFrame, ClientsFrame, FaultFrame DEF OdInv, onMethodCalledConfig
<1>2. ViewsInv'
  <2> DEFINE copies == [d \in DOMAIN _map_clients |-> 1]
  <2>1. \A d \in DOMAIN _map_clients : copies[d] \in Nat
    OBVIOUS
  <2>2. /\ log' = Append(log, "config")
        /\ received' = [d \in Ids |->
               IF d \in DOMAIN _map_clients
                 THEN AddCopies(received[d], Len(log) + 1, copies[d]) ELSE received[d]]
        /\ UNCHANGED <<since, mainCalls>>
        /\ Len(log) + Len(mainCalls) < MaxRecords
    BY DEF onMethodCalledConfig, Send, Pending
  <2>3. mainCalls' \in Seq(Types \cup {"device"})
    BY <2>2 DEF OdInv, ViewsInv
  <2>4. Len(log) + 1 + Len(mainCalls') <= MaxRecords
    <3>1. Len(log) \in Nat /\ Len(mainCalls) \in Nat
      BY LenProperties DEF OdInv, ViewsInv
    <3> QED
      BY <2>2, <3>1, OdServerAssumption
  <2> QED
    BY <2>1, <2>2, <2>3, <2>4, SendViews
<1> QED
  BY <1>1, <1>2 DEF OdInv

\* One step of the server preserves the invariant.
LEMMA NextOd == OdInv /\ [Next]_vars => OdInv'
<1> SUFFICES ASSUME OdInv, [Next]_vars PROVE OdInv'
  OBVIOUS
<1>1. CASE UNCHANGED vars
  BY <1>1, SetUpFrame, ClientsFrame, ViewsFrame, FaultFrame DEF OdInv, vars
<1>2. CASE Constructor \/ ManagerLoop \/ WrapperLoop
  BY <1>2, ConstructorOd, ManagerOd, WrapperOd
<1>3. CASE Peers
  BY <1>3, ConnectOd, DisconnectOd, SetClientIdOd, ConfigOd, RequestOd, QueueOd, LinkOd
     DEF Peers, LinkSlot
<1>4. CASE MainLoop
  BY <1>4, GetDataOd, SendDataOd DEF MainLoop
<1> QED
  BY <1>1, <1>2, <1>3, <1>4 DEF Next

\* The invariant holds in every reachable state.
THEOREM OdInvariant == Spec => []OdInv
  BY InitOd, NextOd, PTL DEF Spec

\* The server's maps, queues and vectors keep their types: no vector of subscribers
\* holds anything but an address of an RPCClient.
THEOREM OdTypeCorrect == Spec => []TypeOK
  BY OdInvariant, OdTypes, PTL

\* For any number of views that come, name themselves, repeat it and go, in any
\* order, the subscribers of a type are exactly the live named views, once each.
THEOREM SubscribersStayIdentified == Spec => []SubscribersAreIdentified
<1>1. OdInv => SubscribersAreIdentified
  BY DEF OdInv, ClientsInv
<1> QED
  BY <1>1, OdInvariant, PTL

\* With the RPC connection to ARM-R and an ADS-B device configured, no order of the
\* four kinds of threads makes a handler use an invalid pointer.
THEOREM ConfiguredServerNeverFaults == Spec => []ConfiguredNeverFaults
<1>1. OdInv => ConfiguredNeverFaults
  BY DEF OdInv, FaultInv
<1> QED
  BY <1>1, OdInvariant, PTL

----------------------------------------------------------------------------
\* The solver requests on their way through the threads.

\* g[i] is the number of solver requests made up to position i of the queue, when
\* the first ones of all have left it: the others of all are in the queue, in
\* order, between requests that are not for the solver.
Total(g, queue, first, all) ==
    /\ g[0] = first
    /\ g[Len(queue)] = Len(all)
    /\ \A i \in 1 .. Len(queue) :
           IF queue[i] \in Solver THEN g[i] = g[i - 1] + 1 /\ all[g[i]] = queue[i]
                                  ELSE g[i] = g[i - 1]

Totals(queue, all) == [0 .. Len(queue) -> 0 .. Len(all)]

\* A request is put at the end of the queue.
LEMMA TotalAdd ==
    ASSUME NEW queue \in Seq(TcpRequests), NEW all \in Seq(Solver), NEW first,
           NEW g \in Totals(queue, all), Total(g, queue, first, all),
           NEW r \in TcpRequests, NEW all2,
           all2 = IF r \in Solver THEN Append(all, r) ELSE all
    PROVE  \E h \in Totals(Append(queue, r), all2) :
               Total(h, Append(queue, r), first, all2)
<1> DEFINE n == Len(queue)
           q == Append(queue, r)
           h == [i \in 0 .. n + 1 |-> IF i = n + 1 THEN Len(all2) ELSE g[i]]
<1>1. /\ n \in Nat /\ Len(all) \in Nat
      /\ Len(q) = n + 1 /\ q[n + 1] = r
      /\ \A i \in 1 .. n : q[i] = queue[i]
  BY AppendProperties, LenProperties
<1>2. /\ Len(all2) \in Nat
      /\ Len(all2) = IF r \in Solver THEN Len(all) + 1 ELSE Len(all)
      /\ \A i \in 1 .. Len(all) : all2[i] = all[i]
      /\ r \in Solver => all2[Len(all2)] = r
  BY <1>1, AppendProperties
<1>3. /\ \A i \in 0 .. n : g[i] \in 0 .. Len(all)
      /\ g[0] = first /\ g[n] = Len(all)
      /\ \A i \in 1 .. n : IF queue[i] \in Solver
                             THEN g[i] = g[i - 1] + 1 /\ all[g[i]] = queue[i]
                             ELSE g[i] = g[i - 1]
  BY DEF Total, Totals
<1> HIDE DEF n, q
<1>4. h \in [0 .. n + 1 -> 0 .. Len(all2)]
  <2> SUFFICES ASSUME NEW i \in 0 .. n + 1 PROVE h[i] \in 0 .. Len(all2)
    OBVIOUS
  <2>1. CASE i = n + 1
    BY <1>1, <1>2, <2>1
  <2>2. CASE i # n + 1
    <3>1. i \in 0 .. n
      BY <1>1, <2>2
    <3> QED
      BY <1>1, <1>2, <1>3, <2>2, <3>1
  <2> QED
    BY <2>1, <2>2
<1>5. h[0] = first /\ h[n + 1] = Len(all2)
  BY <1>1, <1>3
<1>6. ASSUME NEW i \in 1 .. n + 1
      PROVE  IF q[i] \in Solver THEN h[i] = h[i - 1] + 1 /\ all2[h[i]] = q[i]
                                ELSE h[i] = h[i - 1]
  <2>1. CASE i = n + 1
    <3>1. h[i] = Len(all2) /\ h[i - 1] = Len(all) /\ q[i] = r
      BY <1>1, <1>3, <2>1
    <3> QED
      BY <1>1, <1>2, <3>1
  <2>2. CASE i # n + 1
    <3>1. i \in 1 .. n /\ i - 1 \in 0 .. n /\ i \in 0 .. n
      BY <1>1, <2>2
    <3>2. h[i] = g[i] /\ h[i - 1] = g[i - 1] /\ q[i] = queue[i]
      BY <1>1, <3>1
    <3>3. queue[i] \in Solver => g[i] \in 1 .. Len(all)
      BY <1>1, <1>3, <3>1
    <3> QED
      BY <1>2, <1>3, <3>1, <3>2, <3>3
  <2> QED
    BY <2>1, <2>2
<1> HIDE DEF h
<1>7. h \in Totals(q, all2) /\ Total(h, q, first, all2)
  BY <1>1, <1>4, <1>5, <1>6 DEF Totals, Total
<1> QED
  BY <1>7 DEF q

\* A request is taken from the front of the queue.
LEMMA TotalTake ==
    ASSUME NEW queue \in Seq(TcpRequests), queue # <<>>, NEW all \in Seq(Solver),
           NEW first \in Nat, NEW g \in Totals(queue, all), Total(g, queue, first, all),
           NEW next, next = IF Head(queue) \in Solver THEN first + 1 ELSE first
    PROVE  /\ \E h \in Totals(Tail(queue), all) : Total(h, Tail(queue), next, all)
           /\ Head(queue) \in Solver => next \in 1 .. Len(all) /\ all[next] = Head(queue)
<1> DEFINE n == Len(queue)
           q == Tail(queue)
           h == [i \in 0 .. n - 1 |-> g[i + 1]]
<1>1. /\ n \in Nat \ {0} /\ Len(all) \in Nat
      /\ Len(q) = n - 1 /\ queue[1] = Head(queue)
      /\ \A i \in 1 .. n - 1 : q[i] = queue[i + 1]
  BY HeadTailProperties, LenProperties
<1>2. /\ \A i \in 0 .. n : g[i] \in 0 .. Len(all)
      /\ g[0] = first /\ g[n] = Len(all)
      /\ \A i \in 1 .. n : IF queue[i] \in Solver
                             THEN g[i] = g[i - 1] + 1 /\ all[g[i]] = queue[i]
                             ELSE g[i] = g[i - 1]
  BY DEF Total, Totals
<1> HIDE DEF n, q
<1>3. /\ g[1] = next /\ g[1] \in 0 .. Len(all)
      /\ Head(queue) \in Solver => next \in 1 .. Len(all) /\ all[next] = Head(queue)
  BY <1>1, <1>2
<1>4. h \in [0 .. n - 1 -> 0 .. Len(all)] /\ h[0] = next /\ h[n - 1] = Len(all)
  BY <1>1, <1>2, <1>3
<1>5. ASSUME NEW i \in 1 .. n - 1
      PROVE  IF q[i] \in Solver THEN h[i] = h[i - 1] + 1 /\ all[h[i]] = q[i]
                                ELSE h[i] = h[i - 1]
  <2>1. i + 1 \in 1 .. n /\ (i + 1) - 1 = i /\ i - 1 \in 0 .. n - 1 /\ i \in 0 .. n - 1
    BY <1>1
  <2>2. h[i] = g[i + 1] /\ h[i - 1] = g[i] /\ q[i] = queue[i + 1]
    BY <1>1, <2>1
  <2> QED
    BY <1>2, <2>1, <2>2
<1> HIDE DEF h
<1>6. h \in Totals(q, all) /\ Total(h, q, next, all)
  BY <1>1, <1>4, <1>5 DEF Totals, Total
<1> QED
  BY <1>3, <1>6 DEF q

\* initSlot() is still in front of the wrapper's requests.
Waiting == IF m_rpcClient /\ ~wrapperClient THEN 1 ELSE 0

\* How many solver requests TcpManager has passed on.
PassedOn == Len(armr) + Len(wrapperCalls) - Waiting

\* The requests of the views that QxtRPCPeer has not got are in the wrapper's queue and
\* behind them in TcpManager's, in the order in which they were made.
RelayInv ==
    /\ wrapperClient => m_rpcClient
    /\ \A n \in Waiting + 1 .. Len(wrapperCalls) :
           wrapperCalls[n] = asked[Len(armr) + n - Waiting]
    /\ fault = "none" =>
           \E g \in Totals(requests, asked) : Total(g, requests, PassedOn, asked)

\* Nothing was asked.
LEMMA InitRelay == Init => RelayInv
<1> SUFFICES ASSUME Init PROVE RelayInv
  OBVIOUS
<1>1. /\ wrapperClient = FALSE /\ m_rpcClient = FALSE
      /\ Len(wrapperCalls) = 0 /\ Len(armr) = 0 /\ Len(asked) = 0 /\ Len(requests) = 0
  BY DEF Init
<1>2. Waiting = 0
  BY <1>1 DEF Waiting
<1>3. PassedOn = 0
  BY <1>1, <1>2 DEF PassedOn
<1> DEFINE g == [i \in 0 .. 0 |-> 0]
<1>4. g \in Totals(requests, asked) /\ Total(g, requests, PassedOn, asked)
  BY <1>1, <1>3 DEF Totals, Total
<1> HIDE DEF g
<1> QED
  BY <1>1, <1>2, <1>4 DEF RelayInv

\* What the invariant says of the lengths and of the queues' types.
LEMMA RelayFacts ==
    ASSUME OdInv, RelayInv
    PROVE  /\ requests \in Seq(TcpRequests) /\ asked \in Seq(Solver) /\ armr \in Seq(Sent)
           /\ wrapperCalls \in Seq(Solver \cup {"init"})
           /\ Len(asked) \in Nat /\ Len(armr) \in Nat /\ Len(wrapperCalls) \in Nat
           /\ Waiting \in {0, 1} /\ PassedOn \in Nat
           /\ Waiting = 1 => Len(wrapperCalls) > 0
           /\ fault = "none" => PassedOn <= Len(asked)
<1>1. /\ requests \in Seq(TcpRequests) /\ asked \in Seq(Solver) /\ armr \in Seq(Sent)
      /\ wrapperCalls \in Seq(Solver \cup {"init"})
  BY DEF OdInv, SetUpInv
<1>2. Len(asked) \in Nat /\ Len(armr) \in Nat /\ Len(wrapperCalls) \in Nat /\ Len(requests) \in Nat
  BY <1>1, LenProperties
<1>3. Waiting \in {0, 1}
  BY DEF Waiting
<1>4. Waiting = 1 => wrapperCalls # <<>>
  BY DEF Waiting, OdInv, SetUpInv
<1> DEFINE E == Solver \cup {"init"}
<1>5. wrapperCalls \in Seq(E)
  BY <1>1
<1> HIDE DEF E
<1>6. Waiting = 1 => Len(wrapperCalls) > 0
  BY <1>2, <1>4, <1>5, EmptySeq
<1>7. PassedOn \in Nat
  BY <1>2, <1>3, <1>6 DEF PassedOn
<1>8. ASSUME fault = "none" PROVE PassedOn <= Len(asked)
  <2>1. PICK g \in Totals(requests, asked) : Total(g, requests, PassedOn, asked)
    BY <1>8 DEF RelayInv
  <2>2. g[0] = PassedOn /\ g[0] \in 0 .. Len(asked)
    BY <1>2, <2>1 DEF Total, Totals
  <2> QED
    BY <1>2, <2>2
<1> QED
  BY <1>1, <1>2, <1>3, <1>6, <1>7, <1>8

\* The invariant depends on the queues and on the two pointers.
LEMMA RelayFrame ==
    ASSUME RelayInv, UNCHANGED <<requests, wrapperCalls, wrapperClient, asked, armr, m_rpcClient>>,
           fault' = "none" => fault = "none"
    PROVE  RelayInv'
<1>1. UNCHANGED <<requests, wrapperCalls, wrapperClient, asked, armr, m_rpcClient>>
  OBVIOUS
<1>2. Waiting' = Waiting
  BY <1>1 DEF Waiting
<1>3. PassedOn' = PassedOn
  BY <1>1, <1>2 DEF PassedOn
<1> QED
  BY <1>1, <1>2, <1>3 DEF RelayInv

\* The wrapper is created: initSlot() alone is in its queue.
LEMMA ConstructorRelay ==
    ASSUME OdInv, RelayInv, fault = "none", Constructor
    PROVE  RelayInv'
<1>1. CASE ~addRpcArmrConnection
  <2>1. UNCHANGED <<requests, wrapperCalls, wrapperClient, asked, armr, m_rpcClient>>
    BY <1>1 DEF Constructor, addTcpDevice, createAdsbDevice, devicesAdded, addTcpArmrConnection,
       noArmrConnection, manager, solver
  <2> QED
    BY <2>1, RelayFrame
<1>2. CASE addRpcArmrConnection
  <2>1. m_rpcClient = FALSE /\ wrapperCalls = <<>> /\ wrapperClient = FALSE
    BY <1>2 DEF addRpcArmrConnection, OdInv, SetUpInv, RelayInv
  <2>2. /\ wrapperCalls' = <<"init">> /\ m_rpcClient' = TRUE
        /\ UNCHANGED <<requests, wrapperClient, asked, armr, fault>>
    BY <1>2, <2>1 DEF addRpcArmrConnection
  <2>3. Waiting = 0 /\ Waiting' = 1 /\ Len(wrapperCalls) = 0 /\ Len(wrapperCalls') = 1
    BY <2>1, <2>2 DEF Waiting
  <2>4. PassedOn' = PassedOn
    BY <2>2, <2>3, RelayFacts DEF PassedOn
  <2> QED
    BY <2>2, <2>3, <2>4 DEF RelayInv
<1> QED
  BY <1>1, <1>2

\* A view asks.
LEMMA RequestRelay ==
    ASSUME OdInv, RelayInv, fault = "none",
           NEW c \in Ids, NEW r \in TcpRequests, onMethodCalled(c, r)
    PROVE  RelayInv'
<1>1. /\ requests' = Append(requests, r)
      /\ asked' = IF r \in Solver THEN Append(asked, r) ELSE asked
      /\ UNCHANGED <<wrapperCalls, wrapperClient, armr, m_rpcClient, fault>>
  BY DEF onMethodCalled, manager
<1>2. Waiting' = Waiting
  BY <1>1 DEF Waiting
<1>3. PassedOn' = PassedOn
  BY <1>1, <1>2 DEF PassedOn
<1>4. \E h \in Totals(requests', asked') : Total(h, requests', PassedOn', asked')
  BY <1>1, <1>3, TotalAdd, RelayFacts DEF RelayInv
<1>5. \A n \in 1 .. Len(asked) : asked'[n] = asked[n]
  BY <1>1, RelayFacts, AppendProperties
<1>6. ASSUME NEW n \in Waiting + 1 .. Len(wrapperCalls)
      PROVE  wrapperCalls[n] = asked'[Len(armr) + n - Waiting]
  <2>1. Len(armr) + n - Waiting \in 1 .. Len(asked)
    BY RelayFacts DEF PassedOn
  <2> QED
    BY <1>5, <2>1 DEF RelayInv
<1> QED
  BY <1>1, <1>2, <1>4, <1>6 DEF RelayInv

\* TcpManager takes a request and passes it on if it is for the solver.
LEMMA ManagerRelay ==
    ASSUME OdInv, RelayInv, fault = "none", ManagerLoop
    PROVE  RelayInv'
<1>1. /\ requests # <<>> /\ requests' = Tail(requests)
      /\ UNCHANGED <<wrapperClient, asked, armr, m_rpcClient>>
  BY DEF ManagerLoop, onSolverRequest, onNiippRequest, onAdsbRequest, manager
<1>2. Waiting' = Waiting
  BY <1>1 DEF Waiting
<1> DEFINE next == IF Head(requests) \in Solver THEN PassedOn + 1 ELSE PassedOn
<1>3. /\ \E h \in Totals(requests', asked') : Total(h, requests', next, asked')
      /\ Head(requests) \in Solver => next \in 1 .. Len(asked) /\ asked[next] = Head(requests)
  BY <1>1, TotalTake, RelayFacts DEF RelayInv
<1>4. CASE wrapperCalls' = wrapperCalls
  <2>1. fault' = "none" => Head(requests) \notin Solver
    <3>1. Head(requests) \in Solver => onSolverRequest
      BY DEF ManagerLoop, onNiippRequest, onAdsbRequest, Solver
    <3>2. ASSUME onSolverRequest, m_rpcClient PROVE FALSE
      <4> DEFINE E == Solver \cup {"init"}
      <4>1. wrapperCalls' = Append(wrapperCalls, Head(requests)) /\ wrapperCalls \in Seq(E)
            /\ Head(requests) \in E
        BY <3>2, RelayFacts DEF onSolverRequest
      <4> HIDE DEF E
      <4>2. Len(wrapperCalls') = Len(wrapperCalls) + 1 /\ Len(wrapperCalls) \in Nat
        BY <4>1, AppendProperties, LenProperties
      <4> QED
        BY <1>4, <4>2
    <3> QED
      BY <3>1, <3>2 DEF onSolverRequest
  <2>2. PassedOn' = PassedOn
    BY <1>1, <1>2, <1>4 DEF PassedOn
  <2> QED
    BY <1>1, <1>2, <1>3, <1>4, <2>1, <2>2 DEF RelayInv
<1>5. CASE wrapperCalls' # wrapperCalls
  <2> DEFINE E == Solver \cup {"init"}
  <2>1. /\ wrapperCalls' = Append(wrapperCalls, Head(requests)) /\ fault' = fault
        /\ Head(requests) \in Solver /\ Head(requests) \in E /\ wrapperCalls \in Seq(E)
    BY <1>5, RelayFacts DEF ManagerLoop, onSolverRequest, onNiippRequest, onAdsbRequest
  <2> HIDE DEF E
  <2>2. /\ Len(wrapperCalls') = Len(wrapperCalls) + 1
        /\ wrapperCalls'[Len(wrapperCalls) + 1] = Head(requests)
        /\ \A n \in 1 .. Len(wrapperCalls) : wrapperCalls'[n] = wrapperCalls[n]
    BY <2>1, AppendProperties
  <2>3. next = PassedOn + 1 /\ PassedOn' = next
    BY <1>1, <1>2, <2>1, <2>2, RelayFacts DEF PassedOn
  <2>4. ASSUME NEW n \in Waiting + 1 .. Len(wrapperCalls')
        PROVE  wrapperCalls'[n] = asked[Len(armr) + n - Waiting]
    <3>1. CASE n = Len(wrapperCalls) + 1
      <4> HIDE DEF next
      <4>1. PassedOn = Len(armr) + Len(wrapperCalls) - Waiting
        BY DEF PassedOn
      <4>2. Len(armr) \in Int /\ Len(wrapperCalls) \in Int /\ Waiting \in Int
        BY RelayFacts
      <4>3. Len(armr) + n - Waiting = next
        BY <2>3, <3>1, <4>1, <4>2
      <4> QED
        BY <1>3, <2>1, <2>2, <3>1, <4>3
    <3>2. CASE n # Len(wrapperCalls) + 1
      <4>1. n \in Waiting + 1 .. Len(wrapperCalls) /\ n \in 1 .. Len(wrapperCalls)
        BY <2>2, <3>2, RelayFacts
      <4> QED
        BY <2>2, <4>1 DEF RelayInv
    <3> QED
      BY <3>1, <3>2
  <2> QED
    BY <1>1, <1>2, <1>3, <2>3, <2>4 DEF RelayInv
<1> QED
  BY <1>4, <1>5

\* The wrapper takes initSlot(), or sends the oldest request that is under way.
LEMMA WrapperRelay ==
    ASSUME OdInv, RelayInv, fault = "none", WrapperLoop
    PROVE  /\ RelayInv'
           /\ initSlot => UNCHANGED armr
           /\ wrapperSendDataByRpcSlot =>
                  /\ Len(armr) < Len(asked)
                  /\ armr' = Append(armr, [request |-> asked[Len(armr) + 1], up |-> armrLink])
<1> DEFINE E == Solver \cup {"init"}
<1>1. /\ wrapperCalls # <<>> /\ wrapperCalls' = Tail(wrapperCalls) /\ wrapperCalls \in Seq(E)
      /\ UNCHANGED <<requests, asked, m_rpcClient>>
  BY RelayFacts DEF WrapperLoop, initSlot, wrapperSendDataByRpcSlot, manager
<1> HIDE DEF E
<1>2. /\ Len(wrapperCalls) \in Nat \ {0} /\ Len(wrapperCalls') = Len(wrapperCalls) - 1
      /\ wrapperCalls[1] = Head(wrapperCalls)
      /\ \A n \in 1 .. Len(wrapperCalls) - 1 : wrapperCalls'[n] = wrapperCalls[n + 1]
  BY <1>1, HeadTailProperties, EmptySeq, LenProperties
<1>3. m_rpcClient
  BY <1>1 DEF OdInv, SetUpInv
<1>4. wrapperClient => Head(wrapperCalls) \in Solver /\ Len(armr) < Len(asked)
                       /\ Head(wrapperCalls) = asked[Len(armr) + 1]
  <2> SUFFICES ASSUME wrapperClient
               PROVE  Head(wrapperCalls) \in Solver /\ Len(armr) < Len(asked)
                      /\ Head(wrapperCalls) = asked[Len(armr) + 1]
    OBVIOUS
  <2>1. Waiting = 0
    BY DEF Waiting
  <2>2. 1 \in Waiting + 1 .. Len(wrapperCalls) /\ Len(armr) + 1 - Waiting = Len(armr) + 1
    BY <1>2, <2>1, RelayFacts
  <2>3. Head(wrapperCalls) = asked[Len(armr) + 1]
    BY <1>2, <2>2 DEF RelayInv
  <2>4. Len(armr) < Len(asked)
    BY <1>2, <2>1, RelayFacts DEF PassedOn
  <2>5. Len(armr) + 1 \in 1 .. Len(asked)
    BY <2>4, RelayFacts
  <2>6. asked[Len(armr) + 1] \in Solver
    BY <2>5, RelayFacts, ElementOfSeq
  <2> QED
    BY <2>3, <2>4, <2>6
<1>5. CASE initSlot
  <2>1. Head(wrapperCalls) \notin Solver /\ wrapperClient' = TRUE /\ UNCHANGED <<armr, fault>>
    BY <1>5 DEF initSlot, Solver
  <2>2. Waiting = 1 /\ Waiting' = 0
    BY <1>1, <1>3, <1>4, <2>1 DEF Waiting
  <2>3. PassedOn' = PassedOn
    BY <1>2, <2>1, <2>2, RelayFacts DEF PassedOn
  <2>4. ASSUME NEW n \in 1 .. Len(wrapperCalls')
        PROVE  wrapperCalls'[n] = asked[Len(armr) + n]
    <3>1. n \in 1 .. Len(wrapperCalls) - 1 /\ n + 1 \in 2 .. Len(wrapperCalls)
          /\ Len(armr) + (n + 1) - 1 = Len(armr) + n
      BY <1>2, RelayFacts
    <3> QED
      BY <1>2, <2>2, <3>1 DEF RelayInv
  <2>5. \A n \in Waiting' + 1 .. Len(wrapperCalls') :
            wrapperCalls'[n] = asked[Len(armr) + n - Waiting']
    <3> SUFFICES ASSUME NEW n \in 1 .. Len(wrapperCalls')
                 PROVE  wrapperCalls'[n] = asked[Len(armr) + n - 0]
      BY <2>2
    <3>1. Len(armr) + n - 0 = Len(armr) + n
      BY RelayFacts
    <3> QED
      BY <2>4, <3>1
  <2>6. RelayInv'
    BY <1>1, <1>3, <2>1, <2>3, <2>5 DEF RelayInv
  <2>7. ~wrapperSendDataByRpcSlot
    BY <2>1 DEF wrapperSendDataByRpcSlot
  <2> QED
    BY <2>1, <2>6, <2>7
<1>6. CASE wrapperSendDataByRpcSlot
  <2>1. Head(wrapperCalls) \in Solver /\ Head(wrapperCalls) # "init"
    BY <1>6 DEF wrapperSendDataByRpcSlot, Solver
  <2>2. wrapperClient = TRUE
    BY <1>3, <2>1 DEF OdInv, SetUpInv
  <2>3. /\ armr' = Append(armr, [request |-> Head(wrapperCalls), up |-> armrLink])
        /\ UNCHANGED <<wrapperClient, fault>>
    BY <1>6, <2>2 DEF wrapperSendDataByRpcSlot
  <2>4. Len(armr') = Len(armr) + 1
    <3> DEFINE e == [request |-> Head(wrapperCalls), up |-> armrLink]
    <3>1. e \in Sent /\ armr \in Seq(Sent) /\ armr' = Append(armr, e)
      BY <2>1, <2>3, RelayFacts DEF OdInv, SetUpInv, Sent
    <3> HIDE DEF e
    <3> QED
      BY <3>1, AppendProperties
  <2>5. Waiting = 0 /\ Waiting' = 0
    BY <2>2, <2>3 DEF Waiting
  <2>6. PassedOn' = PassedOn
    BY <1>2, <2>4, <2>5, RelayFacts DEF PassedOn
  <2>7. ASSUME NEW n \in Waiting' + 1 .. Len(wrapperCalls')
        PROVE  wrapperCalls'[n] = asked[Len(armr') + n - Waiting']
    <3>1. n \in 1 .. Len(wrapperCalls) - 1 /\ n + 1 \in Waiting + 1 .. Len(wrapperCalls)
          /\ Len(armr) + (n + 1) - Waiting = Len(armr') + n - Waiting'
      BY <1>2, <2>4, <2>5, RelayFacts
    <3> QED
      BY <1>2, <3>1 DEF RelayInv
  <2>8. RelayInv'
    BY <1>1, <1>3, <2>3, <2>6, <2>7 DEF RelayInv
  <2>9. ~initSlot
    BY <2>1 DEF initSlot
  <2> QED
    BY <1>4, <2>2, <2>3, <2>8, <2>9
<1> QED
  BY <1>5, <1>6 DEF WrapperLoop

\* One step of the server keeps the requests in order.
LEMMA NextRelay == OdInv /\ RelayInv /\ [Next]_vars => RelayInv'
<1> SUFFICES ASSUME OdInv, RelayInv, [Next]_vars PROVE RelayInv'
  OBVIOUS
<1>1. CASE UNCHANGED vars
  BY <1>1, RelayFrame DEF vars, manager, solver
<1>2. CASE Next
  <2>1. fault = "none"
    BY <1>2 DEF Next
  <2>2. CASE Constructor \/ ManagerLoop \/ WrapperLoop
    BY <2>1, <2>2, ConstructorRelay, ManagerRelay, WrapperRelay
  <2>3. CASE MainLoop
    BY <2>1, <2>3, RelayFrame DEF MainLoop, _slotGetData, sendDataByRpcSlot, manager, solver
  <2>4. CASE Peers
    <3>1. ASSUME NEW c \in Ids, NEW r \in TcpRequests, onMethodCalled(c, r) PROVE RelayInv'
      BY <2>1, <3>1, RequestRelay
    <3>2. CASE UNCHANGED <<requests, wrapperCalls, wrapperClient, asked, armr, m_rpcClient>>
      BY <2>1, <3>2, RelayFrame
    <3> QED
      BY <2>4, <3>1, <3>2 DEF Peers, _slotRPCConnetion, _slotRPCDisconnected,
         rpc_slot_set_client_id, onMethodCalledConfig, data_ready, onMessageReceived,
         connectedToServerSlot, connectionToServerFailedSlot, manager, solver
  <2> QED
    BY <1>2, <2>2, <2>3, <2>4 DEF Next
<1> QED
  BY <1>1, <1>2

\* Every step of the server makes a request, hands one over, changes the link, or leaves
\* all three alone.
LEMMA RelayStep ==
    OdInv /\ RelayInv /\ [Next]_vars => [SolverRelay!Next]_(SolverRelay!vars)
<1> SUFFICES ASSUME OdInv, RelayInv, [Next]_vars
             PROVE  [SolverRelay!Next]_(SolverRelay!vars)
  OBVIOUS
<1> USE DEF SolverRelay!vars
<1>1. CASE UNCHANGED <<asked, armr, armrLink>>
  BY <1>1
<1>2. CASE Next
  <2>1. fault = "none"
    BY <1>2 DEF Next
  <2>2. CASE Constructor \/ ManagerLoop \/ MainLoop
    <3>1. UNCHANGED <<asked, armr, armrLink>>
      BY <2>2 DEF Constructor, addTcpDevice, createAdsbDevice, devicesAdded,
         addTcpArmrConnection, addRpcArmrConnection, noArmrConnection, ManagerLoop,
         onSolverRequest, onNiippRequest, onAdsbRequest, MainLoop, _slotGetData,
         sendDataByRpcSlot, solver
    <3> QED
      BY <1>1, <3>1
  <2>3. CASE WrapperLoop
    <3>1. UNCHANGED <<asked, armrLink>>
      BY <2>3 DEF WrapperLoop, initSlot, wrapperSendDataByRpcSlot
    <3>2. UNCHANGED armr \/ SolverRelay!HandOver
      BY <2>1, <2>3, <3>1, WrapperRelay DEF WrapperLoop, SolverRelay!HandOver
    <3> QED
      BY <3>1, <3>2 DEF SolverRelay!Next
  <2>4. CASE Peers
    <3>1. ASSUME NEW c \in Ids, NEW r \in TcpRequests, onMethodCalled(c, r)
          PROVE  [SolverRelay!Next]_(SolverRelay!vars)
      BY <3>1 DEF onMethodCalled, SolverRelay!Next, SolverRelay!Make
    <3>2. CASE LinkSlot
      BY <3>2 DEF LinkSlot, connectedToServerSlot, connectionToServerFailedSlot,
         SolverRelay!Next, SolverRelay!LinkChanges
    <3> QED
      BY <1>1, <2>4, <3>1, <3>2 DEF Peers, LinkSlot, _slotRPCConnetion, _slotRPCDisconnected,
         rpc_slot_set_client_id, onMethodCalledConfig, data_ready, onMessageReceived, solver
  <2> QED
    BY <1>2, <2>2, <2>3, <2>4 DEF Next
<1>3. CASE UNCHANGED vars
  BY <1>1, <1>3 DEF vars, solver
<1> QED
  BY <1>2, <1>3

\* The order of the requests under way is kept in every reachable state.
THEOREM RelayInvariant == Spec => []RelayInv
  BY OdInvariant, InitRelay, NextRelay, PTL DEF Spec

\* For any number of views, requests and interleavings of the main thread, TcpManager's
\* and the wrapper's, in every mode, QxtRPCPeer gets the solver requests of the views each
\* at most once, unchanged and in the order in which they were made, whether or not the link
\* to ARM-R is up at that moment; a request is lost only to a link that is down.
THEOREM ServerImplementsRelay == Spec => ImplementsRelay
<1>1. Init => SolverRelay!Init
  BY DEF Init, SolverRelay!Init
<1> QED
  BY <1>1, RelayStep, OdInvariant, RelayInvariant, PTL DEF Spec, ImplementsRelay, SolverRelay!Spec

----------------------------------------------------------------------------
\* What the connections were sent.

\* A connection is named from the moment that since records on, a closed one was
\* sent nothing yet, and an open one what it is owed.
SentInv ==
    /\ \A c \in Ids \ DOMAIN _map_clients : received[c] = <<>>
    /\ \A c \in DOMAIN _map_clients :
           /\ since[c].made <= Len(log)
           /\ IF heap[_map_clients[c]].type = 1 THEN since[c].identified <= Len(log)
                                                ELSE since[c].identified = Never
    /\ EachOnceInOrder

\* A connection that is owed the messages owed of a log was sent them, each once and
\* in order, and else only messages that go to everybody in copies.
InOrder(sent, messages, owed) ==
    /\ \A m, n \in DOMAIN sent : m < n => sent[m] <= sent[n]
    /\ \A i \in owed : \E n \in DOMAIN sent : \A m \in DOMAIN sent : sent[m] = i <=> m = n
    /\ \A n \in DOMAIN sent : messages[sent[n]] \in Broadcast \/ sent[n] \in owed

\* EachOnceInOrder for one connection.
Served1(c) == InOrder(received[c], log, Owed(c))

LEMMA EachServed == EachOnceInOrder <=> \A c \in DOMAIN _map_clients : Served1(c)
  BY Zenon DEF EachOnceInOrder, Served1, InOrder

\* There are no connections.
LEMMA InitSent == Init => SentInv
<1> SUFFICES ASSUME Init PROVE SentInv
  OBVIOUS
<1>1. DOMAIN _map_clients = {} /\ \A c \in Ids : received[c] = <<>>
  BY DEF Init
<1> QED
  BY <1>1 DEF SentInv, EachOnceInOrder

\* Types of what the connections were sent.
LEMMA SentFacts ==
    ASSUME OdInv, NEW c \in DOMAIN _map_clients
    PROVE  /\ c \in Ids /\ _map_clients[c] \in DOMAIN heap
           /\ Len(log) \in Nat /\ Len(log) <= MaxRecords /\ Never = MaxRecords + 1
           /\ MaxRecords \in Nat
           /\ DOMAIN received[c] = 1 .. Len(received[c]) /\ Len(received[c]) \in Nat
           /\ \A n \in DOMAIN received[c] : received[c][n] \in 1 .. Len(log)
           /\ since[c].made \in 0 .. MaxRecords /\ since[c].identified \in 0 .. Never
<1>1. c \in Ids /\ _map_clients[c] \in DOMAIN heap
  BY DEF OdInv, ClientsInv, Range
<1>2. Len(log) \in Nat /\ Len(mainCalls) \in Nat /\ Len(log) + Len(mainCalls) <= MaxRecords
  BY LenProperties DEF OdInv, ViewsInv
<1>3. Len(log) <= MaxRecords /\ Never = MaxRecords + 1 /\ MaxRecords \in Nat
  BY <1>2, OdServerAssumption DEF Never
<1>4. received[c] \in Seq(1 .. Len(log))
  BY <1>1 DEF OdInv, ViewsInv
<1>5. /\ DOMAIN received[c] = 1 .. Len(received[c]) /\ Len(received[c]) \in Nat
      /\ \A n \in DOMAIN received[c] : received[c][n] \in 1 .. Len(log)
  BY <1>4, LenProperties, ElementOfSeq
<1>6. since[c] \in [made : 0 .. MaxRecords, identified : 0 .. Never]
  BY <1>1 DEF OdInv, ViewsInv
<1> QED
  BY <1>1, <1>2, <1>3, <1>5, <1>6

\* The invariant depends on the clients and the messages.
LEMMA SentFrame ==
    ASSUME SentInv, UNCHANGED <<_map_clients, heap, log, received, since>>
    PROVE  SentInv'
  BY DEF SentInv, EachOnceInOrder, Owed

\* What a connection is owed does not change as long as its times, and the log, do not.
LEMMA ServedFrame ==
    ASSUME NEW c, Served1(c), UNCHANGED log, received'[c] = received[c],
           Owed(c)' = Owed(c)
    PROVE  Served1(c)'
  BY DEF Served1

\* A new connection is owed nothing yet.
LEMMA ConnectSent ==
    ASSUME OdInv, SentInv, NEW c \in Ids, NEW a \in Addrs, _slotRPCConnetion(c, a)
    PROVE  SentInv'
<1>1. /\ c \notin DOMAIN _map_clients /\ a \notin DOMAIN heap
      /\ DOMAIN _map_clients' = DOMAIN _map_clients \cup {c}
      /\ _map_clients'[c] = a
      /\ \A x \in DOMAIN _map_clients : _map_clients'[x] = _map_clients[x]
      /\ heap'[a] = [id |-> 0, type |-> 0]
      /\ \A x \in DOMAIN heap : heap'[x] = heap[x]
      /\ UNCHANGED <<log, received>>
  BY DEF _slotRPCConnetion
<1>2. /\ since'[c] = [made |-> Len(log), identified |-> Never]
      /\ \A x \in Ids : x # c => since'[x] = since[x]
  BY DEF _slotRPCConnetion, OdInv, ViewsInv
<1>3. Len(log) \in Nat /\ Len(log) <= MaxRecords /\ Never = MaxRecords + 1 /\ MaxRecords \in Nat
  <2>1. Len(log) \in Nat /\ Len(mainCalls) \in Nat /\ Len(log) + Len(mainCalls) <= MaxRecords
    BY LenProperties DEF OdInv, ViewsInv
  <2> QED
    BY <2>1, OdServerAssumption DEF Never
<1>4. ASSUME NEW x \in DOMAIN _map_clients
      PROVE  /\ since'[x].made <= Len(log)
             /\ IF heap'[_map_clients'[x]].type = 1 THEN since'[x].identified <= Len(log)
                                                    ELSE since'[x].identified = Never
             /\ Served1(x)'
  <2>1. x # c /\ x \in Ids /\ _map_clients[x] \in DOMAIN heap
    BY <1>1, SentFacts
  <2>2. since'[x] = since[x]
    BY <1>2, <2>1
  <2>3. Owed(x)' = Owed(x)
    BY <1>1, <2>2 DEF Owed
  <2>4. Served1(x)
    BY EachServed DEF SentInv
  <2>5. Served1(x)'
    BY <1>1, <2>3, <2>4, ServedFrame
  <2> QED
    BY <1>1, <2>1, <2>2, <2>5 DEF SentInv
<1>5. Served1(c)'
  <2>1. DOMAIN received'[c] = {}
    BY <1>1 DEF SentInv
  <2>2. Owed(c)' = {}
    BY <1>1, <1>2, <1>3 DEF Owed
  <2> QED
    BY <2>1, <2>2 DEF Served1, InOrder
<1>6. EachOnceInOrder'
  <2>1. \A x \in DOMAIN _map_clients' : Served1(x)'
    BY <1>1, <1>4, <1>5
  <2> QED
    BY <2>1, Zenon DEF EachOnceInOrder, Served1, InOrder
<1>7. since'[c].made <= Len(log) /\ since'[c].identified = Never /\ heap'[_map_clients'[c]].type = 0
  BY <1>1, <1>2, <1>3
<1> QED
  BY <1>1, <1>4, <1>6, <1>7 DEF SentInv

\* A connection that goes is forgotten.
LEMMA DisconnectSent ==
    ASSUME OdInv, SentInv, NEW c \in Ids, _slotRPCDisconnected(c)
    PROVE  SentInv'
<1>1. /\ c \in DOMAIN _map_clients /\ DOMAIN _map_clients' = DOMAIN _map_clients \ {c}
      /\ \A x \in DOMAIN _map_clients' : _map_clients'[x] = _map_clients[x]
      /\ \A x \in DOMAIN heap : x # _map_clients[c] => heap'[x] = heap[x]
      /\ log' = log
  BY DEF _slotRPCDisconnected, Restrict
<1>2. /\ received'[c] = <<>>
      /\ \A x \in Ids : x # c => received'[x] = received[x] /\ since'[x] = since[x]
  BY DEF _slotRPCDisconnected, OdInv, ViewsInv
<1>3. ASSUME NEW x \in DOMAIN _map_clients'
      PROVE  /\ since'[x].made <= Len(log)
             /\ IF heap'[_map_clients'[x]].type = 1 THEN since'[x].identified <= Len(log)
                                                    ELSE since'[x].identified = Never
             /\ Served1(x)'
  <2>1. x # c /\ x \in DOMAIN _map_clients /\ x \in Ids
    BY <1>1, SentFacts
  <2>2. _map_clients[x] \in DOMAIN heap /\ _map_clients[x] # _map_clients[c]
    BY <1>1, <2>1, SentFacts DEF OdInv, ClientsInv, IsInjective
  <2>3. received'[x] = received[x] /\ since'[x] = since[x]
    BY <1>2, <2>1
  <2>4. Owed(x)' = Owed(x)
    BY <1>1, <2>3 DEF Owed
  <2>5. Served1(x)
    BY <2>1, EachServed DEF SentInv
  <2>6. Served1(x)'
    BY <1>1, <2>3, <2>4, <2>5, ServedFrame
  <2> QED
    BY <1>1, <2>1, <2>2, <2>3, <2>6 DEF SentInv
<1>4. EachOnceInOrder'
  BY <1>3, Zenon DEF EachOnceInOrder, Served1, InOrder
<1>5. \A x \in Ids \ DOMAIN _map_clients' : received'[x] = <<>>
  BY <1>1, <1>2 DEF SentInv
<1> QED
  BY <1>1, <1>3, <1>4, <1>5 DEF SentInv

\* A view that names itself is owed nothing for the time before.
LEMMA SetClientIdSent ==
    ASSUME OdInv, SentInv, NEW c \in Ids, NEW id \in ViewIds, rpc_slot_set_client_id(c, id)
    PROVE  SentInv'
<1>1. /\ c \in DOMAIN _map_clients
      /\ heap' = [heap EXCEPT ![_map_clients[c]] = [id |-> id, type |-> 1]]
      /\ UNCHANGED <<_map_clients, log, received>>
  BY DEF rpc_slot_set_client_id
<1>2. /\ since'[c].made = since[c].made
      /\ since'[c].identified = IF since[c].identified = Never THEN Len(log)
                                                               ELSE since[c].identified
      /\ \A x \in Ids : x # c => since'[x] = since[x]
  BY DEF rpc_slot_set_client_id, OdInv, ViewsInv
<1>3. /\ heap'[_map_clients[c]].type = 1
      /\ \A x \in DOMAIN heap : x # _map_clients[c] => heap'[x] = heap[x]
  BY <1>1, SentFacts
<1>4. ASSUME NEW x \in DOMAIN _map_clients
      PROVE  /\ since'[x].made <= Len(log)
             /\ IF heap'[_map_clients'[x]].type = 1 THEN since'[x].identified <= Len(log)
                                                    ELSE since'[x].identified = Never
             /\ Owed(x)' = Owed(x)
  <2>1. CASE x # c
    <3>1. x \in Ids /\ _map_clients[x] \in DOMAIN heap /\ _map_clients[x] # _map_clients[c]
      BY <1>1, <2>1, SentFacts DEF OdInv, ClientsInv, IsInjective
    <3>2. since'[x] = since[x] /\ heap'[_map_clients[x]] = heap[_map_clients[x]]
      BY <1>2, <1>3, <2>1, <3>1
    <3> QED
      BY <1>1, <3>2 DEF SentInv, Owed
  <2>2. CASE x = c
    <3>1. since[c].identified = Never \/ since[c].identified <= Len(log)
      BY <1>1 DEF SentInv
    <3>2. since'[c].identified <= Len(log)
      BY <1>1, <1>2, <3>1, SentFacts
    <3>3. \A i \in 1 .. Len(log) : i > since'[c].identified <=> i > since[c].identified
      BY <1>1, <1>2, <3>1, SentFacts
    <3>4. Owed(c)' = Owed(c)
      BY <1>1, <1>2, <3>3 DEF Owed
    <3> QED
      BY <1>1, <1>2, <1>3, <2>2, <3>2, <3>4 DEF SentInv
  <2> QED
    BY <2>1, <2>2
<1>5. ASSUME NEW x \in DOMAIN _map_clients PROVE Served1(x)'
  <2>1. Served1(x)
    BY EachServed DEF SentInv
  <2> QED
    BY <1>1, <1>4, <2>1, ServedFrame
<1>6. EachOnceInOrder'
  BY <1>1, <1>5, Zenon DEF EachOnceInOrder, Served1, InOrder
<1> QED
  BY <1>1, <1>4, <1>6 DEF SentInv

\* The copies of a new message are behind what a connection was sent.
LEMMA CopiesAdded ==
    ASSUME NEW N \in Nat, NEW sent \in Seq(1 .. N), NEW times \in Nat
    PROVE  /\ DOMAIN AddCopies(sent, N + 1, times) = 1 .. Len(sent) + times
           /\ \A i \in 1 .. Len(sent) : AddCopies(sent, N + 1, times)[i] = sent[i]
           /\ \A i \in Len(sent) + 1 .. Len(sent) + times :
                  AddCopies(sent, N + 1, times)[i] = N + 1
<1> DEFINE tail == [i \in 1 .. times |-> N + 1]
           new == AddCopies(sent, N + 1, times)
<1>1. sent \in Seq(1 .. N + 1) /\ tail \in Seq(1 .. N + 1)
  BY LongerLog
<1>2. Len(tail) = times /\ Len(sent) \in Nat
  BY LenProperties
<1>3. new = sent \o tail
  BY DEF AddCopies
<1>4. \A i \in 1 .. times : tail[i] = N + 1
  OBVIOUS
<1> HIDE DEF tail, new
<1>5. /\ new \in Seq(1 .. N + 1) /\ Len(new) = Len(sent) + times
      /\ \A i \in 1 .. Len(new) : new[i] = IF i <= Len(sent) THEN sent[i] ELSE tail[i - Len(sent)]
  BY <1>1, <1>2, <1>3, ConcatProperties
<1>6. DOMAIN new = 1 .. Len(sent) + times
  BY <1>5, LenProperties
<1>7. \A i \in 1 .. Len(sent) : new[i] = sent[i]
  BY <1>2, <1>5
<1>8. ASSUME NEW i \in Len(sent) + 1 .. Len(sent) + times PROVE new[i] = N + 1
  <2>1. i \in 1 .. Len(new) /\ ~(i <= Len(sent)) /\ i - Len(sent) \in 1 .. times
    BY <1>2, <1>5
  <2> QED
    BY <1>4, <1>5, <2>1
<1> QED
  BY <1>6, <1>7, <1>8 DEF new

\* A message to one client is sent to every named connection once, and to no other.
LEMMA CopiesDirect ==
    ASSUME OdInv, NEW t \in Direct, NEW c \in DOMAIN _map_clients
    PROVE  CopiesOf(t, c) = IF heap[_map_clients[c]].type = 1 THEN 1 ELSE 0
<1> DEFINE a == _map_clients[c]
           vec == _map_subscribe[t]
<1>1. t \in Types /\ vec \in Seq(Addrs) /\ IsInjective(vec) /\ Range(vec) = Named
  BY DEF Types, OdInv, ClientsInv, SubscribersAreIdentified, Named
<1>2. a \in DOMAIN heap /\ \A x \in DOMAIN _map_clients : _map_clients[x] = a => x = c
  BY SentFacts DEF OdInv, ClientsInv, IsInjective
<1>3. a \in Named <=> heap[a].type = 1
  BY <1>2 DEF Named
<1>4. a \in Served(t) <=> heap[a].type = 1
  BY <1>1, <1>2, <1>3 DEF Served
<1>5. CopiesOf(t, c) = IF a \in Served(t) THEN Cardinality({i \in DOMAIN vec : vec[i] = a}) ELSE 0
  BY DEF CopiesOf
<1> HIDE DEF a, vec
<1>6. ASSUME heap[a].type = 1 PROVE Cardinality({i \in DOMAIN vec : vec[i] = a}) = 1
  <2>1. PICK p \in DOMAIN vec : vec[p] = a
    BY <1>1, <1>3, <1>6 DEF Range
  <2>2. {i \in DOMAIN vec : vec[i] = a} = {p}
    BY <1>1, <2>1 DEF IsInjective
  <2> QED
    BY <2>2, FS_Singleton
<1> QED
  BY <1>4, <1>5, <1>6 DEF a

\* What the times of a new message have to be: one for everybody, or one for every
\* named connection.
CopiesDue(e, c) ==
    IF e \in {"device", "config"} \/ heap[_map_clients[c]].type = 1 THEN 1 ELSE 0

\* A message is added to what a connection is owed exactly if it is sent a copy.
LEMMA OwedGrows ==
    ASSUME OdInv, SentInv, NEW c \in DOMAIN _map_clients,
           NEW e \in Types \cup {"device", "config"}, log' = Append(log, e),
           Len(log) + 1 <= MaxRecords, UNCHANGED since
    PROVE  /\ e \in Broadcast => Owed(c)' = Owed(c)
           /\ e \notin Broadcast =>
                  Owed(c)' = Owed(c) \cup (IF CopiesDue(e, c) = 1 THEN {Len(log) + 1} ELSE {})
<1> DEFINE N == Len(log)
           F == Types \cup {"device", "config"}
<1>1. log \in Seq(F) /\ e \in F
  BY DEF OdInv, ViewsInv
<1> HIDE DEF F
<1>2. N \in Nat /\ Len(log') = N + 1 /\ log'[N + 1] = e /\ \A i \in 1 .. N : log'[i] = log[i]
  BY <1>1, AppendProperties, LenProperties
<1>3. \A i \in 1 .. N + 1 : i \in 1 .. N \/ i = N + 1
  BY <1>2
<1>4. 1 .. N \subseteq 1 .. N + 1 /\ N + 1 \in 1 .. N + 1 /\ N + 1 \notin 1 .. N
  BY <1>2
<1> DEFINE due == \/ e \in {"device", "config"} /\ N + 1 > since[c].made
                  \/ e \in Direct /\ N + 1 > since[c].identified
<1>5. Owed(c)' = Owed(c) \cup (IF due THEN {N + 1} ELSE {})
  <2>1. Owed(c)' = {i \in 1 .. N + 1 :
                        \/ log'[i] \in {"device", "config"} /\ i > since[c].made
                        \/ log'[i] \in Direct /\ i > since[c].identified}
    BY <1>2 DEF Owed
  <2>2. \A i \in 1 .. N : i \in Owed(c)' <=> i \in Owed(c)
    BY <1>2, <1>4, <2>1 DEF Owed
  <2>3. N + 1 \in Owed(c)' <=> due
    BY <1>2, <1>4, <2>1
  <2>4. Owed(c) \subseteq 1 .. N
    BY DEF Owed
  <2>5. Owed(c)' \subseteq 1 .. N + 1
    BY <2>1
  <2> HIDE DEF due
  <2> QED
    BY <1>3, <1>4, <2>2, <2>3, <2>4, <2>5
<1>6. N + 1 > since[c].made
  BY <1>2, SentFacts DEF SentInv
<1>7. N + 1 > since[c].identified <=> heap[_map_clients[c]].type = 1
  <2>1. CASE heap[_map_clients[c]].type = 1
    <3>1. since[c].identified <= N
      BY <2>1 DEF SentInv
    <3> QED
      BY <1>2, <2>1, <3>1, SentFacts
  <2>2. CASE heap[_map_clients[c]].type # 1
    <3>1. since[c].identified = Never
      BY <2>2 DEF SentInv
    <3> QED
      BY <1>2, <2>2, <3>1, SentFacts
  <2> QED
    BY <2>1, <2>2
<1>8. /\ e \in Broadcast => e \notin Direct /\ e \notin {"device", "config"}
      /\ e \notin Broadcast => e \in Direct \/ e \in {"device", "config"}
      /\ e \in Direct => e \notin {"device", "config"}
  BY OdServerAssumption DEF Types
<1>9. e \in Broadcast => ~due
  BY <1>8
<1>10. e \notin Broadcast => (due <=> CopiesDue(e, c) = 1)
  BY <1>6, <1>7, <1>8 DEF CopiesDue
<1> HIDE DEF due
<1> QED
  BY <1>5, <1>9, <1>10

\* InOrder with the positions of sent given as a set.
LEMMA InOrderAt ==
    ASSUME NEW sent, NEW messages, NEW owed, NEW D, D = DOMAIN sent
    PROVE  InOrder(sent, messages, owed) <=>
               /\ \A m, n \in D : m < n => sent[m] <= sent[n]
               /\ \A i \in owed : \E n \in D : \A m \in D : sent[m] = i <=> m = n
               /\ \A n \in D : messages[sent[n]] \in Broadcast \/ sent[n] \in owed
<1>1. (\A m, n \in DOMAIN sent : m < n => sent[m] <= sent[n])
          <=> \A m, n \in D : m < n => sent[m] <= sent[n]
  OBVIOUS
<1>2. (\A i \in owed : \E n \in DOMAIN sent : \A m \in DOMAIN sent : sent[m] = i <=> m = n)
          <=> \A i \in owed : \E n \in D : \A m \in D : sent[m] = i <=> m = n
  OBVIOUS
<1>3. (\A n \in DOMAIN sent : messages[sent[n]] \in Broadcast \/ sent[n] \in owed)
          <=> \A n \in D : messages[sent[n]] \in Broadcast \/ sent[n] \in owed
  OBVIOUS
<1> QED
  BY <1>1, <1>2, <1>3 DEF InOrder

\* Message N + 1 of the log was sent times times, once or not at all if it does not
\* go to everybody in copies, and is owed if it was.
OneMore(N, times, sent, messages, owed, new, messages2, owed2) ==
    /\ N \in Nat /\ times \in Nat /\ sent \in Seq(1 .. N) /\ owed \in SUBSET (1 .. N)
    /\ new = AddCopies(sent, N + 1, times)
    /\ \A i \in 1 .. N : messages2[i] = messages[i]
    /\ messages2[N + 1] \in Broadcast => owed2 = owed
    /\ messages2[N + 1] \notin Broadcast =>
           (times = 1 /\ owed2 = owed \cup {N + 1}) \/ (times = 0 /\ owed2 = owed)

\* Copies of a new message, one if the connection is owed it, keep the order.
LEMMA InOrderGrows ==
    ASSUME NEW N, NEW times, NEW sent, NEW messages, NEW owed,
           NEW new, NEW messages2, NEW owed2, InOrder(sent, messages, owed),
           OneMore(N, times, sent, messages, owed, new, messages2, owed2)
    PROVE  InOrder(new, messages2, owed2)
<1>0. /\ N \in Nat /\ times \in Nat /\ sent \in Seq(1 .. N) /\ owed \in SUBSET (1 .. N)
      /\ new = AddCopies(sent, N + 1, times)
      /\ \A i \in 1 .. N : messages2[i] = messages[i]
      /\ messages2[N + 1] \in Broadcast => owed2 = owed
      /\ messages2[N + 1] \notin Broadcast =>
             (times = 1 /\ owed2 = owed \cup {N + 1}) \/ (times = 0 /\ owed2 = owed)
  BY DEF OneMore
<1> USE <1>0
<1> DEFINE L == Len(sent)
<1>1. /\ L \in Nat /\ DOMAIN sent = 1 .. L
      /\ \A n \in 1 .. L : sent[n] \in 1 .. N
  BY LenProperties, ElementOfSeq
<1>2. /\ DOMAIN new = 1 .. L + times
      /\ \A i \in 1 .. L : new[i] = sent[i]
      /\ \A i \in L + 1 .. L + times : new[i] = N + 1
  BY CopiesAdded
<1>3. /\ \A m, n \in 1 .. L : m < n => sent[m] <= sent[n]
      /\ \A i \in owed : \E n \in 1 .. L : \A m \in 1 .. L : sent[m] = i <=> m = n
      /\ \A n \in 1 .. L : messages[sent[n]] \in Broadcast \/ sent[n] \in owed
  <2> DEFINE D == 1 .. L
  <2>1. D = DOMAIN sent
    BY <1>1
  <2> HIDE DEF D
  <2>2. /\ \A m, n \in D : m < n => sent[m] <= sent[n]
        /\ \A i \in owed : \E n \in D : \A m \in D : sent[m] = i <=> m = n
        /\ \A n \in D : messages[sent[n]] \in Broadcast \/ sent[n] \in owed
    BY <2>1, InOrderAt
  <2> QED
    BY <2>2, Zenon DEF D
<1> HIDE DEF L
<1>4. \A n \in 1 .. L + times : n \in 1 .. L \/ n \in L + 1 .. L + times
  BY <1>1
<1>5. 1 .. L \subseteq 1 .. L + times
  BY <1>1
<1>6. \A m, n \in 1 .. L + times : m < n => new[m] <= new[n]
  <2> SUFFICES ASSUME NEW m \in 1 .. L + times, NEW n \in 1 .. L + times, m < n
               PROVE  new[m] <= new[n]
    OBVIOUS
  <2>1. CASE n \in 1 .. L
    <3>1. m \in 1 .. L
      BY <1>1, <2>1
    <3> QED
      BY <1>2, <1>3, <2>1, <3>1
  <2>2. CASE n \notin 1 .. L
    <3>1. new[n] = N + 1
      BY <1>2, <1>4, <2>2
    <3>2. new[m] \in 1 .. N \/ new[m] = N + 1
      BY <1>1, <1>2, <1>4
    <3> QED
      BY <3>1, <3>2
  <2> QED
    BY <2>1, <2>2
<1>7. ASSUME NEW i \in owed
      PROVE  \E n \in 1 .. L + times : \A m \in 1 .. L + times : new[m] = i <=> m = n
  <2>1. PICK n \in 1 .. L : \A m \in 1 .. L : sent[m] = i <=> m = n
    BY <1>3
  <2>2. i # N + 1
    OBVIOUS
  <2>3. \A m \in L + 1 .. L + times : new[m] # i /\ m # n
    BY <1>1, <1>2, <2>2
  <2>4. n \in 1 .. L + times /\ \A m \in 1 .. L + times : new[m] = i <=> m = n
    BY <1>2, <1>4, <1>5, <2>1, <2>3
  <2> QED
    BY <2>4
<1>8. ASSUME times = 1
      PROVE  \E n \in 1 .. L + times : \A m \in 1 .. L + times : new[m] = N + 1 <=> m = n
  <2>1. L + 1 \in 1 .. L + times /\ new[L + 1] = N + 1
    BY <1>1, <1>2, <1>8
  <2>2. \A m \in 1 .. L + times : m # L + 1 => m \in 1 .. L
    BY <1>1, <1>8
  <2>3. \A m \in 1 .. L : new[m] # N + 1
    BY <1>1, <1>2
  <2> QED
    BY <2>1, <2>2, <2>3
<1>9. \A i \in owed2 : \E n \in 1 .. L + times : \A m \in 1 .. L + times : new[m] = i <=> m = n
  <2>1. CASE owed2 = owed
    BY <1>7, <2>1
  <2>2. CASE times = 1 /\ owed2 = owed \cup {N + 1}
    BY <1>7, <1>8, <2>2
  <2> QED
    BY <2>1, <2>2
<1>10. ASSUME NEW n \in 1 .. L + times
       PROVE  messages2[new[n]] \in Broadcast \/ new[n] \in owed2
  <2>1. CASE n \in 1 .. L
    <3>1. new[n] = sent[n] /\ messages2[new[n]] = messages[sent[n]]
      BY <1>1, <1>2, <2>1
    <3> QED
      BY <1>3, <2>1, <3>1
  <2>2. CASE n \in L + 1 .. L + times
    <3>1. new[n] = N + 1 /\ times # 0
      BY <1>1, <1>2, <2>2
    <3> QED
      BY <3>1
  <2> QED
    BY <1>4, <2>1, <2>2
<1> DEFINE D == 1 .. L + times
<1>11. D = DOMAIN new
  BY <1>2
<1>12. /\ \A m, n \in D : m < n => new[m] <= new[n]
       /\ \A i \in owed2 : \E n \in D : \A m \in D : new[m] = i <=> m = n
       /\ \A n \in D : messages2[new[n]] \in Broadcast \/ new[n] \in owed2
  BY <1>6, <1>9, <1>10, Zenon
<1> HIDE DEF D
<1> QED
  BY <1>11, <1>12, InOrderAt

\* A connection that is sent its copies of a new message still has what it is owed.
LEMMA ServedGrows ==
    ASSUME OdInv, SentInv, NEW c \in DOMAIN _map_clients,
           NEW e \in Types \cup {"device", "config"}, log' = Append(log, e),
           Len(log) + 1 <= MaxRecords, UNCHANGED since,
           NEW times \in Nat, e \notin Broadcast => times = CopiesDue(e, c),
           received'[c] = AddCopies(received[c], Len(log) + 1, times)
    PROVE  Served1(c)'
<1> DEFINE F == Types \cup {"device", "config"}
<1>1. log \in Seq(F) /\ e \in F /\ received[c] \in Seq(1 .. Len(log)) /\ Len(log) \in Nat
  BY SentFacts DEF OdInv, ViewsInv
<1> HIDE DEF F
<1>2. log'[Len(log) + 1] = e /\ \A i \in 1 .. Len(log) : log'[i] = log[i]
  BY <1>1, AppendProperties
<1>3. InOrder(received[c], log, Owed(c))
  BY EachServed DEF SentInv, Served1
<1>4. CopiesDue(e, c) \in {0, 1}
  BY DEF CopiesDue
<1>5. /\ log'[Len(log) + 1] \in Broadcast => Owed(c)' = Owed(c)
      /\ log'[Len(log) + 1] \notin Broadcast =>
             \/ times = 1 /\ Owed(c)' = Owed(c) \cup {Len(log) + 1}
             \/ times = 0 /\ Owed(c)' = Owed(c)
  BY <1>2, <1>4, OwedGrows
<1>6. Owed(c) \in SUBSET (1 .. Len(log))
  BY DEF Owed
<1> DEFINE new == received'[c]
           messages2 == log'
           owed2 == Owed(c)'
<1>7. /\ new = AddCopies(received[c], Len(log) + 1, times)
      /\ \A i \in 1 .. Len(log) : messages2[i] = log[i]
      /\ messages2[Len(log) + 1] \in Broadcast => owed2 = Owed(c)
      /\ messages2[Len(log) + 1] \notin Broadcast =>
             \/ times = 1 /\ owed2 = Owed(c) \cup {Len(log) + 1}
             \/ times = 0 /\ owed2 = Owed(c)
  BY <1>2, <1>5
<1> HIDE DEF new, messages2, owed2
<1> DEFINE N == Len(log)
           sent == received[c]
           owed == Owed(c)
<1>8. OneMore(N, times, sent, log, owed, new, messages2, owed2)
  BY <1>1, <1>6, <1>7 DEF OneMore
<1>9. InOrder(new, messages2, owed2)
  BY <1>3, <1>8, InOrderGrows
<1> QED
  BY <1>9 DEF Served1, new, messages2, owed2

\* A message is sent to the connections.
LEMMA SendSent ==
    ASSUME OdInv, SentInv, NEW e \in Types \cup {"device", "config"}, log' = Append(log, e),
           Len(log) + 1 <= MaxRecords, UNCHANGED <<_map_clients, heap, since>>,
           NEW copies, \A c \in DOMAIN _map_clients :
               copies[c] \in Nat /\ (e \notin Broadcast => copies[c] = CopiesDue(e, c)),
           received' = [c \in Ids |->
               IF c \in DOMAIN _map_clients
                 THEN AddCopies(received[c], Len(log) + 1, copies[c]) ELSE received[c]]
    PROVE  SentInv'
<1>1. Len(log) \in Nat /\ Len(log') = Len(log) + 1
  <2> DEFINE F == Types \cup {"device", "config"}
  <2>1. log \in Seq(F) /\ e \in F
    BY DEF OdInv, ViewsInv
  <2> HIDE DEF F
  <2> QED
    BY <2>1, AppendProperties, LenProperties
<1>2. ASSUME NEW c \in DOMAIN _map_clients
      PROVE  /\ since[c].made <= Len(log')
             /\ IF heap[_map_clients[c]].type = 1 THEN since[c].identified <= Len(log')
                                                  ELSE since[c].identified = Never
             /\ Served1(c)'
  <2>1. received'[c] = AddCopies(received[c], Len(log) + 1, copies[c])
    BY SentFacts
  <2>2. Served1(c)'
    BY <2>1, ServedGrows
  <2>3. since[c].made <= Len(log) => since[c].made <= Len(log')
    BY <1>1, SentFacts
  <2>4. since[c].identified <= Len(log) => since[c].identified <= Len(log')
    BY <1>1, SentFacts
  <2> QED
    BY <2>2, <2>3, <2>4 DEF SentInv
<1>3. EachOnceInOrder'
  BY <1>2, Zenon DEF EachOnceInOrder, Served1, InOrder
<1>4. \A c \in Ids \ DOMAIN _map_clients : received'[c] = <<>>
  BY DEF SentInv
<1> QED
  BY <1>2, <1>3, <1>4 DEF SentInv

\* The three ways to send.
LEMMA MessageSent ==
    ASSUME OdInv, SentInv,
           _slotGetData \/ sendDataByRpcSlot \/ \E c \in Ids : onMethodCalledConfig(c)
    PROVE  SentInv'
<1>1. UNCHANGED <<_map_clients, heap, since>>
  BY DEF _slotGetData, sendDataByRpcSlot, onMethodCalledConfig, clients, Send
<1>2. ASSUME mainCalls # <<>>, mainCalls' = Tail(mainCalls) PROVE Len(log) + 1 <= MaxRecords
  <2>1. /\ mainCalls' \in Seq(Types \cup {"device"}) /\ Len(log) + 1 + Len(mainCalls') <= MaxRecords
        /\ log \in Seq(Types \cup {"device", "config"})
    BY <1>2, TakeCall DEF OdInv, ViewsInv
  <2>2. Len(mainCalls') \in Nat /\ Len(log) \in Nat
    BY <2>1, LenProperties
  <2> QED
    BY <2>1, <2>2, OdServerAssumption
<1>3. CASE _slotGetData
  <2> DEFINE t == Head(mainCalls)
             copies == [c \in DOMAIN _map_clients |-> CopiesOf(t, c)]
  <2>1. /\ t \in Types /\ mainCalls # <<>> /\ mainCalls' = Tail(mainCalls)
        /\ log' = Append(log, t)
        /\ received' = [c \in Ids |->
               IF c \in DOMAIN _map_clients
                 THEN AddCopies(received[c], Len(log) + 1, copies[c]) ELSE received[c]]
    BY <1>3 DEF _slotGetData, Send
  <2> HIDE DEF t
  <2>2. t \notin Broadcast => t \in Direct /\ t \notin {"device", "config"}
    BY <2>1, OdServerAssumption DEF Types
  <2>3. \A c \in DOMAIN _map_clients :
            copies[c] \in Nat /\ (t \notin Broadcast => copies[c] = CopiesDue(t, c))
    BY <2>1, <2>2, CopiesType, CopiesDirect DEF CopiesDue, OdInv
  <2> HIDE DEF copies
  <2> QED
    BY <1>1, <1>2, <2>1, <2>3, SendSent
<1>4. ASSUME NEW e \in {"device", "config"}, Len(log) + 1 <= MaxRecords, log' = Append(log, e),
             received' = [c \in Ids |->
               IF c \in DOMAIN _map_clients
                 THEN AddCopies(received[c], Len(log) + 1, 1) ELSE received[c]]
      PROVE  SentInv'
  <2> DEFINE copies == [c \in DOMAIN _map_clients |-> 1]
  <2>1. received' = [c \in Ids |->
               IF c \in DOMAIN _map_clients
                 THEN AddCopies(received[c], Len(log) + 1, copies[c]) ELSE received[c]]
    BY <1>4
  <2>2. \A c \in DOMAIN _map_clients :
            copies[c] \in Nat /\ (e \notin Broadcast => copies[c] = CopiesDue(e, c))
    BY DEF CopiesDue
  <2> HIDE DEF copies
  <2> QED
    BY <1>1, <1>4, <2>1, <2>2, SendSent
<1>5. CASE sendDataByRpcSlot
  <2>1. /\ mainCalls # <<>> /\ mainCalls' = Tail(mainCalls) /\ log' = Append(log, "device")
        /\ received' = [c \in Ids |->
               IF c \in DOMAIN _map_clients
                 THEN AddCopies(received[c], Len(log) + 1, 1) ELSE received[c]]
    BY <1>5 DEF sendDataByRpcSlot, Send
  <2> QED
    BY <1>2, <1>4, <2>1
<1>6. CASE \E c \in Ids : onMethodCalledConfig(c)
  <2>1. /\ log' = Append(log, "config") /\ Len(log) + Len(mainCalls) < MaxRecords
        /\ received' = [c \in Ids |->
               IF c \in DOMAIN _map_clients
                 THEN AddCopies(received[c], Len(log) + 1, 1) ELSE received[c]]
    BY <1>6 DEF onMethodCalledConfig, Send, Pending
  <2>2. Len(log) \in Nat /\ Len(mainCalls) \in Nat
    BY LenProperties DEF OdInv, ViewsInv
  <2>3. Len(log) + 1 <= MaxRecords
    BY <2>1, <2>2, OdServerAssumption
  <2> QED
    BY <1>4, <2>1, <2>3
<1> QED
  BY <1>3, <1>5, <1>6

\* One step of the server keeps what the connections are owed.
LEMMA NextSent == OdInv /\ SentInv /\ [Next]_vars => SentInv'
<1> SUFFICES ASSUME OdInv, SentInv, [Next]_vars PROVE SentInv'
  OBVIOUS
<1>1. CASE UNCHANGED <<_map_clients, heap, log, received, since>>
  BY <1>1, SentFrame
<1>2. CASE UNCHANGED vars
  BY <1>1, <1>2 DEF vars, clients, views
<1>3. CASE Constructor \/ ManagerLoop \/ WrapperLoop
  BY <1>1, <1>3 DEF Constructor, addTcpDevice, createAdsbDevice, devicesAdded,
     addTcpArmrConnection, addRpcArmrConnection, noArmrConnection, ManagerLoop,
     onSolverRequest, onNiippRequest, onAdsbRequest, WrapperLoop, initSlot,
     wrapperSendDataByRpcSlot, clients, views
<1>4. CASE MainLoop
  BY <1>4, MessageSent DEF MainLoop
<1>5. CASE Peers
  <2>1. ASSUME onMessageReceived \/ (\E t \in Types : data_ready(t))
               \/ (\E c \in Ids, r \in TcpRequests : onMethodCalled(c, r)) \/ LinkSlot
        PROVE  SentInv'
    BY <1>1, <2>1 DEF onMessageReceived, data_ready, onMethodCalled, clients, views, LinkSlot,
       connectedToServerSlot, connectionToServerFailedSlot
  <2> QED
    BY <1>5, <2>1, ConnectSent, DisconnectSent, SetClientIdSent, MessageSent DEF Peers, LinkSlot
<1> QED
  BY <1>2, <1>3, <1>4, <1>5 DEF Next

\* For any number of views, messages and reused addresses, every open connection was
\* sent each message it is owed exactly once and in the order of processing.
THEOREM ConnectionsServedInOrder == Spec => []EachOnceInOrder
<1>1. SentInv => EachOnceInOrder
  BY DEF SentInv
<1> QED
  BY <1>1, OdInvariant, InitSent, NextSent, PTL DEF Spec

==============================================================================
