------------------------------- MODULE OdServer -------------------------------
(***************************************************************************)
(* The ARM-OD server: ARM_OD_Srv puts together RPCServer with its           *)
(* Subscriber, TcpManager, RpcConfigReader and RpcClientRWrapper, the       *)
(* client of ARM-R.                                                         *)
(*                                                                         *)
(* RPCServer, Subscriber and RpcConfigReader live in the main thread,       *)
(* TcpManager, RpcClientRWrapper and every device controller in threads of  *)
(* their own.  Threads talk by queued signals, and the main thread takes    *)
(* none of them before the constructor of ARM_OD_Srv has returned.          *)
(***************************************************************************)
EXTENDS Naturals, Sequences, FiniteSets, Functions

CONSTANTS Ids,             \* ids QxtRPCPeer gives to connections
          ViewIds,         \* ids the views give themselves
          Addrs,           \* addresses of RPCClient objects
          Direct,          \* message types sent to one client: call(client, ...)
          Broadcast,       \* message types sent to everybody: call(...)
          Devices,         \* names in devices.ini, "ADSBClient" apart
          ArmrDevices,     \* names in tcpArmrDevice.ini
          MaxConnects,     \* bound: connections made in all
          MaxRecords,      \* bound: messages towards the views
          MaxRequests,     \* bound: solver requests of the views in all
          MaxInputs,       \* bound: messages and solver requests in all
          MaxQueued        \* bound: requests queued to TcpManager

Types == Direct \cup Broadcast
Solver == {"data", "clear"}            \* RPC_SLOT_SET_SOLVER_DATA, _CLEAR
\* "niipp": RPC_SLOT_SET_NIIPP_BPLA or RPC_SLOT_GET_NIIPP_CONNECTION_STATUS
TcpRequests == Solver \cup {"niipp", "adsb"}

ASSUME OdServerAssumption ==
    /\ Direct \cap Broadcast = {}
    /\ {"device", "config"} \cap Types = {}
    /\ MaxConnects \in Nat /\ MaxRecords \in Nat
    /\ MaxRequests \in Nat /\ MaxInputs \in Nat /\ MaxQueued \in Nat

VARIABLES
    armrMode,          \* ARM-R connection mode of armr_connection.ini
    adsbDevice,        \* devices.ini holds "ADSBClient"
    main,              \* where the main thread is: "devices", "armr", "loop"
    m_controllersMap,  \* TcpManager
    m_adsbController,  \* not NULL
    m_rpcClient,       \* TcpManager::m_rpcClient was set
    requests,          \* onMethodCalledInternalSignal, queued to TcpManager
    wrapperCalls,      \* signals queued to RpcClientRWrapper
    wrapperClient,     \* RpcClientRWrapper::m_rpcClient is not NULL
    mainCalls,         \* signalGetData and sendDataByRpcSignal, queued to main
    _map_clients,      \* RPCServer: connection id -> address
    heap,              \* RPCClient objects: address -> id and type
    _map_subscribe,    \* Subscriber: type -> addresses
    connects,          \* connections made so far
    log,               \* messages processed by the main thread
    received,          \* indices in log of what each connection was sent
    since,             \* Len(log) when it was made and when it was identified
    armrLink,          \* QxtRPCPeer of RPCClient_R is connected to ARM-R
    asked,             \* solver requests the views made
    armr,              \* solver requests given to QxtRPCPeer: was the link up?
    fault              \* a pointer was used that is not valid

config == <<armrMode, adsbDevice>>
manager == <<m_controllersMap, m_adsbController, m_rpcClient>>
clients == <<_map_clients, heap, _map_subscribe, connects>>
views == <<log, received, since>>
solver == <<requests, wrapperCalls, wrapperClient, armrLink, asked, armr>>
vars == <<config, main, manager, clients, views, solver, mainCalls, fault>>

Never == MaxRecords + 1    \* since: not identified

TypeOK ==
    /\ armrMode \in {"tcp", "rpc", "none"}
    /\ adsbDevice \in BOOLEAN
    /\ main \in {"devices", "armr", "loop"}
    /\ m_controllersMap \subseteq Devices \cup ArmrDevices
    /\ m_adsbController \in BOOLEAN /\ m_rpcClient \in BOOLEAN
    /\ requests \in Seq(TcpRequests)
    /\ wrapperCalls \in Seq(Solver \cup {"init"}) /\ wrapperClient \in BOOLEAN
    /\ mainCalls \in Seq(Types \cup {"device"})
    /\ _map_clients \in UNION {[S -> Addrs] : S \in SUBSET Ids}
    /\ heap \in UNION {[S -> [id : ViewIds \cup {0}, type : {0, 1}]] : S \in SUBSET Addrs}
    /\ _map_subscribe \in [Types -> Seq(Addrs)]
    /\ connects \in 0 .. MaxConnects
    /\ log \in Seq(Types \cup {"device", "config"}) /\ Len(log) <= MaxRecords
    /\ received \in [Ids -> Seq(1 .. Len(log))]
    /\ since \in [Ids -> [made : 0 .. MaxRecords, identified : 0 .. Never]]
    /\ armrLink \in BOOLEAN
    /\ asked \in Seq(Solver) /\ armr \in Seq([request : Solver, up : BOOLEAN])
    /\ fault \in {"none", "rpcClient", "wrapper", "adsb", "deleted"}

Init ==
    /\ armrMode \in {"tcp", "rpc", "none"}
    /\ adsbDevice \in BOOLEAN
    /\ main = "devices"
    /\ m_controllersMap = {} /\ m_adsbController = FALSE /\ m_rpcClient = FALSE
    /\ requests = <<>> /\ wrapperCalls = <<>> /\ wrapperClient = FALSE
    /\ mainCalls = <<>>
    /\ _map_clients = << >> /\ heap = << >>
    /\ _map_subscribe = [t \in Types |-> <<>>]
    /\ connects = 0
    /\ log = <<>> /\ received = [c \in Ids |-> <<>>]
    /\ since = [c \in Ids |-> [made |-> 0, identified |-> Never]]
    /\ armrLink = FALSE /\ asked = <<>> /\ armr = <<>>
    /\ fault = "none"

----------------------------------------------------------------------------
\* The constructor of ARM_OD_Srv, in the main thread.

addTcpDevice(d) ==
    /\ main = "devices" /\ d \in Devices \ m_controllersMap
    /\ m_controllersMap' = m_controllersMap \cup {d}
    /\ UNCHANGED <<config, main, m_adsbController, m_rpcClient, clients, views,
                   solver, mainCalls, fault>>

createAdsbDevice ==
    /\ main = "devices" /\ adsbDevice /\ ~m_adsbController
    /\ m_adsbController' = TRUE
    /\ UNCHANGED <<config, main, m_controllersMap, m_rpcClient, clients, views,
                   solver, mainCalls, fault>>

\* The end of the loop over devices.ini; the mode is read.
devicesAdded ==
    /\ main = "devices"
    /\ Devices \subseteq m_controllersMap /\ (adsbDevice => m_adsbController)
    /\ main' = "armr"
    /\ UNCHANGED <<config, manager, clients, views, solver, mainCalls, fault>>

addTcpArmrConnection ==
    /\ main = "armr" /\ armrMode = "tcp"
    /\ m_controllersMap' = m_controllersMap \cup ArmrDevices
    /\ main' = "loop"
    /\ UNCHANGED <<config, m_adsbController, m_rpcClient, clients, views, solver,
                   mainCalls, fault>>

\* Mutant: the wrapper is not given to TcpManager.
addRpcArmrConnectionUnset ==
    /\ main = "armr" /\ armrMode = "rpc"
    /\ wrapperCalls' = Append(wrapperCalls, "init")
    /\ main' = "loop"
    /\ UNCHANGED <<config, manager, clients, views, requests, wrapperClient, armrLink,
                   asked, armr, mainCalls, fault>>

\* init() posts initSlot() to the wrapper's thread before anybody knows the
\* wrapper.
addRpcArmrConnection ==
    /\ main = "armr" /\ armrMode = "rpc"
    /\ wrapperCalls' = Append(wrapperCalls, "init")
    /\ m_rpcClient' = TRUE
    /\ main' = "loop"
    /\ UNCHANGED <<config, m_controllersMap, m_adsbController, clients, views,
                   requests, wrapperClient, armrLink, asked, armr, mainCalls, fault>>

noArmrConnection ==
    /\ main = "armr" /\ armrMode = "none"
    /\ main' = "loop"
    /\ UNCHANGED <<config, manager, clients, views, solver, mainCalls, fault>>

----------------------------------------------------------------------------
\* Subscriber: its map from types to vectors of clients.

\* rpc_slot_set_client_id() subscribes the client to every type.
add_subscription(subs, a) ==
    [t \in Types |-> IF a \in Range(subs[t]) THEN subs[t] ELSE Append(subs[t], a)]

\* The positions of a vector that the loop keeps.  It steps over the element
\* behind a removed one: of a run of equal addresses it removes the first, the
\* third, ...
Kept(vec, a) ==
    LET Run(i) == {j \in 1 .. i : \A k \in j .. i : vec[k] = a}
    IN  {i \in DOMAIN vec : Cardinality(Run(i)) % 2 = 0}

\* What remains of the vector.
RemoveFrom(vec, a) ==
    LET Nth(n) == CHOOSE i \in Kept(vec, a) : Cardinality(Kept(vec, a) \cap 1 .. i) = n
    IN  [n \in 1 .. Cardinality(Kept(vec, a)) |-> vec[Nth(n)]]

remove_subscription(subs, a) == [t \in Types |-> RemoveFrom(subs[t], a)]

----------------------------------------------------------------------------
\* RPCServer, in the main thread's event loop.

\* new RPCClient(): the allocator may give back an address that was freed.
_slotRPCConnetion(c, a) ==
    /\ main = "loop" /\ connects < MaxConnects
    /\ c \notin DOMAIN _map_clients   \* ids of open connections are distinct
    /\ a \notin DOMAIN heap
    /\ _map_clients' = [x \in DOMAIN _map_clients \cup {c} |->
                            IF x = c THEN a ELSE _map_clients[x]]
    /\ heap' = [x \in DOMAIN heap \cup {a} |->
                    IF x = a THEN [id |-> 0, type |-> 0] ELSE heap[x]]
    /\ connects' = connects + 1
    /\ since' = [since EXCEPT ![c] = [made |-> Len(log), identified |-> Never]]
    /\ UNCHANGED <<config, main, manager, _map_subscribe, log, received, solver,
                   mainCalls, fault>>

\* Mutant: the subscriptions stay.
_slotRPCDisconnectedKeeps(c) ==
    /\ main = "loop" /\ c \in DOMAIN _map_clients
    /\ heap' = Restrict(heap, DOMAIN heap \ {_map_clients[c]})
    /\ _map_clients' = Restrict(_map_clients, DOMAIN _map_clients \ {c})
    /\ received' = [received EXCEPT ![c] = <<>>]
    /\ since' = [since EXCEPT ![c] = [made |-> 0, identified |-> Never]]
    /\ UNCHANGED <<config, main, manager, _map_subscribe, connects, log, solver,
                   mainCalls, fault>>

_slotRPCDisconnected(c) ==
    /\ main = "loop" /\ c \in DOMAIN _map_clients
    /\ _map_subscribe' = remove_subscription(_map_subscribe, _map_clients[c])
    /\ heap' = Restrict(heap, DOMAIN heap \ {_map_clients[c]})
    /\ _map_clients' = Restrict(_map_clients, DOMAIN _map_clients \ {c})
    /\ received' = [received EXCEPT ![c] = <<>>]
    /\ since' = [since EXCEPT ![c] = [made |-> 0, identified |-> Never]]
    /\ UNCHANGED <<config, main, manager, connects, log, solver, mainCalls, fault>>

\* Mutant: an id that is not known is looked up all the same, and NULL subscribed.
rpc_slot_set_client_idUnchecked(c, id) ==
    /\ main = "loop" /\ c \notin DOMAIN _map_clients
    /\ _map_subscribe' = add_subscription(_map_subscribe, "NULL")
    /\ UNCHANGED <<config, main, manager, _map_clients, heap, connects, views, solver,
                   mainCalls, fault>>

\* A view names itself, as often as it likes.
rpc_slot_set_client_id(c, id) ==
    /\ main = "loop" /\ c \in DOMAIN _map_clients
    /\ heap' = [heap EXCEPT ![_map_clients[c]] = [id |-> id, type |-> 1]]
    /\ _map_subscribe' = add_subscription(_map_subscribe, _map_clients[c])
    /\ since' = [since EXCEPT ![c].identified = IF @ = Never THEN Len(log) ELSE @]
    /\ UNCHANGED <<config, main, manager, _map_clients, connects, log, received,
                   solver, mainCalls, fault>>

\* Times copies of message n at the end of s.
AddCopies(s, n, times) == s \o [i \in 1 .. times |-> n]

\* The main thread sends message t; copies(c) times to connection c.
Send(t, copies(_)) ==
    /\ log' = Append(log, t)
    /\ received' = [c \in Ids |->
           IF c \in DOMAIN _map_clients
             THEN AddCopies(received[c], Len(log) + 1, copies(c)) ELSE received[c]]
    /\ UNCHANGED since

\* Mutant: the loop ends behind the first subscriber.
ServedFirst(t) ==
    {a \in Range(_map_subscribe[t]) : a = _map_subscribe[t][1] /\ a \in DOMAIN heap}

\* The subscribers of t whose RPCClient::sendData() is called.
Served(t) ==
    {a \in Range(_map_subscribe[t]) :
        a \in DOMAIN heap /\ (heap[a].type = 1 \/ heap[a].id = 0)}

\* RPCClient::_slotGetData() asks for the connection of the object and calls
\* it, or everybody.
CopiesOf(t, c) ==
    LET Calls(a) == Cardinality({i \in DOMAIN _map_subscribe[t] :
                                     _map_subscribe[t][i] = a})
    IN  IF t \in Direct
          THEN IF _map_clients[c] \in Served(t) THEN Calls(_map_clients[c]) ELSE 0
          ELSE Cardinality({i \in DOMAIN _map_subscribe[t] :
                                _map_subscribe[t][i] \in Served(t)})

\* Subscriber::_slotGetData(), a signal that was queued to the main thread.
_slotGetData ==
    /\ main = "loop" /\ mainCalls # <<>> /\ Head(mainCalls) \in Types
    /\ mainCalls' = Tail(mainCalls)
    /\ Send(Head(mainCalls), LAMBDA c : CopiesOf(Head(mainCalls), c))
    /\ fault' = IF Range(_map_subscribe[Head(mainCalls)]) \subseteq DOMAIN heap
                  THEN fault ELSE "deleted"
    /\ UNCHANGED <<config, main, manager, clients, solver>>

\* A signal that QxtRPCPeer sends to every connection.
sendDataByRpcSlot ==
    /\ main = "loop" /\ mainCalls # <<>> /\ Head(mainCalls) = "device"
    /\ mainCalls' = Tail(mainCalls)
    /\ Send("device", LAMBDA c : 1)
    /\ UNCHANGED <<config, main, manager, clients, solver, fault>>

Pending == Len(log) + Len(mainCalls)
Room == Pending + Len(asked) < MaxInputs

\* The answer of RpcConfigReader to a request of one view goes to all of them.
onMethodCalledConfig(c) ==
    /\ main = "loop" /\ c \in DOMAIN _map_clients /\ Pending < MaxRecords /\ Room
    /\ Send("config", LAMBDA d : 1)
    /\ UNCHANGED <<config, main, manager, clients, solver, mainCalls, fault>>

\* A request of a view that is TcpManager's: queued to its thread.
onMethodCalled(c, r) ==
    /\ main = "loop" /\ c \in DOMAIN _map_clients
    /\ Len(requests) < MaxQueued /\ Len(asked) < MaxRequests /\ Room
    /\ requests' = Append(requests, r)
    /\ asked' = IF r \in Solver THEN Append(asked, r) ELSE asked
    /\ UNCHANGED <<config, main, manager, clients, views, wrapperCalls, wrapperClient,
                   armrLink, armr, mainCalls, fault>>

----------------------------------------------------------------------------
\* TcpManager's thread and the controllers' threads.

\* Mutant: the solver's slots have no branch.
onSolverRequestIgnored ==
    /\ requests # <<>> /\ Head(requests) \in Solver
    /\ requests' = Tail(requests)
    /\ UNCHANGED <<config, main, manager, clients, views, wrapperCalls, wrapperClient,
                   armrLink, asked, armr, mainCalls, fault>>

\* Mutant: "clear" is sent by a direct call, not by the queued signal.
onSolverRequestDirect ==
    /\ requests # <<>> /\ Head(requests) \in Solver
    /\ requests' = Tail(requests)
    /\ IF Head(requests) = "clear" /\ wrapperClient
         THEN /\ armr' = Append(armr, [request |-> "clear", up |-> armrLink])
              /\ UNCHANGED wrapperCalls
         ELSE /\ wrapperCalls' = Append(wrapperCalls, Head(requests))
              /\ UNCHANGED armr
    /\ UNCHANGED <<config, main, manager, clients, views, wrapperClient, armrLink,
                   asked, mainCalls, fault>>

\* TcpManager::onMethodCalledInternalSlot().  m_rpcClient is not initialised by
\* the constructor.
onSolverRequest ==
    /\ requests # <<>> /\ Head(requests) \in Solver
    /\ requests' = Tail(requests)
    /\ IF m_rpcClient
         THEN /\ wrapperCalls' = Append(wrapperCalls, Head(requests))
              /\ UNCHANGED fault
         ELSE /\ fault' = "rpcClient"
              /\ UNCHANGED wrapperCalls
    /\ UNCHANGED <<config, main, manager, clients, views, wrapperClient, armrLink,
                   asked, armr, mainCalls>>

\* A NIIPP that is not in the map, or an unknown id, ends the request.
onNiippRequest ==
    /\ requests # <<>> /\ Head(requests) = "niipp"
    /\ requests' = Tail(requests)
    /\ UNCHANGED <<config, main, manager, clients, views, wrapperCalls, wrapperClient,
                   armrLink, asked, armr, mainCalls, fault>>

onAdsbRequest ==
    /\ requests # <<>> /\ Head(requests) = "adsb"
    /\ requests' = Tail(requests)
    /\ fault' = IF m_adsbController THEN fault ELSE "adsb"
    /\ UNCHANGED <<config, main, manager, clients, views, wrapperCalls, wrapperClient,
                   armrLink, asked, armr, mainCalls>>

\* A controller hands a message to TcpManager::onMessageReceived() in its own
\* thread; it goes to RPCServer::sendDataByRpc().
onMessageReceived ==
    /\ m_controllersMap # {} \/ m_adsbController
    /\ Pending < MaxRecords /\ Room
    /\ mainCalls' = Append(mainCalls, "device")
    /\ UNCHANGED <<config, main, manager, clients, views, solver, fault>>

----------------------------------------------------------------------------
\* RpcClientRWrapper's thread.

initSlot ==
    /\ wrapperCalls # <<>> /\ Head(wrapperCalls) = "init"
    /\ wrapperCalls' = Tail(wrapperCalls)
    /\ wrapperClient' = TRUE
    /\ UNCHANGED <<config, main, manager, clients, views, requests, armrLink, asked,
                   armr, mainCalls, fault>>

\* RpcClientRWrapper::sendDataByRpcSlot().  The call ends in a signal that
\* QxtRPCPeer turns into a message: it is written to the connection, and nothing
\* keeps it for later when there is none.
wrapperSendDataByRpcSlot ==
    /\ wrapperCalls # <<>> /\ Head(wrapperCalls) \in Solver
    /\ wrapperCalls' = Tail(wrapperCalls)
    /\ IF wrapperClient
         THEN /\ armr' = Append(armr, [request |-> Head(wrapperCalls), up |-> armrLink])
              /\ UNCHANGED fault
         ELSE /\ fault' = "wrapper"
              /\ UNCHANGED armr
    /\ UNCHANGED <<config, main, manager, clients, views, requests, wrapperClient,
                   armrLink, asked, mainCalls>>

\* start() connects; every second the timer does it again after a failure or a
\* loss.
connectedToServerSlot ==
    /\ wrapperClient /\ ~armrLink
    /\ armrLink' = TRUE
    /\ UNCHANGED <<config, main, manager, clients, views, requests, wrapperCalls,
                   wrapperClient, asked, armr, mainCalls, fault>>

connectionToServerFailedSlot ==
    /\ armrLink
    /\ armrLink' = FALSE
    /\ UNCHANGED <<config, main, manager, clients, views, requests, wrapperCalls,
                   wrapperClient, asked, armr, mainCalls, fault>>

\* ARM-R calls a slot of RPCClient_R: a message of type t, for the subscribers.
data_ready(t) ==
    /\ armrLink /\ Pending < MaxRecords /\ Room
    /\ mainCalls' = Append(mainCalls, t)
    /\ UNCHANGED <<config, main, manager, clients, views, solver, fault>>

----------------------------------------------------------------------------
Constructor ==
    \/ \E d \in Devices : addTcpDevice(d)
    \/ createAdsbDevice \/ devicesAdded
    \/ addTcpArmrConnection \/ addRpcArmrConnection \/ noArmrConnection

Peers ==
    \/ \E c \in Ids, a \in Addrs : _slotRPCConnetion(c, a)
    \/ \E c \in Ids : _slotRPCDisconnected(c)
    \/ \E c \in Ids, id \in ViewIds : rpc_slot_set_client_id(c, id)
    \/ \E c \in Ids : onMethodCalledConfig(c)
    \/ \E c \in Ids, r \in TcpRequests : onMethodCalled(c, r)
    \/ \E t \in Types : data_ready(t)
    \/ onMessageReceived
    \/ connectedToServerSlot \/ connectionToServerFailedSlot

MainLoop == _slotGetData \/ sendDataByRpcSlot
ManagerLoop == onSolverRequest \/ onNiippRequest \/ onAdsbRequest
WrapperLoop == initSlot \/ wrapperSendDataByRpcSlot

\* A use of an invalid pointer ends the program.
Next ==
    /\ fault = "none"
    /\ Constructor \/ Peers \/ MainLoop \/ ManagerLoop \/ WrapperLoop

Spec == Init /\ [][Next]_vars

\* The constructor runs to its end, and every thread handles what was queued to
\* it.
FairSpec ==
    /\ Spec
    /\ WF_vars(Constructor /\ fault = "none") /\ WF_vars(MainLoop /\ fault = "none")
    /\ WF_vars(ManagerLoop /\ fault = "none") /\ WF_vars(WrapperLoop /\ fault = "none")

----------------------------------------------------------------------------
\* Every subscriber is the live object of a connection that named itself, and
\* every such object is there once: a connection that goes takes all its
\* subscriptions along, so an address that is allocated again does not inherit
\* them (RPCServer::_slotRPCDisconnected, Subscriber::remove_subscription).
SubscribersAreIdentified ==
    \A t \in Types :
        /\ IsInjective(_map_subscribe[t])
        /\ Range(_map_subscribe[t]) =
             {_map_clients[c] : c \in {x \in DOMAIN _map_clients :
                                           heap[_map_clients[x]].type = 1}}

\* What a connection is owed: the messages to everybody since it was made, the
\* ones to named views since it named itself.
Owed(c) ==
    {i \in 1 .. Len(log) : \/ log[i] \in {"device", "config"} /\ i > since[c].made
                           \/ log[i] \in Direct /\ i > since[c].identified}

\* Every open connection was sent what it is owed, each message once and in the
\* order of processing, and of the messages to named views nothing else, whoever
\* else came and went (Subscriber::_slotGetData, RPCServer::sendDataByRpcSlot).
EachOnceInOrder ==
    \A c \in DOMAIN _map_clients :
        LET sent == received[c] IN
        /\ \A m, n \in DOMAIN sent : m < n => sent[m] <= sent[n]
        /\ \A i \in Owed(c) : \E n \in DOMAIN sent :
               \A m \in DOMAIN sent : sent[m] = i <=> m = n
        /\ \A n \in DOMAIN sent : log[sent[n]] \in Broadcast \/ sent[n] \in Owed(c)

\* With the RPC connection to ARM-R and an ADS-B device configured no handler
\* meets a pointer that is not set, although TcpManager's thread and the
\* wrapper's thread run from the start: a request cannot overtake the
\* constructor, nor initSlot() (ARM_OD_Srv::addRpcArmrConnection).
ConfiguredNeverFaults == armrMode = "rpc" /\ adsbDevice => fault = "none"

\* The solver requests pass through the queues of three threads to QxtRPCPeer:
\* each one comes to the peer at most once, unchanged and in the order in which
\* the views made them, and is lost there exactly when the link to ARM-R is down
\* at that moment, in every mode (TcpManager::onMethodCalledInternalSlot,
\* RpcClientRWrapper::sendDataByRpc, RPCClient_R::sendDataByRpc).
SolverRelay == INSTANCE Relay WITH
    Requests <- Solver, made <- asked, handedOver <- armr, link <- armrLink
ImplementsRelay == SolverRelay!Spec

\* Request n has come to QxtRPCPeer.
Settled(n) == Len(armr) >= n /\ armr[n].request = asked[n]

\* Every solver request a view made comes to QxtRPCPeer in the end, in its turn,
\* through the three threads that pass it on, and one that is under way when the
\* link to ARM-R comes up for good is written to it.
SolverReaches ==
    armrMode = "rpc" /\ adsbDevice =>
        \A n \in 1 .. MaxRequests :
            /\ [](Len(asked) >= n => <>Settled(n))
            /\ [](Len(asked) >= n /\ ~Settled(n) /\ []armrLink
                     => <>(Settled(n) /\ armr[n].up))
==============================================================================
