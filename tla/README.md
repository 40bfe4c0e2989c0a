# TLA+ models of ARM OD

ARM OD is an operator's workstation for tracking UAVs (Qt 4, C++).  A **server**
collects positions from TCP devices (KTR telemetry stations, NIIPP, AIS, ADS-B,
ARM-R) and hands them to **views** over RPC; a view stores them in a database,
shows them on a map and in trees, and replays recorded flights.  The program's own
code is under `src/src`; `redist/`, `maps/` and `cmake/` hold third-party code and
data.  This directory holds TLA+ models of the parts of that code in which
threads, timers, links and queues meet, the TLC configurations that check them, and
TLAPS proofs of the main results.

    tlc -config MCRoutedServer.cfg MCRoutedServer       # one run
    tlapm RoutedServerProofs.tla                        # the proofs of a module

## 1. Inventory

| Component | State | Operations | Interacts with | What is hard | Correct when |
|---|---|---|---|---|---|
| `RpcRoutedServer`, `BiMap` (CISCommonLib/src/Rpc, Templates) | client and listener registrations per route, `m_routes` as a cache of the pairs | (de)register receiver/client, dispatch, call | Qxt RPC peer, listeners of the process | registrations in any order, disconnects, a cache in two halves | a message reaches exactly the peer on the same route |
| `BaseTcpClient` (CISCommonLib/src/Tcp) | socket, QIODevice, reconnect timer | async connect/disconnect, socket slots, timer | device controllers, peers | refusal, silence, loss, requests from other threads, timers that are overwritten | reported status is true; a wanted link is retried for ever, an unwanted one never |
| `TcpKTRManager`, KTR branch of `TcpManager` (server/core/TCP) | controllers and life timers per board, mutex, "need to update" flag and hosts | `connectToBoard`, `needToUpdateAfterDisconnect`, `timeoutSlot`, board list, link status | base controllers (one thread each), board controllers, manager's thread | nested event loop under a mutex, a flag shared by stations, posted timeouts | every listed board is connected and registered once per connection; unlisted ones go away |
| `UavHistory`, `ControlPanelController`, `UavTreeModel` (view/core) | timer, pause flag, query, known UAVs, roles, dates | start, export, pause, resume, stop, tick, change of database | GUI thread, database thread, listeners | status read in one thread and used in another, nested loops, the end of the rows inside a tick | trees show what is being replayed and nothing when nothing is |
| `ARM_OD_Srv`, rest of `TcpManager` | map of device controllers, ADS-B controller, client of ARM-R | constructor, add device, messages to the views, requests of the views | all TCP controllers, RPCServer, ARM-R | requests in other threads while the constructor runs, clients that may not exist | no handler uses a pointer that is not set; every solver request reaches ARM-R |
| `RPCServer`, `Subscriber`, `Router` (server/core) | RPC clients, subscriptions | connect, disconnect, subscribe, publish | views, TcpManager | reconnects, addresses that are reused, removal while iterating | every named view gets every message once and in order, no other object is called |
| `RpcClientBase`, `RpcRoutedClient`, `RPCClient` | peer, reconnect timer, route | connect, register route | RpcRoutedServer | reconnect while the server still holds the old registration | the route is regained |
| `DbUavManager` (view/core/Tabs/DbBla) | known UAVs, life timers, two mutexes | position received, timeout, delete all | DbUavController, listeners | posted timeouts, two mutexes, the thread of a closed tab | every UAV shown is known and has a timer that removes it; a new configuration is never stuck |
| `DbUavController` | database, reconnect timer, caches | SQL statements, reconnect | UavHistory | transactions that are not ended | - |
| `BaseTcpDeviceController`, coders (KTR, NIIPP, AIS, ARM-R), CRCs | input buffers | encode, decode | BaseTcpClient, TcpManager | packets in pieces, empty input | every complete packet is delivered once |
| `BaseTcpServer` and its clients | list of clients | accept, send, disconnect | - | removal during iteration | - |
| `ServiceHandler`, `LogManager`, `ThreadSafeTimer` | child process state, log files, timer | start/stop, roll over | - | timeouts | - |
| map, NIIPP and solver tabs, simulators, JSON, tree models | user interface | - | - | - | - |

`PROJECT.json` lists every component with its sources and status, and, under
`hazards`, the places in the code that a test would hardly reach.

## 2. Plan

The order was: routing (`RoutedServer`), links (`TcpClient`), KTR stations
(`KtrManager`), replay (`UavHistory`), live UAVs (`DbUavManager`), the routed client
composed with the routed server (`RoutedClient`), and the server as a whole
(`OdServer`); each has its proofs.  `RoutedClient` instantiates `RoutedServer`, which
instantiates `BiMap`; `Link`, `RouteTable` and `Relay` are the abstract specifications
that `TcpClient`, `RoutedServer` and `OdServer` implement.  Every safety invariant and
action property that a passing run checks is also a theorem.

Worth doing next:

1. an abstract specification of `DbUavManager` (a set of UAVs with a life time, and
   listeners that follow it);
2. `ServiceHandler`, which follows a child process.

The coders and checksums are sequential conversions that keep at most the last
altitude and speed between calls; testing serves them better.

## 3. Modules

### BiMap, RouteTable, RoutedServer (`RpcRoutedServer.cpp`, `BiMap.h`)

`BiMap` has the two QMaps as total functions with the default value for absent keys,
which the callers never store.  `RoutedServer` has one action per method; each runs
to completion in the server's thread.  `m_receiversList` counts how often a
listener is enrolled.  `last` records the outcome and the recipients, so that the
refinement compares them too.  `RouteTable` is the server without its cache: seats at
routes.  For route 0 it follows the code, which accepts a repeated enrolment each time (a
broadcast then reaches the receiver each time), and not the comment in the header: that
disagreement has a run of its own.  The bound `MaxReceivers` limits these enrolments;
nothing else depends on it.

* `routed_server`: 2 clients, 2 listeners, routes 0 to 2, so that a route may be
  free, half taken or taken, and a client or listener may move.  `RoutesOneToOne` (the
  two halves agree, hence the Q_ASSERTs hold), `RoutesAreJoin` (the cache is exact) and
  `ImplementsRouteTable`.  The types and `OneRouteEach` (so `QMap::key()` finds the only
  entry) are parts of the proof and theorems of their own.
* `routed_server_twice`: the same instance, `EnrolledOnce`: section 5.

### Link, TcpClient (`BaseTcpClient.cpp`)

Requests are posted (`calls`) and served between socket and timer events.
`waitForConnected(1000)` blocks the thread: that is the pc `connecting` or
`reconnecting`, during which the peer may change and requests may be posted.
QTcpSocket is external: an attempt succeeds, is refused with the error signal, or
times out with or without it; a loss gives error and then disconnected; a silent
peer is never noticed (the code has no keep-alive, and no property claims it).
`failedAttempt` shows the timer that the code overwrites (line 190).  `Link` is the
promise to the controllers.

* `tcp_client`: up to 3 connect requests, 2 waiting requests, 5 timer ids (one per
  leak and two in use: `IdsSuffice`).  `StatusIsTrue`, `TimerIffNeeded`,
  `OrphansBounded` (only explicit connects leak timers), `ImplementsLink`, and under
  fairness `Reconnects` and `LossReported`.  Fairness is weak fairness of every
  event of the thread: a Qt event loop delivers posted events, socket
  notifications and ticks of running timers; the peer and the callers owe nothing.

### KtrManager (`TcpKTRManager.cpp`, `TcpManager.cpp:142-192`, `TcpKTRController.cpp`)

One thread per station, in one of the places `idle`, `connected` (about to lock in
`needToUpdateAfterDisconnect(true)`), `board` (about to lock in
`connectToBoard()`), `wait` (in the `processEvents()` loop, holding the mutex) and
`listDone`.  `nested` is a Connected handler entered from that loop: it waits for
the mutex of its own thread.  `timeoutSlot` runs in the manager's thread; a timeout
that is posted and then overtaken by a restart of the timer is marked `overtaken`.
Board links go up and down on their own, as `Link` allows.  What the manager asks of a
board's controller is posted to the controller's thread: `RegisterAgain` posts the
command (`posted`) if the client is open, `writeDataInternalSlot` writes it
(`registered`), unless the link is lost before (`BoardDown`).  `timeoutSlot` takes the
controller out of the map and posts disconnect and deletion; the link stays open until
the thread gets there (`disconnectFromHostInternalSlot`), behind a command that was
posted earlier.  `connectNewBoard` does not start on the same key before that: the
manager waits 200 ms in `disconnectFromHostAsync()` with the mutex held, and the model
takes that to be enough for a thread with an open link.  Left out: other time (the 10 s
and the life time end at any moment), a list that arrived before the base link went down
and is decoded after it, and a second firing of a life timer (300 s) before its first
timeout is served.

* `ktr_manager`: 2 stations, 1 board, 1 device (the second device of a board is one
  more round of the same loop): `MapsAgree` (no null controller
  or timer is used), `DroppedIsSilent` (a board that was dropped stops sending, also when
  its command was still on the way), `ListServed`: every list is worked off unless
  a thread has locked itself out, and `LockedOutForGood`: what such a thread takes with
  it.  Fairness: strong for acquiring the mutex (`LocksMutex`:
  a waiting thread gets it when it is released again and again, which the futex or
  Windows event behind QMutex gives in practice), weak for the end of the 10 s wait and
  for the event loop of a board's thread.
* `ktr_two_stations` and `ktr_self_lock` show two disagreements with what the code says
  of itself (section 5).  For a single station `RegisterWhenDue`, which the first of them
  violates, is the theorem `SingleStationRegisters`.

### UavHistory (`UavHistory.cpp`, `ControlPanelController.cpp`, `UavTreeModel.cpp`)

The object's fields are one record, its slots functions of it; the actions are the
panel's buttons (GUI thread, posting to `calls`) and the history's thread.  `waits`
holds the kinds of calls the GUI thread has not returned from: `start()` and `stop()`
run nested event loops that all end with `startFinished()`.  A recording is a sequence
of seconds with the UAVs that have rows in them; an exhausted query gives the invalid
row of UAV 0.  `updateHistoryState` keeps the order of the code: rows are read, the
end of the rows stops the replay, then the rows are sent and outdated UAVs removed.
The listeners are the trees; the map receives the same messages.  Roles are
abstracted to "remembered": a message without a role is ignored by every tree.
The panel is taken to be enabled while the database is open.  Left out: the change of
the database from the GUI thread (`TabManager.cpp`), the destructor, and milliseconds.

* `uav_history`: every recording of up to 3 seconds with 2 UAVs and a life time of 2
  (3 seconds are needed for a UAV to be outdated while another is replayed), 1 waiting
  request: `TreeIsRemovable`, `ReadyShowsNothing`, `ShownIsDated` (an export leaves dates
  and roles behind, which the early return of `stop()` does not clear: no node of the
  next replay lives by such a date), and under weak fairness of the
  history's event loop and timer `ReplayEnds`.  A waiting request is enough for a
  button that was pressed before the status changed.
* `uav_history_stop`: section 5.

### DbUavManager (`DbUavManager.cpp`, `UavTreeModel.cpp`, `MapController.cpp`, `MapClient1.cpp`, `TabManager.cpp`, `MapTabWidgetController.cpp`, `RpcClientWrapper.cpp`)

The state is the manager's two maps, its two mutexes, what its listeners (tree and
map of the tab) show, and where each thread is.  The RPC thread `t` of a tab takes a
list of points (`onMethodCalled`), and for every point locks `m_mutex`
(`addUavInfoToDb`) and then `m_deleteMutex` (`addUavInfo`, one step: all that it
touches is guarded by the second mutex).  A running life timer posts its timeout to the
manager's thread (`Timeout`), which serves it under `m_deleteMutex`: `timeoutSlot` takes
UAV and timer out, `notifyRemoved` calls the listeners.  The GUI thread answers a new
configuration with `clearAllInformation`, `deleteAllUav` (copy of the keys under
`m_mutex`), `deleteKey`, `clearMaps`, `addStationTabs`.  A new tab starts a thread and
posts `initSlot` to it, then connects a nested event loop to its signal and waits
(`enterLoop`, `leaveLoop`): `init` is `lost` when the thread was quicker, and the GUI
thread then stays in that loop.  The thread of a closed tab is
not waited for and may still store the list it is at.  A timer is started from the
thread of another tab with or without effect (`Started`), since Qt only warns.  A UAV
that is not known when its timeout is served is a `Uav` with uninitialised fields
(`Defines.h:27`): the listeners are told of any UAV or of none.  The tree changes in
the caller's thread, the map by calls that are posted to the GUI thread.  Every call of
the listeners comes with a role that is asked of the database: without it the tree
neither adds nor removes (`missed` counts the nodes that stay for that reason), while the
map removes in any case.  `onAtlantPosition` is the other source of marks: the map shows
them past the manager under numbers that may also be ids of UAVs.

Left out: a configuration that is answered inside the nested loop of a tab and closes the
tabs under it (`MainWindowController.cpp:208-219`); several stations (one tab at a time
stands for the tabs of all of them); names of UAVs that are not numbers
(`UavTreeModel.cpp:176-182` finds a node by its number); SQL (its answers are choices), positions and roles; `m_receiversList` is
taken as thread safe, which `BaseSubject.h` does not make it; the destructor of
`TabManager`, which emits `finished()` before it uses the manager
(`TabManager.cpp:56-58,171`).

* `db_uav_manager`: 2 UAVs, 2 tabs, 2 messages (of up to 2 points, or from ATLANT), 1
  posted timeout: a UAV may be refreshed and time out, be in the list of a closed tab, or
  be deleted with its timeout posted, while another one is there; two timeouts at once
  would only wait for one another.  `KnownHasTimer`, `NoGhosts` (a node of a UAV that is
  gone is one whose role was not found), `MapShowsKnown` (of the manager's marks),
  `ClearFindsNothing`; under weak fairness of each thread's loop, of
  running timers and of the event queues `SilentUavGoes` and `ConfigurationEnds` (the GUI
  thread is done, or hangs because the signal was lost, and for no other reason).
  Fairness owes neither points nor configurations.  A UAV that the thread of a closed
  tab adds while no listener is registered is known and not shown by the new tab;
  `NoGhosts` is stated in the other direction, which holds.

### RoutedClient (`RpcRoutedClient.cpp`, `RpcClientBase.cpp`, with `RoutedServer`)

A client's side is `started`, `link`, `m_routeId` and the reconnect timer; the server is
an instance of `RoutedServer` whose clients are connection ids, given in order.  A
connection breaks at any moment (`Break`); then the client notices
(`disconnectedFromServer`) and the server notices (`clientDisconnected`), in either
order, and calls that were under way arrive or are lost.  `prompt` is chosen at the
start: in such a behaviour the server always notices before the client is back.
`registerRoute` sends deregister and register when the client believes it has a route,
as it does after a reconnect, because `m_routeId` survives the break.

* `routed_client`: 1 client, 3 connections (a first one, and two reconnects, so that
  a route may be held by an id that is two connections old), 3 calls under way, 1
  listener, 2 routes.  `RouteIsCurrentOrBroken`, `KeepsTrying`,
  `ListenerReachesItsClient` (the cache of pairs never leads to a connection of another
  client or to one seen gone), and with `prompt` the invariant `PromptHoldsRoute` (once
  its calls have arrived a client that wants its route holds it: none was refused) and
  the liveness `PromptRegisters`.  Fairness: both ends notice a break in
  the end, calls arrive, the timer ticks; an attempt may fail for ever.
* `routed_client_late`: without `prompt`, section 5.

### OdServer (`ARM_OD_Srv.cpp`, `RPCServer.cpp`, `Subscriber.cpp`, `RPCClient.cpp`, `TcpManager.cpp`, `RpcConfigReader.cpp`, `RpcClientRWrapper.cpp`, `RPCClient_R.cpp`)

The main thread runs the constructor (`main` is `devices`, `armr`, then `loop`) and
afterwards the slots of `RPCServer`, `Subscriber` and `RpcConfigReader`; `TcpManager` and
the wrapper of the ARM-R client have threads and queues of their own from the start.
`heap` holds the `RPCClient` objects by address, and a freed address may be given out
again.  `Kept` and `RemoveFrom` are the loop that removes from the vector it walks.  `log` numbers the
messages the main thread processes, `received` what each connection was sent.  A use
of an invalid pointer is the value of `fault` and ends the behaviour.

`rpc_slot_set_client_id` may be called repeatedly; ids of open connections are distinct
(Qxt), so lines 81-84 of `RPCServer.cpp` are not reached.  `armrLink` is the link of the
wrapper's client: it comes up and is lost at any moment once `initSlot` has made the
client, and `armr` records with each request whether the link was up when the request
came to the Qxt peer, which sends it then or loses it (`RPCClient_R.cpp:86-93`).  `_subscriber_up` is left out:
the types it serves are no longer published.  NIIPP requests end without an effect on
the state modelled.

`Relay` is the promise to the views and to ARM-R: requests for the solver come to the link
at most once, unchanged, in the order they were made, and only one that finds the link
down is lost.  `ImplementsRelay` maps it to `asked` (what the views requested), `armr` and
`armrLink`; between them are the queue of `TcpManager`, the queue of the wrapper and the
`initSlot` in front of it.

* `od_server`: 2 connections, 2 addresses, one id a view gives itself (`ViewIds`; the
  server only stores it), one message type sent to one client and one sent to all, 1 device, both outcomes of the ADS-B setting and all three ARM-R modes,
  2 connects (two views at once, or an address and an id used again), 2 messages, 2
  solver requests (`MaxRequests`, so that one could overtake the other, or be lost and the
  other not) and 3 of both together (`MaxInputs`), one request at
  a time in the queue of `TcpManager` (`MaxQueued`; the wrapper's queue holds both).
  `SubscribersAreIdentified`, `EachOnceInOrder`, `ConfiguredNeverFaults`,
  `ImplementsRelay`, and under weak fairness of the constructor and the three event
  loops `SolverReaches` (every request comes to the peer in its turn, and one that is under
  way when the link is up for good is sent).  All but the last are proved for every value
  of the bounds.

What the model shows beyond its properties: messages of the automatic, single and
hyperbola types go out with `call(method)` once per subscriber, so with N named views
every view gets N copies (hence `EachOnceInOrder` speaks of the other types); the
answer to a configuration request goes to all views; in the TCP and "none" modes a
solver request uses `m_rpcClient` uninitialised (`TcpManager.cpp:276,287`), and without
an `ADSBClient` device an ADS-B request uses a null pointer (`TcpManager.cpp:349`).

## 4. Proofs

| Module | Theorems | Assumptions | Inductive invariant |
|---|---|---|---|
| `RoutedServerProofs` | `RoutingTypeCorrect`, `CacheStaysOneToOne`, `EachHoldsOneRoute`, `RoutingIsExact`, `ServerImplementsRouteTable` | ids are numbers other than 0, `NULL` is no listener | `RoutingInv`: types, one-to-one cache, one route each, cache = join |
| `TcpClientProofs` | `ClientTypeCorrect`, `StatusNeverStale`, `TimerExactlyWhenNeeded`, `OrphansStayBounded`, `ClientImplementsLink` | 0 is no timer id | `ClientInv`: the two properties say nothing while the thread is blocked, so it adds what holds in `connecting` and `reconnecting`; `OrphanInv`: forgotten timers, waiting connect requests and the attempt under way together are at most the requests made |
| `KtrManagerProofs` | `KtrTypeCorrect`, `WaiterHoldsMutex`, `ControllersHaveTimers`, `SingleStationRegisters`, `SelfLockIsForGood` | at least one device | `KtrInv`: the invariants and that a thread in the foreach has a board left; `SingleStationRegisters` assumes a single station and adds that a due host has the flag set |
| `UavHistoryProofs` | `HistoryTypeCorrect`, `TreesStayRemovable`, `ReadyTreesAreEmpty`, `NodesAreDated` | positive life time | `HistoryInv`: the two invariants and types; a lemma per slot.  `Dated`: the dates, and that the invalid row of UAV 0 never has a role |
| `DbUavManagerProofs` | `DbTypeCorrect`, `DbKnownHasTimer`, `DbNoGhosts`, `DbMapShowsKnown`, `DbClearFindsNothing` | "none" is no UAV, bounds are numbers | `DbInv`: the maps have the same keys, a node of the tree is of a UAV that is known or just taken or is counted in `missed`, the GUI's copy of the keys holds what it has not deleted, and `MapInv`: for a UAV that is gone the last call in the map's queue is a removal |
| `RoutedClientProofs` | `ClientTypeCorrect`, `RoutesAreCurrentOrBroken`, `GoneConnectionsHoldNoRoute`, `ClientsKeepTrying`, `RoutingStaysExact`, `ListenersReachTheirClients`, `PromptClientsHoldTheirRoute` | every client has a route of its own, other than 0 | `ClientInv`: a client that may connect has no connection, only its last connection may work, calls are made on connections that exist, a route is held by a connection of its client.  `Routing!RoutingInv`: the server's own invariant.  `PromptInv`: a connection the client has left is seen gone, and a client that wants its route has asked for it last or holds it |
| `OdServerProofs` | `OdTypeCorrect`, `SubscribersStayIdentified`, `ConfiguredServerNeverFaults`, `ConnectionsServedInOrder`, `ServerImplementsRelay` | message types are disjoint | `OdInv`: addresses are given out once, subscribers are the identified objects, a view may ask only after the constructor, and `initSlot` is ahead of every request in the wrapper's queue.  `SentInv`: a closed connection was sent nothing, an open one is named from the moment recorded.  `RelayInv`: what was asked and is not with ARM-R is in the wrapper's queue and behind it in `TcpManager`'s, in order |

`RoutingIsExact` needs `OneRouteEach`: without it a deregistration that removes the
first key of a value would leave another entry.  The refinements follow from the
invariants step by step.  In `UavHistoryProofs` the order inside `stopInternal()`
(remove, then forget the roles) and inside `updateHistoryState()` is what the lemmas
use.  `MapShowsKnown` speaks of an empty queue only; its proof is the statement about
the whole queue.  In `OdServerProofs` the lemma `RemoveFromVector` shows that the loop
which skips an element is correct on a vector without repetitions, and the invariant
shows that it meets no other.

`TcpManager`'s queue mixes requests for the solver with others, so `RelayInv` cannot name
a request by its place in the queue.  It says that there is a running total over the
queue (`Total`) that rises by one at each solver request, starts at the number passed on
and ends at the number asked: the filtered queue without a recursive definition.
`ConnectionsServedInOrder` follows the same way from what each message adds
(`ServedGrows`): a direct message one record to every named connection, a broadcast
equal records to everybody.

`RoutedClientProofs` instantiates `RoutedServerProofs` with the connections as clients,
so the lemmas about the server's operations are cited and not proved again.
`PromptClientsHoldTheirRoute` is what the finding of `routed_client_late` leaves: with
`prompt` only the present connection of a client can hold its route
(`RegisterAccepted`), so a registration is refused only when there is nothing left to
register.  `prompt` is a premise of the property and not of the specification: the
theorem speaks of the behaviours in which the server sees connections go in time.

Only model-checked: all liveness (`Reconnects`, `LossReported`, `ListServed`,
`DroppedIsSilent`, `ReplayEnds`, `SilentUavGoes`, `ConfigurationEnds`, `PromptRegisters`, `SolverReaches`),
since fairness and ENABLED are outside the prover's reach, and the counterexamples of
section 5.

## 5. Where the code disagrees with itself

* **Two KTR stations** (`ktr_two_stations`): the end of one station's list clears the
  flag that another station's boards still need; they get no registration command.
* **Self lock** (`ktr_self_lock`): a base link that reconnects while
  `connectToBoard()` processes events locks its own thread out for ever, and with it
  every other station and the manager (`SelfLockIsForGood`).
* **Stop does not return** (`uav_history_stop`): `stop()` waits for `startFinished()`,
  `stopInternal()` emits `stopFinished()`.
* **Late registration** (`routed_client_late`): a client that is back before the server
  has seen its old connection go sends its deregistration on the new connection, which
  does not free the route; the registration is refused, nobody tells the client, and it
  stays connected without its route until that connection breaks.

* **Enrolled twice** (`routed_server_twice`): `RpcRoutedServer.h:45` has
  `registerReceiver()` return false for a listener that is registered already; for route 0
  the code accepts it again, and each broadcast reaches it twice.

Met while reading and not stated as properties, since nothing in the repository
promises otherwise: a board that is listed for the first time in a later list, or
whose link is not up within 10 s, is connected but not registered until the base link
reconnects; a KTR timeout in the queue removes a board that was listed in the meantime;
UAVs of the last recorded second are entered as known after the replay has cleared its
list (`UavHistory.cpp:349`); a pause served after the end of a replay pauses a history
that does not play, and a resume then plays an exhausted query (it ends: `ReplayEnds`);
a tab whose thread is initialised before the GUI thread has connected its loop keeps the
GUI in that loop (`MapTabWidgetController.cpp:140-144`); a UAV whose role the database
does not find when it is removed keeps its node in the tree; a solver request made while
the link to ARM-R is down is lost without a word to the view;
`Subscriber::remove_subscription(type, client)` changes a copy of the vector only, and
nothing calls it.

## 6. Not modelled

* Data conversion: telemetry, AIS bits, the coders, checksums, SQL, JSON.  Each is a
  sequential function of one input; the only state between calls is the last altitude
  and speed in the KTR coder.
* Drawing, dialogs, logging and the simulators.
* `BaseTcpServer`, `ThreadSafeTimer` and `RPCClientFlakon`, which no program uses.
* The reading of settings files, `ServiceHandler`, destructors and shutdown.
* Data races on containers (`TcpManager::m_controllersMap`, `BaseSubject`,
  `UavHistory::setDatabase()`): the code defines no outcome, and the models take each
  access as atomic.  They are listed under `hazards`.
