------------------------------ MODULE KtrManager ------------------------------
(***************************************************************************)
(* The KTR subsystem of the server: TcpKTRManager and the KTR branch of     *)
(* TcpManager::onMessageReceived().                                         *)
(*                                                                         *)
(* Every configured KTR station (host) has a base controller with a thread  *)
(* of its own.  When its link comes up the server asks for the board list;  *)
(* the station then sends the list again and again.  For every board in the *)
(* list and every device of the board connectToBoard() creates a further    *)
(* controller, waits up to 10 s for its link, (re)starts its life timer and,*)
(* on the first list after a connect of the base link, sends the command    *)
(* that registers the server for the board's telemetry.  A board that is    *)
(* not listed for MAX_LIFE_TIME loses its controller in timeoutSlot(),      *)
(* which runs in the manager's thread.                                      *)
(*                                                                         *)
(* Four things make this hard: onMessageReceived() runs in the thread of    *)
(* whichever controller calls it; connectToBoard() runs the thread's event  *)
(* loop (qApp->processEvents()) while it holds m_deleteMutex, which is not  *)
(* recursive; a timeout is posted from the timer's thread to the manager's, *)
(* so it may be overtaken; and a board's controller has a thread of its own,*)
(* to which the command, the disconnect and the deletion are posted.        *)
(*                                                                         *)
(* Links are those of module Link: a base link or a board link goes up and  *)
(* down by itself as long as its controller exists.  Time is not modelled:  *)
(* the 10 s wait and the life timers may end at any moment.                 *)
(***************************************************************************)
EXTENDS Naturals, Sequences, FiniteSets

CONSTANTS Hosts,       \* host:port of the KTR stations, one thread each
          Boards,      \* board ids
          Devices,     \* the devices connected for each board, in order
          NoThread     \* the mutex is free

ASSUME KtrAssumption ==
    /\ NoThread \notin Hosts
    /\ Devices \in Seq({1, 622}) /\ Devices # <<>>

Device == {Devices[i] : i \in DOMAIN Devices}
Key == Hosts \X Boards \X Device       \* "host:port:board:device"

VARIABLES m_deleteMutex,        \* the thread that holds it
          m_connectionMap,      \* keys that have a controller
          m_lifeTimerMap,       \* keys that have a life timer
          m_needToUpdate,       \* m_needToUpdateAfterDisconnect
          m_hostPortForUpdate,
          pc,                   \* where the thread of a host is
          todo,                 \* boards the thread's foreach has still to do
          dev,                  \* index of the device it has reached
          nested,               \* a handler entered from processEvents()
          baseUp,               \* the base link is up
          subscribed,           \* the station sends lists on this connection
          boardLink,            \* key -> link of its controller, and whether the
                                \* command is posted to its thread or delivered
          timeout               \* key -> timeout posted to the manager's thread

vars == <<m_deleteMutex, m_connectionMap, m_lifeTimerMap, m_needToUpdate,
          m_hostPortForUpdate, pc, todo, dev, nested, baseUp, subscribed, boardLink,
          timeout>>

Open == {"up", "posted", "registered"}

TypeOK ==
    /\ m_deleteMutex \in Hosts \cup {NoThread}
    /\ m_connectionMap \subseteq Key
    /\ m_lifeTimerMap \subseteq Key
    /\ m_needToUpdate \in BOOLEAN
    /\ m_hostPortForUpdate \subseteq Hosts
    /\ pc \in [Hosts -> {"idle", "connected", "board", "wait", "listDone"}]
    /\ todo \in [Hosts -> Seq(Boards)]
    /\ dev \in [Hosts -> DOMAIN Devices]
    /\ nested \in [Hosts -> BOOLEAN]
    /\ baseUp \in [Hosts -> BOOLEAN]
    /\ subscribed \in [Hosts -> BOOLEAN]
    /\ boardLink \in [Key -> Open \cup {"none", "down"}]
    /\ timeout \in [Key -> {"none", "posted", "overtaken"}]

Init ==
    /\ m_deleteMutex = NoThread
    /\ m_connectionMap = {} /\ m_lifeTimerMap = {}
    /\ m_needToUpdate = TRUE            \* as first connect
    /\ m_hostPortForUpdate = {}
    /\ pc = [h \in Hosts |-> "idle"]
    /\ todo = [h \in Hosts |-> <<>>]
    /\ dev = [h \in Hosts |-> 1]
    /\ nested = [h \in Hosts |-> FALSE]
    /\ baseUp = [h \in Hosts |-> FALSE]
    /\ subscribed = [h \in Hosts |-> FALSE]
    /\ boardLink = [k \in Key |-> "none"]
    /\ timeout = [k \in Key |-> "none"]

linkVars == <<baseUp, subscribed>>
mapVars == <<m_connectionMap, m_lifeTimerMap>>
updateVars == <<m_needToUpdate, m_hostPortForUpdate>>

\* Mutant: the QMutexLocker is missing.
deleteLockerMissing == TRUE

\* QMutexLocker deleteLocker(&m_deleteMutex): the caller, whichever thread it
\* runs in, waits until the mutex is free.
deleteLocker == m_deleteMutex = NoThread

\* The thread of h delivers events: between handlers, or inside the
\* processEvents() loop of connectToBoard().
EventLoop(h) == pc[h] = "idle" \/ (pc[h] = "wait" /\ ~nested[h])

----------------------------------------------------------------------------
\* Base link of a station, in the thread of its controller.

\* signalConnectedToHost(Connected): the handler is about to lock the mutex in
\* needToUpdateAfterDisconnect(true).  From inside connectToBoard() the handler
\* is nested in the thread's own critical section.
BaseConnected(h) ==
    /\ EventLoop(h) /\ ~baseUp[h]
    /\ baseUp' = [baseUp EXCEPT ![h] = TRUE]
    /\ IF pc[h] = "idle"
       THEN pc' = [pc EXCEPT ![h] = "connected"] /\ UNCHANGED nested
       ELSE nested' = [nested EXCEPT ![h] = TRUE] /\ UNCHANGED pc
    /\ UNCHANGED <<m_deleteMutex, mapVars, updateVars, todo, dev, subscribed, boardLink, timeout>>

\* signalConnectedToHost(Disconnected): logged only.
BaseDisconnected(h) ==
    /\ EventLoop(h) /\ baseUp[h]
    /\ baseUp' = [baseUp EXCEPT ![h] = FALSE]
    /\ subscribed' = [subscribed EXCEPT ![h] = FALSE]
    /\ UNCHANGED <<m_deleteMutex, mapVars, updateVars, pc, todo, dev, nested, boardLink,
                   timeout>>

needToUpdateTrue(h) ==
    /\ m_hostPortForUpdate' = m_hostPortForUpdate \cup {h}
    /\ m_needToUpdate' = TRUE

needToUpdateFalse(h) ==
    /\ m_hostPortForUpdate' = m_hostPortForUpdate \ {h}
    /\ m_needToUpdate' = FALSE

\* The rest of the Connected branch: mark the host, request the board list.
RequestBoardList(h) ==
    /\ pc[h] = "connected" /\ deleteLocker
    /\ needToUpdateTrue(h)
    /\ subscribed' = [subscribed EXCEPT ![h] = TRUE]
    /\ pc' = [pc EXCEPT ![h] = "idle"]
    /\ UNCHANGED <<m_deleteMutex, mapVars, todo, dev, nested, baseUp, boardLink, timeout>>

----------------------------------------------------------------------------
\* A board list, in the thread of the base controller.  QTcpSocket does not emit
\* readyRead() while its slot is running, so no list is nested in another one.

Lists == {s \in UNION {[1 .. n -> Boards] : n \in 0 .. Cardinality(Boards)} :
            \A i, j \in DOMAIN s : s[i] = s[j] => i = j}

BoardList(h, list) ==
    /\ pc[h] = "idle" /\ baseUp[h] /\ subscribed[h]
    /\ todo' = [todo EXCEPT ![h] = list]
    /\ dev' = [dev EXCEPT ![h] = 1]
    /\ pc' = [pc EXCEPT ![h] = IF list = <<>> THEN "listDone" ELSE "board"]
    /\ UNCHANGED <<m_deleteMutex, mapVars, updateVars, nested, linkVars, boardLink, timeout>>

\* The key of the connectToBoard() call the foreach has reached, and the step
\* to the next one: the board's next device, then the next board.
Current(h) == <<h, Head(todo[h]), Devices[dev[h]]>>

\* Mutant: one device too many.
AdvanceTooFar(h) ==
    IF dev[h] <= Len(Devices)
    THEN /\ dev' = [dev EXCEPT ![h] = @ + 1]
         /\ pc' = [pc EXCEPT ![h] = "board"]
         /\ UNCHANGED todo
    ELSE /\ dev' = [dev EXCEPT ![h] = 1]
         /\ todo' = [todo EXCEPT ![h] = Tail(@)]
         /\ pc' = [pc EXCEPT ![h] = IF Tail(todo[h]) = <<>> THEN "listDone" ELSE "board"]

Advance(h) ==
    IF dev[h] < Len(Devices)
    THEN /\ dev' = [dev EXCEPT ![h] = @ + 1]
         /\ pc' = [pc EXCEPT ![h] = "board"]
         /\ UNCHANGED todo
    ELSE /\ dev' = [dev EXCEPT ![h] = 1]
         /\ todo' = [todo EXCEPT ![h] = Tail(@)]
         /\ pc' = [pc EXCEPT ![h] = IF Tail(todo[h]) = <<>> THEN "listDone" ELSE "board"]

\* lifeTimer->start(): a timeout the timer has posted already is not withdrawn.
RestartLifeTimer(k) ==
    timeout' = [timeout EXCEPT ![k] = IF @ = "none" THEN "none" ELSE "overtaken"]

\* controller->sendData(): QIODevice::write() does nothing on a client that is not
\* open, and posts the registration command to the controller's thread on one that is.
RegisterAgain(h, k) ==
    boardLink' = IF m_needToUpdate /\ h \in m_hostPortForUpdate /\ boardLink[k] = "up"
                 THEN [boardLink EXCEPT ![k] = "posted"] ELSE boardLink

\* connectToBoard() for a key without a controller, up to the wait.  Bound: the thread
\* of the controller that was taken out is done with the link, for which timeoutSlot()
\* waits 200 ms inside the mutex (disconnectFromHostAsync()).
connectNewBoard(h) ==
    LET k == Current(h) IN
    /\ pc[h] = "board" /\ deleteLocker
    /\ k \notin m_connectionMap /\ k \notin m_lifeTimerMap
    /\ boardLink[k] = "none"
    /\ m_deleteMutex' = h
    /\ m_connectionMap' = m_connectionMap \cup {k}
    /\ boardLink' = [boardLink EXCEPT ![k] = "down"]
    /\ pc' = [pc EXCEPT ![h] = "wait"]
    /\ UNCHANGED <<m_lifeTimerMap, updateVars, todo, dev, nested, linkVars, timeout>>

\* Mutant: the new timer is not put into the map.
AddLifeTimerForgets(k) == UNCHANGED m_lifeTimerMap

AddLifeTimer(k) == m_lifeTimerMap' = m_lifeTimerMap \cup {k}

\* Mutant: the early return for a host that is not up for registration leaves
\* the mutex locked.
unlockMissed(h) ==
    m_deleteMutex' = IF m_needToUpdate /\ h \notin m_hostPortForUpdate
                     THEN m_deleteMutex ELSE NoThread

\* connectToBoard() returns: the destructor of deleteLocker.
unlock(h) == m_deleteMutex' = NoThread

\* The rest of connectToBoard(): the link came up or 10 s have passed.
waitOver(h) ==
    LET k == Current(h) IN
    /\ pc[h] = "wait" /\ ~nested[h]
    /\ AddLifeTimer(k)
    /\ RestartLifeTimer(k)
    /\ RegisterAgain(h, k)
    /\ unlock(h)
    /\ Advance(h)
    /\ UNCHANGED <<m_connectionMap, updateVars, nested, linkVars>>

\* connectToBoard() for a key that has its controller and its timer.
connectKnownBoard(h) ==
    LET k == Current(h) IN
    /\ pc[h] = "board" /\ deleteLocker
    /\ k \in m_connectionMap /\ k \in m_lifeTimerMap
    /\ RestartLifeTimer(k)
    /\ RegisterAgain(h, k)
    /\ Advance(h)
    /\ UNCHANGED <<m_deleteMutex, mapVars, updateVars, nested, linkVars>>

listDone(h) ==
    /\ pc[h] = "listDone" /\ deleteLocker
    /\ needToUpdateFalse(h)
    /\ pc' = [pc EXCEPT ![h] = "idle"]
    /\ UNCHANGED <<m_deleteMutex, mapVars, todo, dev, nested, linkVars, boardLink, timeout>>

----------------------------------------------------------------------------
\* Life timers and the manager's thread.

\* The timer's signal is emitted in the station's thread and posted to the
\* signal mapper, which lives in the manager's thread.
LifeTimerFires(k) ==
    /\ k \in m_lifeTimerMap /\ timeout[k] = "none"
    /\ EventLoop(k[1])
    /\ timeout' = [timeout EXCEPT ![k] = "posted"]
    /\ UNCHANGED <<m_deleteMutex, mapVars, updateVars, pc, todo, dev, nested, linkVars,
                   boardLink>>

\* controller->disconnectFromHost() and deleteLater(): both are posted behind what the
\* controller's thread has to do already, so a link that is open stays open for now.
disconnectBoard(k) ==
    boardLink' = [boardLink EXCEPT ![k] = IF @ \in Open THEN @ ELSE "none"]

timeoutSlot(k) ==
    /\ timeout[k] # "none" /\ deleteLocker
    /\ m_connectionMap' = m_connectionMap \ {k}
    /\ m_lifeTimerMap' = m_lifeTimerMap \ {k}
    /\ disconnectBoard(k)
    /\ timeout' = [timeout EXCEPT ![k] = "none"]
    /\ UNCHANGED <<m_deleteMutex, updateVars, pc, todo, dev, nested, linkVars>>

----------------------------------------------------------------------------
\* Board controllers, each in its own thread.  Their status messages
\* reach onMessageReceived() too, which finds no such name in m_controllersMap
\* and returns.

BoardUp(k) ==
    /\ boardLink[k] = "down"
    /\ boardLink' = [boardLink EXCEPT ![k] = "up"]
    /\ UNCHANGED <<m_deleteMutex, mapVars, updateVars, pc, todo, dev, nested, linkVars,
                   timeout>>

\* The station forgets the registrations of a connection that is lost.  A command that
\* is still posted is written to a socket that is not connected: the thread serves it
\* long before its reconnect timer.
BoardDown(k) ==
    /\ boardLink[k] \in Open
    /\ boardLink' = [boardLink EXCEPT ![k] = IF k \in m_connectionMap THEN "down" ELSE "none"]
    /\ UNCHANGED <<m_deleteMutex, mapVars, updateVars, pc, todo, dev, nested, linkVars,
                   timeout>>

\* The command is written to the socket, also when the controller has been taken out
\* of the map meanwhile.
writeDataInternalSlot(k) ==
    /\ boardLink[k] = "posted"
    /\ boardLink' = [boardLink EXCEPT ![k] = "registered"]
    /\ UNCHANGED <<m_deleteMutex, mapVars, updateVars, pc, todo, dev, nested, linkVars,
                   timeout>>

\* Mutant: QIODevice::close() without the abort() of the socket.
disconnectFromHostNoAbort(k) ==
    /\ k \notin m_connectionMap /\ boardLink[k] \in {"up", "registered"}
    /\ UNCHANGED vars

\* The disconnect of a controller that was taken out, served behind the command: the
\* socket is aborted, then the controller is deleted.
disconnectFromHostInternalSlot(k) ==
    /\ k \notin m_connectionMap /\ boardLink[k] \in {"up", "registered"}
    /\ boardLink' = [boardLink EXCEPT ![k] = "none"]
    /\ UNCHANGED <<m_deleteMutex, mapVars, updateVars, pc, todo, dev, nested, linkVars,
                   timeout>>

Next ==
    \/ \E h \in Hosts :
          \/ BaseConnected(h) \/ BaseDisconnected(h)
          \/ RequestBoardList(h)
          \/ \E list \in Lists : BoardList(h, list)
          \/ connectNewBoard(h) \/ waitOver(h) \/ connectKnownBoard(h)
          \/ listDone(h)
    \/ \E k \in Key : \/ LifeTimerFires(k) \/ timeoutSlot(k)
                     \/ BoardUp(k) \/ BoardDown(k)
                     \/ writeDataInternalSlot(k) \/ disconnectFromHostInternalSlot(k)

Spec == Init /\ [][Next]_vars

\* The steps that wait for m_deleteMutex; a thread has reached at most one of them.
LocksMutex(h) ==
    RequestBoardList(h) \/ connectNewBoard(h) \/ connectKnownBoard(h) \/ listDone(h)

\* A thread that waits for the mutex gets it in the end when it is released
\* again and again (strong fairness); the wait in connectToBoard() ends after
\* 10 s; the thread of a board's controller serves what is posted to it.  Links, lists
\* and life timers are the environment's and owe nothing.
Fairness ==
    /\ \A h \in Hosts : SF_vars(LocksMutex(h)) /\ WF_vars(waitOver(h))
    /\ \A k \in Key : WF_vars(writeDataInternalSlot(k) \/ disconnectFromHostInternalSlot(k))

FairSpec == Spec /\ Fairness

----------------------------------------------------------------------------
\* Properties

\* The mutex is held exactly by the thread that waits inside connectToBoard(),
\* so at most one station at a time is connecting a board.
MutexHeldByWaiter ==
    \A h \in Hosts : m_deleteMutex = h <=> pc[h] = "wait"

\* Outside the window of the wait a key has a controller if and only if it has
\* a life timer.  Otherwise connectToBoard() would start a null timer or write
\* to a null controller, and a controller without a timer would never be
\* removed.
MapsAgree ==
    m_connectionMap =
        m_lifeTimerMap \cup {Current(h) : h \in {g \in Hosts : pc[g] = "wait"}}

\* A board that the manager has dropped stops sending telemetry before it can be listed
\* again, also when the command was still on its way to the controller's thread: the
\* write behind the take is followed by the disconnect.
DroppedIsSilent ==
    \A k \in Key : k \notin m_connectionMap ~> boardLink[k] = "none"

\* A base link that came back inside the processEvents() loop: the thread waits
\* for the mutex it holds.
SelfLocked(h) == pc[h] = "wait" /\ nested[h]

\* It stays so, and takes every thread with it: from then on no station has a board
\* connected, none is removed by its timeout, no command is posted, and no reconnect
\* puts boards up for registration.
LockedOutForGood ==
    [][\A h \in Hosts :
        SelfLocked(h) => /\ SelfLocked(h)'
                         /\ UNCHANGED <<m_deleteMutex, mapVars, updateVars>>
                         /\ \A k \in Key :
                               boardLink'[k] = "posted" => boardLink[k] = "posted"]_vars

\* Every board list is worked off: the thread of the station gets back to its
\* event loop, unless a thread has locked itself out.
ListServed ==
    \A h \in Hosts :
        pc[h] \in {"board", "wait", "listDone"} ~>
            (pc[h] = "idle" \/ \E g \in Hosts : SelfLocked(g))

\* The first list after a connect of the base link has the command posted for every
\* listed board whose link is up ("need to update when connect will happen").
RegisterWhenDue ==
    [][\A h \in Hosts :
        LET k == Current(h) IN
        /\ pc[h] \in {"board", "wait"} /\ <<todo[h], dev[h]>>' # <<todo[h], dev[h]>>
        /\ h \in m_hostPortForUpdate
        /\ boardLink[k] \in Open
        => boardLink'[k] \in {"posted", "registered"}]_vars

\* When the base link comes back the boards are put up for registration
\* ("need to update when connect will happen").
ReconnectUpdates ==
    \A h \in Hosts :
        pc[h] = "connected" \/ nested[h] ~> h \in m_hostPortForUpdate
==============================================================================
