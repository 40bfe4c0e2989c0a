----------------------------- MODULE DbUavManager -----------------------------
(***************************************************************************)
(* DbUavManager: the UAVs the view knows of, each with a life timer, and    *)
(* what the listeners of a station's tab (the UAV tree and the map) were    *)
(* told about them.                                                         *)
(*                                                                         *)
(* Four kinds of threads meet in it.  The RPC thread of a tab brings lists  *)
(* of points and stores them one by one (addUavInfoToDb), each under        *)
(* m_mutex and then m_deleteMutex; the life timers live in that thread and  *)
(* their timeouts are posted to the manager's own thread, which removes the *)
(* UAV under m_deleteMutex alone; the GUI thread, when a new configuration  *)
(* arrives, closes the tab, removes every UAV under m_mutex (deleteAllUav)  *)
(* and opens a new tab.  The thread of a closed tab is not waited for; the  *)
(* GUI thread waits in an event loop of its own until the thread of the new *)
(* tab has said that it is initialised.                                     *)
(*                                                                         *)
(* Positions and the database are left out: what the database answers is a  *)
(* choice, and so is whether it finds the role of a UAV.                    *)
(***************************************************************************)
EXTENDS Integers, Sequences

CONSTANTS Uavs,       \* board ids
          MaxTabs,    \* bound: tabs opened one after another, each with a thread
          MaxPoints,  \* points in one message
          MaxMsgs,    \* bound: messages received in all
          MaxPosted   \* bound: timeouts waiting for the manager's thread

ASSUME DbUavManagerAssumption ==
    /\ MaxTabs \in Nat \ {0} /\ MaxPoints \in Nat
    /\ MaxMsgs \in Nat /\ MaxPosted \in Nat
    /\ "none" \notin Uavs

VARIABLES m_knownUavsList,
          m_lifeTimerMap,  \* key -> the timer's thread, and whether it runs
          m_mutex, m_deleteMutex, \* the thread that holds it
          taken,           \* what take() gave the holder of m_deleteMutex
          posted,          \* timeouts posted to the manager's thread
          points,          \* what each RPC thread has still to store
          msgs,            \* messages received so far
          gui,             \* what the GUI thread does, and its copy of the keys
          tab,             \* the tab that was opened last
          init,            \* initSlot() of the tab's thread, and its signal
          tree,            \* nodes of a UAV in the tab's tree
          missed,          \* nodes that the tree was not told the role to remove by
          markers,         \* what the tab's map shows
          mapCalls         \* calls posted to the map, in the GUI thread

manager == <<m_knownUavsList, m_lifeTimerMap>>
listeners == <<tree, markers, mapCalls>>
vars == <<manager, m_mutex, m_deleteMutex, taken, posted, points, msgs, gui, tab, init,
          missed, listeners>>

Threads == 1 .. MaxTabs
Free == 0
Db == -1
Gui == -2
Timers == [owner : Threads, running : BOOLEAN]
Point == [uav : Uavs, actual : BOOLEAN]
GuiStates == {"idle", "closed", "deleting", "cleared", "opening", "waiting"}
Marks == {"show", "atlant"} \X Uavs
MapCalls == {"show", "atlant", "remove"} \X Uavs
Lists == UNION {[1 .. n -> Uavs] : n \in 1 .. MaxPoints}

TypeOK ==
    /\ m_knownUavsList \subseteq Uavs
    /\ DOMAIN m_lifeTimerMap \subseteq Uavs
    /\ m_lifeTimerMap \in [DOMAIN m_lifeTimerMap -> Timers]
    /\ m_mutex \in Threads \cup {Free, Gui}
    /\ m_deleteMutex \in {Free, Db, Gui}
    /\ taken \in Uavs \cup {"none"}
    /\ posted \in Seq([key : Uavs, old : BOOLEAN])
    /\ points \in [Threads -> Seq(Point)]
    /\ msgs \in 0 .. MaxMsgs
    /\ gui \in [at : GuiStates, keys : SUBSET Uavs]
    /\ tab \in Threads /\ init \in {"none", "posted", "quit", "lost"}
    /\ tree \in [Uavs -> Nat] /\ missed \in [Uavs -> Nat]
    /\ markers \subseteq Marks /\ mapCalls \in Seq(MapCalls)

Init ==
    /\ m_knownUavsList = {} /\ m_lifeTimerMap = <<>>
    /\ m_mutex = Free /\ m_deleteMutex = Free /\ taken = "none"
    /\ posted = <<>> /\ points = [t \in Threads |-> <<>>] /\ msgs = 0
    /\ gui = [at |-> "idle", keys |-> {}] /\ tab = 1 /\ init = "none"
    /\ tree = [u \in Uavs |-> 0] /\ missed = tree /\ markers = {} /\ mapCalls = <<>>

\* The tab's tree and map listen to the manager from the tab's construction, to
\* its RPC thread (TabIsReady) only after the event loop of createRPC().
TabIsOpen == gui.at \in {"opening", "waiting", "idle"}
TabIsReady == gui.at = "idle"

Without(f, u) == [v \in DOMAIN f \ {u} |-> f[v]]

----------------------------------------------------------------------------
\* The listeners of the open tab.  The tree changes in the thread of the call, if
\* the role came with it; the map gets the call posted.

onUavAdded(u, role) ==
    tree' = IF TabIsOpen /\ role THEN [tree EXCEPT ![u] = @ + 1] ELSE tree

onUavInfoChanged(u) ==
    mapCalls' = IF TabIsOpen THEN Append(mapCalls, <<"show", u>>) ELSE mapCalls

\* Mutant: removes a node without looking for it.
onUavRemovedBlindly(u, role) ==
    /\ tree' = IF TabIsOpen /\ role THEN [tree EXCEPT ![u] = @ - 1] ELSE tree
    /\ mapCalls' = IF TabIsOpen THEN Append(mapCalls, <<"remove", u>>) ELSE mapCalls
    /\ UNCHANGED markers

\* Mutant: the map is called directly and not posted to.
onUavRemovedAtOnce(u, role) ==
    /\ tree' = IF TabIsOpen /\ role /\ tree[u] > 0 THEN [tree EXCEPT ![u] = @ - 1] ELSE tree
    /\ markers' = markers \ {<<"show", u>>, <<"atlant", u>>}
    /\ UNCHANGED mapCalls

\* The tree looks for a node of the UAV, the map does without the role.
onUavRemoved(u, role) ==
    /\ tree' = IF TabIsOpen /\ role /\ tree[u] > 0 THEN [tree EXCEPT ![u] = @ - 1] ELSE tree
    /\ mapCalls' = IF TabIsOpen THEN Append(mapCalls, <<"remove", u>>) ELSE mapCalls
    /\ UNCHANGED markers

\* A slot of the map, when the GUI thread is in an event loop.  A removal takes
\* every mark with the id, whoever has set it.
MapStep ==
    /\ gui.at \in {"waiting", "idle"} /\ mapCalls # <<>>
    /\ LET call == Head(mapCalls)
           u == call[2]
       IN  markers' = IF call[1] = "remove" THEN markers \ {<<"show", u>>, <<"atlant", u>>}
                                            ELSE markers \cup {call}
    /\ mapCalls' = Tail(mapCalls)
    /\ UNCHANGED <<manager, m_mutex, m_deleteMutex, taken, posted, points, msgs, gui,
                   tab, init, missed, tree>>

----------------------------------------------------------------------------
\* The RPC thread t of a tab.

\* onMethodCalled(): our UAV with one point, or sendEnemyUavPoints() with a list.
\* Only the last point is actual, unless it is the list of a single source.
onMethodCalled(t, uavs, single) ==
    /\ TabIsReady /\ t = tab /\ points[t] = <<>>
    /\ msgs < MaxMsgs /\ msgs' = msgs + 1
    /\ points' = [points EXCEPT ![t] =
           [i \in DOMAIN uavs |-> [uav |-> uavs[i],
                                   actual |-> single \/ i = Len(uavs)]]]
    /\ UNCHANGED <<manager, m_mutex, m_deleteMutex, taken, posted, gui, tab, init, missed,
                   listeners>>

\* MapController::onMethodCalled() with a position from ATLANT: it is shown past the
\* manager, under a number of the map's own that may be the id of a UAV.
onAtlantPosition(u) ==
    /\ TabIsReady /\ points[tab] = <<>>
    /\ msgs < MaxMsgs /\ msgs' = msgs + 1
    /\ mapCalls' = Append(mapCalls, <<"atlant", u>>)
    /\ UNCHANGED <<manager, m_mutex, m_deleteMutex, taken, posted, points, gui, tab, init,
                   missed, tree, markers>>

\* Mutant: does not wait for m_mutex.
addUavInfoToDbUnlocked(t) ==
    /\ points[t] # <<>> /\ m_mutex # t
    /\ m_mutex' = t
    /\ UNCHANGED <<manager, m_deleteMutex, taken, posted, points, msgs, gui, tab, init,
                   missed, listeners>>

\* addUavInfoToDb(), up to the call of addUavInfo().
addUavInfoToDb(t) ==
    /\ points[t] # <<>> /\ m_mutex = Free
    /\ m_mutex' = t
    /\ UNCHANGED <<manager, m_deleteMutex, taken, posted, points, msgs, gui, tab, init,
                   missed, listeners>>

\* The timer of a UAV is started in its own thread, or from the thread of another
\* tab: Qt then refuses, or not, depending on how it was built.
Started(timer, t) ==
    {[timer EXCEPT !.running = r] : r \in IF timer.owner = t THEN {TRUE} ELSE BOOLEAN}

\* Mutant: announces a UAV that is known already.
enterKnownAgain(t, u, role) ==
    /\ m_knownUavsList' = m_knownUavsList \cup {u}
    /\ \E timer \in Started([owner |-> t, running |-> TRUE], t) :
          m_lifeTimerMap' = [v \in DOMAIN m_lifeTimerMap \cup {u} |->
                                IF v = u THEN timer ELSE m_lifeTimerMap[v]]
    /\ onUavAdded(u, role)

\* A UAV that is neither known nor has a timer is entered and announced; its
\* timer, when there is one, is started.
enterKnown(t, u, role) ==
    LET new == u \notin m_knownUavsList /\ u \notin DOMAIN m_lifeTimerMap
        timer == IF new THEN [owner |-> t, running |-> TRUE] ELSE m_lifeTimerMap[u]
    IN  /\ m_knownUavsList' = IF new THEN m_knownUavsList \cup {u} ELSE m_knownUavsList
        /\ IF new \/ u \in DOMAIN m_lifeTimerMap
           THEN \E started \in Started(timer, t) :
                   m_lifeTimerMap' = [v \in DOMAIN m_lifeTimerMap \cup {u} |->
                                         IF v = u THEN started ELSE m_lifeTimerMap[v]]
           ELSE UNCHANGED m_lifeTimerMap
        /\ IF new THEN onUavAdded(u, role) ELSE UNCHANGED tree

\* Mutant: returns early without releasing m_mutex.
addUavInfoKeepsMutex(t) ==
    /\ m_mutex = t /\ points[t] # <<>> /\ m_deleteMutex = Free
    /\ LET point == Head(points[t]) IN
       \/ /\ UNCHANGED <<m_mutex, manager, listeners>>
       \/ /\ point.actual
          /\ \E role \in BOOLEAN :
                /\ enterKnown(t, point.uav, role)
                /\ (role /\ onUavInfoChanged(point.uav)) \/ UNCHANGED mapCalls
          /\ m_mutex' = Free
          /\ UNCHANGED markers
    /\ points' = [points EXCEPT ![t] = Tail(@)]
    /\ UNCHANGED <<m_deleteMutex, taken, posted, msgs, gui, tab, init, missed>>

\* addUavInfo(), and the return from addUavInfoToDb().  Nothing happens when the
\* database has no such UAV or the point is not actual; the map is not told when
\* the record could not be stored, and does not show a UAV of a role or source it
\* does not know; without the role the tree does not add it either.  The whole body
\* runs under m_deleteMutex, and what deleteAllUav() reads without it is out of its
\* reach under m_mutex.
addUavInfo(t) ==
    /\ m_mutex = t /\ points[t] # <<>> /\ m_deleteMutex = Free
    /\ LET point == Head(points[t]) IN
       \/ UNCHANGED <<manager, listeners>>
       \/ /\ point.actual
          /\ \E role \in BOOLEAN :
                /\ enterKnown(t, point.uav, role)
                /\ (role /\ onUavInfoChanged(point.uav)) \/ UNCHANGED mapCalls
          /\ UNCHANGED markers
    /\ points' = [points EXCEPT ![t] = Tail(@)]
    /\ m_mutex' = Free
    /\ UNCHANGED <<m_deleteMutex, taken, posted, msgs, gui, tab, init, missed>>

----------------------------------------------------------------------------
\* timeoutSlot(), in the manager's thread for a timeout and in the GUI thread for
\* deleteAllUav().

\* Mutant: the timer stays in its map.
takeUavOnly(thread, key) ==
    /\ m_deleteMutex = Free /\ m_deleteMutex' = thread
    /\ taken' = IF key \in m_knownUavsList THEN key ELSE "none"
    /\ m_knownUavsList' = m_knownUavsList \ {key}
    /\ UNCHANGED m_lifeTimerMap

\* The UAV and its timer are taken; an unknown key gives a Uav whose fields are
\* not initialised.
takeUav(thread, key) ==
    /\ m_deleteMutex = Free /\ m_deleteMutex' = thread
    /\ taken' = IF key \in m_knownUavsList THEN key ELSE "none"
    /\ m_knownUavsList' = m_knownUavsList \ {key}
    /\ m_lifeTimerMap' = Without(m_lifeTimerMap, key)

\* A stopped timer's timeouts that are still posted are old.
Stopped(queue, key) ==
    [i \in DOMAIN queue |-> IF queue[i].key = key THEN [queue[i] EXCEPT !.old = TRUE]
                                                  ELSE queue[i]]

\* The listeners are told of the UAV that was taken: any, or one that does not
\* exist, when its id was not initialised.  Its role is asked of the database anew:
\* when it is not found the tree keeps the node.
notifyRemoved(thread) ==
    /\ m_deleteMutex = thread /\ m_deleteMutex' = Free
    /\ taken' = "none"
    /\ \E role \in BOOLEAN :
          \/ /\ taken # "none" /\ onUavRemoved(taken, role)
             /\ missed' = IF ~role /\ tree[taken] > 0 THEN [missed EXCEPT ![taken] = @ + 1]
                                                      ELSE missed
          \/ /\ taken = "none" /\ UNCHANGED missed
             /\ (\E u \in Uavs : onUavRemoved(u, role)) \/ UNCHANGED listeners
    /\ UNCHANGED <<manager, m_mutex, posted, points, msgs, gui, tab, init>>

\* The timer's thread, in its event loop, posts the timeout to the mapper's.
Timeout(u) ==
    /\ u \in DOMAIN m_lifeTimerMap /\ m_lifeTimerMap[u].running
    /\ points[m_lifeTimerMap[u].owner] = <<>>
    /\ Len(posted) < MaxPosted
    /\ posted' = Append(posted, [key |-> u, old |-> FALSE])
    /\ UNCHANGED <<manager, m_mutex, m_deleteMutex, taken, points, msgs, gui, tab, init,
                   missed, listeners>>

\* Mutant: no timeout is mapped for sure.
DropAnyTimeout ==
    /\ posted # <<>> /\ m_deleteMutex # Db
    /\ posted' = Tail(posted)
    /\ UNCHANGED <<manager, m_mutex, m_deleteMutex, taken, points, msgs, gui, tab, init,
                   missed, listeners>>

\* The mapper does not map the timeout of a timer that has been deleted meanwhile.
DropTimeout ==
    /\ posted # <<>> /\ Head(posted).old /\ m_deleteMutex # Db
    /\ posted' = Tail(posted)
    /\ UNCHANGED <<manager, m_mutex, m_deleteMutex, taken, points, msgs, gui, tab, init,
                   missed, listeners>>

timeoutSlot ==
    /\ posted # <<>>
    /\ takeUav(Db, Head(posted).key)
    /\ posted' = Stopped(Tail(posted), Head(posted).key)
    /\ UNCHANGED <<m_mutex, points, msgs, gui, tab, init, missed, listeners>>

----------------------------------------------------------------------------
\* The GUI thread, when the configuration is answered: clearAllInformation() and
\* addStationTabs().

\* The tab's controller is deleted and with it its tree, its map and what was
\* posted to it; its RPC thread goes on with the list it is at.
clearAllInformation ==
    /\ gui.at = "idle" /\ tab < MaxTabs
    /\ gui' = [gui EXCEPT !.at = "closed"]
    /\ tree' = [u \in Uavs |-> 0] /\ missed' = tree' /\ markers' = {} /\ mapCalls' = <<>>
    /\ UNCHANGED <<manager, m_mutex, m_deleteMutex, taken, posted, points, msgs, tab,
                   init>>

\* The keys are copied without m_deleteMutex.
deleteAllUav ==
    /\ gui.at = "closed" /\ m_mutex = Free
    /\ m_mutex' = Gui
    /\ gui' = [at |-> "deleting", keys |-> DOMAIN m_lifeTimerMap]
    /\ UNCHANGED <<manager, m_deleteMutex, taken, posted, points, msgs, tab, init, missed,
                   listeners>>

deleteKey ==
    /\ gui.at = "deleting"
    /\ \E key \in gui.keys :
          /\ takeUav(Gui, key)
          /\ posted' = Stopped(posted, key)
          /\ gui' = [gui EXCEPT !.keys = @ \ {key}]
    /\ UNCHANGED <<m_mutex, points, msgs, tab, init, missed, listeners>>

\* Both maps are cleared, without m_deleteMutex.
clearMaps ==
    /\ gui.at = "deleting" /\ gui.keys = {} /\ m_deleteMutex # Gui
    /\ m_knownUavsList' = {} /\ m_lifeTimerMap' = <<>>
    /\ m_mutex' = Free
    /\ gui' = [gui EXCEPT !.at = "cleared"]
    /\ UNCHANGED <<m_deleteMutex, taken, posted, points, msgs, tab, init, missed,
                   listeners>>

\* The controller of the new tab registers its tree and map; createRPC() starts the
\* thread and posts initSlot() to it.
addStationTabs ==
    /\ gui.at = "cleared"
    /\ gui' = [gui EXCEPT !.at = "opening"]
    /\ tab' = tab + 1 /\ init' = "posted"
    /\ UNCHANGED <<manager, m_mutex, m_deleteMutex, taken, posted, points, msgs, missed,
                   listeners>>

\* initSlot(), in the new thread: initFinishedSignal is lost when the GUI thread has
\* not connected its loop to it yet.
initSlot ==
    /\ init = "posted"
    /\ init' = IF gui.at = "waiting" THEN "quit" ELSE "lost"
    /\ UNCHANGED <<manager, m_mutex, m_deleteMutex, taken, posted, points, msgs, gui, tab,
                   missed, listeners>>

\* createRPC() goes on: the signal is connected and the loop entered.
enterLoop ==
    /\ gui.at = "opening"
    /\ gui' = [gui EXCEPT !.at = "waiting"]
    /\ UNCHANGED <<manager, m_mutex, m_deleteMutex, taken, posted, points, msgs, tab, init,
                   missed, listeners>>

\* The loop has been told to quit: the listeners are registered with the RPC client.
leaveLoop ==
    /\ gui.at = "waiting" /\ init = "quit"
    /\ gui' = [gui EXCEPT !.at = "idle"] /\ init' = "none"
    /\ UNCHANGED <<manager, m_mutex, m_deleteMutex, taken, posted, points, msgs, tab,
                   missed, listeners>>

----------------------------------------------------------------------------
RpcStep(t) == addUavInfoToDb(t) \/ addUavInfo(t)
DbStep == timeoutSlot \/ DropTimeout \/ notifyRemoved(Db)
GuiStep ==
    \/ deleteAllUav \/ deleteKey \/ notifyRemoved(Gui) \/ clearMaps
    \/ addStationTabs \/ enterLoop \/ leaveLoop

Next ==
    \/ \E t \in Threads, uavs \in Lists, single \in BOOLEAN : onMethodCalled(t, uavs, single)
    \/ \E u \in Uavs : onAtlantPosition(u)
    \/ \E t \in Threads : RpcStep(t)
    \/ initSlot
    \/ \E u \in Uavs : Timeout(u)
    \/ DbStep
    \/ clearAllInformation
    \/ GuiStep
    \/ MapStep

Spec == Init /\ [][Next]_vars

\* Every thread runs, running timers fire, and posted calls are delivered; neither
\* points nor configurations are owed.
FairSpec ==
    /\ Spec
    /\ \A t \in Threads : WF_vars(RpcStep(t))
    /\ \A u \in Uavs : WF_vars(Timeout(u))
    /\ WF_vars(initSlot)
    /\ WF_vars(DbStep) /\ WF_vars(GuiStep) /\ WF_vars(MapStep)

----------------------------------------------------------------------------
\* Properties

\* Outside the critical sections of m_deleteMutex the two maps have the same keys:
\* a known UAV has a timer that can remove it, and addUavInfo() never finds a UAV
\* without one.
KnownHasTimer ==
    m_deleteMutex = Free => m_knownUavsList = DOMAIN m_lifeTimerMap

\* The tree shows a UAV once, and only while it is known: every other node of it is
\* one whose role the database did not find when the UAV was removed.  None stays
\* behind because timeouts, configurations and late points of a closed tab meet.
NoGhosts ==
    m_deleteMutex = Free =>
        \A u \in Uavs : tree[u] <= missed[u] + (IF u \in m_knownUavsList THEN 1 ELSE 0)

\* Once the calls posted to the map are done, the UAVs it shows for the manager are
\* known, whatever ATLANT shows under the same ids: the removal of a UAV is never
\* overtaken by a position of it.
MapShowsKnown ==
    m_deleteMutex = Free /\ mapCalls = <<>> =>
        \A u \in Uavs : <<"show", u>> \in markers => u \in m_knownUavsList

\* What deleteAllUav() clears at the end is empty already: no UAV leaves the maps
\* without its listeners being told and its timer being stopped.
ClearFindsNothing ==
    gui.at = "deleting" /\ gui.keys = {} /\ m_deleteMutex # Gui =>
        m_knownUavsList = {} /\ m_lifeTimerMap = <<>>

\* A UAV with a running timer leaves the list, unless a point that came through
\* another tab's thread has stopped the timer.
SilentUavGoes ==
    \A u \in Uavs :
        (u \in DOMAIN m_lifeTimerMap /\ m_lifeTimerMap[u].running)
            ~> (u \in DOMAIN m_lifeTimerMap => ~m_lifeTimerMap[u].running)

\* The GUI thread gets through a new configuration, or waits for the signal of a
\* thread that was initialised too early: m_mutex and m_deleteMutex never keep it for
\* good, and nothing else does.
ConfigurationEnds ==
    gui.at = "closed" ~> gui.at = "idle" \/ (gui.at = "waiting" /\ init = "lost")
==============================================================================
