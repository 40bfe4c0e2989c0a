------------------------------ MODULE UavHistory ------------------------------
(***************************************************************************)
(* UavHistory and the panel that drives it (ControlPanelController): the    *)
(* replay of recorded UAV positions in the view.                            *)
(*                                                                         *)
(* The history lives in the database thread.  The panel, in the GUI thread, *)
(* reads its status directly and posts requests to it; start() and stop()   *)
(* then run a nested event loop in the GUI thread until startFinished(), so *)
(* the user may go on clicking.  Every second of wall time a tick of        *)
(* m_timer plays the rows of one recorded second: UAVs are announced to the *)
(* listeners, those not seen for m_lifeTime are removed.  The listeners are *)
(* represented by the UAV trees, which take a message only when it carries  *)
(* the role the tree is for.                                                *)
(*                                                                         *)
(* A query result is the sequence of recorded seconds, each with the UAVs   *)
(* that have rows in it; positions and names are left out.                  *)
(***************************************************************************)
EXTENDS Integers, Sequences, FiniteSets

CONSTANTS Uavs,       \* ids of recorded UAVs; 0 is what an invalid row gives
          MaxTime,    \* recorded seconds are 1 .. MaxTime
          m_lifeTime, \* in seconds
          MaxCalls    \* bound: requests waiting for the history's thread

ASSUME UavHistoryAssumption ==
    /\ Uavs \subseteq Nat \ {0}
    /\ MaxTime \in Nat /\ m_lifeTime \in Nat \ {0}
    /\ MaxCalls \in Nat

VARIABLES history,   \* the object's fields, and the trees
          dbOpen,    \* m_database.isOpen()
          calls,     \* requests posted to the history's thread
          waits      \* which calls the GUI thread has not returned from

vars == <<history, dbOpen, calls, waits>>

Ids == Uavs \cup {0}
Second == [t : 1 .. MaxTime, uavs : SUBSET Uavs \ {{}}]
Recordings ==
    {s \in UNION {[1 .. n -> Second] : n \in 0 .. MaxTime} :
        \A i, j \in DOMAIN s : i < j => s[i].t < s[j].t}

Histories ==
    [m_timer : BOOLEAN, m_isPaused : BOOLEAN,
     m_query : Recordings,                      \* the current row first
     m_knownUavsList : SUBSET Ids,
     m_uavLastDate : [Ids -> 0 .. MaxTime],     \* 0: not in the map
     m_uavRoles : SUBSET Ids,                   \* ids with a role
     tree : [Ids -> Nat]]                       \* nodes of a UAV

TypeOK ==
    /\ history \in Histories
    /\ dbOpen \in BOOLEAN
    /\ calls \in Seq({"start", "export", "pause", "resume", "stop"})
    /\ waits \subseteq {"start", "stop"}

Init ==
    /\ history = [m_timer |-> FALSE, m_isPaused |-> FALSE, m_query |-> <<>>,
                  m_knownUavsList |-> {}, m_uavLastDate |-> [u \in Ids |-> 0],
                  m_uavRoles |-> {}, tree |-> [u \in Ids |-> 0]]
    /\ dbOpen \in BOOLEAN
    /\ calls = <<>> /\ waits = {}

getStatus(h) ==
    IF ~dbOpen THEN "NotReady"
    ELSE IF h.m_timer THEN "Playing"
    ELSE IF h.m_isPaused THEN "Paused"
    ELSE "Ready"

----------------------------------------------------------------------------
\* The trees: UavTreeModel::onUavAdded() and onUavRemoved().  A message whose
\* role is not the tree's is dropped; a UAV that is not there is not removed.

onUavAdded(tree, added, roles) ==
    [u \in Ids |-> IF u \in added \cap roles THEN tree[u] + 1 ELSE tree[u]]

\* Mutant: removes a node without looking for it.
onUavRemovedBlindly(tree, removed, roles) ==
    [u \in Ids |-> IF u \in removed \cap roles THEN tree[u] - 1 ELSE tree[u]]

onUavRemoved(tree, removed, roles) ==
    [u \in Ids |-> IF u \in removed \cap roles /\ tree[u] > 0 THEN tree[u] - 1
                                                              ELSE tree[u]]

----------------------------------------------------------------------------
\* The slots of the history, as functions of its state.

\* Mutant: the roles are cleared before the messages that need them are sent.
stopInternalRolesFirst(h) ==
    [h EXCEPT !.tree = onUavRemoved(h.tree, h.m_knownUavsList, {}),
              !.m_timer = FALSE, !.m_isPaused = FALSE, !.m_query = <<>>,
              !.m_knownUavsList = {}, !.m_uavRoles = {},
              !.m_uavLastDate = [u \in Ids |-> 0]]

stopInternal(h) ==
    [h EXCEPT !.tree = onUavRemoved(h.tree, h.m_knownUavsList, h.m_uavRoles),
              !.m_timer = FALSE, !.m_isPaused = FALSE, !.m_query = <<>>,
              !.m_knownUavsList = {}, !.m_uavRoles = {},
              !.m_uavLastDate = [u \in Ids |-> 0]]

\* stop() called in the history's own thread.
stop(h) == IF getStatus(h) = "Ready" THEN h ELSE stopInternal(h)

pauseInternal(h) ==
    IF h.m_isPaused THEN h ELSE [h EXCEPT !.m_timer = FALSE, !.m_isPaused = TRUE]

resumeInternal(h) ==
    IF h.m_isPaused THEN [h EXCEPT !.m_timer = TRUE, !.m_isPaused = FALSE] ELSE h

\* The rows m_query is at: those of one second, or a single invalid row when
\* the query has none left.
CurrentRows(h) ==
    IF h.m_query = <<>> THEN [t |-> 0, uavs |-> {0}] ELSE Head(h.m_query)

\* Mutant: the end of the rows does not end the replay.
readRowsToTheEnd(h) ==
    LET rows == CurrentRows(h) IN
    [h EXCEPT !.m_query = IF h.m_query = <<>> THEN <<>> ELSE Tail(@),
              !.m_uavRoles = @ \cup (rows.uavs \ {0}),
              !.m_uavLastDate = [u \in Ids |-> IF u \in rows.uavs THEN rows.t ELSE @[u]]]

\* Mutant: a UAV that has a date keeps it.
readRowsKeepsDates(h) ==
    LET rows == CurrentRows(h)
        rest == IF h.m_query = <<>> THEN <<>> ELSE Tail(h.m_query)
        read == [h EXCEPT !.m_query = rest,
                          !.m_uavRoles = @ \cup (rows.uavs \ {0}),
                          !.m_uavLastDate = [u \in Ids |-> IF u \in rows.uavs /\ @[u] = 0
                                                           THEN rows.t ELSE @[u]]]
    IN  IF rest = <<>> THEN stop(read) ELSE read

\* The do-while loop: roles and dates of the rows are noted; the end of the rows
\* stops the replay before they are shown.
readRows(h) ==
    LET rows == CurrentRows(h)
        rest == IF h.m_query = <<>> THEN <<>> ELSE Tail(h.m_query)
        read == [h EXCEPT !.m_query = rest,
                          !.m_uavRoles = @ \cup (rows.uavs \ {0}),
                          !.m_uavLastDate = [u \in Ids |-> IF u \in rows.uavs
                                                           THEN rows.t ELSE @[u]]]
    IN  IF rest = <<>> THEN stop(read) ELSE read

\* Mutant: announces UAVs that are known already.
sendInfoAgain(h, uavs) ==
    [h EXCEPT !.tree = onUavAdded(h.tree, uavs, h.m_uavRoles),
              !.m_knownUavsList = @ \cup uavs]

\* UAVs of the rows are announced unless they are known.
sendInfo(h, uavs) ==
    [h EXCEPT !.tree = onUavAdded(h.tree, uavs \ h.m_knownUavsList, h.m_uavRoles),
              !.m_knownUavsList = @ \cup uavs]

removeOutdated(h, time) ==
    LET outdated == {u \in Ids : /\ h.m_uavLastDate[u] # 0
                                 /\ time - h.m_uavLastDate[u] >= m_lifeTime}
    IN  [h EXCEPT !.tree = onUavRemoved(h.tree, outdated, h.m_uavRoles),
                  !.m_knownUavsList = @ \ outdated,
                  !.m_uavRoles = @ \ outdated,
                  !.m_uavLastDate = [u \in Ids |-> IF u \in outdated THEN 0 ELSE @[u]]]

updateHistoryState(h) ==
    LET rows == CurrentRows(h)
    IN  removeOutdated(sendInfo(readRows(h), rows.uavs), rows.t)

\* Reads every row; nothing is shown and the replay is not started.
xlsExport(h) ==
    LET LastSeen(u) == {h.m_query[i].t : i \in {j \in DOMAIN h.m_query :
                                                   u \in h.m_query[j].uavs}}
        Latest(S) == CHOOSE t \in S : \A s \in S : s <= t
    IN  [h EXCEPT !.m_query = <<>>,
                  !.m_uavRoles = @ \cup {u \in Uavs : LastSeen(u) # {}},
                  !.m_uavLastDate = [u \in Ids |-> IF LastSeen(u) # {}
                                                   THEN Latest(LastSeen(u)) ELSE @[u]]]

\* startInternal() with the query's result; none when it fails or is empty.
startInternal(h, mode, recording) ==
    LET ready == [stop(h) EXCEPT !.m_query = recording] IN
    IF recording = <<>> THEN ready
    ELSE IF mode = "export" THEN xlsExport(ready)
    ELSE [updateHistoryState(ready) EXCEPT !.m_timer = TRUE]

----------------------------------------------------------------------------
\* The panel, in the GUI thread.  It is disabled while there is no database.

Post(call) == Len(calls) < MaxCalls /\ calls' = Append(calls, call)

\* A nested event loop runs until the history emits startFinished().
WaitForStartFinished(what) == waits' = waits \cup {what}

onStartPlayingHistorySlot ==
    /\ dbOpen
    /\ CASE getStatus(history) = "Paused"  -> Post("resume") /\ UNCHANGED waits
         [] getStatus(history) = "Playing" -> Post("pause") /\ UNCHANGED waits
         [] OTHER -> Post("start") /\ WaitForStartFinished("start")
    /\ UNCHANGED <<history, dbOpen>>

onStopPlayingHistorySlot ==
    /\ dbOpen /\ getStatus(history) # "Ready"
    /\ Post("stop") /\ WaitForStartFinished("stop")
    /\ UNCHANGED <<history, dbOpen>>

onExportToXls ==
    /\ dbOpen
    /\ Post("export") /\ WaitForStartFinished("start")
    /\ UNCHANGED <<history, dbOpen>>

----------------------------------------------------------------------------
\* The history's thread.

NextCall(call) ==
    /\ calls # <<>> /\ Head(calls) = call
    /\ calls' = Tail(calls)

\* startFinished() ends every nested event loop.
Start(mode) ==
    /\ NextCall(mode)
    /\ \E recording \in Recordings : history' = startInternal(history, mode, recording)
    /\ waits' = {}
    /\ UNCHANGED dbOpen

\* stopInternal() emits stopFinished(), which nobody waits for.
Stop == /\ NextCall("stop")
        /\ history' = stopInternal(history)
        /\ UNCHANGED <<dbOpen, waits>>

Pause == /\ NextCall("pause")
         /\ history' = pauseInternal(history)
         /\ UNCHANGED <<dbOpen, waits>>

Resume == /\ NextCall("resume")
          /\ history' = resumeInternal(history)
          /\ UNCHANGED <<dbOpen, waits>>

Tick == /\ history.m_timer
        /\ UNCHANGED <<dbOpen, calls, waits>>
        /\ history' = updateHistoryState(history)

\* slotReconnectDb(), again and again while the database cannot be opened.
setDatabase ==
    /\ ~dbOpen
    /\ history' = stop(history)
    /\ dbOpen' \in BOOLEAN
    /\ UNCHANGED <<calls, waits>>

Next ==
    \/ onStartPlayingHistorySlot
    \/ onStopPlayingHistorySlot
    \/ onExportToXls
    \/ Start("start") \/ Start("export")
    \/ Stop
    \/ Pause
    \/ Resume
    \/ Tick
    \/ setDatabase

Spec == Init /\ [][Next]_vars

HistoryThread == Start("start") \/ Start("export") \/ Stop \/ Pause \/ Resume

\* The thread's event loop delivers posted requests and ticks of the timer; the
\* user owes no click.
FairSpec == Spec /\ WF_vars(HistoryThread) /\ WF_vars(Tick)

----------------------------------------------------------------------------
\* Properties

\* Every node of a tree can still be removed: its UAV is known and its role is
\* remembered, and there is one node per UAV.  A node whose UAV the history has
\* forgotten would stay in the tree for good.
TreeIsRemovable ==
    \A u \in Ids :
        /\ history.tree[u] <= 1
        /\ history.tree[u] = 1 => u \in history.m_knownUavsList \cap history.m_uavRoles

\* When the replay is over, by a click or at the last row, the trees show no
\* historical UAV any more.
ReadyShowsNothing ==
    getStatus(history) = "Ready" => \A u \in Ids : history.tree[u] = 0

\* Every node of a tree has a date, and one of the part that was played: not one of
\* rows to come, and not one that an export, which fills m_uavLastDate and is not
\* stopped, left behind.  So each node goes m_lifeTime after the UAV's last row.
ShownIsDated ==
    \A u \in Ids :
        history.tree[u] = 1 =>
            /\ history.m_uavLastDate[u] # 0
            /\ \A i \in DOMAIN history.m_query :
                  history.m_uavLastDate[u] < history.m_query[i].t

\* A replay comes to its end, whatever the user clicked before: also one that
\* was resumed after the last row.
ReplayEnds == history.m_timer ~> ~history.m_timer

\* stop() is a "cross thread synchronous call": it returns.
StopReturns == "stop" \in waits ~> waits = {}
==============================================================================
