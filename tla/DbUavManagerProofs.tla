-------------------------- MODULE DbUavManagerProofs --------------------------
(***************************************************************************)
(* Proofs about DbUavManager, for any number of UAVs, tabs and points.      *)
(***************************************************************************)
EXTENDS DbUavManager, TLAPS, SequenceTheorems

\* The maps have the same keys at every moment, also inside a critical section.
SameKeys == m_knownUavsList = DOMAIN m_lifeTimerMap

\* A UAV that was taken is not known, and nobody else holds m_deleteMutex.
TakenIsGone ==
    /\ m_deleteMutex = Free => taken = "none"
    /\ taken # "none" => taken \notin m_knownUavsList

\* The node that the removal of a UAV will take out of the tree.
Due(u) == IF u \in m_knownUavsList \/ taken = u THEN 1 ELSE 0

\* A node of the tree belongs to a UAV that is known or about to be removed, or its
\* removal was missed.
NodesAreRemovable == \A u \in Uavs : tree[u] <= missed[u] + Due(u)

\* The GUI thread holds m_mutex exactly while it deletes, and what it has not
\* deleted yet is in its copy of the keys.
GuiDeletes ==
    /\ gui.at = "deleting" <=> m_mutex = Gui
    /\ gui.at = "deleting" => m_knownUavsList \subseteq gui.keys
    /\ m_deleteMutex = Gui => gui.at = "deleting"

\* Without a tab there is nothing to show.
ClosedShowsNothing ==
    ~TabIsOpen => /\ tree = [u \in Uavs |-> 0]
                  /\ markers = {} /\ mapCalls = <<>>

\* Only a tab that will be replaced is closed.
TabBound == ~TabIsOpen => tab < MaxTabs

CoreInv == SameKeys /\ TakenIsGone /\ NodesAreRemovable /\ GuiDeletes /\ ClosedShowsNothing

\* The map has removed u, or will have when the posted calls are done.
Removing(u) ==
    \/ /\ <<"show", u>> \notin markers
       /\ \A j \in 1 .. Len(mapCalls) : mapCalls[j] # <<"show", u>>
    \/ \E i \in 1 .. Len(mapCalls) :
          /\ mapCalls[i] = <<"remove", u>>
          /\ \A j \in i .. Len(mapCalls) : mapCalls[j] # <<"show", u>>

MapInv == \A u \in Uavs : u \notin m_knownUavsList /\ taken # u => Removing(u)

----------------------------------------------------------------------------
\* The list of points of a message is a sequence of points.
LEMMA ListType ==
    ASSUME NEW uavs \in Lists, NEW single \in BOOLEAN
    PROVE  [i \in DOMAIN uavs |-> [uav |-> uavs[i], actual |-> single \/ i = Len(uavs)]]
               \in Seq(Point)
  <1>1. PICK n \in 1 .. MaxPoints : uavs \in [1 .. n -> Uavs]
    BY DEF Lists
  <1>2. DOMAIN uavs = 1 .. n /\ n \in Nat /\ uavs \in Seq(Uavs)
    BY <1>1, DbUavManagerAssumption
  <1>3. \A i \in 1 .. n : [uav |-> uavs[i], actual |-> single \/ i = Len(uavs)] \in Point
    <2> TAKE i \in 1 .. n
    <2>1. uavs[i] \in Uavs
      BY <1>1
    <2>2. (single \/ i = Len(uavs)) \in BOOLEAN
      OBVIOUS
    <2> QED BY <2>1, <2>2 DEF Point
  <1> DEFINE p == [i \in DOMAIN uavs |->
                      [uav |-> uavs[i], actual |-> single \/ i = Len(uavs)]]
  <1>4. p \in [1 .. n -> Point]
    BY <1>2, <1>3
  <1> QED BY <1>2, <1>4

\* Marking the timeouts of a key as old leaves a queue of timeouts.
LEMMA StoppedType ==
    ASSUME NEW queue \in Seq([key : Uavs, old : BOOLEAN]), NEW key
    PROVE  Stopped(queue, key) \in Seq([key : Uavs, old : BOOLEAN])
  <1> DEFINE E == [key : Uavs, old : BOOLEAN]
  <1>1. DOMAIN queue = 1 .. Len(queue) /\ Len(queue) \in Nat
    OBVIOUS
  <1>2. \A i \in 1 .. Len(queue) :
            (IF queue[i].key = key THEN [queue[i] EXCEPT !.old = TRUE] ELSE queue[i]) \in E
    <2> TAKE i \in 1 .. Len(queue)
    <2>1. queue[i] \in E
      <3> HIDE DEF E
      <3> QED BY ElementOfSeq DEF E
    <2>2. [queue[i] EXCEPT !.old = TRUE] \in E
      BY <2>1
    <2> QED BY <2>1, <2>2
  <1>3. Stopped(queue, key) \in [1 .. Len(queue) -> E]
    BY <1>1, <1>2 DEF Stopped
  <1> HIDE DEF E
  <1>4. Stopped(queue, key) \in Seq(E)
    BY <1>1, <1>3
  <1> QED BY <1>4 DEF E

\* The listeners keep their types.
LEMMA ListenersType ==
    ASSUME TypeOK, NEW u \in Uavs
    PROVE  /\ \A role : onUavAdded(u, role) => tree' \in [Uavs -> Nat]
           /\ onUavInfoChanged(u) => mapCalls' \in Seq(MapCalls)
           /\ \A role : onUavRemoved(u, role) =>
                 /\ tree' \in [Uavs -> Nat] /\ markers' \subseteq Marks
                 /\ mapCalls' \in Seq(MapCalls)
  <1>1. \A role : onUavAdded(u, role) => tree' \in [Uavs -> Nat]
    BY DEF onUavAdded, TypeOK
  <1>2. <<"show", u>> \in MapCalls /\ <<"remove", u>> \in MapCalls
    BY DEF MapCalls
  <1>3. onUavInfoChanged(u) => mapCalls' \in Seq(MapCalls)
    BY <1>2 DEF onUavInfoChanged, TypeOK
  <1>4. ASSUME NEW role, onUavRemoved(u, role)
        PROVE  tree' \in [Uavs -> Nat] /\ markers' \subseteq Marks /\ mapCalls' \in Seq(MapCalls)
    <2>1. mapCalls' \in Seq(MapCalls) /\ markers' \subseteq Marks
      BY <1>2, <1>4 DEF onUavRemoved, TypeOK
    <2>2. tree[u] > 0 => tree[u] - 1 \in Nat
      BY DEF TypeOK
    <2>3. tree' \in [Uavs -> Nat]
      BY <1>4, <2>2 DEF onUavRemoved, TypeOK
    <2> QED BY <2>1, <2>3
  <1> QED BY <1>1, <1>3, <1>4

\* Entering a UAV keeps the types of the two maps.
LEMMA EnterType ==
    ASSUME TypeOK, NEW t \in Threads, NEW u \in Uavs, NEW role \in BOOLEAN,
           enterKnown(t, u, role)
    PROVE  /\ m_knownUavsList' \subseteq Uavs
           /\ DOMAIN m_lifeTimerMap' \subseteq Uavs
           /\ m_lifeTimerMap' \in [DOMAIN m_lifeTimerMap' -> Timers]
           /\ tree' \in [Uavs -> Nat]
  <1> DEFINE new == u \notin m_knownUavsList /\ u \notin DOMAIN m_lifeTimerMap
             timer == IF new THEN [owner |-> t, running |-> TRUE] ELSE m_lifeTimerMap[u]
  <1>1. m_knownUavsList' \subseteq Uavs
    BY DEF enterKnown, TypeOK
  <1>2. tree' \in [Uavs -> Nat]
    BY ListenersType DEF enterKnown, TypeOK
  <1>3. CASE new \/ u \in DOMAIN m_lifeTimerMap
    <2>1. timer \in Timers
      BY <1>3 DEF TypeOK, Timers
    <2>2. \A s \in Started(timer, t) : s \in Timers
      BY <2>1 DEF Started, Timers
    <2>3. PICK s \in Started(timer, t) :
              m_lifeTimerMap' = [v \in DOMAIN m_lifeTimerMap \cup {u} |->
                                    IF v = u THEN s ELSE m_lifeTimerMap[v]]
      BY <1>3 DEF enterKnown
    <2>4. s \in Timers
      BY <2>2, <2>3
    <2> HIDE DEF timer, new
    <2>5. /\ DOMAIN m_lifeTimerMap' = DOMAIN m_lifeTimerMap \cup {u}
          /\ m_lifeTimerMap' \in [DOMAIN m_lifeTimerMap \cup {u} -> Timers]
      BY <2>3, <2>4 DEF TypeOK
    <2> QED BY <1>1, <1>2, <2>5 DEF TypeOK
  <1>4. CASE ~(new \/ u \in DOMAIN m_lifeTimerMap)
    <2>1. m_lifeTimerMap' = m_lifeTimerMap
      BY <1>4 DEF enterKnown
    <2> QED BY <1>1, <1>2, <2>1 DEF TypeOK
  <1> QED BY <1>3, <1>4

\* Taking a UAV keeps the types of the two maps.
LEMMA TakeType ==
    ASSUME TypeOK, NEW thread \in {Db, Gui}, NEW key \in Uavs, takeUav(thread, key)
    PROVE  /\ m_knownUavsList' \subseteq Uavs
           /\ DOMAIN m_lifeTimerMap' \subseteq Uavs
           /\ m_lifeTimerMap' \in [DOMAIN m_lifeTimerMap' -> Timers]
           /\ m_deleteMutex' \in {Free, Db, Gui} /\ taken' \in Uavs \cup {"none"}
  BY DEF takeUav, Without, TypeOK

----------------------------------------------------------------------------
\* Type correctness is inductive together with the bound on tabs.
LEMMA TypeOKNext == TypeOK /\ TabBound /\ [Next]_vars => TypeOK'
  <1> SUFFICES ASSUME TypeOK, TabBound, [Next]_vars PROVE TypeOK'
    OBVIOUS
  <1>1. ASSUME NEW t \in Threads, NEW uavs \in Lists, NEW single \in BOOLEAN,
               onMethodCalled(t, uavs, single)
        PROVE  TypeOK'
    <2>1. points' \in [Threads -> Seq(Point)]
      BY <1>1, ListType DEF onMethodCalled, TypeOK
    <2>2. msgs' \in 0 .. MaxMsgs
      BY <1>1, DbUavManagerAssumption DEF onMethodCalled, TypeOK
    <2> QED BY <1>1, <2>1, <2>2 DEF onMethodCalled, TypeOK, manager, listeners
  <1>2. ASSUME NEW t \in Threads, addUavInfoToDb(t) PROVE TypeOK'
    BY <1>2 DEF addUavInfoToDb, TypeOK, manager, listeners
  <1>3. ASSUME NEW t \in Threads, addUavInfo(t) PROVE TypeOK'
    <2>1. Head(points[t]).uav \in Uavs /\ Tail(points[t]) \in Seq(Point)
      <3>1. points[t] \in Seq(Point) /\ points[t] # <<>>
        BY <1>3 DEF addUavInfo, TypeOK
      <3>2. Head(points[t]) \in Point /\ Tail(points[t]) \in Seq(Point)
        BY <3>1, HeadTailProperties
      <3> QED BY <3>2 DEF Point
    <2>2. points' \in [Threads -> Seq(Point)]
      BY <1>3, <2>1 DEF addUavInfo, TypeOK
    <2>3. CASE UNCHANGED <<manager, listeners>>
      BY <1>3, <2>2, <2>3 DEF addUavInfo, TypeOK, manager, listeners
    <2>4. ASSUME NEW role \in BOOLEAN, enterKnown(t, Head(points[t]).uav, role),
                 onUavInfoChanged(Head(points[t]).uav) \/ UNCHANGED mapCalls,
                 UNCHANGED markers
          PROVE  TypeOK'
      <3>1. mapCalls' \in Seq(MapCalls)
        BY <2>1, <2>4, ListenersType DEF TypeOK
      <3> QED BY <1>3, <2>1, <2>2, <2>4, <3>1, EnterType DEF addUavInfo, TypeOK
    <2> QED BY <1>3, <2>3, <2>4 DEF addUavInfo
  <1>4. ASSUME NEW u \in Uavs, Timeout(u) PROVE TypeOK'
    <2>1. [key |-> u, old |-> FALSE] \in [key : Uavs, old : BOOLEAN]
      OBVIOUS
    <2> QED BY <1>4, <2>1 DEF Timeout, TypeOK, manager, listeners
  <1>5. CASE timeoutSlot
    <2>1. Head(posted).key \in Uavs
          /\ Tail(posted) \in Seq([key : Uavs, old : BOOLEAN])
      <3> DEFINE E == [key : Uavs, old : BOOLEAN]
      <3>1. posted \in Seq(E) /\ posted # <<>>
        BY <1>5 DEF timeoutSlot, TypeOK
      <3> HIDE DEF E
      <3>2. Head(posted) \in E /\ Tail(posted) \in Seq(E)
        BY <3>1, HeadTailProperties
      <3> QED BY <3>2 DEF E
    <2>2. posted' \in Seq([key : Uavs, old : BOOLEAN])
      BY <1>5, <2>1, StoppedType DEF timeoutSlot
    <2>3. takeUav(Db, Head(posted).key)
      BY <1>5 DEF timeoutSlot
    <2> QED BY <1>5, <2>1, <2>2, <2>3, TakeType DEF timeoutSlot, TypeOK, listeners
  <1>6. CASE DropTimeout
    BY <1>6 DEF DropTimeout, TypeOK, manager, listeners
  <1>7. ASSUME NEW thread \in {Db, Gui}, notifyRemoved(thread) PROVE TypeOK'
    <2>1. /\ tree' \in [Uavs -> Nat] /\ markers' \subseteq Marks
          /\ mapCalls' \in Seq(MapCalls)
      <3>1. CASE UNCHANGED listeners
        BY <3>1 DEF TypeOK, listeners
      <3>2. CASE \E u \in Uavs, role \in BOOLEAN : onUavRemoved(u, role)
        BY <3>2, ListenersType
      <3> QED BY <1>7, <3>1, <3>2 DEF notifyRemoved, TypeOK
    <2>2. missed' \in [Uavs -> Nat]
      <3>1. missed' = missed \/ missed' = [missed EXCEPT ![taken] = @ + 1]
        BY <1>7 DEF notifyRemoved
      <3>2. missed \in [Uavs -> Nat] /\ \A u \in Uavs : missed[u] + 1 \in Nat
        BY DEF TypeOK
      <3> QED BY <3>1, <3>2
    <2> QED BY <1>7, <2>1, <2>2 DEF notifyRemoved, TypeOK, manager
  <1>8. CASE clearAllInformation
    <2>1. gui' \in [at : GuiStates, keys : SUBSET Uavs]
      BY <1>8 DEF clearAllInformation, TypeOK, GuiStates
    <2>2. tree' \in [Uavs -> Nat] /\ missed' \in [Uavs -> Nat] /\ mapCalls' \in Seq(MapCalls)
      BY <1>8 DEF clearAllInformation
    <2>3. markers' \subseteq Marks
      BY <1>8 DEF clearAllInformation
    <2> QED BY <1>8, <2>1, <2>2, <2>3 DEF clearAllInformation, TypeOK, manager
  <1>9. CASE deleteAllUav
    BY <1>9 DEF deleteAllUav, TypeOK, GuiStates, manager, listeners
  <1>10. CASE deleteKey
    <2>1. PICK key \in gui.keys : /\ takeUav(Gui, key)
                                  /\ posted' = Stopped(posted, key)
                                  /\ gui' = [gui EXCEPT !.keys = @ \ {key}]
      BY <1>10 DEF deleteKey
    <2>2. key \in Uavs
      BY DEF TypeOK
    <2>3. posted' \in Seq([key : Uavs, old : BOOLEAN])
      BY <2>1, StoppedType DEF TypeOK
    <2>4. gui' \in [at : GuiStates, keys : SUBSET Uavs]
      BY <2>1 DEF TypeOK
    <2> QED BY <1>10, <2>1, <2>2, <2>3, <2>4, TakeType DEF deleteKey, TypeOK, listeners
  <1>11. CASE clearMaps
    <2>1. gui' \in [at : GuiStates, keys : SUBSET Uavs]
      BY <1>11 DEF clearMaps, TypeOK, GuiStates
    <2>2. /\ m_knownUavsList' \subseteq Uavs /\ DOMAIN m_lifeTimerMap' \subseteq Uavs
          /\ m_lifeTimerMap' \in [DOMAIN m_lifeTimerMap' -> Timers]
      BY <1>11 DEF clearMaps
    <2> QED BY <1>11, <2>1, <2>2 DEF clearMaps, TypeOK, listeners
  <1>12. CASE addStationTabs
    <2>1. gui' \in [at : GuiStates, keys : SUBSET Uavs]
      BY <1>12 DEF addStationTabs, TypeOK, GuiStates
    <2>2. tab' \in Threads
      BY <1>12, DbUavManagerAssumption DEF addStationTabs, TypeOK, TabBound, TabIsOpen,
                                           Threads
    <2> QED BY <1>12, <2>1, <2>2 DEF addStationTabs, TypeOK, manager, listeners
  <1>13. CASE MapStep
    <2>1. Head(mapCalls) \in MapCalls /\ Tail(mapCalls) \in Seq(MapCalls)
      BY <1>13, HeadTailProperties DEF MapStep, TypeOK
    <2>2. Head(mapCalls)[1] # "remove" => Head(mapCalls) \in Marks
      BY <2>1 DEF MapCalls, Marks
    <2>3. markers' \subseteq Marks
      BY <1>13, <2>2 DEF MapStep, TypeOK
    <2> QED BY <1>13, <2>1, <2>3 DEF MapStep, TypeOK, manager
  <1>14. CASE UNCHANGED vars
    BY <1>14 DEF vars, manager, listeners, TypeOK
  <1>15. ASSUME NEW u \in Uavs, onAtlantPosition(u) PROVE TypeOK'
    <2>1. <<"atlant", u>> \in MapCalls
      BY DEF MapCalls
    <2>2. mapCalls' \in Seq(MapCalls)
      BY <1>15, <2>1 DEF onAtlantPosition, TypeOK
    <2>3. msgs' \in 0 .. MaxMsgs
      BY <1>15, DbUavManagerAssumption DEF onAtlantPosition, TypeOK
    <2> QED BY <1>15, <2>2, <2>3 DEF onAtlantPosition, TypeOK, manager
  <1>16. CASE initSlot
    BY <1>16 DEF initSlot, TypeOK, manager, listeners
  <1>17. CASE enterLoop
    <2>1. gui' \in [at : GuiStates, keys : SUBSET Uavs]
      BY <1>17 DEF enterLoop, TypeOK, GuiStates
    <2> QED BY <1>17, <2>1 DEF enterLoop, TypeOK, manager, listeners
  <1>18. CASE leaveLoop
    <2>1. gui' \in [at : GuiStates, keys : SUBSET Uavs]
      BY <1>18 DEF leaveLoop, TypeOK, GuiStates
    <2> QED BY <1>18, <2>1 DEF leaveLoop, TypeOK, manager, listeners
  <1> QED BY <1>1, <1>2, <1>3, <1>4, <1>5, <1>6, <1>7, <1>8, <1>9, <1>10, <1>11, <1>12,
             <1>13, <1>14, <1>15, <1>16, <1>17, <1>18 DEF Next, RpcStep, DbStep, GuiStep

----------------------------------------------------------------------------
\* Taking a UAV keeps the maps and the trees in step.
LEMMA TakeCore ==
    ASSUME TypeOK, CoreInv, NEW thread \in {Db, Gui}, NEW key \in Uavs,
           takeUav(thread, key), UNCHANGED <<tree, missed>>
    PROVE  SameKeys' /\ TakenIsGone' /\ NodesAreRemovable'
  <1>1. taken = "none" /\ m_deleteMutex' = thread
    BY DEF takeUav, CoreInv, TakenIsGone
  <1>2. SameKeys'
    BY DEF takeUav, Without, CoreInv, SameKeys
  <1>3. TakenIsGone'
    BY <1>1 DEF takeUav, TakenIsGone, Free, Db, Gui
  <1>4. NodesAreRemovable'
    <2> SUFFICES ASSUME NEW u \in Uavs PROVE tree[u] <= missed[u] + Due(u)'
      BY DEF NodesAreRemovable
    <2>1. Due(u)' = Due(u)
      BY <1>1, DbUavManagerAssumption DEF takeUav, Due
    <2> QED BY <2>1 DEF CoreInv, NodesAreRemovable
  <1> QED BY <1>2, <1>3, <1>4

\* Telling the listeners keeps the trees in step and releases m_deleteMutex.
LEMMA NotifyCore ==
    ASSUME TypeOK, CoreInv, NEW thread \in {Db, Gui}, notifyRemoved(thread)
    PROVE  CoreInv'
  <1> USE DEF notifyRemoved, manager, CoreInv
  <1>1. SameKeys' /\ TakenIsGone'
    BY DEF SameKeys, TakenIsGone
  <1>2. GuiDeletes'
    BY DEF GuiDeletes, Free, Gui
  <1>3. NodesAreRemovable'
    <2> SUFFICES ASSUME NEW u \in Uavs PROVE tree'[u] <= missed'[u] + Due(u)'
      BY DEF NodesAreRemovable
    <2>1. /\ tree[u] \in Nat /\ missed[u] \in Nat /\ tree[u] <= missed[u] + Due(u)
      BY DEF NodesAreRemovable, TypeOK
    <2>2. Due(u) \in {0, 1} /\ Due(u)' \in {0, 1}
      BY DEF Due
    <2>3. u # taken => Due(u)' = Due(u)
      BY DbUavManagerAssumption DEF Due
    <2>4. CASE ~TabIsOpen
      <3>1. tree[u] = 0 /\ tree' = tree
        BY <2>4 DEF ClosedShowsNothing, onUavRemoved, listeners
      <3>2. missed' = missed
        BY <2>4 DEF ClosedShowsNothing, TypeOK
      <3> QED BY <2>1, <2>2, <3>1, <3>2
    <2>5. CASE TabIsOpen /\ u = taken
      <3>1. PICK role \in BOOLEAN :
                /\ onUavRemoved(u, role)
                /\ missed' = IF ~role /\ tree[u] > 0 THEN [missed EXCEPT ![u] = @ + 1]
                                                      ELSE missed
        BY <2>5, DbUavManagerAssumption
      <3>2. CASE tree[u] = 0
        <4>1. tree'[u] = 0 /\ missed'[u] = missed[u]
          BY <3>1, <3>2 DEF onUavRemoved
        <4> QED BY <2>1, <2>2, <4>1
      <3>3. CASE tree[u] > 0 /\ role
        <4>1. tree'[u] = tree[u] - 1 /\ missed'[u] = missed[u]
          BY <2>5, <3>1, <3>3 DEF onUavRemoved, TypeOK
        <4> QED BY <2>1, <2>2, <4>1
      <3>4. CASE tree[u] > 0 /\ ~role
        <4>1. tree'[u] = tree[u] /\ missed'[u] = missed[u] + 1
          BY <3>1, <3>4 DEF onUavRemoved, TypeOK
        <4> QED BY <2>1, <2>2, <4>1
      <3> QED BY <2>1, <3>2, <3>3, <3>4
    <2>6. CASE TabIsOpen /\ u # taken
      <3>1. missed'[u] = missed[u]
        BY <2>6 DEF TypeOK
      <3>2. tree'[u] \in Int /\ tree'[u] <= tree[u]
        <4>1. ASSUME NEW v \in Uavs, NEW role, onUavRemoved(v, role)
              PROVE  tree'[u] \in Int /\ tree'[u] <= tree[u]
          BY <2>1, <4>1 DEF onUavRemoved, TypeOK
        <4>2. CASE UNCHANGED listeners
          BY <2>1, <4>2 DEF listeners
        <4> QED BY <4>1, <4>2 DEF TypeOK
      <3> QED BY <2>1, <2>2, <2>3, <2>6, <3>1, <3>2
    <2> QED BY <2>4, <2>5, <2>6
  <1>4. ClosedShowsNothing'
    BY DEF ClosedShowsNothing, onUavRemoved, TabIsOpen, listeners
  <1> QED BY <1>1, <1>2, <1>3, <1>4

\* Entering a UAV keeps the maps and the trees in step.
LEMMA EnterCore ==
    ASSUME TypeOK, CoreInv, NEW t \in Threads, NEW u \in Uavs,
           NEW role \in BOOLEAN, enterKnown(t, u, role),
           m_deleteMutex = Free, UNCHANGED <<m_deleteMutex, taken, gui, missed>>
    PROVE  /\ SameKeys' /\ TakenIsGone' /\ NodesAreRemovable'
           /\ u \in m_knownUavsList' /\ m_knownUavsList' = m_knownUavsList \cup {u}
           /\ ~TabIsOpen => tree' = tree
  <1> DEFINE new == u \notin m_knownUavsList /\ u \notin DOMAIN m_lifeTimerMap
  <1>1. taken = "none"
    BY DEF CoreInv, TakenIsGone
  <1>2. m_knownUavsList' = m_knownUavsList \cup {u}
    BY DEF enterKnown, CoreInv, SameKeys
  <1>3. DOMAIN m_lifeTimerMap' = DOMAIN m_lifeTimerMap \cup {u}
    BY DEF enterKnown, CoreInv, SameKeys
  <1>4. SameKeys' /\ TakenIsGone'
    BY <1>1, <1>2, <1>3 DEF CoreInv, SameKeys, TakenIsGone
  <1>5. NodesAreRemovable'
    <2> SUFFICES ASSUME NEW v \in Uavs PROVE tree'[v] <= missed[v] + Due(v)'
      BY DEF NodesAreRemovable
    <2>1. tree[v] \in Nat /\ missed[v] \in Nat /\ tree[v] <= missed[v] + Due(v)
      BY DEF CoreInv, NodesAreRemovable, TypeOK
    <2>2. Due(v) \in {0, 1} /\ Due(v)' \in {0, 1} /\ Due(v) <= Due(v)'
      BY <1>1, <1>2 DEF Due
    <2>3. CASE tree' = tree
      BY <2>1, <2>2, <2>3
    <2>4. CASE tree' # tree
      <3>1. new /\ tree' = [tree EXCEPT ![u] = @ + 1]
        BY <2>4 DEF enterKnown, onUavAdded
      <3>2. CASE v = u
        <4>1. Due(v) = 0 /\ Due(v)' = 1 /\ tree'[v] = tree[v] + 1
          BY <1>1, <1>2, <3>1, <3>2, DbUavManagerAssumption DEF Due, TypeOK
        <4> QED BY <2>1, <4>1
      <3>3. CASE v # u
        <4>1. tree'[v] = tree[v]
          BY <3>1, <3>3 DEF TypeOK
        <4> QED BY <2>1, <2>2, <4>1
      <3> QED BY <3>2, <3>3
    <2> QED BY <2>3, <2>4
  <1>6. ~TabIsOpen => tree' = tree
    BY DEF enterKnown, onUavAdded
  <1> QED BY <1>2, <1>4, <1>5, <1>6

----------------------------------------------------------------------------
\* The core of the invariant is inductive.
LEMMA CoreNext == TypeOK /\ CoreInv /\ [Next]_vars => CoreInv'
  <1> SUFFICES ASSUME TypeOK, CoreInv, [Next]_vars PROVE CoreInv'
    OBVIOUS
  <1>1. ASSUME NEW t \in Threads, NEW uavs \in Lists, NEW single \in BOOLEAN,
               onMethodCalled(t, uavs, single)
        PROVE  CoreInv'
    BY <1>1 DEF onMethodCalled, manager, listeners, CoreInv, SameKeys, TakenIsGone,
                NodesAreRemovable, Due, GuiDeletes, ClosedShowsNothing, TabIsOpen
  <1>2. ASSUME NEW t \in Threads, addUavInfoToDb(t) PROVE CoreInv'
    <2>1. m_mutex = Free /\ m_mutex' = t /\ t # Gui /\ Free # Gui
      BY <1>2, DbUavManagerAssumption DEF addUavInfoToDb, Threads, Gui, Free
    <2> QED BY <1>2, <2>1 DEF addUavInfoToDb, manager, listeners, CoreInv, SameKeys,
                TakenIsGone, NodesAreRemovable, Due, GuiDeletes, ClosedShowsNothing, TabIsOpen
  <1>3. ASSUME NEW t \in Threads, addUavInfo(t) PROVE CoreInv'
    <2>1. m_mutex = t /\ m_mutex' = Free /\ t # Gui /\ Free # Gui
      BY <1>3, DbUavManagerAssumption DEF addUavInfo, Threads, Gui, Free
    <2>2. gui.at # "deleting" /\ UNCHANGED <<gui, m_deleteMutex, taken, missed>>
          /\ m_deleteMutex = Free
      BY <1>3, <2>1 DEF addUavInfo, CoreInv, GuiDeletes
    <2>3. GuiDeletes'
      BY <2>1, <2>2 DEF GuiDeletes
    <2>4. CASE UNCHANGED <<manager, listeners>>
      BY <2>2, <2>3, <2>4 DEF manager, listeners, CoreInv, SameKeys, TakenIsGone,
                              NodesAreRemovable, Due, ClosedShowsNothing, TabIsOpen
    <2>5. ASSUME NEW role \in BOOLEAN, enterKnown(t, Head(points[t]).uav, role),
                 onUavInfoChanged(Head(points[t]).uav) \/ UNCHANGED mapCalls,
                 UNCHANGED markers
          PROVE  CoreInv'
      <3>1. Head(points[t]).uav \in Uavs
        <4>1. points[t] \in Seq(Point) /\ points[t] # <<>>
          BY <1>3 DEF addUavInfo, TypeOK
        <4>2. Head(points[t]) \in Point
          BY <4>1, HeadTailProperties
        <4> QED BY <4>2 DEF Point
      <3>2. /\ SameKeys' /\ TakenIsGone' /\ NodesAreRemovable'
            /\ ~TabIsOpen => tree' = tree
        BY <2>2, <2>5, <3>1, EnterCore
      <3>3. ClosedShowsNothing'
        BY <2>2, <2>5, <3>2 DEF CoreInv, ClosedShowsNothing, onUavInfoChanged, TabIsOpen
      <3> QED BY <2>3, <3>2, <3>3 DEF CoreInv
    <2> QED BY <1>3, <2>4, <2>5 DEF addUavInfo
  <1>4. ASSUME NEW u \in Uavs, Timeout(u) PROVE CoreInv'
    BY <1>4 DEF Timeout, manager, listeners, CoreInv, SameKeys, TakenIsGone,
                NodesAreRemovable, Due, GuiDeletes, ClosedShowsNothing, TabIsOpen
  <1>5. CASE timeoutSlot
    <2>1. Head(posted).key \in Uavs /\ takeUav(Db, Head(posted).key)
      <3> DEFINE E == [key : Uavs, old : BOOLEAN]
      <3>1. posted \in Seq(E) /\ posted # <<>>
        BY <1>5 DEF timeoutSlot, TypeOK
      <3> HIDE DEF E
      <3>2. Head(posted) \in E
        BY <3>1, HeadTailProperties
      <3> QED BY <1>5, <3>2 DEF E, timeoutSlot
    <2>2. UNCHANGED <<gui, m_mutex, missed, tree, markers, mapCalls>>
      BY <1>5 DEF timeoutSlot, listeners
    <2>3. SameKeys' /\ TakenIsGone' /\ NodesAreRemovable'
      BY <2>1, <2>2, TakeCore
    <2>4. m_deleteMutex' = Db /\ Db # Gui /\ m_knownUavsList' \subseteq m_knownUavsList
      BY <2>1 DEF takeUav, Db, Gui
    <2> QED BY <2>2, <2>3, <2>4 DEF CoreInv, GuiDeletes, ClosedShowsNothing, TabIsOpen
  <1>6. CASE DropTimeout
    BY <1>6 DEF DropTimeout, manager, listeners, CoreInv, SameKeys, TakenIsGone,
                NodesAreRemovable, Due, GuiDeletes, ClosedShowsNothing, TabIsOpen
  <1>7. ASSUME NEW thread \in {Db, Gui}, notifyRemoved(thread) PROVE CoreInv'
    BY <1>7, NotifyCore
  <1>8. CASE clearAllInformation
    <2>1. gui.at = "idle" /\ gui'.at = "closed"
      BY <1>8 DEF clearAllInformation, TypeOK
    <2>2. tree' = [u \in Uavs |-> 0] /\ missed' = tree' /\ markers' = {} /\ mapCalls' = <<>>
          /\ UNCHANGED <<m_knownUavsList, m_lifeTimerMap, m_mutex, m_deleteMutex, taken>>
      BY <1>8 DEF clearAllInformation, manager
    <2>3. NodesAreRemovable'
      BY <2>2 DEF NodesAreRemovable, Due
    <2> QED BY <2>1, <2>2, <2>3 DEF CoreInv, SameKeys, TakenIsGone, GuiDeletes,
                                    ClosedShowsNothing, TabIsOpen
  <1>9. CASE deleteAllUav
    <2>1. /\ gui.at = "closed" /\ gui'.at = "deleting" /\ m_mutex' = Gui
          /\ gui'.keys = DOMAIN m_lifeTimerMap
      BY <1>9 DEF deleteAllUav
    <2> QED BY <1>9, <2>1 DEF deleteAllUav, manager, listeners, CoreInv, SameKeys,
                TakenIsGone, NodesAreRemovable, Due, GuiDeletes, ClosedShowsNothing, TabIsOpen
  <1>10. CASE deleteKey
    <2>1. PICK key \in gui.keys : /\ takeUav(Gui, key)
                                  /\ gui' = [gui EXCEPT !.keys = @ \ {key}]
      BY <1>10 DEF deleteKey
    <2>2. key \in Uavs /\ gui.at = "deleting"
          /\ gui'.at = gui.at /\ gui'.keys = gui.keys \ {key}
      BY <1>10, <2>1 DEF TypeOK, deleteKey
    <2>3. UNCHANGED <<m_mutex, missed, tree, markers, mapCalls>>
      BY <1>10 DEF deleteKey, listeners
    <2>4. SameKeys' /\ TakenIsGone' /\ NodesAreRemovable'
      BY <2>1, <2>2, <2>3, TakeCore
    <2>5. m_knownUavsList' = m_knownUavsList \ {key}
      BY <2>1 DEF takeUav
    <2> QED BY <2>2, <2>3, <2>4, <2>5 DEF CoreInv, GuiDeletes, ClosedShowsNothing, TabIsOpen
  <1>11. CASE clearMaps
    <2>1. gui.at = "deleting" /\ gui'.at = "cleared" /\ m_deleteMutex # Gui
          /\ m_mutex' = Free /\ Free # Gui
      BY <1>11 DEF clearMaps, TypeOK, Free, Gui
    <2>2. m_knownUavsList' = {} /\ m_lifeTimerMap' = <<>>
          /\ UNCHANGED <<m_deleteMutex, taken, missed, tree, markers, mapCalls>>
      BY <1>11 DEF clearMaps, listeners
    <2>3. SameKeys'
      BY <2>2 DEF SameKeys
    <2>4. NodesAreRemovable'
      <3> SUFFICES ASSUME NEW u \in Uavs PROVE tree'[u] <= missed'[u] + Due(u)'
        BY DEF NodesAreRemovable
      <3>1. tree'[u] = 0 /\ missed'[u] \in Nat
        BY <2>1, <2>2 DEF CoreInv, ClosedShowsNothing, TabIsOpen, TypeOK
      <3>2. Due(u)' \in {0, 1}
        BY DEF Due
      <3> QED BY <3>1, <3>2
    <2> QED BY <2>1, <2>2, <2>3, <2>4 DEF CoreInv, TakenIsGone, GuiDeletes,
                                          ClosedShowsNothing, TabIsOpen
  <1>12. CASE addStationTabs
    <2>1. gui.at = "cleared" /\ gui'.at = "opening"
      BY <1>12 DEF addStationTabs, TypeOK
    <2> QED BY <1>12, <2>1 DEF addStationTabs, manager, listeners, CoreInv, SameKeys,
                TakenIsGone, NodesAreRemovable, Due, GuiDeletes, ClosedShowsNothing, TabIsOpen
  <1>13. CASE MapStep
    BY <1>13 DEF MapStep, manager, CoreInv, SameKeys, TakenIsGone, NodesAreRemovable,
                 Due, GuiDeletes, ClosedShowsNothing, TabIsOpen
  <1>14. CASE UNCHANGED vars
    BY <1>14 DEF vars, manager, listeners, CoreInv, SameKeys, TakenIsGone,
                 NodesAreRemovable, Due, GuiDeletes, ClosedShowsNothing, TabIsOpen
  <1>15. ASSUME NEW u \in Uavs, onAtlantPosition(u) PROVE CoreInv'
    BY <1>15 DEF onAtlantPosition, TabIsReady, manager, CoreInv, SameKeys, TakenIsGone,
                 NodesAreRemovable, Due, GuiDeletes, ClosedShowsNothing, TabIsOpen
  <1>16. CASE initSlot
    BY <1>16 DEF initSlot, manager, listeners, CoreInv, SameKeys, TakenIsGone,
                 NodesAreRemovable, Due, GuiDeletes, ClosedShowsNothing, TabIsOpen
  <1>17. CASE enterLoop \/ leaveLoop
    <2>1. gui.at \in {"opening", "waiting"} /\ gui'.at \in {"waiting", "idle"}
      BY <1>17 DEF enterLoop, leaveLoop, TypeOK
    <2>2. UNCHANGED <<m_knownUavsList, m_lifeTimerMap, m_mutex, m_deleteMutex, taken,
                      missed, tree, markers, mapCalls>>
      BY <1>17 DEF enterLoop, leaveLoop, manager, listeners
    <2> QED BY <2>1, <2>2 DEF CoreInv, SameKeys, TakenIsGone,
                NodesAreRemovable, Due, GuiDeletes, ClosedShowsNothing, TabIsOpen
  <1> QED BY <1>1, <1>2, <1>3, <1>4, <1>5, <1>6, <1>7, <1>8, <1>9, <1>10, <1>11, <1>12,
             <1>13, <1>14, <1>15, <1>16, <1>17 DEF Next, RpcStep, DbStep, GuiStep

\* Initially nothing is known and nothing is shown.
LEMMA DbInit == Init => TypeOK /\ TabBound /\ CoreInv /\ MapInv
  <1> SUFFICES ASSUME Init PROVE TypeOK /\ TabBound /\ CoreInv /\ MapInv
    OBVIOUS
  <1> USE DEF Init
  <1>1. m_lifeTimerMap \in [DOMAIN m_lifeTimerMap -> Timers] /\ DOMAIN m_lifeTimerMap = {}
    OBVIOUS
  <1>2. points \in [Threads -> Seq(Point)] /\ tree \in [Uavs -> Nat]
        /\ missed \in [Uavs -> Nat]
    OBVIOUS
  <1>3. posted \in Seq([key : Uavs, old : BOOLEAN])
        /\ mapCalls \in Seq(MapCalls)
    OBVIOUS
  <1>4. gui \in [at : GuiStates, keys : SUBSET Uavs]
    BY DEF GuiStates
  <1>5. TypeOK
    BY <1>1, <1>2, <1>3, <1>4, DbUavManagerAssumption DEF TypeOK, Threads
  <1>6. TabBound
    BY DEF TabBound, TabIsOpen
  <1>7. CoreInv
    BY <1>1 DEF CoreInv, SameKeys, TakenIsGone, NodesAreRemovable, Due, GuiDeletes,
                ClosedShowsNothing, TabIsOpen, Free, Gui
  <1>8. MapInv
    <2> SUFFICES ASSUME NEW u \in Uavs PROVE Removing(u)
      BY DEF MapInv
    <2>1. Len(mapCalls) = 0 /\ <<"show", u>> \notin markers
      OBVIOUS
    <2> QED BY <2>1 DEF Removing
  <1> QED BY <1>5, <1>6, <1>7, <1>8

----------------------------------------------------------------------------
\* A call that does not show u, posted behind the others, leaves u removed.
LEMMA RemovingAppend ==
    ASSUME TypeOK, NEW u \in Uavs, NEW call \in MapCalls,
           Removing(u), call # <<"show", u>>,
           mapCalls' = Append(mapCalls, call), UNCHANGED markers
    PROVE  Removing(u)'
  <1> DEFINE n == Len(mapCalls)
  <1>1. /\ n \in Nat /\ Len(mapCalls') = n + 1
        /\ \A j \in 1 .. n : mapCalls'[j] = mapCalls[j]
        /\ mapCalls'[n + 1] = call
    BY AppendProperties DEF TypeOK
  <1> HIDE DEF n
  <1>2. CASE <<"show", u>> \notin markers /\ \A j \in 1 .. n : mapCalls[j] # <<"show", u>>
    <2>1. \A j \in 1 .. n + 1 : mapCalls'[j] # <<"show", u>>
      BY <1>1, <1>2
    <2> QED BY <1>1, <1>2, <2>1 DEF Removing
  <1>3. ASSUME NEW i \in 1 .. n, mapCalls[i] = <<"remove", u>>,
               \A j \in i .. n : mapCalls[j] # <<"show", u>>
        PROVE  Removing(u)'
    <2>1. i \in 1 .. n + 1 /\ mapCalls'[i] = <<"remove", u>>
      BY <1>1, <1>3
    <2>2. \A j \in i .. n + 1 : mapCalls'[j] # <<"show", u>>
      <3> TAKE j \in i .. n + 1
      <3>1. j = n + 1 \/ (j \in i .. n /\ j \in 1 .. n)
        BY <1>1, <1>3
      <3> QED BY <1>1, <1>3, <3>1
    <2> QED BY <1>1, <2>1, <2>2 DEF Removing
  <1> QED BY <1>2, <1>3 DEF Removing, n

\* The removal of u, posted behind the others, removes it.
LEMMA RemovingPosted ==
    ASSUME TypeOK, NEW u \in Uavs, mapCalls' = Append(mapCalls, <<"remove", u>>)
    PROVE  Removing(u)'
  <1> DEFINE n == Len(mapCalls)
  <1>1. /\ n \in Nat /\ Len(mapCalls') = n + 1
        /\ mapCalls'[n + 1] = <<"remove", u>>
    <2>1. mapCalls \in Seq(MapCalls) /\ <<"remove", u>> \in MapCalls
      BY DEF TypeOK, MapCalls
    <2> QED BY <2>1, AppendProperties
  <1> HIDE DEF n
  <1>2. <<"remove", u>> # <<"show", u>>
    OBVIOUS
  <1>3. n + 1 \in 1 .. n + 1 /\ \A j \in n + 1 .. n + 1 : mapCalls'[j] # <<"show", u>>
    BY <1>1, <1>2
  <1> QED BY <1>1, <1>3 DEF Removing

\* The map takes the first call; what was removed in the end still is.
LEMMA RemovingStep ==
    ASSUME TypeOK, MapStep, NEW u \in Uavs, Removing(u)
    PROVE  Removing(u)'
  <1> DEFINE n == Len(mapCalls)
  <1>1. /\ n \in Nat \ {0} /\ Len(mapCalls') = n - 1 /\ Head(mapCalls) = mapCalls[1]
        /\ \A j \in 1 .. n - 1 : mapCalls'[j] = mapCalls[j + 1]
        /\ mapCalls[1] \in MapCalls
    <2>1. mapCalls \in Seq(MapCalls) /\ mapCalls # <<>> /\ mapCalls' = Tail(mapCalls)
      BY DEF TypeOK, MapStep
    <2>2. Len(mapCalls) \in Nat \ {0} /\ Head(mapCalls) \in MapCalls
          /\ Len(Tail(mapCalls)) = Len(mapCalls) - 1 /\ Head(mapCalls) = mapCalls[1]
      BY <2>1, HeadTailProperties
    <2>3. \A j \in 1 .. n - 1 : Tail(mapCalls)[j] = mapCalls[j + 1]
      BY <2>1, <2>2
    <2> QED BY <2>1, <2>2, <2>3
  <1>2. markers' = IF mapCalls[1][1] = "remove"
                   THEN markers \ {<<"show", mapCalls[1][2]>>, <<"atlant", mapCalls[1][2]>>}
                   ELSE markers \cup {mapCalls[1]}
    BY <1>1 DEF MapStep
  <1> HIDE DEF n
  <1>4. CASE <<"show", u>> \notin markers /\ \A j \in 1 .. n : mapCalls[j] # <<"show", u>>
    <2>1. mapCalls[1] # <<"show", u>>
      BY <1>1, <1>4
    <2>2. <<"show", u>> \notin markers'
      BY <1>2, <1>4, <2>1
    <2>3. \A j \in 1 .. n - 1 : mapCalls'[j] # <<"show", u>>
      BY <1>1, <1>4
    <2> QED BY <1>1, <2>2, <2>3 DEF Removing
  <1>5. ASSUME NEW i \in 1 .. n, mapCalls[i] = <<"remove", u>>,
               \A j \in i .. n : mapCalls[j] # <<"show", u>>
        PROVE  Removing(u)'
    <2>1. CASE i = 1
      <3>1. <<"show", u>> \notin markers'
        BY <1>2, <1>5, <2>1
      <3>2. \A j \in 1 .. n - 1 : mapCalls'[j] # <<"show", u>>
        BY <1>1, <1>5, <2>1
      <3> QED BY <1>1, <3>1, <3>2 DEF Removing
    <2>2. CASE i > 1
      <3>1. i - 1 \in 1 .. n - 1 /\ mapCalls'[i - 1] = <<"remove", u>>
        BY <1>1, <1>5, <2>2
      <3>2. \A j \in i - 1 .. n - 1 : mapCalls'[j] # <<"show", u>>
        BY <1>1, <1>5, <2>2
      <3> QED BY <1>1, <3>1, <3>2 DEF Removing
    <2> QED BY <1>1, <2>1, <2>2
  <1> QED BY <1>4, <1>5 DEF Removing, n

\* With nothing on the map and nothing posted everything is removed.
LEMMA RemovingNothing ==
    ASSUME NEW u, mapCalls' = <<>>, markers' = {}
    PROVE  Removing(u)'
  <1>1. Len(mapCalls') = 0 /\ <<"show", u>> \notin markers'
    OBVIOUS
  <1> QED BY <1>1 DEF Removing

\* The part of the invariant about the map is inductive relative to the core.
LEMMA MapNext == TypeOK /\ CoreInv /\ MapInv /\ [Next]_vars => MapInv'
  <1> SUFFICES ASSUME TypeOK, CoreInv, MapInv, [Next]_vars,
                      NEW v \in Uavs, v \notin m_knownUavsList', taken' # v
               PROVE  Removing(v)'
    BY DEF MapInv
  <1>0. ASSUME UNCHANGED <<mapCalls, markers>>, v \notin m_knownUavsList, taken # v
        PROVE  Removing(v)'
    BY <1>0 DEF MapInv, Removing
  <1>1. ASSUME NEW t \in Threads, NEW uavs \in Lists, NEW single \in BOOLEAN,
               onMethodCalled(t, uavs, single)
        PROVE  Removing(v)'
    BY <1>0, <1>1 DEF onMethodCalled, manager, listeners
  <1>2. ASSUME NEW t \in Threads, addUavInfoToDb(t) PROVE Removing(v)'
    BY <1>0, <1>2 DEF addUavInfoToDb, manager, listeners
  <1>3. ASSUME NEW t \in Threads, addUavInfo(t) PROVE Removing(v)'
    <2> DEFINE u == Head(points[t]).uav
    <2>1. UNCHANGED <<m_deleteMutex, taken, gui, missed>> /\ m_deleteMutex = Free
      BY <1>3 DEF addUavInfo
    <2>2. CASE UNCHANGED <<manager, listeners>>
      BY <1>0, <2>1, <2>2 DEF manager, listeners
    <2>3. ASSUME NEW role \in BOOLEAN, enterKnown(t, u, role),
                 onUavInfoChanged(u) \/ UNCHANGED mapCalls,
                 UNCHANGED markers
          PROVE  Removing(v)'
      <3>1. u \in Uavs
        <4>1. points[t] \in Seq(Point) /\ points[t] # <<>>
          BY <1>3 DEF addUavInfo, TypeOK
        <4>2. Head(points[t]) \in Point
          BY <4>1, HeadTailProperties
        <4> QED BY <4>2 DEF Point
      <3> HIDE DEF u
      <3>2. v # u /\ v \notin m_knownUavsList
        BY <2>1, <2>3, <3>1, EnterCore
      <3>3. Removing(v) /\ taken # v
        BY <2>1, <3>2 DEF MapInv
      <3>4. CASE UNCHANGED mapCalls
        BY <1>0, <2>3, <3>2, <3>3, <3>4
      <3>5. CASE mapCalls' = Append(mapCalls, <<"show", u>>)
        <4>1. <<"show", u>> # <<"show", v>> /\ <<"show", u>> \in MapCalls
          BY <3>1, <3>2 DEF MapCalls
        <4> QED BY <2>3, <3>3, <3>5, <4>1, RemovingAppend
      <3> QED BY <2>3, <3>4, <3>5 DEF onUavInfoChanged
    <2> QED BY <1>3, <2>2, <2>3 DEF addUavInfo
  <1>4. ASSUME NEW u \in Uavs, Timeout(u) PROVE Removing(v)'
    BY <1>0, <1>4 DEF Timeout, manager, listeners
  <1>5. ASSUME NEW thread, NEW key, takeUav(thread, key), UNCHANGED listeners
        PROVE  Removing(v)'
    <2>1. taken = "none"
      BY <1>5 DEF takeUav, CoreInv, TakenIsGone
    <2>2. v \notin m_knownUavsList /\ taken # v
      BY <1>5, <2>1, DbUavManagerAssumption DEF takeUav
    <2> QED BY <1>0, <1>5, <2>2 DEF listeners
  <1>6. CASE DropTimeout
    BY <1>0, <1>6 DEF DropTimeout, manager, listeners
  <1>7. ASSUME NEW thread \in {Db, Gui}, notifyRemoved(thread) PROVE Removing(v)'
    <2>1. v \notin m_knownUavsList
      BY <1>7 DEF notifyRemoved, manager
    <2>2. CASE ~TabIsOpen
      <3>1. mapCalls' = <<>> /\ markers' = {}
        BY <1>7, <2>2 DEF notifyRemoved, CoreInv, ClosedShowsNothing, onUavRemoved, listeners
      <3> QED BY <3>1, RemovingNothing
    <2>3. CASE TabIsOpen /\ taken = v
      <3>1. mapCalls' = Append(mapCalls, <<"remove", v>>)
        BY <1>7, <2>3, DbUavManagerAssumption DEF notifyRemoved, onUavRemoved
      <3> QED BY <3>1, RemovingPosted
    <2>4. CASE TabIsOpen /\ taken # v
      <3>1. Removing(v)
        BY <2>1, <2>4 DEF MapInv
      <3>2. CASE UNCHANGED listeners
        BY <1>0, <2>1, <2>4, <3>2 DEF listeners
      <3>3. ASSUME NEW u \in Uavs, NEW role, onUavRemoved(u, role) PROVE Removing(v)'
        <4>1. mapCalls' = Append(mapCalls, <<"remove", u>>) /\ UNCHANGED markers
          BY <2>4, <3>3 DEF onUavRemoved
        <4>2. <<"remove", u>> # <<"show", v>> /\ <<"remove", u>> \in MapCalls
          BY DEF MapCalls
        <4> QED BY <3>1, <4>1, <4>2, RemovingAppend
      <3>4. taken = "none" \/ taken \in Uavs
        BY DEF TypeOK
      <3> QED BY <1>7, <3>2, <3>3, <3>4 DEF notifyRemoved
    <2> QED BY <2>2, <2>3, <2>4
  <1>8. CASE clearAllInformation
    BY <1>8, RemovingNothing DEF clearAllInformation
  <1>9. CASE deleteAllUav
    BY <1>0, <1>9 DEF deleteAllUav, manager, listeners
  <1>10. CASE clearMaps
    <2>1. mapCalls' = <<>> /\ markers' = {}
      BY <1>10 DEF clearMaps, CoreInv, ClosedShowsNothing, TabIsOpen, listeners
    <2> QED BY <2>1, RemovingNothing
  <1>11. CASE addStationTabs
    BY <1>0, <1>11 DEF addStationTabs, manager, listeners
  <1>12. CASE MapStep
    <2>1. v \notin m_knownUavsList /\ taken # v
      BY <1>12 DEF MapStep, manager
    <2>2. Removing(v)
      BY <2>1 DEF MapInv
    <2> QED BY <1>12, <2>2, RemovingStep
  <1>13. CASE UNCHANGED vars
    BY <1>0, <1>13 DEF vars, manager, listeners
  <1>14. timeoutSlot \/ deleteKey => Removing(v)'
    BY <1>5 DEF timeoutSlot, deleteKey
  <1>15. ASSUME NEW u \in Uavs, onAtlantPosition(u) PROVE Removing(v)'
    <2>1. v \notin m_knownUavsList /\ taken # v
      BY <1>15 DEF onAtlantPosition, manager
    <2>2. Removing(v)
      BY <2>1 DEF MapInv
    <2>3. <<"atlant", u>> # <<"show", v>> /\ <<"atlant", u>> \in MapCalls
      BY DEF MapCalls
    <2>4. mapCalls' = Append(mapCalls, <<"atlant", u>>) /\ UNCHANGED markers
      BY <1>15 DEF onAtlantPosition
    <2> QED BY <2>2, <2>3, <2>4, RemovingAppend
  <1>16. CASE initSlot \/ enterLoop \/ leaveLoop
    BY <1>0, <1>16 DEF initSlot, enterLoop, leaveLoop, manager, listeners
  <1> QED BY <1>1, <1>2, <1>3, <1>4, <1>6, <1>7, <1>8, <1>9, <1>10, <1>11, <1>12, <1>13,
             <1>14, <1>15, <1>16 DEF Next, RpcStep, DbStep, GuiStep

----------------------------------------------------------------------------
DbInv == TypeOK /\ TabBound /\ CoreInv /\ MapInv

\* The whole invariant holds of every behaviour of DbUavManager.
THEOREM DbInvariant == Spec => []DbInv
  <1>1. Init => DbInv
    BY DbInit DEF DbInv
  <1>2. DbInv /\ [Next]_vars => DbInv'
    <2> SUFFICES ASSUME DbInv, [Next]_vars PROVE DbInv'
      OBVIOUS
    <2>1. TypeOK' /\ CoreInv' /\ MapInv'
      BY TypeOKNext, CoreNext, MapNext DEF DbInv
    <2>2. TabBound'
      <3>1. CASE UNCHANGED <<gui, tab>>
        BY <3>1 DEF DbInv, TabBound, TabIsOpen
      <3>2. CASE clearAllInformation \/ deleteAllUav \/ deleteKey \/ clearMaps
        BY <3>2 DEF DbInv, TypeOK, TabBound, TabIsOpen, clearAllInformation, deleteAllUav,
                    deleteKey, clearMaps
      <3>3. CASE addStationTabs \/ enterLoop \/ leaveLoop
        BY <3>3 DEF DbInv, TypeOK, TabBound, TabIsOpen, addStationTabs, enterLoop, leaveLoop
      <3> QED BY <3>1, <3>2, <3>3 DEF Next, RpcStep, DbStep, GuiStep, vars, onMethodCalled,
                onAtlantPosition, addUavInfoToDb, addUavInfo, initSlot, Timeout, timeoutSlot,
                DropTimeout, notifyRemoved, MapStep
    <2> QED BY <2>1, <2>2 DEF DbInv
  <1> QED BY <1>1, <1>2, PTL DEF Spec

\* Every variable of DbUavManager keeps its type.
THEOREM DbTypeCorrect == Spec => []TypeOK
  <1>1. DbInv => TypeOK
    BY DEF DbInv
  <1> QED BY <1>1, DbInvariant, PTL

\* A known UAV always has the timer that will remove it, however takes, timeouts
\* and late points interleave (DbUavManager::addUavInfo, timeoutSlot).
THEOREM DbKnownHasTimer == Spec => []KnownHasTimer
  <1>1. DbInv => KnownHasTimer
    BY DEF DbInv, CoreInv, SameKeys, KnownHasTimer
  <1> QED BY <1>1, DbInvariant, PTL

\* A node stays in the tree when its UAV is gone only if the database did not find
\* the UAV's role at the removal (timeoutSlot, deleteAllUav, UavTreeModel).
THEOREM DbNoGhosts == Spec => []NoGhosts
  <1>1. DbInv => NoGhosts
    <2> SUFFICES ASSUME DbInv, m_deleteMutex = Free, NEW u \in Uavs
                 PROVE  tree[u] <= missed[u] + (IF u \in m_knownUavsList THEN 1 ELSE 0)
      BY DEF NoGhosts
    <2>1. taken # u
      BY DbUavManagerAssumption DEF DbInv, CoreInv, TakenIsGone
    <2> QED BY <2>1 DEF DbInv, CoreInv, NodesAreRemovable, Due
  <1> QED BY <1>1, DbInvariant, PTL

\* A position never overtakes the removal of its UAV on the way to the map, and the
\* marks of ATLANT in between do not change that (MapClient1).
THEOREM DbMapShowsKnown == Spec => []MapShowsKnown
  <1>1. DbInv => MapShowsKnown
    <2> SUFFICES ASSUME DbInv, m_deleteMutex = Free, mapCalls = <<>>, NEW u \in Uavs,
                        <<"show", u>> \in markers, u \notin m_knownUavsList
                 PROVE  FALSE
      BY DEF MapShowsKnown
    <2>1. taken = "none"
      BY DEF DbInv, CoreInv, TakenIsGone
    <2>2. Removing(u)
      BY <2>1, DbUavManagerAssumption DEF DbInv, MapInv
    <2>3. Len(mapCalls) = 0
      OBVIOUS
    <2> QED BY <2>2, <2>3 DEF Removing
  <1> QED BY <1>1, DbInvariant, PTL

\* deleteAllUav() has removed every UAV one by one before it clears the maps.
THEOREM DbClearFindsNothing == Spec => []ClearFindsNothing
  <1>1. DbInv => ClearFindsNothing
    <2> SUFFICES ASSUME DbInv, gui.at = "deleting", gui.keys = {}
                 PROVE  m_knownUavsList = {} /\ m_lifeTimerMap = <<>>
      BY DEF ClearFindsNothing
    <2>1. m_knownUavsList = {} /\ DOMAIN m_lifeTimerMap = {}
      BY DEF DbInv, CoreInv, GuiDeletes, SameKeys
    <2>2. m_lifeTimerMap \in [{} -> Timers]
      BY <2>1 DEF DbInv, TypeOK
    <2> QED BY <2>1, <2>2
  <1> QED BY <1>1, DbInvariant, PTL
============================================================================
