--------------------------- MODULE UavHistoryProofs ---------------------------
(***************************************************************************)
(* The trees never keep a historical UAV that the history cannot take back, *)
(* and show none when no replay is on: for every recording, every life time *)
(* and every number of waiting requests.                                    *)
(*                                                                         *)
(* The slots of the history are functions of its state, so the proof is a   *)
(* lemma per slot about an arbitrary state h; the actions only choose the   *)
(* slot.  The state itself is typed by Histories.                           *)
(***************************************************************************)
EXTENDS UavHistory, TLAPS, SequenceTheorems, WellFoundedInduction

\* A state of the history in which every node of the trees can be removed.
Removable(h) ==
    /\ h \in Histories
    /\ \A u \in Ids :
          /\ h.tree[u] <= 1
          /\ h.tree[u] = 1 => u \in h.m_knownUavsList \cap h.m_uavRoles

Empty(h) == \A u \in Ids : h.tree[u] = 0

Idle(h) == ~h.m_timer /\ ~h.m_isPaused

\* A query with no rows is a recording.
LEMMA EmptyRecording == <<>> \in Recordings
  <1>1. <<>> \in [1 .. 0 -> Second]
    OBVIOUS
  <1>2. 0 \in 0 .. MaxTime
    BY UavHistoryAssumption
  <1> QED
    BY <1>1, <1>2 DEF Recordings

\* What is left of a recording after its first second, and that second.
LEMMA RestOfRecording ==
    ASSUME NEW s \in Recordings, s # <<>>
    PROVE  Tail(s) \in Recordings /\ Head(s) \in Second
  <1>1. PICK n \in 0 .. MaxTime : s \in [1 .. n -> Second]
    BY DEF Recordings
  <1>2. s \in Seq(Second) /\ Len(s) = n
    BY <1>1, UavHistoryAssumption
  <1>3. n # 0
    BY <1>2
  <1>4. Tail(s) \in [1 .. n - 1 -> Second] /\ n - 1 \in 0 .. MaxTime
    <2>1. Tail(s) \in Seq(Second) /\ Len(Tail(s)) = n - 1
      BY <1>2, <1>3, HeadTailProperties
    <2>2. Tail(s) \in [1 .. Len(Tail(s)) -> Second]
      BY <2>1, LenProperties
    <2> QED
      BY <2>1, <2>2, <1>3, UavHistoryAssumption
  <1>5. ASSUME NEW i \in DOMAIN Tail(s), NEW j \in DOMAIN Tail(s), i < j
        PROVE  Tail(s)[i].t < Tail(s)[j].t
    <2>1. Tail(s)[i] = s[i + 1] /\ Tail(s)[j] = s[j + 1]
      BY <1>2, <1>4
    <2>2. i + 1 \in DOMAIN s /\ j + 1 \in DOMAIN s /\ i + 1 < j + 1
      BY <1>1, <1>3, <1>4, <1>5, UavHistoryAssumption
    <2> QED
      BY <2>1, <2>2 DEF Recordings
  <1>6. Head(s) \in Second
    BY <1>2, <1>3
  <1> QED
    BY <1>4, <1>5, <1>6 DEF Recordings

\* Removing known UAVs with their roles leaves no node; removing any other set
\* of UAVs keeps every node removable.
LEMMA StopEmpties ==
    ASSUME NEW h, Removable(h)
    PROVE  /\ Removable(stopInternal(h)) /\ Empty(stopInternal(h))
           /\ Idle(stopInternal(h)) /\ stopInternal(h).m_uavRoles = {}
  <1> DEFINE s == stopInternal(h)
             t == onUavRemoved(h.tree, h.m_knownUavsList, h.m_uavRoles)
  <1>1. t \in [Ids -> Nat] /\ \A u \in Ids : t[u] = 0
    BY DEF Removable, onUavRemoved, Histories
  <1>2. [u \in Ids |-> 0] \in [Ids -> 0 .. MaxTime]
    BY UavHistoryAssumption
  <1> HIDE DEF t
  <1>3. h \in Histories
    BY DEF Removable
  <1>4. /\ s \in Histories
        /\ s.m_timer = FALSE /\ s.m_isPaused = FALSE /\ s.m_uavRoles = {}
        /\ s.tree = t
    BY <1>1, <1>2, <1>3, EmptyRecording DEF stopInternal, Histories, t
  <1> QED
    BY <1>1, <1>4 DEF Removable, Empty, Idle

\* stop() of the history's own thread does so too, unless it is Ready.
LEMMA StopRemovable ==
    ASSUME NEW h, Removable(h)
    PROVE  /\ Removable(stop(h))
           /\ (getStatus(h) = "Ready" => Empty(h)) => Empty(stop(h))
           /\ h.m_timer => Empty(stop(h)) /\ Idle(stop(h)) /\ stop(h).m_uavRoles = {}
  <1>1. CASE getStatus(h) = "Ready"
    <2>1. stop(h) = h /\ ~h.m_timer
      BY <1>1 DEF stop, getStatus
    <2> QED
      BY <1>1, <2>1
  <1>2. CASE getStatus(h) # "Ready"
    <2>1. stop(h) = stopInternal(h)
      BY <1>2 DEF stop
    <2> QED
      BY <2>1, <1>2, StopEmpties
  <1> QED
    BY <1>1, <1>2

\* The rows at the query are a second of the recording or the invalid row.
LEMMA CurrentRowsType ==
    ASSUME NEW h, Removable(h)
    PROVE  CurrentRows(h).uavs \subseteq Ids /\ CurrentRows(h).t \in 0 .. MaxTime
  <1>1. h.m_query \in Recordings
    BY DEF Removable, Histories
  <1>2. CASE h.m_query = <<>>
    BY <1>2, UavHistoryAssumption DEF CurrentRows, Ids
  <1>3. CASE h.m_query # <<>>
    <2>1. Head(h.m_query) \in Second
      BY <1>1, <1>3, RestOfRecording
    <2> QED
      BY <2>1, <1>3, UavHistoryAssumption DEF CurrentRows, Second, Ids
  <1> QED
    BY <1>2, <1>3

\* Reading the rows shows nothing; the end of the rows empties the trees of a
\* replay and forgets every role.
LEMMA ReadRowsRemovable ==
    ASSUME NEW h, Removable(h)
    PROVE  /\ Removable(readRows(h))
           /\ h.m_timer => \/ readRows(h).m_timer
                           \/ Empty(readRows(h)) /\ readRows(h).m_uavRoles = {}
  <1> DEFINE rows == CurrentRows(h)
             rest == IF h.m_query = <<>> THEN <<>> ELSE Tail(h.m_query)
             roles == h.m_uavRoles \cup (rows.uavs \ {0})
             dates == [u \in Ids |-> IF u \in rows.uavs THEN rows.t
                                                        ELSE h.m_uavLastDate[u]]
             read == [h EXCEPT !.m_query = rest, !.m_uavRoles = roles,
                               !.m_uavLastDate = dates]
  <1>1. h \in Histories
    BY DEF Removable
  <1>2. rest \in Recordings
    BY <1>1, EmptyRecording, RestOfRecording DEF Histories
  <1>3. roles \in SUBSET Ids /\ h.m_uavRoles \subseteq roles
    BY <1>1, CurrentRowsType DEF Histories
  <1>4. dates \in [Ids -> 0 .. MaxTime]
    BY <1>1, CurrentRowsType DEF Histories
  <1>5. readRows(h) = IF rest = <<>> THEN stop(read) ELSE read
    BY DEF readRows
  <1> HIDE DEF rest, roles, dates
  <1>6. /\ read \in Histories /\ read.tree = h.tree /\ read.m_timer = h.m_timer
        /\ read.m_knownUavsList = h.m_knownUavsList /\ read.m_uavRoles = roles
    BY <1>1, <1>2, <1>3, <1>4 DEF Histories
  <1> HIDE DEF read
  <1>7. Removable(read)
    BY <1>3, <1>6 DEF Removable
  <1> QED
    BY <1>5, <1>6, <1>7, StopRemovable

\* A UAV that is announced becomes known; its node needs its role.
LEMMA SendInfoRemovable ==
    ASSUME NEW h, Removable(h), NEW uavs \in SUBSET Ids
    PROVE  /\ Removable(sendInfo(h, uavs))
           /\ sendInfo(h, uavs).m_timer = h.m_timer
           /\ sendInfo(h, uavs).m_isPaused = h.m_isPaused
           /\ Empty(h) /\ h.m_uavRoles = {} => Empty(sendInfo(h, uavs))
  <1> DEFINE t == onUavAdded(h.tree, uavs \ h.m_knownUavsList, h.m_uavRoles)
             known == h.m_knownUavsList \cup uavs
             s == sendInfo(h, uavs)
  <1>1. h \in Histories
    BY DEF Removable
  <1>2. t \in [Ids -> Nat] /\ known \in SUBSET Ids
    BY <1>1 DEF Histories, onUavAdded
  <1>3. \A u \in Ids : t[u] <= 1 /\ (t[u] = 1 => u \in known \cap h.m_uavRoles)
    BY <1>1 DEF Removable, Histories, onUavAdded
  <1>4. Empty(h) /\ h.m_uavRoles = {} => \A u \in Ids : t[u] = 0
    BY <1>1 DEF Empty, Histories, onUavAdded
  <1> HIDE DEF t, known
  <1>5. /\ s \in Histories /\ s.tree = t /\ s.m_knownUavsList = known
        /\ s.m_uavRoles = h.m_uavRoles
        /\ s.m_timer = h.m_timer /\ s.m_isPaused = h.m_isPaused
    BY <1>1, <1>2 DEF Histories, sendInfo, t, known
  <1> QED
    BY <1>3, <1>4, <1>5 DEF Removable, Empty

\* An outdated UAV loses its node before its role and its date are forgotten.
LEMMA RemoveOutdatedRemovable ==
    ASSUME NEW h, Removable(h), NEW time \in 0 .. MaxTime
    PROVE  /\ Removable(removeOutdated(h, time))
           /\ removeOutdated(h, time).m_timer = h.m_timer
           /\ removeOutdated(h, time).m_isPaused = h.m_isPaused
           /\ Empty(h) => Empty(removeOutdated(h, time))
  <1> DEFINE outdated == {u \in Ids : /\ h.m_uavLastDate[u] # 0
                                      /\ time - h.m_uavLastDate[u] >= m_lifeTime}
             t == onUavRemoved(h.tree, outdated, h.m_uavRoles)
             known == h.m_knownUavsList \ outdated
             roles == h.m_uavRoles \ outdated
             dates == [u \in Ids |-> IF u \in outdated THEN 0 ELSE h.m_uavLastDate[u]]
             s == removeOutdated(h, time)
  <1>1. h \in Histories
    BY DEF Removable
  <1>2. s = [h EXCEPT !.tree = t, !.m_knownUavsList = known, !.m_uavRoles = roles,
                      !.m_uavLastDate = dates]
    BY DEF removeOutdated
  <1>3. dates \in [Ids -> 0 .. MaxTime]
    BY <1>1, UavHistoryAssumption DEF Histories
  <1> HIDE DEF outdated
  <1>4. t \in [Ids -> Nat] /\ known \in SUBSET Ids /\ roles \in SUBSET Ids
    BY <1>1 DEF Histories, onUavRemoved
  <1>5. \A u \in Ids : t[u] <= 1 /\ (t[u] = 1 => u \in known \cap roles)
    BY <1>1 DEF Removable, Histories, onUavRemoved
  <1>6. Empty(h) => \A u \in Ids : t[u] = 0
    BY <1>1 DEF Empty, Histories, onUavRemoved
  <1> HIDE DEF t, known, roles, dates, s
  <1>7. /\ s \in Histories /\ s.tree = t /\ s.m_knownUavsList = known
        /\ s.m_uavRoles = roles
        /\ s.m_timer = h.m_timer /\ s.m_isPaused = h.m_isPaused
    BY <1>1, <1>2, <1>3, <1>4 DEF Histories
  <1> QED
    BY <1>5, <1>6, <1>7 DEF Removable, Empty, s

\* One second of a replay; when it was the last one the trees are empty.
LEMMA UpdateRemovable ==
    ASSUME NEW h, Removable(h)
    PROVE  /\ Removable(updateHistoryState(h))
           /\ h.m_timer => \/ updateHistoryState(h).m_timer
                           \/ Empty(updateHistoryState(h))
  <1> DEFINE rows == CurrentRows(h)
             read == readRows(h)
             sent == sendInfo(read, rows.uavs)
  <1>1. rows.uavs \in SUBSET Ids /\ rows.t \in 0 .. MaxTime
    BY CurrentRowsType
  <1>2. /\ Removable(read)
        /\ h.m_timer => read.m_timer \/ (Empty(read) /\ read.m_uavRoles = {})
    BY ReadRowsRemovable
  <1>3. updateHistoryState(h) = removeOutdated(sent, rows.t)
    BY DEF updateHistoryState
  <1> HIDE DEF rows, read
  <1>4. /\ Removable(sent) /\ sent.m_timer = read.m_timer
        /\ Empty(read) /\ read.m_uavRoles = {} => Empty(sent)
    BY <1>1, <1>2, SendInfoRemovable
  <1> HIDE DEF sent
  <1> QED
    BY <1>1, <1>2, <1>3, <1>4, RemoveOutdatedRemovable

\* A set of recorded seconds has a latest one.
LEMMA LatestExists ==
    ASSUME NEW S \in SUBSET (1 .. MaxTime), S # {}
    PROVE  \E t \in S : \A s \in S : s <= t
  <1> DEFINE T == {MaxTime - s : s \in S}
  <1>1. T \subseteq Nat /\ T # {}
    <2>1. \A s \in S : MaxTime - s \in Nat
      BY UavHistoryAssumption
    <2>2. PICK s \in S : TRUE
      OBVIOUS
    <2>3. MaxTime - s \in T
      OBVIOUS
    <2> QED
      BY <2>1, <2>3
  <1> HIDE DEF T
  <1>2. \E x \in T : \A y \in T : ~ (<<y, x>> \in OpToRel(<, Nat))
    BY <1>1, NatLessThanWellFounded, WFMin, Zenon
  <1>3. \A x, y \in T : y < x => <<y, x>> \in OpToRel(<, Nat)
    BY <1>1 DEF OpToRel
  <1>4. PICK x \in T : \A y \in T : ~ (y < x)
    BY <1>2, <1>3, Zenon
  <1>5. PICK t \in S : x = MaxTime - t
    BY <1>4 DEF T
  <1>6. \A s \in S : ~ (MaxTime - s < MaxTime - t)
    BY <1>4, <1>5 DEF T
  <1> QED
    BY <1>5, <1>6, UavHistoryAssumption

\* An export shows nothing.
LEMMA ExportRemovable ==
    ASSUME NEW h, Removable(h)
    PROVE  Removable(xlsExport(h)) /\ xlsExport(h).tree = h.tree
  <1> DEFINE LastSeen(u) == {h.m_query[i].t : i \in {j \in DOMAIN h.m_query :
                                                        u \in h.m_query[j].uavs}}
             Latest(S) == CHOOSE t \in S : \A s \in S : s <= t
             roles == h.m_uavRoles \cup {u \in Uavs : LastSeen(u) # {}}
             dates == [u \in Ids |-> IF LastSeen(u) # {} THEN Latest(LastSeen(u))
                                                         ELSE h.m_uavLastDate[u]]
             s == xlsExport(h)
  <1>1. h \in Histories
    BY DEF Removable
  <1>2. \A i \in DOMAIN h.m_query : h.m_query[i] \in Second
    <2>1. h.m_query \in Recordings
      BY <1>1 DEF Histories
    <2>2. PICK n \in 0 .. MaxTime : h.m_query \in [1 .. n -> Second]
      BY <2>1 DEF Recordings
    <2> QED
      BY <2>2
  <1>3. ASSUME NEW u \in Ids, LastSeen(u) # {}
        PROVE  Latest(LastSeen(u)) \in 0 .. MaxTime
    <2>1. LastSeen(u) \in SUBSET (1 .. MaxTime)
      BY <1>2 DEF Second
    <2> HIDE DEF LastSeen
    <2>2. \E t \in LastSeen(u) : \A s2 \in LastSeen(u) : s2 <= t
      BY <1>3, <2>1, LatestExists
    <2> QED
      BY <2>1, <2>2, UavHistoryAssumption
  <1>4. s = [h EXCEPT !.m_query = <<>>, !.m_uavRoles = roles, !.m_uavLastDate = dates]
    BY DEF xlsExport
  <1> HIDE DEF LastSeen, Latest
  <1>5. roles \in SUBSET Ids /\ h.m_uavRoles \subseteq roles
    BY <1>1 DEF Histories, Ids
  <1>6. dates \in [Ids -> 0 .. MaxTime]
    BY <1>1, <1>3 DEF Histories
  <1> HIDE DEF roles, dates, s
  <1>7. /\ s \in Histories /\ s.tree = h.tree
        /\ s.m_knownUavsList = h.m_knownUavsList /\ s.m_uavRoles = roles
    BY <1>1, <1>4, <1>5, <1>6, EmptyRecording DEF Histories
  <1> QED
    BY <1>5, <1>7 DEF Removable, s

\* A start from a state whose trees are empty when Ready: either the timer runs
\* or the trees are empty.
LEMMA StartRemovable ==
    ASSUME NEW h, Removable(h), getStatus(h) = "Ready" => Empty(h),
           NEW mode, NEW recording \in Recordings
    PROVE  /\ Removable(startInternal(h, mode, recording))
           /\ \/ startInternal(h, mode, recording).m_timer
              \/ Empty(startInternal(h, mode, recording))
  <1> DEFINE stopped == stop(h)
             ready == [stopped EXCEPT !.m_query = recording]
             played == updateHistoryState(ready)
  <1>1. Removable(stopped) /\ Empty(stopped)
    BY StopRemovable
  <1>2. startInternal(h, mode, recording) =
            IF recording = <<>> THEN ready
            ELSE IF mode = "export" THEN xlsExport(ready)
            ELSE [played EXCEPT !.m_timer = TRUE]
    BY DEF startInternal
  <1> HIDE DEF stopped
  <1>3. /\ ready \in Histories /\ ready.tree = stopped.tree
        /\ ready.m_knownUavsList = stopped.m_knownUavsList
        /\ ready.m_uavRoles = stopped.m_uavRoles
    BY <1>1 DEF Removable, Histories
  <1> HIDE DEF ready
  <1>4. Removable(ready) /\ Empty(ready)
    BY <1>1, <1>3 DEF Removable, Empty
  <1>5. Removable(xlsExport(ready)) /\ Empty(xlsExport(ready))
    BY <1>4, ExportRemovable DEF Empty
  <1>6. Removable(played)
    BY <1>4, UpdateRemovable
  <1> HIDE DEF played
  <1>7. /\ Removable([played EXCEPT !.m_timer = TRUE])
        /\ [played EXCEPT !.m_timer = TRUE].m_timer
    BY <1>6 DEF Removable, Histories
  <1> QED
    BY <1>2, <1>4, <1>5, <1>7

----------------------------------------------------------------------------

\* The inductive invariant: the two properties need only each other and types.
HistoryInv ==
    /\ TypeOK
    /\ TreeIsRemovable
    /\ ReadyShowsNothing

\* The invariant in the terms of the lemmas above.
LEMMA InvRemovable ==
    ASSUME HistoryInv
    PROVE  Removable(history) /\ (getStatus(history) = "Ready" => Empty(history))
  BY DEF HistoryInv, TypeOK, TreeIsRemovable, ReadyShowsNothing, Removable, Empty

\* A step that leaves a removable history, empty unless it is playing or paused.
LEMMA StepKeepsInv ==
    ASSUME Removable(history'),
           history'.m_timer \/ history'.m_isPaused \/ Empty(history'),
           dbOpen' \in BOOLEAN,
           calls' \in Seq({"start", "export", "pause", "resume", "stop"}),
           waits' \subseteq {"start", "stop"}
    PROVE  HistoryInv'
  <1>1. getStatus(history)' = "Ready" => Empty(history')
    BY DEF getStatus
  <1> QED
    BY <1>1 DEF HistoryInv, TypeOK, TreeIsRemovable, ReadyShowsNothing, Removable, Empty

\* The history starts with no UAVs and empty trees.
LEMMA HistoryInitially == Init => HistoryInv
  <1> SUFFICES ASSUME Init PROVE HistoryInv
    OBVIOUS
  <1>1. history.tree = [u \in Ids |-> 0]
    BY DEF Init
  <1>2. [u \in Ids |-> 0] \in [Ids -> 0 .. MaxTime]
    BY UavHistoryAssumption
  <1>3. history \in Histories
    BY <1>2, EmptyRecording DEF Init, Histories
  <1> QED
    BY <1>1, <1>3 DEF Init, HistoryInv, TypeOK, TreeIsRemovable, ReadyShowsNothing

\* Every action keeps the invariant.
LEMMA HistoryStep == HistoryInv /\ [Next]_vars => HistoryInv'
  <1> SUFFICES ASSUME HistoryInv, [Next]_vars PROVE HistoryInv'
    OBVIOUS
  <1> DEFINE Requests == {"start", "export", "pause", "resume", "stop"}
  <1>1. /\ Removable(history)
        /\ getStatus(history) = "Ready" => Empty(history)
    BY InvRemovable
  <1>2. dbOpen \in BOOLEAN /\ calls \in Seq(Requests) /\ waits \subseteq {"start", "stop"}
    BY DEF HistoryInv, TypeOK
  <1>3. \/ history.m_timer \/ history.m_isPaused \/ ~dbOpen \/ Empty(history)
    BY <1>1 DEF getStatus
  <1>4. CASE onStartPlayingHistorySlot
    BY <1>2, <1>4 DEF onStartPlayingHistorySlot, Post, WaitForStartFinished, HistoryInv,
         TypeOK, TreeIsRemovable, ReadyShowsNothing, getStatus
  <1>5. CASE onStopPlayingHistorySlot
    BY <1>2, <1>5 DEF onStopPlayingHistorySlot, Post, WaitForStartFinished, HistoryInv,
         TypeOK, TreeIsRemovable, ReadyShowsNothing, getStatus
  <1>6. CASE onExportToXls
    BY <1>2, <1>6 DEF onExportToXls, Post, WaitForStartFinished, HistoryInv,
         TypeOK, TreeIsRemovable, ReadyShowsNothing, getStatus
  <1>7. ASSUME NEW mode, Start(mode) PROVE HistoryInv'
    <2>1. PICK recording \in Recordings : history' = startInternal(history, mode, recording)
      BY <1>7 DEF Start
    <2>2. Removable(history') /\ (history'.m_timer \/ Empty(history'))
      BY <1>1, <2>1, StartRemovable
    <2>3. dbOpen' = dbOpen /\ calls' \in Seq(Requests) /\ waits' = {}
      BY <1>2, <1>7 DEF Start, NextCall
    <2> QED
      BY <1>2, <2>2, <2>3, StepKeepsInv
  <1>8. CASE Stop
    <2>1. calls' \in Seq(Requests) /\ dbOpen' = dbOpen /\ waits' = waits
      BY <1>2, <1>8 DEF Stop, NextCall
    <2> QED
      BY <1>1, <1>2, <1>8, <2>1, StopEmpties, StepKeepsInv DEF Stop
  <1>9. CASE Pause
    <2>1. calls' \in Seq(Requests) /\ dbOpen' = dbOpen /\ waits' = waits
      BY <1>2, <1>9 DEF Pause, NextCall
    <2>2. Removable(history') /\ history'.m_isPaused
      BY <1>1, <1>9 DEF Pause, pauseInternal, Removable, Histories
    <2> QED
      BY <1>2, <2>1, <2>2, StepKeepsInv
  <1>10. CASE Resume
    <2>1. calls' \in Seq(Requests) /\ dbOpen' = dbOpen /\ waits' = waits
      BY <1>2, <1>10 DEF Resume, NextCall
    <2>2. CASE history.m_isPaused
      <3>1. Removable(history') /\ history'.m_timer
        BY <1>1, <1>10, <2>2 DEF Resume, resumeInternal, Removable, Histories
      <3> QED
        BY <1>2, <2>1, <3>1, StepKeepsInv
    <2>3. CASE ~history.m_isPaused
      <3>1. history' = history
        BY <1>10, <2>3 DEF Resume, resumeInternal
      <3> QED
        BY <1>2, <2>1, <3>1 DEF HistoryInv, TypeOK, TreeIsRemovable, ReadyShowsNothing,
             getStatus
    <2> QED
      BY <2>2, <2>3
  <1>11. CASE Tick
    <2>1. /\ history.m_timer /\ history' = updateHistoryState(history)
          /\ calls' = calls /\ dbOpen' = dbOpen /\ waits' = waits
      BY <1>11 DEF Tick
    <2>2. Removable(history') /\ (history'.m_timer \/ Empty(history'))
      BY <1>1, <2>1, UpdateRemovable
    <2> QED
      BY <1>2, <2>1, <2>2, StepKeepsInv
  <1>12. CASE setDatabase
    <2>1. /\ history' = stopInternal(history) /\ dbOpen' \in BOOLEAN
          /\ calls' = calls /\ waits' = waits
      BY <1>12 DEF setDatabase, stop, getStatus
    <2>2. Removable(history') /\ Empty(history')
      BY <1>1, <2>1, StopEmpties
    <2> QED
      BY <1>2, <2>1, <2>2, StepKeepsInv
  <1>13. CASE UNCHANGED vars
    BY <1>13 DEF vars, HistoryInv, TypeOK, TreeIsRemovable, ReadyShowsNothing, getStatus
  <1> QED
    BY <1>4, <1>5, <1>6, <1>7, <1>8, <1>9, <1>10, <1>11, <1>12, <1>13 DEF Next

\* The history's tables and what waits for its thread keep their types.
THEOREM HistoryTypeCorrect == Spec => []TypeOK
  <1>1. HistoryInv => TypeOK
    BY DEF HistoryInv
  <1> QED
    BY HistoryInitially, HistoryStep, <1>1, PTL DEF Spec

\* In every reachable state every node that UavHistory put into a tree can be
\* removed again: its UAV is known and its role is remembered, however starts,
\* stops, pauses, ticks and the end of the rows interleave.
THEOREM TreesStayRemovable == Spec => []TreeIsRemovable
  <1>1. HistoryInv => TreeIsRemovable
    BY DEF HistoryInv
  <1> QED
    BY HistoryInitially, HistoryStep, <1>1, PTL DEF Spec

\* Whenever UavHistory is Ready the trees show no historical UAV: stopInternal()
\* removes the nodes before it clears the roles that the removal needs, and rows
\* read after the last second are announced without a role.
THEOREM ReadyTreesAreEmpty == Spec => []ReadyShowsNothing
  <1>1. HistoryInv => ReadyShowsNothing
    BY DEF HistoryInv
  <1> QED
    BY HistoryInitially, HistoryStep, <1>1, PTL DEF Spec

----------------------------------------------------------------------------
\* The dates of the nodes.

\* The UAV has a date before every row to come.
DateOk(h, u) ==
    /\ h.m_uavLastDate[u] # 0
    /\ \A i \in DOMAIN h.m_query : h.m_uavLastDate[u] < h.m_query[i].t

\* Every node has such a date.  The invalid row has none, and no role either.
Dated(h) ==
    /\ 0 \notin h.m_uavRoles
    /\ \A u \in Ids : h.tree[u] = 1 => DateOk(h, u)

\* Without nodes there is nothing to date.
LEMMA EmptyDated ==
    ASSUME NEW h, Empty(h), 0 \notin h.m_uavRoles
    PROVE  Dated(h)
  BY DEF Empty, Dated

\* stop() keeps the nodes with their dates or removes them.
LEMMA StopDated ==
    ASSUME NEW h, Removable(h), Dated(h)
    PROVE  Dated(stop(h)) /\ Dated(stopInternal(h))
  <1>1. Dated(stopInternal(h))
    BY StopEmpties, EmptyDated
  <1> QED
    BY <1>1 DEF stop

\* The rows that are read get their date, before every row to come.
LEMMA ReadRowsDated ==
    ASSUME NEW h, Removable(h), Dated(h)
    PROVE  /\ Dated(readRows(h))
           /\ \A u \in CurrentRows(h).uavs \cap readRows(h).m_uavRoles : DateOk(readRows(h), u)
  <1> DEFINE q == h.m_query
             rows == CurrentRows(h)
             rest == IF q = <<>> THEN <<>> ELSE Tail(q)
             roles == h.m_uavRoles \cup (rows.uavs \ {0})
             dates == [u \in Ids |-> IF u \in rows.uavs THEN rows.t
                                                        ELSE h.m_uavLastDate[u]]
             read == [h EXCEPT !.m_query = rest, !.m_uavRoles = roles,
                               !.m_uavLastDate = dates]
  <1>1. h \in Histories /\ q \in Recordings
    BY DEF Removable, Histories
  <1>2. rows.uavs \subseteq Ids /\ rows.t \in 0 .. MaxTime
    BY CurrentRowsType
  <1>3. ASSUME q # <<>>
        PROVE  /\ rows.t # 0 /\ 1 \in DOMAIN q /\ rows = q[1]
               /\ \A i \in DOMAIN rest : i + 1 \in DOMAIN q /\ rest[i] = q[i + 1] /\ 1 < i + 1
    <2>1. PICK n \in 0 .. MaxTime : q \in [1 .. n -> Second]
      BY <1>1 DEF Recordings
    <2>2. q \in Seq(Second) /\ Len(q) = n
      BY <2>1, UavHistoryAssumption
    <2>3. n # 0 /\ n \in Nat
      BY <1>3, <2>2
    <2>4. Tail(q) \in Seq(Second) /\ Len(Tail(q)) = n - 1 /\ DOMAIN Tail(q) = 1 .. Len(Tail(q))
          /\ \A i \in 1 .. Len(Tail(q)) : Tail(q)[i] = q[i + 1]
      BY <1>3, <2>2, HeadTailProperties, LenProperties
    <2>5. \A i \in 1 .. n - 1 : i + 1 \in 1 .. n /\ 1 < i + 1
      BY <2>3
    <2>6. rows = q[1] /\ 1 \in DOMAIN q
      BY <1>3, <2>1, <2>2, <2>3 DEF CurrentRows
    <2>7. q[1].t # 0
      BY <2>1, <2>6 DEF Second
    <2> QED
      BY <1>3, <2>1, <2>4, <2>5, <2>6, <2>7
  <1>4. \A i, j \in DOMAIN q : i < j => q[i].t < q[j].t
    BY <1>1 DEF Recordings
  <1>5. readRows(h) = IF rest = <<>> THEN stop(read) ELSE read
    BY DEF readRows
  <1>6. rest \in Recordings
    BY <1>1, EmptyRecording, RestOfRecording
  <1>7. roles \in SUBSET Ids /\ h.m_uavRoles \subseteq roles /\ 0 \notin roles
    BY <1>1, <1>2 DEF Histories, Dated
  <1>8. dates \in [Ids -> 0 .. MaxTime]
    BY <1>1, <1>2 DEF Histories
  <1>9. ASSUME NEW u \in Ids, u # 0, u \in rows.uavs \/ DateOk(h, u)
        PROVE  dates[u] # 0 /\ \A i \in DOMAIN rest : dates[u] < rest[i].t
    <2>1. CASE q = <<>>
      <3>1. u \notin rows.uavs /\ rest = <<>>
        BY <1>9, <2>1 DEF CurrentRows
      <3> QED
        BY <1>9, <3>1 DEF DateOk
    <2>2. CASE q # <<>> /\ u \in rows.uavs
      <3>1. dates[u] = q[1].t
        BY <1>3, <2>2
      <3>2. \A i \in DOMAIN rest : q[1].t < q[i + 1].t
        BY <1>3, <1>4, <2>2
      <3> QED
        BY <1>3, <2>2, <3>1, <3>2
    <2>3. CASE q # <<>> /\ u \notin rows.uavs
      <3>1. dates[u] = h.m_uavLastDate[u] /\ DateOk(h, u)
        BY <1>9, <2>3
      <3> QED
        BY <1>3, <2>3, <3>1 DEF DateOk
    <2> QED
      BY <2>1, <2>2, <2>3
  <1> HIDE DEF rows, rest, roles, dates
  <1>10. /\ read \in Histories /\ read.tree = h.tree /\ read.m_timer = h.m_timer
         /\ read.m_knownUavsList = h.m_knownUavsList /\ read.m_uavRoles = roles
         /\ read.m_query = rest /\ read.m_uavLastDate = dates
    BY <1>1, <1>6, <1>7, <1>8 DEF Histories
  <1> HIDE DEF read, q
  <1>11. Removable(read)
    BY <1>7, <1>10 DEF Removable
  <1>12. \A u \in rows.uavs : u # 0 => DateOk(read, u)
    BY <1>2, <1>9, <1>10 DEF DateOk
  <1>13. \A u \in Ids : h.tree[u] = 1 => u # 0 /\ DateOk(h, u)
    BY DEF Dated, Removable
  <1>14. Dated(read)
    BY <1>7, <1>9, <1>10, <1>13 DEF Dated, DateOk
  <1>15. CASE readRows(h) = read
    BY <1>2, <1>7, <1>10, <1>12, <1>14, <1>15 DEF rows
  <1>16. CASE readRows(h) = stopInternal(read)
    BY <1>11, <1>14, <1>16, StopEmpties, StopDated
  <1> QED
    BY <1>5, <1>15, <1>16 DEF stop

\* Only UAVs with a date are announced.
LEMMA SendInfoDated ==
    ASSUME NEW h, Removable(h), Dated(h), NEW uavs \in SUBSET Ids,
           \A u \in uavs \cap h.m_uavRoles : DateOk(h, u)
    PROVE  Dated(sendInfo(h, uavs))
  <1> DEFINE t == onUavAdded(h.tree, uavs \ h.m_knownUavsList, h.m_uavRoles)
             s == sendInfo(h, uavs)
  <1>1. h \in Histories
    BY DEF Removable
  <1>2. \A u \in Ids : t[u] = h.tree[u] \/ u \in uavs \cap h.m_uavRoles
    BY DEF onUavAdded
  <1> HIDE DEF t
  <1>3. /\ s.tree = t /\ s.m_uavRoles = h.m_uavRoles
        /\ s.m_uavLastDate = h.m_uavLastDate /\ s.m_query = h.m_query
    BY <1>1 DEF Histories, sendInfo, t
  <1> QED
    BY <1>2, <1>3 DEF Dated, DateOk

\* A UAV loses its date with its node.
LEMMA RemoveOutdatedDated ==
    ASSUME NEW h, Removable(h), Dated(h), NEW time \in 0 .. MaxTime
    PROVE  Dated(removeOutdated(h, time))
  <1> DEFINE outdated == {u \in Ids : /\ h.m_uavLastDate[u] # 0
                                      /\ time - h.m_uavLastDate[u] >= m_lifeTime}
             t == onUavRemoved(h.tree, outdated, h.m_uavRoles)
             roles == h.m_uavRoles \ outdated
             dates == [u \in Ids |-> IF u \in outdated THEN 0 ELSE h.m_uavLastDate[u]]
             s == removeOutdated(h, time)
  <1>1. h \in Histories
    BY DEF Removable
  <1>2. s = [h EXCEPT !.tree = t, !.m_knownUavsList = h.m_knownUavsList \ outdated,
                      !.m_uavRoles = roles, !.m_uavLastDate = dates]
    BY DEF removeOutdated
  <1> HIDE DEF outdated
  <1>3. \A u \in Ids : t[u] = 1 => h.tree[u] = 1 /\ u \notin outdated
    BY <1>1 DEF Removable, Histories, onUavRemoved
  <1>4. \A u \in Ids : u \notin outdated => dates[u] = h.m_uavLastDate[u]
    OBVIOUS
  <1>5. 0 \notin roles
    BY DEF Dated
  <1> HIDE DEF t, roles, dates, s
  <1>6. /\ s.tree = t /\ s.m_uavRoles = roles /\ s.m_uavLastDate = dates
        /\ s.m_query = h.m_query
    BY <1>1, <1>2 DEF Histories
  <1> QED
    BY <1>3, <1>4, <1>5, <1>6 DEF Dated, DateOk, s

\* One second of a replay.
LEMMA UpdateDated ==
    ASSUME NEW h, Removable(h), Dated(h)
    PROVE  Dated(updateHistoryState(h))
  <1> DEFINE rows == CurrentRows(h)
             read == readRows(h)
             sent == sendInfo(read, rows.uavs)
  <1>1. rows.uavs \in SUBSET Ids /\ rows.t \in 0 .. MaxTime
    BY CurrentRowsType
  <1>2. /\ Removable(read) /\ Dated(read)
        /\ \A u \in rows.uavs \cap read.m_uavRoles : DateOk(read, u)
    BY ReadRowsRemovable, ReadRowsDated
  <1>3. updateHistoryState(h) = removeOutdated(sent, rows.t)
    BY DEF updateHistoryState
  <1> HIDE DEF rows, read
  <1>4. Removable(sent) /\ Dated(sent)
    BY <1>1, <1>2, SendInfoRemovable, SendInfoDated
  <1> HIDE DEF sent
  <1> QED
    BY <1>1, <1>3, <1>4, RemoveOutdatedDated

\* A start finds no nodes, whatever dates an export has left.
LEMMA StartDated ==
    ASSUME NEW h, Removable(h), Dated(h), getStatus(h) = "Ready" => Empty(h),
           NEW mode, NEW recording \in Recordings
    PROVE  Dated(startInternal(h, mode, recording))
  <1> DEFINE stopped == stop(h)
             ready == [stopped EXCEPT !.m_query = recording]
             played == updateHistoryState(ready)
  <1>1. Removable(stopped) /\ Empty(stopped) /\ 0 \notin stopped.m_uavRoles
    BY StopRemovable, StopDated DEF Dated
  <1>2. startInternal(h, mode, recording) =
            IF recording = <<>> THEN ready
            ELSE IF mode = "export" THEN xlsExport(ready)
            ELSE [played EXCEPT !.m_timer = TRUE]
    BY DEF startInternal
  <1> HIDE DEF stopped
  <1>3. /\ ready \in Histories /\ ready.tree = stopped.tree
        /\ ready.m_knownUavsList = stopped.m_knownUavsList
        /\ ready.m_uavRoles = stopped.m_uavRoles
    BY <1>1 DEF Removable, Histories
  <1> HIDE DEF ready
  <1>4. Removable(ready) /\ Empty(ready) /\ Dated(ready)
    BY <1>1, <1>3, EmptyDated DEF Removable, Empty
  <1>5. Dated(xlsExport(ready))
    <2>1. Empty(xlsExport(ready))
      BY <1>4, ExportRemovable DEF Empty
    <2>2. 0 \notin xlsExport(ready).m_uavRoles
      BY <1>3, <1>4, UavHistoryAssumption DEF xlsExport, Histories, Dated
    <2> QED
      BY <2>1, <2>2, EmptyDated
  <1>6. Removable(played) /\ Dated(played)
    BY <1>4, UpdateRemovable, UpdateDated
  <1> HIDE DEF played
  <1>7. Dated([played EXCEPT !.m_timer = TRUE])
    BY <1>6 DEF Removable, Histories, Dated, DateOk
  <1> QED
    BY <1>2, <1>4, <1>5, <1>7

\* Every slot keeps the dates of the nodes.
LEMMA NextDated == HistoryInv /\ Dated(history) /\ [Next]_vars => Dated(history)'
  <1> SUFFICES ASSUME HistoryInv, Dated(history), [Next]_vars PROVE Dated(history')
    BY DEF Dated, DateOk
  <1>1. Removable(history) /\ (getStatus(history) = "Ready" => Empty(history))
    BY InvRemovable
  <1>2. CASE history' = history
    BY <1>2
  <1>3. ASSUME NEW mode, Start(mode) PROVE Dated(history')
    BY <1>1, <1>3, StartDated DEF Start
  <1>4. CASE Stop
    BY <1>1, <1>4, StopDated DEF Stop
  <1>5. CASE Pause
    <2>1. /\ history'.tree = history.tree /\ history'.m_uavRoles = history.m_uavRoles
          /\ history'.m_uavLastDate = history.m_uavLastDate /\ history'.m_query = history.m_query
      BY <1>1, <1>5 DEF Pause, pauseInternal, Removable, Histories
    <2> QED
      BY <2>1 DEF Dated, DateOk
  <1>6. CASE Resume
    <2>1. /\ history'.tree = history.tree /\ history'.m_uavRoles = history.m_uavRoles
          /\ history'.m_uavLastDate = history.m_uavLastDate /\ history'.m_query = history.m_query
      BY <1>1, <1>6 DEF Resume, resumeInternal, Removable, Histories
    <2> QED
      BY <2>1 DEF Dated, DateOk
  <1>7. CASE Tick
    BY <1>1, <1>7, UpdateDated DEF Tick
  <1>8. CASE setDatabase
    BY <1>1, <1>8, StopDated DEF setDatabase
  <1> QED
    BY <1>2, <1>3, <1>4, <1>5, <1>6, <1>7, <1>8 DEF Next, vars, onStartPlayingHistorySlot,
       onStopPlayingHistorySlot, onExportToXls

\* Every UAV that UavHistory shows has a date of the part already played, also in a
\* replay after an export, which leaves dates of any time behind: the node goes
\* m_lifeTime after the UAV's last row, for every recording and life time.
THEOREM NodesAreDated == Spec => []ShownIsDated
  <1>1. Init => Dated(history)
    BY DEF Init, Dated
  <1>2. Dated(history) => ShownIsDated
    BY DEF Dated, DateOk, ShownIsDated
  <1> QED
    BY <1>1, <1>2, HistoryInitially, HistoryStep, NextDated, PTL DEF Spec

==============================================================================
