--------------------------- MODULE KtrManagerProofs ---------------------------
(***************************************************************************)
(* Proofs about KtrManager, for any number of stations and boards and any   *)
(* list of devices.                                                         *)
(*                                                                         *)
(* The invariants the runs check are not inductive one by one: that a       *)
(* timeout or a list finds the two maps in agreement rests on the mutex     *)
(* being held by the one thread that is between the two insertions, and     *)
(* that the thread can name the key it waits for rests on its list not      *)
(* being exhausted.  KtrInv is their conjunction.                           *)
(***************************************************************************)
EXTENDS KtrManager, TLAPS

\* A thread inside the foreach still has a board to work on.
InForeach == \A h \in Hosts : pc[h] \in {"board", "wait"} => todo[h] # <<>>

KtrInv ==
    /\ TypeOK
    /\ MutexHeldByWaiter
    /\ InForeach
    /\ MapsAgree

----------------------------------------------------------------------------
\* The calls of the foreach name keys: connectToBoard() is only reached with a
\* board of the list and a device of the two.
LEMMA CurrentIsKey ==
    ASSUME TypeOK, InForeach, NEW h \in Hosts, pc[h] \in {"board", "wait"}
    PROVE  Current(h) \in Key
  <1>1. todo[h] \in Seq(Boards) /\ todo[h] # <<>>
    BY DEF TypeOK, InForeach
  <1>2. Head(todo[h]) \in Boards
    BY <1>1
  <1>3. Devices[dev[h]] \in Device
    BY DEF TypeOK, Device
  <1>4. QED
    BY <1>2, <1>3 DEF Current, Key

\* While the mutex is free no thread is inside the wait of connectToBoard().
LEMMA FreeMeansNoWaiter ==
    ASSUME MutexHeldByWaiter, deleteLocker
    PROVE  \A h \in Hosts : pc[h] # "wait"
  BY KtrAssumption DEF MutexHeldByWaiter, deleteLocker

\* When the mutex is free, the two maps have the same keys.
LEMMA FreeMapsEqual ==
    ASSUME MutexHeldByWaiter, MapsAgree, deleteLocker
    PROVE  m_connectionMap = m_lifeTimerMap
  <1>1. {g \in Hosts : pc[g] = "wait"} = {}
    BY FreeMeansNoWaiter
  <1>2. QED
    BY <1>1 DEF MapsAgree

\* Going on to the next call keeps the place in the list well formed: a thread
\* that stays in the foreach has a board left.
LEMMA AdvanceKeepsPlace ==
    ASSUME TypeOK, InForeach, NEW h \in Hosts, pc[h] \in {"board", "wait"}, Advance(h)
    PROVE  /\ pc' \in [Hosts -> {"idle", "connected", "board", "wait", "listDone"}]
           /\ todo' \in [Hosts -> Seq(Boards)]
           /\ dev' \in [Hosts -> DOMAIN Devices]
           /\ pc'[h] \in {"board", "listDone"}
           /\ \A g \in Hosts \ {h} : pc'[g] = pc[g] /\ todo'[g] = todo[g] /\ dev'[g] = dev[g]
           /\ pc'[h] = "board" => todo'[h] # <<>>
  <1>1. todo[h] \in Seq(Boards) /\ todo[h] # <<>>
    BY DEF TypeOK, InForeach
  <1>2. Tail(todo[h]) \in Seq(Boards)
    BY <1>1
  <1>3. Len(Devices) \in Nat /\ DOMAIN Devices = 1 .. Len(Devices) /\ 1 \in DOMAIN Devices
    BY KtrAssumption
  <1>4. CASE dev[h] < Len(Devices)
    <2>1. dev[h] + 1 \in DOMAIN Devices
      BY <1>3, <1>4 DEF TypeOK
    <2>2. QED
      BY <1>1, <1>4, <2>1 DEF Advance, TypeOK
  <1>5. CASE ~(dev[h] < Len(Devices))
    BY <1>2, <1>3, <1>5 DEF Advance, TypeOK
  <1>6. QED
    BY <1>4, <1>5

----------------------------------------------------------------------------
\* The manager starts with empty maps and a free mutex.
LEMMA InitKtrInv == Init => KtrInv
  <1> SUFFICES ASSUME Init PROVE KtrInv
    OBVIOUS
  <1>1. 1 \in DOMAIN Devices
    BY KtrAssumption
  <1>2. TypeOK
    BY <1>1 DEF Init, TypeOK
  <1>3. MutexHeldByWaiter /\ InForeach
    BY KtrAssumption DEF Init, MutexHeldByWaiter, InForeach
  <1>4. {g \in Hosts : pc[g] = "wait"} = {}
    BY DEF Init
  <1>5. MapsAgree
    BY <1>4 DEF Init, MapsAgree
  <1>6. QED
    BY <1>2, <1>3, <1>5 DEF KtrInv

----------------------------------------------------------------------------
\* The maps are in agreement whenever an action leaves them, and the place of
\* every waiting thread, alone.
LEMMA MapsAgreeKept ==
    ASSUME MapsAgree, UNCHANGED <<mapVars, todo, dev>>,
           \A g \in Hosts : pc'[g] = "wait" <=> pc[g] = "wait"
    PROVE  MapsAgree'
  <1>1. {g \in Hosts : pc'[g] = "wait"} = {g \in Hosts : pc[g] = "wait"}
    OBVIOUS
  <1>2. \A g \in Hosts : Current(g)' = Current(g)
    BY DEF Current
  <1>3. {Current(g)' : g \in {f \in Hosts : pc'[f] = "wait"}}
            = {Current(g) : g \in {f \in Hosts : pc[f] = "wait"}}
    BY <1>1, <1>2
  <1>4. QED
    BY <1>3 DEF MapsAgree, mapVars

\* Events of a station's base link never touch the boards.
LEMMA BaseLinkKtrInv ==
    ASSUME KtrInv, NEW h \in Hosts,
           BaseConnected(h) \/ BaseDisconnected(h) \/ RequestBoardList(h)
    PROVE  KtrInv'
  <1> USE DEF KtrInv
  <1>1. CASE BaseConnected(h)
    <2>1. TypeOK'
      BY <1>1 DEF BaseConnected, TypeOK, mapVars, updateVars
    <2>2. \A g \in Hosts : pc'[g] = "wait" <=> pc[g] = "wait"
      BY <1>1 DEF BaseConnected, TypeOK
    <2>3. MutexHeldByWaiter'
      BY <1>1, <2>2 DEF BaseConnected, MutexHeldByWaiter
    <2>4. InForeach'
      BY <1>1 DEF BaseConnected, InForeach, TypeOK
    <2>5. MapsAgree'
      BY <1>1, <2>2, MapsAgreeKept DEF BaseConnected
    <2>7. QED
      BY <2>1, <2>3, <2>4, <2>5
  <1>2. CASE BaseDisconnected(h)
    <2>1. TypeOK'
      BY <1>2 DEF BaseDisconnected, TypeOK, mapVars, updateVars
    <2>3. MutexHeldByWaiter' /\ InForeach'
      BY <1>2 DEF BaseDisconnected, MutexHeldByWaiter, InForeach, mapVars
    <2>5. MapsAgree'
      BY <1>2, MapsAgreeKept DEF BaseDisconnected
    <2>7. QED
      BY <2>1, <2>3, <2>5
  <1>3. CASE RequestBoardList(h)
    <2>1. TypeOK'
      BY <1>3 DEF RequestBoardList, needToUpdateTrue, TypeOK, mapVars
    <2>2. \A g \in Hosts : pc'[g] = "wait" <=> pc[g] = "wait"
      BY <1>3 DEF RequestBoardList, TypeOK
    <2>3. MutexHeldByWaiter'
      BY <1>3, <2>2 DEF RequestBoardList, MutexHeldByWaiter
    <2>4. InForeach'
      BY <1>3 DEF RequestBoardList, InForeach, TypeOK
    <2>5. MapsAgree'
      BY <1>3, <2>2, MapsAgreeKept DEF RequestBoardList
    <2>7. QED
      BY <2>1, <2>3, <2>4, <2>5
  <1>4. QED
    BY <1>1, <1>2, <1>3

\* The start and the end of a board list.
LEMMA ListBoundsKtrInv ==
    ASSUME KtrInv, NEW h \in Hosts,
           listDone(h) \/ \E list \in Lists : BoardList(h, list)
    PROVE  KtrInv'
  <1> USE DEF KtrInv
  <1>1. ASSUME NEW list \in Lists, BoardList(h, list)
        PROVE  KtrInv'
    <2>1. list \in Seq(Boards)
      BY DEF Lists
    <2>2. 1 \in DOMAIN Devices
      BY KtrAssumption
    <2>3. TypeOK'
      BY <1>1, <2>1, <2>2 DEF BoardList, TypeOK, mapVars, updateVars, linkVars
    <2>4. \A g \in Hosts : /\ pc'[g] = "wait" <=> pc[g] = "wait"
                           /\ pc[g] = "wait" => todo'[g] = todo[g] /\ dev'[g] = dev[g]
      BY <1>1 DEF BoardList, TypeOK
    <2>5. MutexHeldByWaiter'
      BY <1>1, <2>4 DEF BoardList, MutexHeldByWaiter
    <2>6. InForeach'
      BY <1>1 DEF BoardList, InForeach, TypeOK
    <2>7. MapsAgree'
      <3>1. {g \in Hosts : pc'[g] = "wait"} = {g \in Hosts : pc[g] = "wait"}
        BY <2>4
      <3>2. \A g \in {f \in Hosts : pc[f] = "wait"} : Current(g)' = Current(g)
        BY <2>4 DEF Current
      <3>3. {Current(g)' : g \in {f \in Hosts : pc'[f] = "wait"}}
                = {Current(g) : g \in {f \in Hosts : pc[f] = "wait"}}
        BY <3>1, <3>2
      <3>4. QED
        BY <1>1, <3>3 DEF MapsAgree, BoardList, mapVars
    <2>9. QED
      BY <2>3, <2>5, <2>6, <2>7
  <1>2. CASE listDone(h)
    <2>1. TypeOK'
      BY <1>2 DEF listDone, needToUpdateFalse, TypeOK, mapVars, linkVars
    <2>2. \A g \in Hosts : pc'[g] = "wait" <=> pc[g] = "wait"
      BY <1>2 DEF listDone, TypeOK
    <2>3. MutexHeldByWaiter'
      BY <1>2, <2>2 DEF listDone, MutexHeldByWaiter
    <2>4. InForeach'
      BY <1>2 DEF listDone, InForeach, TypeOK
    <2>5. MapsAgree'
      BY <1>2, <2>2, MapsAgreeKept DEF listDone
    <2>7. QED
      BY <2>1, <2>3, <2>4, <2>5
  <1>3. QED
    BY <1>1, <1>2

\* A controller is created under the mutex, which the thread then keeps.
LEMMA ConnectNewBoardKtrInv ==
    ASSUME KtrInv, NEW h \in Hosts, connectNewBoard(h)
    PROVE  KtrInv'
  <1> USE DEF KtrInv
  <1> DEFINE k == Current(h)
  <1>1. k \in Key
    BY CurrentIsKey DEF connectNewBoard
  <1>2. \A g \in Hosts : pc[g] # "wait"
    BY FreeMeansNoWaiter DEF connectNewBoard
  <1>3. TypeOK'
    BY <1>1 DEF connectNewBoard, TypeOK, updateVars, linkVars
  <1>4. {g \in Hosts : pc'[g] = "wait"} = {h}
    BY <1>2 DEF connectNewBoard, TypeOK
  <1>5. MutexHeldByWaiter'
    BY <1>4 DEF connectNewBoard, MutexHeldByWaiter
  <1>6. InForeach'
    BY DEF connectNewBoard, InForeach, TypeOK
  <1>7. m_connectionMap = m_lifeTimerMap
    BY FreeMapsEqual DEF connectNewBoard
  <1>8. Current(h)' = k
    BY DEF Current, connectNewBoard
  <1>9. {Current(g)' : g \in {f \in Hosts : pc'[f] = "wait"}} = {k}
    BY <1>4, <1>8
  <1>10. MapsAgree'
    BY <1>7, <1>9 DEF MapsAgree, connectNewBoard
  <1>11. QED
    BY <1>3, <1>5, <1>6, <1>10

\* Posting the command keeps the type of the board links.
LEMMA RegisterAgainType ==
    ASSUME TypeOK, NEW h \in Hosts, NEW k \in Key, RegisterAgain(h, k)
    PROVE  boardLink' \in [Key -> Open \cup {"none", "down"}]
  BY DEF TypeOK, RegisterAgain, Open

\* When the wait is over the life timer catches up with the controller.
LEMMA WaitOverKtrInv ==
    ASSUME KtrInv, NEW h \in Hosts, waitOver(h)
    PROVE  KtrInv'
  <1> USE DEF KtrInv
  <1> DEFINE k == Current(h)
  <1>1. k \in Key
    BY CurrentIsKey DEF waitOver
  <1>2. {g \in Hosts : pc[g] = "wait"} = {h}
    BY DEF waitOver, MutexHeldByWaiter
  <1>3. {Current(g) : g \in {f \in Hosts : pc[f] = "wait"}} = {k}
    BY <1>2
  <1>4. m_connectionMap = m_lifeTimerMap \cup {k}
    BY <1>3 DEF MapsAgree
  <1>5. /\ pc' \in [Hosts -> {"idle", "connected", "board", "wait", "listDone"}]
        /\ todo' \in [Hosts -> Seq(Boards)]
        /\ dev' \in [Hosts -> DOMAIN Devices]
        /\ pc'[h] \in {"board", "listDone"}
        /\ \A g \in Hosts \ {h} : pc'[g] = pc[g] /\ todo'[g] = todo[g] /\ dev'[g] = dev[g]
        /\ pc'[h] = "board" => todo'[h] # <<>>
    BY AdvanceKeepsPlace DEF waitOver
  <1>7. boardLink' \in [Key -> Open \cup {"none", "down"}]
    BY <1>1, RegisterAgainType DEF waitOver
  <1>8. TypeOK'
    BY <1>1, <1>5, <1>7 DEF waitOver, AddLifeTimer, RestartLifeTimer, unlock, TypeOK,
                            updateVars, linkVars
  <1>9. {g \in Hosts : pc'[g] = "wait"} = {}
    BY <1>2, <1>5
  <1>10. MutexHeldByWaiter'
    BY <1>9, KtrAssumption DEF waitOver, unlock, MutexHeldByWaiter
  <1>11. InForeach'
    BY <1>5 DEF InForeach
  <1>12. MapsAgree'
    BY <1>4, <1>9 DEF MapsAgree, waitOver, AddLifeTimer
  <1>13. QED
    BY <1>8, <1>10, <1>11, <1>12

\* A known board only has its life timer restarted and is registered again.
LEMMA ConnectKnownBoardKtrInv ==
    ASSUME KtrInv, NEW h \in Hosts, connectKnownBoard(h)
    PROVE  KtrInv'
  <1> USE DEF KtrInv
  <1> DEFINE k == Current(h)
  <1>1. k \in Key
    BY CurrentIsKey DEF connectKnownBoard
  <1>2. \A g \in Hosts : pc[g] # "wait"
    BY FreeMeansNoWaiter DEF connectKnownBoard
  <1>3. m_connectionMap = m_lifeTimerMap
    BY FreeMapsEqual DEF connectKnownBoard
  <1>5. /\ pc' \in [Hosts -> {"idle", "connected", "board", "wait", "listDone"}]
        /\ todo' \in [Hosts -> Seq(Boards)]
        /\ dev' \in [Hosts -> DOMAIN Devices]
        /\ pc'[h] \in {"board", "listDone"}
        /\ \A g \in Hosts \ {h} : pc'[g] = pc[g] /\ todo'[g] = todo[g] /\ dev'[g] = dev[g]
        /\ pc'[h] = "board" => todo'[h] # <<>>
    BY AdvanceKeepsPlace DEF connectKnownBoard
  <1>7. boardLink' \in [Key -> Open \cup {"none", "down"}]
    BY <1>1, RegisterAgainType DEF connectKnownBoard
  <1>8. TypeOK'
    BY <1>1, <1>5, <1>7 DEF connectKnownBoard, RestartLifeTimer, TypeOK, mapVars,
                            updateVars, linkVars
  <1>9. {g \in Hosts : pc'[g] = "wait"} = {}
    BY <1>2, <1>5
  <1>10. MutexHeldByWaiter'
    BY <1>9, KtrAssumption DEF connectKnownBoard, deleteLocker, MutexHeldByWaiter
  <1>11. InForeach'
    BY <1>5 DEF InForeach
  <1>12. MapsAgree'
    BY <1>3, <1>9 DEF MapsAgree, connectKnownBoard, mapVars
  <1>13. QED
    BY <1>8, <1>10, <1>11, <1>12

\* Life timers and board links.  A timeout that gets the mutex finds the maps
\* equal and leaves them equal.
LEMMA BoardEventKtrInv ==
    ASSUME KtrInv, NEW k \in Key,
           \/ LifeTimerFires(k) \/ timeoutSlot(k) \/ BoardUp(k) \/ BoardDown(k)
           \/ writeDataInternalSlot(k) \/ disconnectFromHostInternalSlot(k)
    PROVE  KtrInv'
  <1> USE DEF KtrInv
  <1>1. CASE LifeTimerFires(k)
    <2>1. TypeOK' /\ MutexHeldByWaiter' /\ InForeach'
      BY <1>1 DEF LifeTimerFires, TypeOK, MutexHeldByWaiter, InForeach,
                  mapVars, updateVars, linkVars
    <2>2. MapsAgree'
      BY <1>1, MapsAgreeKept DEF LifeTimerFires
    <2>3. QED
      BY <2>1, <2>2
  <1>2. CASE timeoutSlot(k)
    <2>1. TypeOK' /\ MutexHeldByWaiter' /\ InForeach'
      BY <1>2 DEF timeoutSlot, disconnectBoard, TypeOK, MutexHeldByWaiter, InForeach,
                  updateVars, linkVars, Open
    <2>3. \A g \in Hosts : pc[g] # "wait"
      BY <1>2, FreeMeansNoWaiter DEF timeoutSlot
    <2>4. {g \in Hosts : pc'[g] = "wait"} = {}
      BY <1>2, <2>3 DEF timeoutSlot
    <2>5. m_connectionMap = m_lifeTimerMap
      BY <1>2, FreeMapsEqual DEF timeoutSlot
    <2>6. MapsAgree'
      BY <1>2, <2>4, <2>5 DEF timeoutSlot, MapsAgree
    <2>7. QED
      BY <2>1, <2>6
  <1>3. CASE BoardUp(k) \/ BoardDown(k) \/ writeDataInternalSlot(k)
             \/ disconnectFromHostInternalSlot(k)
    <2>1. /\ boardLink' \in [Key -> Open \cup {"none", "down"}]
          /\ UNCHANGED <<m_deleteMutex, mapVars, updateVars, pc, todo, dev, nested, linkVars,
                         timeout>>
      BY <1>3 DEF BoardUp, BoardDown, writeDataInternalSlot, disconnectFromHostInternalSlot,
                  TypeOK, Open
    <2>2. TypeOK' /\ MutexHeldByWaiter' /\ InForeach'
      BY <2>1 DEF TypeOK, MutexHeldByWaiter, InForeach, mapVars, updateVars, linkVars
    <2>3. MapsAgree'
      BY <2>1, MapsAgreeKept
    <2>4. QED
      BY <2>2, <2>3
  <1>4. QED
    BY <1>1, <1>2, <1>3

\* Every step of every thread preserves the invariant.
LEMMA NextKtrInv == KtrInv /\ [Next]_vars => KtrInv'
  <1> SUFFICES ASSUME KtrInv, [Next]_vars PROVE KtrInv'
    OBVIOUS
  <1>1. CASE UNCHANGED vars
    <2>1. TypeOK' /\ MutexHeldByWaiter' /\ InForeach'
      BY <1>1 DEF KtrInv, vars, TypeOK, MutexHeldByWaiter, InForeach
    <2>2. MapsAgree'
      BY <1>1, MapsAgreeKept DEF KtrInv, vars, mapVars
    <2>3. QED
      BY <2>1, <2>2 DEF KtrInv
  <1>2. ASSUME NEW h \in Hosts,
               \/ BaseConnected(h) \/ BaseDisconnected(h)
               \/ RequestBoardList(h)
               \/ \E list \in Lists : BoardList(h, list)
               \/ connectNewBoard(h) \/ waitOver(h) \/ connectKnownBoard(h)
               \/ listDone(h)
        PROVE  KtrInv'
    BY <1>2, BaseLinkKtrInv, ListBoundsKtrInv, ConnectNewBoardKtrInv, WaitOverKtrInv,
       ConnectKnownBoardKtrInv
  <1>3. ASSUME NEW k \in Key,
               \/ LifeTimerFires(k) \/ timeoutSlot(k) \/ BoardUp(k) \/ BoardDown(k)
               \/ writeDataInternalSlot(k) \/ disconnectFromHostInternalSlot(k)
        PROVE  KtrInv'
    BY <1>3, BoardEventKtrInv
  <1>4. QED
    BY <1>1, <1>2, <1>3 DEF Next

\* The invariant holds throughout.
LEMMA AlwaysKtrInv == Spec => []KtrInv
  <1>1. Init => KtrInv
    BY InitKtrInv
  <1>2. KtrInv /\ [Next]_vars => KtrInv'
    BY NextKtrInv
  <1>3. QED
    BY <1>1, <1>2, PTL DEF Spec

\* The manager's maps and every thread's place in the list keep their types.
THEOREM KtrTypeCorrect == Spec => []TypeOK
  BY AlwaysKtrInv, PTL DEF KtrInv

\* At most one thread is inside the wait of connectToBoard(), and it holds the
\* mutex: for any number of stations, whatever happens in the nested event loop.
THEOREM WaiterHoldsMutex == Spec => []MutexHeldByWaiter
  BY AlwaysKtrInv, PTL DEF KtrInv

\* Controllers and life timers are created and removed in pairs:
\* connectToBoard() never meets a controller without a timer or a timer without
\* a controller, one of which it would dereference as NULL.
THEOREM ControllersHaveTimers == Spec => []MapsAgree
  BY AlwaysKtrInv, PTL DEF KtrInv

----------------------------------------------------------------------------
\* One station.  With a second one the flag is shared and the theorem below is
\* false: the run ktr_two_stations is the counterexample.
SingleStation == \A g, h \in Hosts : g = h

\* While a station is up for registration the flag is up too.
FlagWithHost == m_hostPortForUpdate # {} => m_needToUpdate

\* The only station takes itself out of the set whenever it lowers the flag.
LEMMA NextFlagWithHost ==
    ASSUME SingleStation, TypeOK, FlagWithHost, [Next]_vars
    PROVE  FlagWithHost'
  <1>1. CASE UNCHANGED updateVars
    BY <1>1 DEF FlagWithHost, updateVars
  <1>2. ASSUME NEW h \in Hosts, RequestBoardList(h)
        PROVE  FlagWithHost'
    BY <1>2 DEF RequestBoardList, needToUpdateTrue, FlagWithHost
  <1>3. ASSUME NEW h \in Hosts, listDone(h)
        PROVE  FlagWithHost'
    <2>1. m_hostPortForUpdate \ {h} = {}
      BY DEF TypeOK, SingleStation
    <2>2. QED
      BY <1>3, <2>1 DEF listDone, needToUpdateFalse, FlagWithHost
  <1>4. QED
    BY <1>1, <1>2, <1>3
       DEF Next, vars, updateVars, BaseConnected, BaseDisconnected, BoardList, connectNewBoard,
           waitOver, connectKnownBoard, LifeTimerFires, timeoutSlot, BoardUp, BoardDown,
           writeDataInternalSlot, disconnectFromHostInternalSlot

\* A call of connectToBoard() for a station that is up for registration, with
\* the flag up, posts the command on a link that is up.
LEMMA AdvanceRegisters ==
    ASSUME KtrInv, FlagWithHost, [Next]_vars, NEW h \in Hosts,
           pc[h] \in {"board", "wait"}, <<todo[h], dev[h]>>' # <<todo[h], dev[h]>>,
           h \in m_hostPortForUpdate, boardLink[Current(h)] \in Open
    PROVE  boardLink'[Current(h)] \in {"posted", "registered"}
  <1>1. \E g \in Hosts : \/ \E list \in Lists : BoardList(g, list)
                        \/ waitOver(g) \/ connectKnownBoard(g)
    BY DEF Next, vars, BaseConnected, BaseDisconnected, RequestBoardList, connectNewBoard,
           listDone, LifeTimerFires, timeoutSlot, BoardUp, BoardDown,
           writeDataInternalSlot, disconnectFromHostInternalSlot
  <1>2. PICK g \in Hosts : \/ \E list \in Lists : BoardList(g, list)
                          \/ waitOver(g) \/ connectKnownBoard(g)
    BY <1>1
  <1>3. ~(\E list \in Lists : BoardList(g, list))
    BY DEF BoardList, KtrInv, TypeOK
  <1>4. pc[g] \in {"board", "wait"} /\ Advance(g) /\ RegisterAgain(g, Current(g))
    BY <1>2, <1>3 DEF waitOver, connectKnownBoard
  <1>5. g = h
    BY <1>4, AdvanceKeepsPlace DEF KtrInv
  <1>6. Current(h) \in Key /\ boardLink \in [Key -> Open \cup {"none", "down"}]
    BY CurrentIsKey DEF KtrInv, TypeOK
  <1>7. QED
    BY <1>4, <1>5, <1>6 DEF RegisterAgain, FlagWithHost, Open

\* With a single station, the first list after a connect of the base link
\* has the command posted for every listed board whose link is up: the shared flag is only ever
\* lowered by the list it was raised for.
THEOREM SingleStationRegisters == SingleStation => (Spec => RegisterWhenDue)
  <1> SUFFICES ASSUME SingleStation PROVE Spec => RegisterWhenDue
    OBVIOUS
  <1>1. Init => FlagWithHost
    BY DEF Init, FlagWithHost
  <1>2. KtrInv /\ FlagWithHost /\ [Next]_vars => FlagWithHost'
    BY NextFlagWithHost DEF KtrInv
  <1>3. KtrInv /\ FlagWithHost /\ [Next]_vars =>
            [\A h \in Hosts :
                LET k == Current(h) IN
                /\ pc[h] \in {"board", "wait"} /\ <<todo[h], dev[h]>>' # <<todo[h], dev[h]>>
                /\ h \in m_hostPortForUpdate
                /\ boardLink[k] \in Open
                => boardLink'[k] \in {"posted", "registered"}]_vars
    BY AdvanceRegisters
  <1>4. QED
    BY <1>1, <1>2, <1>3, AlwaysKtrInv, PTL DEF Spec, RegisterWhenDue

----------------------------------------------------------------------------
\* A thread that waits for the mutex it holds.

\* With the mutex held only threads between two calls, links and timers go on.
LEMMA LockedOutStep ==
    ASSUME KtrInv, [Next]_vars, NEW h \in Hosts, SelfLocked(h)
    PROVE  /\ SelfLocked(h)'
           /\ UNCHANGED <<m_deleteMutex, mapVars, updateVars>>
           /\ \A k \in Key : boardLink'[k] = "posted" => boardLink[k] = "posted"
  <1> DEFINE NothingPosted == \A k \in Key : boardLink'[k] = "posted" => boardLink[k] = "posted"
  <1>1. pc[h] = "wait" /\ nested[h] /\ ~deleteLocker
    BY FreeMeansNoWaiter DEF SelfLocked, KtrInv
  <1>2. \A g \in Hosts : pc[g] = "wait" => g = h
    BY <1>1 DEF KtrInv, MutexHeldByWaiter
  <1>3. pc \in [Hosts -> {"idle", "connected", "board", "wait", "listDone"}]
        /\ nested \in [Hosts -> BOOLEAN]
        /\ boardLink \in [Key -> Open \cup {"none", "down"}]
    BY DEF KtrInv, TypeOK
  <1>4. ASSUME NEW g \in Hosts, BaseConnected(g)
        PROVE  /\ SelfLocked(h)' /\ NothingPosted
               /\ UNCHANGED <<m_deleteMutex, mapVars, updateVars>>
    <2>1. g # h /\ pc[g] = "idle"
      BY <1>1, <1>2, <1>4 DEF BaseConnected, EventLoop
    <2> QED
      BY <1>1, <1>3, <1>4, <2>1 DEF BaseConnected, SelfLocked
  <1>5. ASSUME NEW g \in Hosts, NEW list \in Lists, BoardList(g, list)
        PROVE  /\ SelfLocked(h)' /\ NothingPosted
               /\ UNCHANGED <<m_deleteMutex, mapVars, updateVars>>
    <2>1. g # h
      BY <1>1, <1>5 DEF BoardList
    <2> QED
      BY <1>1, <1>3, <1>5, <2>1 DEF BoardList, SelfLocked
  <1>6. ASSUME NEW g \in Hosts PROVE ~waitOver(g)
    BY <1>1, <1>2 DEF waitOver
  <1>7. ASSUME NEW g \in Hosts, BaseDisconnected(g)
        PROVE  /\ SelfLocked(h)' /\ NothingPosted
               /\ UNCHANGED <<m_deleteMutex, mapVars, updateVars>>
    BY <1>1, <1>7 DEF BaseDisconnected, SelfLocked
  <1>8. ASSUME NEW k \in Key, \/ LifeTimerFires(k) \/ BoardUp(k) \/ BoardDown(k)
                             \/ writeDataInternalSlot(k) \/ disconnectFromHostInternalSlot(k)
        PROVE  /\ SelfLocked(h)' /\ NothingPosted
               /\ UNCHANGED <<m_deleteMutex, mapVars, updateVars>>
    BY <1>1, <1>3, <1>8 DEF LifeTimerFires, BoardUp, BoardDown, writeDataInternalSlot,
                           disconnectFromHostInternalSlot, SelfLocked
  <1>9. CASE UNCHANGED vars
    BY <1>1, <1>9 DEF vars, mapVars, updateVars, SelfLocked
  <1> QED
    BY <1>1, <1>4, <1>5, <1>6, <1>7, <1>8, <1>9
       DEF Next, RequestBoardList, connectNewBoard, connectKnownBoard, listDone, timeoutSlot

\* For any number of stations: once the base link of one station has come back inside
\* the processEvents() loop of connectToBoard(), no thread ever gets m_deleteMutex
\* again; the manager serves no timeout and no station connects or registers a board.
THEOREM SelfLockIsForGood == Spec => LockedOutForGood
  <1>1. KtrInv /\ [Next]_vars =>
            [\A h \in Hosts :
                SelfLocked(h) => /\ SelfLocked(h)'
                                 /\ UNCHANGED <<m_deleteMutex, mapVars, updateVars>>
                                 /\ \A k \in Key :
                                       boardLink'[k] = "posted" => boardLink[k] = "posted"]_vars
    BY LockedOutStep
  <1> QED
    BY <1>1, AlwaysKtrInv, PTL DEF Spec, LockedOutForGood

==============================================================================
