--------------------------- MODULE TcpClientProofs ---------------------------
(***************************************************************************)
(* Proofs about TcpClient, for any set of timer ids and any bounds.         *)
(*                                                                         *)
(* StatusIsTrue and TimerIffNeeded speak of the moments between events; the *)
(* inductive invariant ClientInv adds what holds while the thread is        *)
(* blocked in waitForConnected(), which depends on whether a request or the *)
(* reconnect timer started the attempt.                                     *)
(***************************************************************************)
EXTENDS TcpClient, FiniteSetTheorems, SequenceTheorems, TLAPS

\* The socket is connecting exactly while the thread is blocked in the wait,
\* and the peer can only have closed a connection that exists.
SocketFollowsPc ==
    /\ m_tcpSocket = "Connecting" <=> pc # "idle"
    /\ peerClosed => m_tcpSocket = "Connected"

\* StatusIsTrue at every moment: a connecting socket is reported as down.
StatusAlwaysTrue ==
    /\ m_open <=> m_tcpSocket = "Connected"
    /\ status = "Connected" <=> m_tcpSocket = "Connected"

\* TimerIffNeeded at every moment: an attempt that a request started has no
\* timer, an attempt that the timer started has kept it.
TimerAlways ==
    /\ m_reconnectTimer # 0 <=> (wanted /\ m_tcpSocket # "Connected" /\ pc # "connecting")
    /\ m_reconnectTimer # 0 => m_reconnectTimer \in timers
    /\ pc # "idle" => wanted
    /\ m_tcpSocket = "Connected" => wanted

ClientInv ==
    /\ TypeOK
    /\ SocketFollowsPc
    /\ StatusAlwaysTrue
    /\ TimerAlways

\* A new client is closed, has no timer and has told nobody anything.
LEMMA InitClientInv == Init => ClientInv
  <1> SUFFICES ASSUME Init PROVE ClientInv
    OBVIOUS
  <1>1. TypeOK
    <2>1. connects \in 0 .. MaxConnects
      BY TcpClientAssumption DEF Init
    <2>2. calls \in Seq({"connect", "disconnect"})
      BY DEF Init
    <2>3. QED
      BY <2>1, <2>2, Zenon DEF Init, TypeOK
  <1>2. SocketFollowsPc
    BY DEF Init, SocketFollowsPc
  <1>3. StatusAlwaysTrue
    BY DEF Init, StatusAlwaysTrue
  <1>4. TimerAlways
    BY DEF Init, TimerAlways
  <1>5. QED
    BY <1>1, <1>2, <1>3, <1>4 DEF ClientInv

\* Requests and the peer do not touch the client.
LEMMA EnvironmentClientInv ==
    ASSUME ClientInv,
           \/ connectToHostAsync \/ disconnectFromHostAsync
           \/ PeerChanges \/ PeerCloses
    PROVE  ClientInv'
  <1> USE DEF ClientInv
  <1>1. CASE connectToHostAsync
    <2>1. TypeOK'
      BY <1>1, TcpClientAssumption DEF connectToHostAsync, TypeOK, clientVars
    <2>2. SocketFollowsPc' /\ StatusAlwaysTrue' /\ TimerAlways'
      BY <1>1 DEF connectToHostAsync, SocketFollowsPc, StatusAlwaysTrue, TimerAlways, clientVars
    <2>3. QED
      BY <2>1, <2>2
  <1>2. CASE disconnectFromHostAsync
    <2>1. TypeOK'
      BY <1>2 DEF disconnectFromHostAsync, TypeOK, clientVars, envVars
    <2>2. SocketFollowsPc' /\ StatusAlwaysTrue' /\ TimerAlways'
      BY <1>2 DEF disconnectFromHostAsync, SocketFollowsPc, StatusAlwaysTrue, TimerAlways,
                  clientVars
    <2>3. QED
      BY <2>1, <2>2
  <1>3. CASE PeerChanges
    <2>1. TypeOK'
      BY <1>3 DEF PeerChanges, TypeOK, clientVars
    <2>2. SocketFollowsPc' /\ StatusAlwaysTrue' /\ TimerAlways'
      BY <1>3 DEF PeerChanges, SocketFollowsPc, StatusAlwaysTrue, TimerAlways, clientVars
    <2>3. QED
      BY <2>1, <2>2
  <1>4. CASE PeerCloses
    <2>1. TypeOK'
      BY <1>4 DEF PeerCloses, TypeOK, clientVars, envVars
    <2>2. SocketFollowsPc' /\ StatusAlwaysTrue' /\ TimerAlways'
      BY <1>4 DEF PeerCloses, SocketFollowsPc, StatusAlwaysTrue, TimerAlways, clientVars
    <2>3. QED
      BY <2>1, <2>2
  <1>5. QED
    BY <1>1, <1>2, <1>3, <1>4

\* Taking a request off the queue leaves a queue of requests.
LEMMA NextCallType ==
    ASSUME TypeOK, NEW call, NextCall(call)
    PROVE  calls' \in Seq({"connect", "disconnect"})
  <1>1. calls \in Seq({"connect", "disconnect"}) /\ calls # <<>>
    BY DEF TypeOK, NextCall
  <1>2. Tail(calls) \in Seq({"connect", "disconnect"})
    BY <1>1
  <1>3. QED
    BY <1>2 DEF NextCall

\* The two requests.
LEMMA RequestClientInv ==
    ASSUME ClientInv, connectToHostInternalSlot \/ disconnectFromHostInternalSlot
    PROVE  ClientInv'
  <1> USE DEF ClientInv
  <1>1. CASE connectToHostInternalSlot
    <2>1. calls' \in Seq({"connect", "disconnect"})
      BY <1>1, NextCallType DEF connectToHostInternalSlot
    <2>2. TypeOK'
      BY <1>1, <2>1 DEF connectToHostInternalSlot, killTimerSlot, TypeOK, envVars
    <2>3. SocketFollowsPc' /\ StatusAlwaysTrue' /\ TimerAlways'
      BY <1>1 DEF connectToHostInternalSlot, NextCall, killTimerSlot, TypeOK, SocketFollowsPc,
                  StatusAlwaysTrue, TimerAlways
    <2>4. QED
      BY <2>2, <2>3
  <1>2. CASE disconnectFromHostInternalSlot
    <2>1. calls' \in Seq({"connect", "disconnect"})
      BY <1>2, NextCallType DEF disconnectFromHostInternalSlot
    <2>2. TypeOK'
      BY <1>2, <2>1 DEF disconnectFromHostInternalSlot, onSocketDisconnected, killTimerSlot,
                        TypeOK, envVars
    <2>3. SocketFollowsPc' /\ StatusAlwaysTrue' /\ TimerAlways'
      BY <1>2 DEF disconnectFromHostInternalSlot, onSocketDisconnected, NextCall, killTimerSlot,
                  TypeOK, SocketFollowsPc, StatusAlwaysTrue, TimerAlways
    <2>4. QED
      BY <2>2, <2>3
  <1>3. QED
    BY <1>1, <1>2

\* The two ways a timer id comes to be set: a fresh, running timer.
LEMMA FreshTimer ==
    ASSUME TypeOK, startReconnectTimer \/ failedAttempt
    PROVE  /\ timers' \subseteq TimerIds
           /\ m_reconnectTimer' \in timers'
           /\ m_reconnectTimer' # 0
           /\ m_reconnectTimer' \in TimerIds
  BY TcpClientAssumption DEF TypeOK, startReconnectTimer, failedAttempt

\* The end of an attempt that a request started.
LEMMA ConnectWaitOverClientInv ==
    ASSUME ClientInv, connectWaitOver
    PROVE  ClientInv'
  <1> USE DEF ClientInv
  <1>1. CASE remote = "up"
    <2>1. TypeOK'
      BY <1>1 DEF connectWaitOver, onSocketConnected, killTimerSlot, TypeOK, envVars
    <2>2. SocketFollowsPc' /\ StatusAlwaysTrue' /\ TimerAlways'
      BY <1>1 DEF connectWaitOver, onSocketConnected, killTimerSlot, SocketFollowsPc,
                  StatusAlwaysTrue, TimerAlways
    <2>3. QED
      BY <2>1, <2>2
  <1>2. CASE remote # "up"
    <2>1. failedAttempt
      BY <1>2 DEF connectWaitOver
    <2>2. /\ timers' \subseteq TimerIds
          /\ m_reconnectTimer' \in timers'
          /\ m_reconnectTimer' # 0
          /\ m_reconnectTimer' \in TimerIds
      BY <2>1, FreshTimer
    <2>3. m_open' = FALSE
      BY <2>1 DEF failedAttempt, connectWaitOver, StatusAlwaysTrue, SocketFollowsPc, TypeOK
    <2>4. TypeOK'
      BY <1>2, <2>2, <2>3 DEF connectWaitOver, TypeOK, envVars
    <2>5. SocketFollowsPc' /\ StatusAlwaysTrue' /\ TimerAlways'
      BY <1>2, <2>2, <2>3 DEF connectWaitOver, SocketFollowsPc, StatusAlwaysTrue, TimerAlways
    <2>6. QED
      BY <2>4, <2>5
  <1>3. QED
    BY <1>1, <1>2

\* An attempt of the reconnect timer, from the tick to the end of the wait.
LEMMA ReconnectClientInv ==
    ASSUME ClientInv, reconnectWaitOver \/ \E id \in TimerIds : timerEvent(id)
    PROVE  ClientInv'
  <1> USE DEF ClientInv
  <1>1. ASSUME NEW id \in TimerIds, timerEvent(id)
        PROVE  ClientInv'
    <2>1. TypeOK'
      BY <1>1 DEF timerEvent, TypeOK, envVars
    <2>2. SocketFollowsPc' /\ StatusAlwaysTrue' /\ TimerAlways'
      BY <1>1, TcpClientAssumption
         DEF timerEvent, isReconnectTimer, SocketFollowsPc, StatusAlwaysTrue, TimerAlways
    <2>3. QED
      BY <2>1, <2>2
  <1>2. CASE reconnectWaitOver
    <2>1. CASE remote = "up" /\ onSocketConnected
      <3>1. TypeOK'
        BY <1>2, <2>1 DEF reconnectWaitOver, onSocketConnected, killTimerSlot, TypeOK, envVars
      <3>2. SocketFollowsPc' /\ StatusAlwaysTrue' /\ TimerAlways'
        BY <1>2, <2>1 DEF reconnectWaitOver, onSocketConnected, killTimerSlot, SocketFollowsPc,
                          StatusAlwaysTrue, TimerAlways
      <3>3. QED
        BY <3>1, <3>2
    <2>2. CASE /\ m_tcpSocket' = "Unconnected"
               /\ m_open' \in {m_open, FALSE}
               /\ UNCHANGED <<m_reconnectTimer, timers, status>>
      <3>1. TypeOK'
        BY <1>2, <2>2 DEF reconnectWaitOver, TypeOK, envVars
      <3>2. SocketFollowsPc'
        BY <1>2, <2>2 DEF reconnectWaitOver, SocketFollowsPc
      <3>3. m_open = FALSE /\ status # "Connected"
        BY <1>2 DEF reconnectWaitOver, SocketFollowsPc, StatusAlwaysTrue, TypeOK
      <3>4. StatusAlwaysTrue'
        BY <2>2, <3>3 DEF StatusAlwaysTrue
      <3>5. TimerAlways'
        BY <1>2, <2>2 DEF reconnectWaitOver, SocketFollowsPc, TimerAlways
      <3>6. QED
        BY <3>1, <3>2, <3>4, <3>5
    <2>3. m_reconnectTimer # 0
      BY <1>2 DEF reconnectWaitOver, TimerAlways, SocketFollowsPc
    <2>4. QED
      BY <1>2, <2>1, <2>2, <2>3 DEF reconnectWaitOver, onSocketDisplayError
  <1>3. QED
    BY <1>1, <1>2

\* A lost connection: the error slot starts the timer, the disconnected slot
\* tells the controllers.
LEMMA ConnectionLostClientInv ==
    ASSUME ClientInv, connectionLost
    PROVE  ClientInv'
  <1> USE DEF ClientInv
  <1>1. startReconnectTimer
    BY DEF connectionLost, onSocketDisplayError, TimerAlways
  <1>2. /\ timers' \subseteq TimerIds
        /\ m_reconnectTimer' \in timers'
        /\ m_reconnectTimer' # 0
        /\ m_reconnectTimer' \in TimerIds
    BY <1>1, FreshTimer
  <1>3. TypeOK'
    BY <1>2 DEF connectionLost, onSocketDisplayError, onSocketDisconnected, TypeOK, envVars
  <1>4. SocketFollowsPc' /\ StatusAlwaysTrue' /\ TimerAlways'
    BY <1>2 DEF connectionLost, onSocketDisplayError, onSocketDisconnected, SocketFollowsPc,
                StatusAlwaysTrue, TimerAlways
  <1>5. QED
    BY <1>3, <1>4

\* Every event preserves the invariant.
LEMMA NextClientInv == ClientInv /\ [Next]_vars => ClientInv'
  <1> SUFFICES ASSUME ClientInv, [Next]_vars PROVE ClientInv'
    OBVIOUS
  <1>1. CASE UNCHANGED vars
    BY <1>1 DEF ClientInv, vars, clientVars, TypeOK, SocketFollowsPc, StatusAlwaysTrue,
                TimerAlways
  <1>2. CASE Thread
    BY <1>2, RequestClientInv, ConnectWaitOverClientInv, ReconnectClientInv,
       ConnectionLostClientInv DEF Thread
  <1>3. QED
    BY <1>1, <1>2, EnvironmentClientInv DEF Next, timerEventIgnored

\* The invariant holds throughout.
LEMMA AlwaysClientInv == Spec => []ClientInv
  <1>1. Init => ClientInv
    BY InitClientInv
  <1>2. ClientInv /\ [Next]_vars => ClientInv'
    BY NextClientInv
  <1>3. QED
    BY <1>1, <1>2, PTL DEF Spec

\* The invariants of the runs follow from the inductive one.
LEMMA ClientInvImplies == ClientInv => StatusIsTrue /\ TimerIffNeeded
  BY DEF ClientInv, StatusAlwaysTrue, TimerAlways, SocketFollowsPc, TypeOK, StatusIsTrue,
         TimerIffNeeded

\* Between events what the controllers were told, the QIODevice and the socket
\* agree, whatever the order of requests, refusals, timeouts and losses.
THEOREM StatusNeverStale == Spec => []StatusIsTrue
  BY AlwaysClientInv, ClientInvImplies, PTL

\* Between events a reconnect timer runs if and only if the link is wanted and
\* down.
THEOREM TimerExactlyWhenNeeded == Spec => []TimerIffNeeded
  BY AlwaysClientInv, ClientInvImplies, PTL

\* The client's variables keep their types; in particular m_reconnectTimer is the id
\* of a timer or 0.
THEOREM ClientTypeCorrect == Spec => []TypeOK
  <1>1. ClientInv => TypeOK
    BY DEF ClientInv
  <1>2. QED
    BY <1>1, AlwaysClientInv, PTL

----------------------------------------------------------------------------
\* Timers that were forgotten.

Requests == {"connect", "disconnect"}
Orphans == timers \ {m_reconnectTimer}

\* Positions of the requests to connect in a queue.
Waiting(q) == {i \in 1 .. Len(q) : q[i] = "connect"}

\* Every forgotten timer, every waiting request to connect and the attempt under
\* way stand for a different request so far.
OrphanInv ==
    /\ IsFiniteSet(Orphans)
    /\ Cardinality(Orphans) + Cardinality(Waiting(calls))
          + (IF pc = "connecting" THEN 1 ELSE 0) <= connects

\* There are finitely many requests in a queue.
LEMMA WaitingFinite ==
    ASSUME NEW q \in Seq(Requests)
    PROVE  IsFiniteSet(Waiting(q)) /\ Cardinality(Waiting(q)) \in Nat
  <1>1. Len(q) \in Nat
    BY LenProperties
  <1>2. IsFiniteSet(1 .. Len(q))
    BY <1>1, FS_Interval
  <1>3. Waiting(q) \in SUBSET (1 .. Len(q))
    BY DEF Waiting
  <1>4. IsFiniteSet(Waiting(q))
    BY <1>2, <1>3, FS_Subset
  <1>5. QED
    BY <1>4, FS_CardinalityType

\* A request to connect that is posted adds one.
LEMMA WaitingAppend ==
    ASSUME NEW q \in Seq(Requests), NEW e \in Requests
    PROVE  Cardinality(Waiting(Append(q, e)))
              = Cardinality(Waiting(q)) + (IF e = "connect" THEN 1 ELSE 0)
  <1> DEFINE n == Len(q)
  <1>1. /\ n \in Nat /\ Len(Append(q, e)) = n + 1 /\ Append(q, e)[n + 1] = e
        /\ \A i \in 1 .. n : Append(q, e)[i] = q[i]
    BY LenProperties, AppendProperties
  <1> HIDE DEF n
  <1>2. Waiting(q) = {i \in 1 .. n : q[i] = "connect"} /\ n + 1 \notin Waiting(q)
    BY <1>1 DEF Waiting, n
  <1>3. \A i : i \in 1 .. n + 1 <=> i \in 1 .. n \/ i = n + 1
    BY <1>1
  <1>4. Waiting(Append(q, e)) = IF e = "connect" THEN Waiting(q) \cup {n + 1} ELSE Waiting(q)
    BY <1>1, <1>2, <1>3 DEF Waiting
  <1>5. IsFiniteSet(Waiting(q)) /\ Cardinality(Waiting(q)) \in Nat
    BY WaitingFinite
  <1>6. Cardinality(Waiting(q) \cup {n + 1}) = Cardinality(Waiting(q)) + 1
    BY <1>2, <1>5, FS_AddElement
  <1>7. QED
    BY <1>4, <1>5, <1>6

\* The request at the head of the queue is one of those that wait.
LEMMA WaitingTail ==
    ASSUME NEW q \in Seq(Requests), q # <<>>
    PROVE  Cardinality(Waiting(Tail(q)))
              = Cardinality(Waiting(q)) - (IF Head(q) = "connect" THEN 1 ELSE 0)
  <1> DEFINE n == Len(q)
             W == Waiting(Tail(q))
             V == Waiting(q) \ {1}
             f == [i \in W |-> i + 1]
  <1>1. /\ n \in Nat /\ n >= 1 /\ Tail(q) \in Seq(Requests) /\ Len(Tail(q)) = n - 1
        /\ \A i \in 1 .. n - 1 : Tail(q)[i] = q[i + 1]
        /\ Head(q) = q[1]
    BY LenProperties, HeadTailProperties
  <1>2. W = {i \in 1 .. n - 1 : q[i + 1] = "connect"}
    BY <1>1 DEF Waiting
  <1>3. V = {i \in 2 .. n : q[i] = "connect"}
    BY <1>1 DEF Waiting
  <1>4. IsFiniteSet(W)
    BY <1>1, WaitingFinite
  <1> HIDE DEF n, W, V
  <1>5. ExistsBijection(W, V)
    <2>1. f \in [W -> V]
      BY <1>1, <1>2, <1>3
    <2>2. IsInjective(f)
      BY <1>1, <1>2 DEF IsInjective
    <2>3. \A v \in V : \E w \in W : f[w] = v
      <3> SUFFICES ASSUME NEW v \in V PROVE \E w \in W : f[w] = v
        OBVIOUS
      <3>1. v - 1 \in W /\ f[v - 1] = v
        BY <1>1, <1>2, <1>3
      <3>2. QED
        BY <3>1
    <2> HIDE DEF f
    <2>4. QED
      BY <2>1, <2>2, <2>3 DEF ExistsBijection, Bijection, Injection, Surjection
  <1>6. Cardinality(V) = Cardinality(W)
    BY <1>4, <1>5, FS_Bijection
  <1>7. 1 \in Waiting(q) <=> Head(q) = "connect"
    BY <1>1 DEF Waiting, n
  <1>8. Cardinality(V) = Cardinality(Waiting(q)) - (IF Head(q) = "connect" THEN 1 ELSE 0)
    <2>1. IsFiniteSet(Waiting(q)) /\ Cardinality(Waiting(q)) \in Nat
      BY WaitingFinite
    <2>2. Cardinality(Waiting(q) \ {1})
             = IF 1 \in Waiting(q) THEN Cardinality(Waiting(q)) - 1 ELSE Cardinality(Waiting(q))
      BY <2>1, FS_RemoveElement
    <2>3. QED
      BY <1>7, <2>1, <2>2 DEF V
  <1>9. QED
    BY <1>6, <1>8 DEF W

\* A new client has forgotten no timer.
LEMMA InitOrphans == Init => OrphanInv
  <1> SUFFICES ASSUME Init PROVE OrphanInv
    OBVIOUS
  <1>1. Orphans = {} /\ Waiting(calls) = {}
    BY DEF Init, Orphans, Waiting
  <1>2. QED
    BY <1>1, FS_EmptySet DEF Init, OrphanInv

\* The attempt under way, as a number.
Attempt == IF pc = "connecting" THEN 1 ELSE 0

\* What the sums are made of.
LEMMA OrphanNumbers ==
    ASSUME ClientInv, OrphanInv
    PROVE  /\ connects \in Nat /\ calls \in Seq(Requests)
           /\ Cardinality(Waiting(calls)) \in Nat /\ Cardinality(Orphans) \in Nat
           /\ Attempt \in {0, 1}
           /\ Cardinality(Orphans) + Cardinality(Waiting(calls)) + Attempt <= connects
  <1>1. connects \in Nat /\ calls \in Seq(Requests)
    BY TcpClientAssumption DEF ClientInv, TypeOK, Requests
  <1>2. Cardinality(Waiting(calls)) \in Nat
    BY <1>1, WaitingFinite
  <1>3. Cardinality(Orphans) \in Nat
    BY FS_CardinalityType DEF OrphanInv
  <1>4. QED
    BY <1>1, <1>2, <1>3 DEF OrphanInv, Attempt

\* A step that forgets no timer.
LEMMA NoneForgotten ==
    ASSUME ClientInv, OrphanInv, Orphans' = Orphans, connects' \in Nat,
           Cardinality(Waiting(calls')) \in Nat,
           Cardinality(Waiting(calls')) + Attempt' + connects
              <= Cardinality(Waiting(calls)) + Attempt + connects'
    PROVE  OrphanInv'
  <1>1. Attempt' \in {0, 1}
    BY DEF Attempt
  <1>2. Cardinality(Orphans) + Cardinality(Waiting(calls')) + Attempt' <= connects'
    BY <1>1, OrphanNumbers
  <1>3. QED
    BY <1>2 DEF OrphanInv, Attempt

\* A failed attempt may forget one timer.
LEMMA OneForgotten ==
    ASSUME ClientInv, OrphanInv, NEW id, Orphans' = Orphans \cup {id},
           pc = "connecting", pc' = "idle", UNCHANGED <<calls, connects>>
    PROVE  OrphanInv'
  <1>1. IsFiniteSet(Orphans')
    BY FS_AddElement DEF OrphanInv
  <1>2. Cardinality(Orphans') = Cardinality(Orphans) \/ Cardinality(Orphans') = Cardinality(Orphans) + 1
    BY FS_AddElement DEF OrphanInv
  <1>3. Attempt = 1 /\ Attempt' = 0
    BY DEF Attempt
  <1>4. Cardinality(Orphans') + Cardinality(Waiting(calls)) + Attempt' <= connects
    BY <1>2, <1>3, OrphanNumbers
  <1>5. QED
    BY <1>1, <1>4 DEF OrphanInv, Attempt

\* No step leaves more forgotten timers than requests.
LEMMA NextOrphans == ClientInv /\ OrphanInv /\ [Next]_vars => OrphanInv'
  <1> SUFFICES ASSUME ClientInv, OrphanInv, [Next]_vars PROVE OrphanInv'
    OBVIOUS
  <1>0. /\ timers \subseteq TimerIds /\ 0 \notin TimerIds
        /\ calls \in Seq(Requests) /\ connects \in Nat
        /\ Cardinality(Waiting(calls)) \in Nat /\ Attempt \in {0, 1}
    BY TcpClientAssumption, OrphanNumbers DEF ClientInv, TypeOK
  <1>1. CASE UNCHANGED <<timers, m_reconnectTimer, calls, connects>> /\ (pc' = pc \/ pc' # "connecting")
    BY <1>0, <1>1, NoneForgotten DEF Orphans, Attempt
  <1>2. CASE connectToHostAsync
    <2>1. Cardinality(Waiting(calls')) = Cardinality(Waiting(calls)) + 1
      BY <1>0, <1>2, WaitingAppend DEF connectToHostAsync, Requests
    <2>2. connects' = connects + 1 /\ Orphans' = Orphans /\ Attempt' = Attempt
      BY <1>2 DEF connectToHostAsync, clientVars, Orphans, Attempt
    <2>3. QED
      BY <1>0, <2>1, <2>2, NoneForgotten
  <1>3. CASE disconnectFromHostAsync
    <2>1. Cardinality(Waiting(calls')) = Cardinality(Waiting(calls))
      BY <1>0, <1>3, WaitingAppend DEF disconnectFromHostAsync, Requests
    <2>2. connects' = connects /\ Orphans' = Orphans /\ Attempt' = Attempt
      BY <1>3 DEF disconnectFromHostAsync, clientVars, envVars, Orphans, Attempt
    <2>3. QED
      BY <1>0, <2>1, <2>2, NoneForgotten
  <1>4. CASE connectToHostInternalSlot
    <2>1. calls # <<>> /\ calls' = Tail(calls) /\ Head(calls) = "connect"
      BY <1>4 DEF connectToHostInternalSlot, NextCall
    <2>2. Cardinality(Waiting(calls')) = Cardinality(Waiting(calls)) - 1
      BY <1>0, <2>1, WaitingTail
    <2>3. calls' \in Seq(Requests)
      BY <1>0, <2>1, HeadTailProperties
    <2>4. Cardinality(Waiting(calls')) \in Nat
      BY <2>3, WaitingFinite
    <2>5. connects' = connects /\ Orphans' = Orphans /\ Attempt = 0 /\ Attempt' \in {0, 1}
      BY <1>0, <1>4 DEF connectToHostInternalSlot, killTimerSlot, NextCall, envVars, Orphans, Attempt
    <2>6. QED
      BY <1>0, <2>2, <2>4, <2>5, NoneForgotten
  <1>5. CASE disconnectFromHostInternalSlot
    <2>1. calls # <<>> /\ calls' = Tail(calls) /\ Head(calls) # "connect"
      BY <1>5 DEF disconnectFromHostInternalSlot, NextCall
    <2>2. Cardinality(Waiting(calls')) = Cardinality(Waiting(calls))
      BY <1>0, <2>1, WaitingTail
    <2>3. connects' = connects /\ Orphans' = Orphans /\ Attempt' = Attempt
      BY <1>0, <1>5 DEF disconnectFromHostInternalSlot, killTimerSlot, envVars, Orphans, Attempt
    <2>4. QED
      BY <1>0, <2>2, <2>3, NoneForgotten
  <1>6. CASE connectWaitOver
    <2>1. /\ pc = "connecting" /\ pc' = "idle" /\ UNCHANGED <<calls, connects>>
          /\ m_reconnectTimer = 0
      BY <1>6 DEF connectWaitOver, envVars, ClientInv, TimerAlways
    <2>2. Attempt = 1 /\ Attempt' = 0 /\ Orphans = timers
      BY <1>0, <2>1 DEF Attempt, Orphans
    <2>3. CASE Orphans' = Orphans
      BY <1>0, <2>1, <2>2, <2>3, NoneForgotten
    <2>4. CASE Orphans' # Orphans
      <3>1. failedAttempt
        BY <1>0, <1>6, <2>1, <2>2, <2>4 DEF connectWaitOver, onSocketConnected, killTimerSlot, Orphans
      <3>2. \E id : Orphans' = Orphans \cup {id}
        BY <2>2, <2>4, <3>1 DEF failedAttempt, startReconnectTimer, Orphans
      <3>3. QED
        BY <2>1, <3>2, OneForgotten
    <2>5. QED
      BY <2>3, <2>4
  <1>7. CASE reconnectWaitOver
    <2>1. m_reconnectTimer # 0 /\ pc' = "idle" /\ UNCHANGED <<calls, connects>>
      BY <1>7 DEF reconnectWaitOver, envVars, ClientInv, TimerAlways, SocketFollowsPc
    <2>2. Orphans' = Orphans /\ Attempt' = 0
      BY <1>0, <1>7, <2>1 DEF reconnectWaitOver, onSocketConnected, onSocketDisplayError,
         killTimerSlot, Orphans, Attempt
    <2>3. QED
      BY <1>0, <2>1, <2>2, NoneForgotten
  <1>8. CASE connectionLost
    <2>1. m_reconnectTimer = 0 /\ UNCHANGED <<pc, calls, connects>>
      BY <1>8 DEF connectionLost, envVars, ClientInv, TimerAlways
    <2>2. Orphans' = Orphans /\ Attempt' = Attempt
      BY <1>0, <1>8, <2>1 DEF connectionLost, onSocketDisplayError, startReconnectTimer, Orphans, Attempt
    <2>3. QED
      BY <1>0, <2>1, <2>2, NoneForgotten
  <1>9. CASE (\E id \in TimerIds : timerEvent(id) \/ timerEventIgnored(id)) \/ PeerChanges \/ PeerCloses
              \/ UNCHANGED vars
    BY <1>1, <1>9 DEF timerEvent, timerEventIgnored, PeerChanges, PeerCloses, vars, clientVars, envVars
  <1>10. QED
    BY <1>2, <1>3, <1>4, <1>5, <1>6, <1>7, <1>8, <1>9 DEF Next, Thread

\* Timers whose id was overwritten never outnumber the requests to connect, however
\* long the reconnect timer goes on.
THEOREM OrphansStayBounded == Spec => []OrphansBounded
  <1>1. ClientInv /\ OrphanInv => OrphansBounded
    <2> SUFFICES ASSUME ClientInv, OrphanInv PROVE Cardinality(Orphans) <= connects
      BY DEF OrphansBounded, Orphans
    <2>1. QED
      BY OrphanNumbers
  <1>2. QED
    BY <1>1, InitOrphans, NextOrphans, AlwaysClientInv, PTL DEF Spec

----------------------------------------------------------------------------
\* Refinement of Link.

\* A closed, unwanted link refines the abstract initial state.
LEMMA InitRefinesLink == Init => Controllers!Init
  BY DEF Init, Controllers!Init

\* Every event of the client is an event of the link or goes unnoticed.
LEMMA NextRefinesLink ==
    ASSUME ClientInv, [Next]_vars
    PROVE  [Controllers!Next]_(Controllers!vars)
  <1> DEFINE up == m_open /\ m_tcpSocket = "Connected"
  <1> USE DEF ClientInv
  <1>1. CASE UNCHANGED <<m_open, m_tcpSocket, status, wanted>>
    BY <1>1 DEF Controllers!vars
  <1>2. CASE connectToHostInternalSlot
    <2>1. UNCHANGED <<m_open, status>> /\ wanted' = TRUE
      BY <1>2 DEF connectToHostInternalSlot
    <2>2. up' = up
      BY <1>2 DEF connectToHostInternalSlot, StatusAlwaysTrue
    <2>3. Controllers!Want
      BY <2>1, <2>2 DEF Controllers!Want
    <2>4. QED
      BY <2>3 DEF Controllers!Next
  <1>3. CASE connectWaitOver
    <2>1. ~up /\ wanted /\ wanted' = wanted /\ m_open = FALSE
      BY <1>3 DEF connectWaitOver, SocketFollowsPc, TimerAlways, StatusAlwaysTrue, TypeOK
    <2>2. CASE remote = "up"
      <3>1. up' = TRUE /\ status' = "Connected"
        BY <1>3, <2>2 DEF connectWaitOver, onSocketConnected
      <3>2. Controllers!Establish
        BY <2>1, <3>1 DEF Controllers!Establish
      <3>3. QED
        BY <3>2 DEF Controllers!Next
    <2>3. CASE remote # "up"
      <3>1. up' = FALSE /\ status' = "Disconnected"
        BY <1>3, <2>3 DEF connectWaitOver
      <3>2. Controllers!Fail
        BY <2>1, <3>1 DEF Controllers!Fail
      <3>3. QED
        BY <3>2 DEF Controllers!Next
    <2>4. QED
      BY <2>2, <2>3
  <1>4. CASE disconnectFromHostInternalSlot
    <2>1. wanted' = FALSE /\ up' = FALSE
      BY <1>4 DEF disconnectFromHostInternalSlot
    <2>2. status' = IF up THEN "Disconnected" ELSE status
      BY <1>4 DEF disconnectFromHostInternalSlot, onSocketDisconnected, StatusAlwaysTrue
    <2>3. Controllers!Unwant
      BY <2>1, <2>2 DEF Controllers!Unwant
    <2>4. QED
      BY <2>3 DEF Controllers!Next
  <1>5. ASSUME NEW id \in TimerIds, timerEvent(id)
        PROVE  [Controllers!Next]_(Controllers!vars)
    <2>1. up' = up /\ UNCHANGED <<wanted, status>>
      BY <1>5 DEF timerEvent
    <2>2. QED
      BY <2>1 DEF Controllers!vars
  <1>6. CASE reconnectWaitOver
    <2>1. ~up /\ wanted /\ wanted' = wanted /\ m_open = FALSE
      BY <1>6 DEF reconnectWaitOver, SocketFollowsPc, TimerAlways, StatusAlwaysTrue, TypeOK
    <2>2. CASE remote = "up" /\ onSocketConnected
      <3>1. up' = TRUE /\ status' = "Connected"
        BY <2>2 DEF onSocketConnected
      <3>2. Controllers!Establish
        BY <2>1, <3>1 DEF Controllers!Establish
      <3>3. QED
        BY <3>2 DEF Controllers!Next
    <2>3. CASE m_tcpSocket' = "Unconnected" /\ status' = status
      BY <2>1, <2>3 DEF Controllers!vars
    <2>4. QED
      BY <1>6, <2>2, <2>3 DEF reconnectWaitOver
  <1>7. CASE connectionLost
    <2>1. up /\ up' = FALSE /\ status' = "Disconnected" /\ wanted' = wanted
      BY <1>7 DEF connectionLost, onSocketDisconnected, StatusAlwaysTrue
    <2>2. Controllers!Lose
      BY <2>1 DEF Controllers!Lose
    <2>3. QED
      BY <2>2 DEF Controllers!Next
  <1>8. QED
    BY <1>1, <1>2, <1>3, <1>4, <1>5, <1>6, <1>7
       DEF Next, Thread, vars, clientVars, connectToHostAsync, disconnectFromHostAsync,
           timerEventIgnored, PeerChanges, PeerCloses

\* The client implements the link its controllers rely on: it comes up only
\* while it is wanted, and they are told of exactly its changes.
THEOREM ClientImplementsLink == Spec => ImplementsLink
  <1>1. Init => Controllers!Init
    BY InitRefinesLink
  <1>2. ClientInv /\ [Next]_vars => [Controllers!Next]_(Controllers!vars)
    BY NextRefinesLink
  <1>3. QED
    BY <1>1, <1>2, AlwaysClientInv, PTL DEF Spec, ImplementsLink, Controllers!Spec
==============================================================================
