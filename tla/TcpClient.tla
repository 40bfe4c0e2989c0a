------------------------------- MODULE TcpClient -------------------------------
(***************************************************************************)
(* BaseTcpClient of CISCommonLib: the connection management of every TCP    *)
(* device of the server (KTR, NIIPP, AIS, ARM-R).  The client owns a socket *)
(* and a reconnect timer and lives in its controller's thread.  Other       *)
(* threads only post requests to it (connectToHostAsync,                    *)
(* disconnectFromHostAsync); the thread runs them between socket events and *)
(* timer events.  An attempt to connect blocks the thread in                *)
(* waitForConnected(1000), during which the peer may change and requests    *)
(* may be posted: that is the pc "connecting" or "reconnecting".            *)
(*                                                                         *)
(* QTcpSocket (external): an attempt succeeds, is refused (error signal) or *)
(* times out (with the error signal or without it, as the version of Qt has *)
(* it); a connection closed by the peer gives error and then disconnected.  *)
(* Qt hands out any timer id that is not running.                           *)
(***************************************************************************)
EXTENDS Integers, Sequences, FiniteSets

CONSTANTS TimerIds,      \* ids startTimer() can return; 0 is none of them
          MaxCalls,      \* bound: requests waiting in the event queue
          MaxConnects    \* bound: connectToHost requests in a run

ASSUME TcpClientAssumption ==
    /\ TimerIds \subseteq Nat \ {0}
    /\ MaxCalls \in Nat
    /\ MaxConnects \in Nat

VARIABLES m_tcpSocket,       \* socket state
          m_open,            \* QIODevice::isOpen()
          m_reconnectTimer,  \* id of the current reconnect timer, or 0
          timers,            \* timers of the object that are running
          status,            \* last signalConnectedToHost
          calls,             \* requests posted to the client's thread
          pc,                \* what the thread is blocked in
          wanted,            \* the last request served was to connect
          connects,          \* connect requests so far
          remote,            \* does the peer accept, refuse or not answer
          peerClosed         \* the peer closed the current connection

clientVars == <<m_tcpSocket, m_open, m_reconnectTimer, timers, status, pc, wanted>>
envVars == <<connects, remote>>
vars == <<clientVars, calls, connects, remote, peerClosed>>

TypeOK ==
    /\ m_tcpSocket \in {"Unconnected", "Connecting", "Connected"}
    /\ m_open \in BOOLEAN
    /\ m_reconnectTimer \in TimerIds \cup {0}
    /\ timers \subseteq TimerIds
    /\ status \in {"none", "Connected", "Disconnected"}
    /\ calls \in Seq({"connect", "disconnect"})
    /\ pc \in {"idle", "connecting", "reconnecting"}
    /\ wanted \in BOOLEAN
    /\ connects \in 0 .. MaxConnects
    /\ remote \in {"up", "down", "silent"}
    /\ peerClosed \in BOOLEAN

Init ==
    /\ m_tcpSocket = "Unconnected" /\ m_open = FALSE
    /\ m_reconnectTimer = 0 /\ timers = {}
    /\ status = "none"
    /\ calls = <<>>
    /\ pc = "idle"
    /\ wanted = FALSE
    /\ connects = 0
    /\ remote \in {"up", "down", "silent"}
    /\ peerClosed = FALSE

----------------------------------------------------------------------------
\* The slots that the socket's signals call directly.

\* Mutant: no timer is written as -1.
killTimerSlotUnknown ==
    /\ timers' = timers \ {m_reconnectTimer}
    /\ m_reconnectTimer' = -1

killTimerSlot ==
    /\ timers' = timers \ {m_reconnectTimer}
    /\ m_reconnectTimer' = 0

\* startTimer(): its id overwrites whatever m_reconnectTimer held.
startReconnectTimer ==
    \E id \in TimerIds \ timers :
        /\ timers' = timers \cup {id}
        /\ m_reconnectTimer' = id

onSocketConnected ==
    /\ m_tcpSocket' = "Connected"
    /\ killTimerSlot
    /\ m_open' = TRUE
    /\ status' = "Connected"

\* Mutant: a lost connection starts no timer.
onSocketDisplayErrorNoTimer ==
    /\ m_open' = FALSE
    /\ UNCHANGED <<timers, m_reconnectTimer>>

\* Mutant: starts a timer on every error.
onSocketDisplayErrorAlways == m_open' = FALSE /\ startReconnectTimer

onSocketDisplayError ==
    /\ m_open' = FALSE
    /\ IF m_reconnectTimer = 0
       THEN startReconnectTimer
       ELSE UNCHANGED <<timers, m_reconnectTimer>>

\* Mutant: closes silently.
onSocketDisconnectedSilent == m_open' = FALSE /\ status' = status

onSocketDisconnected ==
    /\ m_open' = FALSE
    /\ status' = "Disconnected"

----------------------------------------------------------------------------
\* Requests, from any thread.

connectToHostAsync ==
    /\ Len(calls) < MaxCalls /\ connects < MaxConnects
    /\ calls' = Append(calls, "connect")
    /\ connects' = connects + 1
    /\ UNCHANGED <<clientVars, remote, peerClosed>>

disconnectFromHostAsync ==
    /\ Len(calls) < MaxCalls
    /\ calls' = Append(calls, "disconnect")
    /\ UNCHANGED <<clientVars, envVars, peerClosed>>

----------------------------------------------------------------------------
\* The client's thread.

NextCall(call) ==
    /\ pc = "idle" /\ calls # <<>> /\ Head(calls) = call
    /\ calls' = Tail(calls)

\* connectToHostInternalSlot() up to waitForConnected(): QTcpSocket ignores
\* connectToHost() when it is connected, and the wait then succeeds at once.
connectToHostInternalSlot ==
    /\ NextCall("connect")
    /\ wanted' = TRUE
    /\ killTimerSlot
    /\ IF m_tcpSocket = "Unconnected"
       THEN m_tcpSocket' = "Connecting" /\ pc' = "connecting"
       ELSE UNCHANGED <<m_tcpSocket, pc>>
    /\ UNCHANGED <<m_open, status, envVars, peerClosed>>

\* Mutant: a failed attempt is left to the error slot alone, which need not be
\* called when the attempt times out.
failedAttemptNoTimer ==
    \/ onSocketDisplayError
    \/ remote = "silent" /\ UNCHANGED <<m_open, timers, m_reconnectTimer>>

\* The branch !waitForConnected().  When the socket signals the error,
\* onSocketDisplayError() has already started a timer; the branch starts
\* another one and forgets the id of the first, which keeps running.
failedAttempt ==
    \/ /\ m_open' = FALSE
       /\ \E id1, id2 \in TimerIds \ timers :
              /\ id1 # id2
              /\ timers' = timers \cup {id1, id2}
              /\ m_reconnectTimer' = id2
    \/ /\ remote = "silent"
       /\ startReconnectTimer
       /\ UNCHANGED m_open

\* The rest of connectToHostInternalSlot(), once the wait is over.
connectWaitOver ==
    /\ pc = "connecting"
    /\ pc' = "idle"
    /\ IF remote = "up"
       THEN onSocketConnected
       ELSE /\ m_tcpSocket' = "Unconnected"
            /\ status' = "Disconnected"
            /\ failedAttempt
    /\ UNCHANGED <<wanted, calls, envVars, peerClosed>>

\* close() is QTcpSocket::abort(), which signals disconnected only when there
\* was a connection.
disconnectFromHostInternalSlot ==
    /\ NextCall("disconnect")
    /\ wanted' = FALSE
    /\ killTimerSlot
    /\ m_tcpSocket' = "Unconnected"
    /\ IF m_tcpSocket = "Connected"
       THEN onSocketDisconnected
       ELSE m_open' = FALSE /\ UNCHANGED status
    /\ peerClosed' = FALSE
    /\ UNCHANGED <<pc, envVars>>

\* Mutant: any running timer reconnects, the orphans too.
isReconnectTimerAny(id) == TRUE

isReconnectTimer(id) == id = m_reconnectTimer

\* timerEvent() and onSocketReconnectSlot() up to waitForConnected().
timerEvent(id) ==
    /\ pc = "idle"
    /\ id \in timers
    /\ isReconnectTimer(id)
    /\ m_tcpSocket = "Unconnected"
    /\ m_open' = FALSE
    /\ m_tcpSocket' = "Connecting"
    /\ pc' = "reconnecting"
    /\ UNCHANGED <<m_reconnectTimer, timers, status, wanted, calls, envVars, peerClosed>>

\* A tick of a timer that is not the current one, or while the socket is not
\* unconnected, changes nothing.
timerEventIgnored(id) ==
    /\ pc = "idle"
    /\ id \in timers
    /\ ~isReconnectTimer(id) \/ m_tcpSocket # "Unconnected"
    /\ UNCHANGED vars

\* The end of onSocketReconnectSlot(): the repeating timer is still running
\* when the attempt failed.
reconnectWaitOver ==
    /\ pc = "reconnecting"
    /\ pc' = "idle"
    /\ \/ remote = "up" /\ onSocketConnected
       \/ /\ remote # "up"
          /\ onSocketDisplayError
          /\ m_tcpSocket' = "Unconnected" /\ UNCHANGED status
       \/ /\ remote = "silent"
          /\ m_tcpSocket' = "Unconnected"
          /\ UNCHANGED <<m_open, m_reconnectTimer, timers, status>>
    /\ UNCHANGED <<wanted, calls, envVars, peerClosed>>

\* The peer closed the connection: error, then disconnected.
connectionLost ==
    /\ pc = "idle"
    /\ m_tcpSocket = "Connected" /\ peerClosed
    /\ m_tcpSocket' = "Unconnected"
    /\ onSocketDisplayError
    /\ onSocketDisconnected
    /\ peerClosed' = FALSE
    /\ UNCHANGED <<pc, wanted, calls, envVars>>

----------------------------------------------------------------------------
\* The peer: it comes and goes and may close a connection at any time; a peer
\* that stops answers nothing, not even with a close.

PeerChanges ==
    /\ remote' \in {"up", "down", "silent"} \ {remote}
    /\ peerClosed' = (peerClosed \/ (remote' = "down" /\ m_tcpSocket = "Connected"))
    /\ UNCHANGED <<clientVars, calls, connects>>

PeerCloses ==
    /\ m_tcpSocket = "Connected" /\ ~peerClosed
    /\ peerClosed' = TRUE
    /\ UNCHANGED <<clientVars, calls, envVars>>

Thread ==
    \/ connectToHostInternalSlot
    \/ connectWaitOver
    \/ disconnectFromHostInternalSlot
    \/ \E id \in TimerIds : timerEvent(id)
    \/ reconnectWaitOver
    \/ connectionLost

Next ==
    \/ connectToHostAsync
    \/ disconnectFromHostAsync
    \/ Thread
    \/ \E id \in TimerIds : timerEventIgnored(id)
    \/ PeerChanges
    \/ PeerCloses

Spec == Init /\ [][Next]_vars

\* The thread's event loop delivers every event that is there: a posted
\* request, the end of a wait, a socket event, a tick of a running timer.
Fairness ==
    /\ WF_vars(connectToHostInternalSlot)
    /\ WF_vars(connectWaitOver)
    /\ WF_vars(disconnectFromHostInternalSlot)
    /\ \A id \in TimerIds : WF_vars(timerEvent(id))
    /\ WF_vars(reconnectWaitOver)
    /\ WF_vars(connectionLost)

FairSpec == Spec /\ Fairness

----------------------------------------------------------------------------
\* Properties

\* Whenever the thread is between events, the socket, the QIODevice and the
\* last signalConnectedToHost agree: no controller believes in a link that is
\* down, none is left unaware of one that is up.
StatusIsTrue ==
    pc = "idle" =>
        /\ m_open <=> m_tcpSocket = "Connected"
        /\ status = "Connected" <=> m_tcpSocket = "Connected"

\* Between events a reconnect timer is running if and only if the link is wanted
\* and down: no path (refusal, timeout, lost connection, request) leaves a
\* wanted link without a next attempt, nor an attempt for a link that is up or
\* was given up.
TimerIffNeeded ==
    pc = "idle" =>
        /\ m_reconnectTimer # 0 <=> (wanted /\ m_tcpSocket = "Unconnected")
        /\ m_reconnectTimer # 0 => m_reconnectTimer \in timers

\* Timers whose id was overwritten (failedAttempt) are never more than the
\* explicit requests to connect: the attempts of the reconnect timer, which may
\* go on for days, leak none.
OrphansBounded ==
    Cardinality(timers \ {m_reconnectTimer}) <= connects

\* The link as the controllers see it.
Controllers == INSTANCE Link WITH up <- m_open /\ m_tcpSocket = "Connected",
                                  told <- status

\* The client implements the link: it comes up only while it is wanted, and
\* signalConnectedToHost reports exactly its changes.
ImplementsLink == Controllers!Spec

\* A peer that stays reachable gets its link back, again and again, whatever
\* went wrong before.
Reconnects ==
    <>[](remote = "up" /\ wanted) => []<>(m_tcpSocket = "Connected")

\* A connection the peer closed is reported to the controllers.
LossReported == peerClosed ~> status = "Disconnected"
==============================================================================
