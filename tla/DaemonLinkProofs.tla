-------------------------- MODULE DaemonLinkProofs --------------------------
(* Proofs about DaemonLink: the client's reconnect loop never stops and never *)
(* interferes with a connection that works, and the relay registers at most   *)
(* one socket, for any number of connections and failures.                    *)
EXTENDS DaemonLink, FiniteSetTheorems, TLAPS

\* The client's state is well formed; sockets are opened one after the other.
ClientTyped ==
  /\ closed \in BOOLEAN /\ timer \in BOOLEAN
  /\ sock \in 0..MaxSockets
  /\ cstate \in [Socket -> ReadyState]
  /\ \A s \in Socket : cstate[s] = "none" <=> s > sock

\* A timer is armed only for a socket, and never after close().
TimerNeedsSocket == timer => sock # 0 /\ ~closed

\* The inductive invariant of the client.
ClientInv == ClientTyped /\ TimerNeedsSocket /\ TimerOnlyForDeadSocket /\ RetryArmed

\* The client starts with no socket and no timer.
LEMMA InitClient == ASSUME LinkAssumption, Init PROVE ClientInv
<1>1. ~timer /\ ~closed /\ timer \in BOOLEAN /\ closed \in BOOLEAN /\ sock = 0
  BY DEF Init
<1>2. cstate = [s \in Socket |-> "none"]
  BY DEF Init
<1>3. ClientTyped
  BY <1>1, <1>2 DEF LinkAssumption, ClientTyped, Socket, ReadyState
<1>4. QED
  BY <1>1, <1>3 DEF ClientInv, TimerNeedsSocket, TimerOnlyForDeadSocket, RetryArmed

\* connect leaves the timer off and the new socket connecting.
LEMMA ConnectClient ==
  ASSUME LinkAssumption, ClientInv, Connect, timer' = FALSE
  PROVE ClientInv'
<1>1. ~timer' /\ timer' \in BOOLEAN /\ closed' \in BOOLEAN
  BY DEF Connect, ClientInv, ClientTyped
<1>2. sock' = sock + 1 /\ sock' \in Socket /\ sock' # 0
  BY DEF Connect, LinkAssumption, ClientInv, ClientTyped, Socket
<1>3. cstate'[sock'] = "connecting"
  BY <1>2 DEF Connect
<1>4. ClientTyped'
  BY <1>1, <1>2 DEF Connect, LinkAssumption, ClientInv, ClientTyped, Abandoned, Live, Socket, ReadyState
<1>5. QED
  BY <1>1, <1>3, <1>4 DEF ClientInv, TimerNeedsSocket, TimerOnlyForDeadSocket, RetryArmed

\* The error and close handlers: a socket that goes away arms a reconnect if it
\* is the current one, and is silent if it is not.
LEMMA DownClient ==
  ASSUME LinkAssumption, ClientInv, NEW s \in Socket, NEW r \in {"closing", "closed"},
         cstate[s] # "none", cstate' = [cstate EXCEPT ![s] = r], OnDown(s), UNCHANGED <<closed, sock>>
  PROVE ClientInv'
<1>1. timer' \in BOOLEAN /\ closed' \in BOOLEAN
  BY DEF OnDown, Armed, ClientInv, ClientTyped
<1>2. ClientTyped'
  BY <1>1 DEF LinkAssumption, ClientInv, ClientTyped, Socket, ReadyState
<1>3. CASE s = sock
  <2>1. timer' <=> timer \/ ~closed
    BY <1>3 DEF OnDown, Listening, Armed
  <2>2. sock' = sock /\ cstate'[sock'] = r /\ sock # 0
    BY <1>3 DEF ClientInv, ClientTyped, Socket
  <2>3. QED
    BY <1>2, <2>1, <2>2 DEF ClientInv, TimerNeedsSocket, TimerOnlyForDeadSocket, RetryArmed
<1>4. CASE s # sock
  <2>1. timer' = timer /\ closed' = closed /\ sock' = sock
    BY <1>4 DEF OnDown, Listening
  <2>2. sock # 0 => cstate'[sock] = cstate[sock]
    BY <1>4 DEF ClientInv, ClientTyped, Socket
  <2>3. QED
    BY <1>2, <2>1, <2>2 DEF ClientInv, TimerNeedsSocket, TimerOnlyForDeadSocket, RetryArmed
<1>5. QED BY <1>3, <1>4

\* A socket that opens or is told of a close was connecting or open.
LEMMA MoveClient ==
  ASSUME LinkAssumption, ClientInv, NEW s \in Socket, NEW r \in {"open", "closing"},
         Live(cstate[s]), cstate' = [cstate EXCEPT ![s] = r], UNCHANGED <<closed, sock, timer>>
  PROVE ClientInv'
BY DEF LinkAssumption, ClientInv, ClientTyped, TimerNeedsSocket, TimerOnlyForDeadSocket,
       RetryArmed, Live, Socket, ReadyState

\* close disarms the timer.
LEMMA CloseClient == ASSUME LinkAssumption, ClientInv, Close PROVE ClientInv'
BY DEF LinkAssumption, ClientInv, ClientTyped, TimerNeedsSocket, TimerOnlyForDeadSocket,
       RetryArmed, Close, Live, Socket, ReadyState

\* All that the relay, the network and PostgreSQL do leaves the client alone.
LEMMA ClientUntouched ==
  ASSUME ClientInv, UNCHANGED <<closed, timer, sock, cstate>>
  PROVE ClientInv'
BY DEF ClientInv, ClientTyped, TimerNeedsSocket, TimerOnlyForDeadSocket, RetryArmed

\* Every step keeps the client's part of the invariant.
LEMMA NextClient == ASSUME LinkAssumption, ClientInv, [Next]_vars PROVE ClientInv'
<1>1. CASE Start \/ ReconnectTimer
  <2>1. timer' = FALSE /\ Connect
    BY <1>1 DEF Start, ReconnectTimer, ClientInv, ClientTyped, TimerNeedsSocket
  <2>2. QED BY <2>1, ConnectClient
<1>2. CASE Close BY <1>2, CloseClient
<1>3. ASSUME NEW s \in Socket, ClientError(s) \/ ClientCloseEvent(s) PROVE ClientInv'
  BY <1>3, DownClient DEF ClientError, ClientCloseEvent, Live
<1>4. ASSUME NEW s \in Socket, Opened(s) \/ ClientSeesClose(s) PROVE ClientInv'
  BY <1>4, MoveClient DEF Opened, ClientSeesClose, Live
<1>5. ASSUME NEW s \in Socket, OnSubscribed(s) \/ RelayStep(s) \/ RelayError(s) \/ AuthTimeout(s)
                                 \/ BecomeSilent(s) \/ Cut(s)
      PROVE ClientInv'
  BY <1>5, ClientUntouched
     DEF OnSubscribed, RelayStep, HandleHello, HandleHeartbeat, RelaySeesClose, RelayCloseEvent,
         SweepDeadDaemons, RelayError, AuthTimeout, BecomeSilent, Cut, client
<1>6. CASE Heartbeat \/ RelayRestart \/ (\E w \in writes : Commit(w) \/ WriteFails(w)) \/ UNCHANGED vars
  BY <1>6, ClientUntouched DEF Heartbeat, RelayRestart, Commit, WriteFails, client, vars
<1>7. QED BY <1>1, <1>2, <1>3, <1>4, <1>5, <1>6 DEF Next, ClientStep

------------------------------------------------------------------------------

\* The relay's part of the invariant: the registry holds nothing, or one socket
\* that is not closed.
RelayInv ==
  /\ rstate \in [Socket -> ReadyState \ {"connecting"}]
  /\ registered = {} \/ \E s \in Socket : registered = {s} /\ rstate[s] \in {"open", "closing"}

\* It says what OneRegistered says, with sets for numbers.
LEMMA RelayInvEnough == ASSUME RelayInv PROVE OneRegistered
<1>1. Cardinality({}) = 0 /\ \A s \in Socket : Cardinality({s}) = 1
  BY FS_EmptySet, FS_Singleton
<1>2. QED BY <1>1, SMT DEF RelayInv, OneRegistered

\* The registry is empty when the relay starts.
LEMMA InitRelay == ASSUME Init PROVE RelayInv
BY DEF Init, RelayInv, ReadyState

\* A hello leaves its own socket alone in the registry (evictDaemonConnections).
LEMMA HelloRelay == ASSUME RelayInv, NEW s \in Socket, HandleHello(s) PROVE RelayInv'
<1>1. registered' = {s} /\ rstate[s] \in {"open", "closing"}
  BY DEF HandleHello, Registered
<1>2. rstate' \in [Socket -> ReadyState \ {"connecting"}] /\ rstate'[s] = rstate[s]
  BY DEF HandleHello, Registered, RelayInv, ReadyState
<1>3. QED BY <1>1, <1>2 DEF RelayInv

\* A socket that opens or starts to close may stay registered.
LEMMA ClosingRelay ==
  ASSUME RelayInv, NEW s \in Socket, NEW r \in {"open", "closing"},
         rstate' = [rstate EXCEPT ![s] = r], registered' \in {registered, registered \ {s}}
  PROVE RelayInv'
BY DEF RelayInv, ReadyState

\* A socket that is closed has left the registry (handleDisconnect).
LEMMA ClosedRelay == ASSUME RelayInv, NEW s \in Socket, RelayCloseEvent(s) PROVE RelayInv'
BY DEF RelayInv, ReadyState, RelayCloseEvent, Disconnected

\* A relay that comes back starts with an empty registry.
LEMMA RestartRelay == ASSUME RelayInv, RelayRestart PROVE RelayInv'
BY DEF RelayInv, ReadyState, RelayRestart

\* Every step keeps the relay's part of the invariant.
LEMMA NextRelay == ASSUME RelayInv, [Next]_vars PROVE RelayInv'
<1>1. ASSUME NEW s \in Socket, HandleHello(s) \/ RelayCloseEvent(s) PROVE RelayInv'
  BY <1>1, HelloRelay, ClosedRelay
<1>2. ASSUME NEW s \in Socket, Opened(s) PROVE RelayInv'
  <2>1. rstate' = [rstate EXCEPT ![s] = "open"] /\ registered' = registered BY <1>2 DEF Opened
  <2>2. QED BY <2>1, ClosingRelay
<1>3. ASSUME NEW s \in Socket, RelayError(s) \/ AuthTimeout(s) \/ RelaySeesClose(s) \/ SweepDeadDaemons(s)
      PROVE RelayInv'
  <2>1. rstate' = [rstate EXCEPT ![s] = "closing"] /\ registered' \in {registered, registered \ {s}}
    BY <1>3 DEF RelayError, AuthTimeout, RelaySeesClose, SweepDeadDaemons, Disconnected
  <2>2. QED BY <2>1, ClosingRelay
<1>4. CASE RelayRestart BY <1>4, RestartRelay
<1>5. ASSUME UNCHANGED <<rstate, registered>> PROVE RelayInv'
  BY <1>5 DEF RelayInv
<1>6. ASSUME NEW s \in Socket,
             ClientSeesClose(s) \/ ClientCloseEvent(s) \/ OnSubscribed(s) \/ HandleHeartbeat(s)
               \/ ClientError(s) \/ BecomeSilent(s) \/ Cut(s)
      PROVE UNCHANGED <<rstate, registered>>
  BY <1>6 DEF ClientSeesClose, ClientCloseEvent, OnSubscribed, HandleHeartbeat, ClientError,
              BecomeSilent, Cut, relay
<1>7. CASE Start \/ ReconnectTimer \/ Heartbeat \/ Close \/ (\E w \in writes : Commit(w) \/ WriteFails(w))
             \/ UNCHANGED vars
  BY <1>5, <1>7 DEF Start, ReconnectTimer, Connect, Heartbeat, Close, Commit, WriteFails, relay, vars
<1>8. QED BY <1>1, <1>2, <1>3, <1>4, <1>5, <1>6, <1>7 DEF Next, ClientStep, RelayStep

\* scheduleReconnect: the timer is armed only while the current socket is going
\* away, and a client that was not closed always has a way back;
\* evictDaemonConnections and handleDisconnect: at most one connection of the
\* daemon is registered, and it is not closed.
THEOREM LinkIsSound == ASSUME LinkAssumption PROVE Spec => []LinkSound
<1>1. ClientInv => TimerOnlyForDeadSocket /\ RetryArmed BY DEF ClientInv
<1>2. RelayInv => OneRegistered BY RelayInvEnough
<1>3. ClientInv /\ RelayInv => LinkSound BY <1>1, <1>2 DEF LinkSound
<1>4. QED BY <1>3, InitClient, NextClient, InitRelay, NextRelay, PTL DEF Spec

------------------------------------------------------------------------------

\* The types of the client, of the wire, of the relay, and of the rows and bounds.
ClientTypes ==
  /\ closed \in BOOLEAN /\ connected \in BOOLEAN /\ timer \in BOOLEAN /\ beating \in BOOLEAN
  /\ sock \in 0..MaxSockets /\ cstate \in [Socket -> ReadyState]

Frame == {"hello", "relay_heartbeat"}
WireTypes ==
  /\ cut \subseteq Socket /\ subscribed \subseteq Socket
  /\ toRelay \in [Socket -> Seq(Frame)]

RelayTypes ==
  /\ rstate \in [Socket -> ReadyState \ {"connecting"}]
  /\ greeted \subseteq Socket /\ registered \subseteq Socket /\ silent \subseteq registered

Op == {"ensureUser", "upsertDaemon", "updateDaemonHeartbeat", "setDaemonOffline"}
RowTypes ==
  /\ status \in {"absent", "online", "offline"} /\ writes \subseteq [op : Op, socket : Socket]
  /\ faults \in 0..MaxFaults /\ sweepRuns \in Wirings

\* A socket that sends heartbeats is one that was opened.
BeatingSocket == beating => sock # 0

LEMMA TypesAreTypeOK == TypeOK <=> ClientTypes /\ WireTypes /\ RelayTypes /\ RowTypes
BY DEF TypeOK, ClientTypes, WireTypes, RelayTypes, RowTypes, Frame, Op

LEMMA InitTypes == ASSUME LinkAssumption, Init PROVE TypeOK /\ BeatingSocket
<1>1. BeatingSocket /\ ClientTypes
  <2>1. ~closed /\ ~connected /\ ~timer /\ ~beating /\ closed \in BOOLEAN /\ connected \in BOOLEAN
        /\ timer \in BOOLEAN /\ beating \in BOOLEAN
    BY DEF Init
  <2>2. sock \in 0..MaxSockets /\ cstate \in [Socket -> ReadyState]
    BY DEF Init, LinkAssumption, ReadyState
  <2>3. QED BY <2>1, <2>2 DEF ClientTypes, BeatingSocket
<1>2. WireTypes
  BY DEF Init, WireTypes
<1>3. RelayTypes
  BY DEF Init, RelayTypes, ReadyState
<1>4. RowTypes
  BY DEF LinkAssumption, Init, RowTypes
<1>5. QED BY <1>1, <1>2, <1>3, <1>4, TypesAreTypeOK

LEMMA ClientTypesStep ==
  ASSUME LinkAssumption, ClientTypes, BeatingSocket, [Next]_vars
  PROVE  ClientTypes' /\ BeatingSocket'
<1> USE DEF ClientTypes, BeatingSocket
<1>1. CASE Start \/ ReconnectTimer
  <2>1. Connect /\ timer' \in BOOLEAN
    BY <1>1 DEF Start, ReconnectTimer
  <2>2. sock' = sock + 1 /\ sock < MaxSockets /\ UNCHANGED <<closed, connected, beating>>
    BY <2>1 DEF Connect
  <2>3. sock' \in 0..MaxSockets /\ sock' # 0
    BY <2>2 DEF LinkAssumption
  <2>4. cstate' \in [Socket -> ReadyState]
    BY <2>1 DEF Connect, Abandoned, ReadyState
  <2>5. QED BY <2>1, <2>2, <2>3, <2>4
<1>2. CASE Close
  BY <1>2 DEF Close, ReadyState, Socket, LinkAssumption
<1>3. ASSUME NEW s \in Socket, ClientError(s) \/ ClientCloseEvent(s)
      PROVE  ClientTypes' /\ BeatingSocket'
  BY <1>3 DEF ClientError, ClientCloseEvent, OnDown, Listening, Armed, ReadyState
<1>4. ASSUME NEW s \in Socket, Opened(s) \/ ClientSeesClose(s) \/ OnSubscribed(s)
      PROVE  ClientTypes' /\ BeatingSocket'
  <2>1. CASE Opened(s) \/ ClientSeesClose(s)
    BY <2>1 DEF Opened, ClientSeesClose, ReadyState
  <2>2. CASE OnSubscribed(s)
    <3>1. UNCHANGED <<closed, sock, cstate, timer>> /\ connected' \in BOOLEAN /\ beating' \in BOOLEAN
      BY <2>2 DEF OnSubscribed
    <3>2. beating' => beating \/ s = sock
      BY <2>2 DEF OnSubscribed, Listening
    <3>3. QED BY <3>1, <3>2 DEF Socket
  <2>3. QED BY <1>4, <2>1, <2>2
<1>5. ASSUME UNCHANGED client PROVE ClientTypes' /\ BeatingSocket'
  BY <1>5 DEF client
<1>6. ASSUME NEW s \in Socket, RelayStep(s) \/ RelayError(s) \/ AuthTimeout(s) \/ BecomeSilent(s) \/ Cut(s)
      PROVE  UNCHANGED client
  BY <1>6 DEF RelayStep, HandleHello, HandleHeartbeat, RelaySeesClose, RelayCloseEvent,
              SweepDeadDaemons, RelayError, AuthTimeout, BecomeSilent, Cut
<1>7. CASE Heartbeat \/ RelayRestart \/ (\E w \in writes : Commit(w) \/ WriteFails(w)) \/ UNCHANGED vars
  BY <1>5, <1>7 DEF Heartbeat, RelayRestart, Commit, WriteFails, vars
<1>8. QED BY <1>1, <1>2, <1>3, <1>4, <1>5, <1>6, <1>7 DEF Next, ClientStep

LEMMA WireTypesStep ==
  ASSUME LinkAssumption, ClientTypes, BeatingSocket, WireTypes, [Next]_vars
  PROVE  WireTypes'
<1> USE DEF WireTypes
<1>1. ASSUME NEW s \in Socket, NEW q \in Seq(Frame), toRelay' = [toRelay EXCEPT ![s] = q],
             cut' \subseteq Socket, subscribed' \subseteq Socket
      PROVE  WireTypes'
  BY <1>1
<1>2. CASE Heartbeat
  <2>1. sock \in Socket
    BY <1>2 DEF Heartbeat, ClientTypes, BeatingSocket, Socket, LinkAssumption
  <2>2. Append(toRelay[sock], "relay_heartbeat") \in Seq(Frame)
    BY <2>1 DEF Frame
  <2>3. QED BY <1>1, <1>2, <2>1, <2>2 DEF Heartbeat
<1>3. ASSUME NEW s \in Socket, Opened(s) PROVE WireTypes'
  <2>1. <<>> \in Seq(Frame) /\ <<"hello">> \in Seq(Frame)
    BY DEF Frame
  <2>2. QED BY <1>1, <1>3, <2>1 DEF Opened
<1>4. ASSUME NEW s \in Socket, HandleHello(s) \/ HandleHeartbeat(s) PROVE WireTypes'
  <2>1. Tail(toRelay[s]) \in Seq(Frame)
    BY <1>4 DEF HandleHello, HandleHeartbeat
  <2>2. cut' \subseteq Socket /\ subscribed' \subseteq Socket
    BY <1>4 DEF HandleHello, HandleHeartbeat
  <2>3. QED BY <1>1, <1>4, <2>1, <2>2 DEF HandleHello, HandleHeartbeat
<1>5. ASSUME NEW s \in Socket, RelayCloseEvent(s) \/ Cut(s) PROVE WireTypes'
  <2>1. <<>> \in Seq(Frame)
    OBVIOUS
  <2>2. QED BY <1>1, <1>5, <2>1 DEF RelayCloseEvent, Cut
<1>6. CASE RelayRestart
  BY <1>6 DEF RelayRestart
<1>7. ASSUME UNCHANGED cut, UNCHANGED toRelay, subscribed' \subseteq subscribed PROVE WireTypes'
  BY <1>7
<1>8. ASSUME NEW s \in Socket, ClientSeesClose(s) \/ ClientCloseEvent(s) \/ OnSubscribed(s)
               \/ ClientError(s) \/ RelaySeesClose(s) \/ SweepDeadDaemons(s) \/ RelayError(s)
               \/ AuthTimeout(s) \/ BecomeSilent(s)
      PROVE  WireTypes'
  BY <1>7, <1>8 DEF ClientSeesClose, ClientCloseEvent, OnSubscribed, ClientError, RelaySeesClose,
                    SweepDeadDaemons, RelayError, AuthTimeout, BecomeSilent, network
<1>9. CASE Start \/ ReconnectTimer \/ Close \/ (\E w \in writes : Commit(w) \/ WriteFails(w)) \/ UNCHANGED vars
  BY <1>7, <1>9 DEF Start, ReconnectTimer, Connect, Close, Commit, WriteFails, network, vars
<1>10. QED
  BY <1>2, <1>3, <1>4, <1>5, <1>6, <1>8, <1>9 DEF Next, ClientStep, RelayStep

LEMMA RelayTypesStep == ASSUME RelayTypes, [Next]_vars PROVE RelayTypes'
<1> USE DEF RelayTypes
<1>1. ASSUME NEW s \in Socket, HandleHello(s) PROVE RelayTypes'
  BY <1>1 DEF HandleHello, Registered, ReadyState
<1>2. ASSUME NEW s \in Socket, Opened(s) \/ HandleHeartbeat(s) \/ RelayCloseEvent(s) \/ RelaySeesClose(s)
               \/ SweepDeadDaemons(s) \/ RelayError(s) \/ AuthTimeout(s) \/ BecomeSilent(s)
      PROVE  RelayTypes'
  BY <1>2 DEF Opened, HandleHeartbeat, RelayCloseEvent, RelaySeesClose, SweepDeadDaemons, RelayError,
              AuthTimeout, BecomeSilent, Disconnected, StillSilent, ReadyState
<1>3. CASE RelayRestart
  BY <1>3 DEF RelayRestart, ReadyState
<1>4. ASSUME UNCHANGED relay PROVE RelayTypes'
  BY <1>4 DEF relay
<1>5. ASSUME NEW s \in Socket, ClientSeesClose(s) \/ ClientCloseEvent(s) \/ OnSubscribed(s) \/ ClientError(s)
               \/ Cut(s)
      PROVE  RelayTypes'
  BY <1>4, <1>5 DEF ClientSeesClose, ClientCloseEvent, OnSubscribed, ClientError, Cut
<1>6. CASE Start \/ ReconnectTimer \/ Heartbeat \/ Close \/ (\E w \in writes : Commit(w) \/ WriteFails(w))
             \/ UNCHANGED vars
  BY <1>4, <1>6 DEF Start, ReconnectTimer, Connect, Heartbeat, Close, Commit, WriteFails, vars
<1>7. QED BY <1>1, <1>2, <1>3, <1>5, <1>6 DEF Next, ClientStep, RelayStep

LEMMA RowTypesStep == ASSUME LinkAssumption, RowTypes, [Next]_vars PROVE RowTypes'
<1> USE DEF RowTypes
<1>1. Fault => faults' \in 0..MaxFaults /\ sweepRuns' = sweepRuns
  BY DEF Fault, LinkAssumption
<1>2. ASSUME NEW s \in Socket, NEW op \in Op PROVE Write(op, s) \subseteq [op : Op, socket : Socket]
  BY DEF Write
<1>3. ASSUME NEW s \in Socket, HandleHello(s) \/ HandleHeartbeat(s) \/ RelayCloseEvent(s) PROVE RowTypes'
  BY <1>2, <1>3 DEF HandleHello, HandleHeartbeat, RelayCloseEvent, Disconnected, Op, failures
<1>4. ASSUME NEW s \in Socket, RelayError(s) PROVE RowTypes'
  BY <1>2, <1>4 DEF RelayError, Disconnected, Op, failures
<1>5. ASSUME NEW w \in writes, Commit(w) \/ WriteFails(w) PROVE RowTypes'
  <2>1. w \in [op : Op, socket : Socket] /\ [w EXCEPT !.op = "upsertDaemon"] \in [op : Op, socket : Socket]
    BY DEF Op
  <2>2. w.op # "ensureUser" => StatusAfter(w.op) \in {"absent", "online", "offline"}
    BY <2>1 DEF StatusAfter, Op
  <2>3. QED BY <1>1, <1>5, <2>1, <2>2 DEF Commit, WriteFails, failures
<1>6. ASSUME UNCHANGED status, writes' \subseteq writes, Fault \/ UNCHANGED failures PROVE RowTypes'
  BY <1>1, <1>6 DEF failures
<1>7. ASSUME NEW s \in Socket, Opened(s) \/ ClientSeesClose(s) \/ ClientCloseEvent(s) \/ OnSubscribed(s)
               \/ RelaySeesClose(s) \/ SweepDeadDaemons(s) \/ ClientError(s) \/ AuthTimeout(s)
               \/ BecomeSilent(s) \/ Cut(s)
      PROVE  RowTypes'
  BY <1>6, <1>7 DEF Opened, ClientSeesClose, ClientCloseEvent, OnSubscribed, RelaySeesClose,
                    SweepDeadDaemons, ClientError, AuthTimeout, BecomeSilent, Cut, postgres
<1>8. CASE Start \/ ReconnectTimer \/ Heartbeat \/ Close \/ RelayRestart \/ UNCHANGED vars
  BY <1>6, <1>8 DEF Start, ReconnectTimer, Connect, Heartbeat, Close, RelayRestart, postgres, vars
<1>9. QED BY <1>3, <1>4, <1>5, <1>7, <1>8 DEF Next, ClientStep, RelayStep

\* Every variable keeps its type, for any number of sockets and failures; a
\* connection that is silent is one that is registered (sweepDeadDaemons).
THEOREM LinkTypes == ASSUME LinkAssumption PROVE Spec => []TypeOK
<1>1. TypeOK /\ BeatingSocket /\ [Next]_vars => TypeOK' /\ BeatingSocket'
  BY ClientTypesStep, WireTypesStep, RelayTypesStep, RowTypesStep, TypesAreTypeOK
     DEF TypeOK, ClientTypes, WireTypes, RelayTypes, RowTypes, Frame, Op
<1>2. QED BY <1>1, InitTypes, PTL DEF Spec
=============================================================================
