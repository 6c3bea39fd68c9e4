----------------------------- MODULE DaemonLink -----------------------------
(***************************************************************************)
(* The control connection of one daemon, seen from both its ends: the      *)
(* daemon's relay client, which reconnects for ever, the relay, which      *)
(* registers the daemon on hello and finds out by itself that it is gone,  *)
(* and the status column PostgreSQL keeps for it.  Each end learns of the  *)
(* other's close at a moment of its own, and of a connection that died     *)
(* without a close only by a failing write or by silence.                  *)
(*                                                                         *)
(* Daemons do not share any of this state, so one is enough.  Time is      *)
(* abstracted: the 30s heartbeat, the backoff, the 5s authentication and   *)
(* the 90s staleness timers may fire whenever they are armed.              *)
(***************************************************************************)
EXTENDS Integers, Sequences, FiniteSets

CONSTANTS
  Wirings,     \* the values sweepRuns may have
  MaxSockets,  \* bound: connections the daemon opens
  MaxFaults    \* bound: failures of the network, of PostgreSQL, of the relay

ASSUME LinkAssumption == Wirings \subseteq BOOLEAN /\ MaxSockets \in Nat /\ MaxFaults \in Nat

VARIABLES
  closed,      \* client: close() was called
  sock,        \* client: this.ws, the number of its latest socket
  cstate,      \* client: [socket -> readyState]
  connected,   \* client: connected
  timer,       \* client: reconnectTimer is armed
  beating,     \* client: heartbeatTimer is armed
  cut,         \* sockets whose path died without a close
  toRelay,     \* [socket -> frames under way to the relay]
  subscribed,  \* sockets with a relay_subscribed under way
  rstate,      \* relay: [socket -> readyState]
  greeted,     \* relay: sockets that are authenticated
  registered,  \* relay: sockets in this.daemons
  silent,      \* relay: registered sockets not heard of for 90s
  status,      \* PostgreSQL: daemons.status
  writes,      \* relay: writes to the daemon's row under way
  faults,      \* failures so far
  sweepRuns    \* listen and attachToServer start the presence sweep and the
               \* keepalive ping, attachToWss does not: never changes

client == <<closed, sock, cstate, connected, timer, beating>>
network == <<cut, toRelay, subscribed>>
relay == <<rstate, greeted, registered, silent>>
postgres == <<status, writes>>
failures == <<faults, sweepRuns>>
vars == <<client, network, relay, postgres, failures>>

Socket == 1..MaxSockets
Live(r) == r \in {"connecting", "open"}

Init ==
  /\ closed = FALSE /\ sock = 0 /\ connected = FALSE /\ timer = FALSE /\ beating = FALSE
  /\ cstate = [s \in Socket |-> "none"]
  /\ cut = {} /\ subscribed = {}
  /\ toRelay = [s \in Socket |-> <<>>]
  /\ rstate = [s \in Socket |-> "none"]
  /\ greeted = {} /\ registered = {} /\ silent = {}
  /\ status \in {"absent", "offline"} /\ writes = {}
  /\ faults = 0 /\ sweepRuns \in Wirings

\* A write to the daemon's row starts.
Write(op, s) == {[op |-> op, socket |-> s]}

Fault == faults < MaxFaults /\ faults' = faults + 1 /\ UNCHANGED sweepRuns

------------------------------------------------------------------------------
(* The daemon's client.  (An operator named as a slip of the code would read *)
(* is a mutant of the one after it.)                                         *)

\* removeAllListeners: only the latest socket's events are handled.
ListeningToAll(s) == sock # 0
Listening(s) == s = sock

\* connect: a new socket; the old one is abandoned, closed if it is not yet.
Abandoned(r) == IF Live(r) THEN "closing" ELSE r

Connect ==
  /\ sock < MaxSockets
  /\ sock' = sock + 1
  /\ cstate' = [s \in Socket |-> IF s = sock + 1 THEN "connecting"
                                 ELSE IF s = sock THEN Abandoned(cstate[s]) ELSE cstate[s]]
  /\ UNCHANGED <<closed, connected, beating, network, relay, postgres, failures>>

Start == sock = 0 /\ ~closed /\ Connect /\ UNCHANGED timer
ReconnectTimer == timer /\ timer' = FALSE /\ Connect

\* The close and error handlers of the current socket; scheduleReconnect keeps
\* a timer that is already armed.
Armed == timer \/ ~closed

OnDown(s) ==
  IF Listening(s)
  THEN connected' = FALSE /\ beating' = FALSE /\ timer' = Armed
  ELSE UNCHANGED <<connected, beating, timer>>

\* The upgrade completes and the open handler sends daemon_hello.
Opened(s) ==
  /\ cstate[s] = "connecting"
  /\ cstate' = [cstate EXCEPT ![s] = "open"]
  /\ rstate' = [rstate EXCEPT ![s] = "open"]
  /\ toRelay' = [toRelay EXCEPT ![s] = IF s \in cut THEN <<>> ELSE <<"hello">>]
  /\ UNCHANGED <<closed, sock, connected, timer, beating, cut, subscribed, greeted, registered,
                 silent, postgres, failures>>

\* The error event: the relay cannot be reached, the connection is reset, or a
\* write on a dead path times out.
ClientError(s) ==
  /\ Live(cstate[s])
  /\ \/ Fault
     \/ s \in cut /\ UNCHANGED failures
  /\ cstate' = [cstate EXCEPT ![s] = "closing"]
  /\ OnDown(s)
  /\ UNCHANGED <<closed, sock, network, relay, postgres>>

\* The relay's close arrives, after what it sent before.
ClientSeesClose(s) ==
  /\ cstate[s] = "open" /\ rstate[s] \in {"closing", "closed"}
  /\ s \notin cut /\ s \notin subscribed
  /\ cstate' = [cstate EXCEPT ![s] = "closing"]
  /\ UNCHANGED <<closed, sock, connected, timer, beating, network, relay, postgres, failures>>

ClientCloseEvent(s) ==
  /\ cstate[s] = "closing"
  /\ cstate' = [cstate EXCEPT ![s] = "closed"]
  /\ OnDown(s)
  /\ UNCHANGED <<closed, sock, network, relay, postgres, failures>>

OnSubscribed(s) ==
  /\ s \in subscribed
  /\ subscribed' = subscribed \ {s}
  /\ IF Listening(s) /\ cstate[s] = "open"
     THEN connected' = TRUE /\ beating' = TRUE
     ELSE UNCHANGED <<connected, beating>>
  /\ UNCHANGED <<closed, sock, cstate, timer, cut, toRelay, relay, postgres, failures>>

\* At most one heartbeat is under way at a time (a bound: they come every 30s).
Heartbeat ==
  /\ beating /\ cstate[sock] = "open"
  /\ \A i \in DOMAIN toRelay[sock] : toRelay[sock][i] # "relay_heartbeat"
  /\ sock \notin cut
  /\ toRelay' = [toRelay EXCEPT ![sock] = Append(@, "relay_heartbeat")]
  /\ UNCHANGED <<client, cut, subscribed, relay, postgres, failures>>

\* close: the daemon shuts down.
Close ==
  /\ sock # 0 /\ ~closed
  /\ closed' = TRUE /\ beating' = FALSE /\ timer' = FALSE
  /\ cstate' = [cstate EXCEPT ![sock] = IF Live(@) THEN "closing" ELSE @]
  /\ UNCHANGED <<sock, connected, network, relay, postgres, failures>>

------------------------------------------------------------------------------
(* The relay. *)

\* lastSeen of a socket that sent a frame or left the registry.
StillSilentAfter(s) == silent
StillSilent(s) == silent \ {s}

\* evictDaemonConnections: the daemon's other connections are dropped.
Registered(s) == {s}

HandleHello(s) ==
  /\ toRelay[s] # <<>> /\ Head(toRelay[s]) = "hello" /\ rstate[s] \in {"open", "closing"}
  /\ toRelay' = [toRelay EXCEPT ![s] = Tail(@)]
  /\ greeted' = greeted \cup {s}
  /\ registered' = Registered(s)
  /\ silent' = {}
  /\ rstate' = [t \in Socket |-> IF t \in registered \ Registered(s) /\ rstate[t] = "open"
                                 THEN "closing" ELSE rstate[t]]
  /\ subscribed' = IF rstate[s] = "open" THEN subscribed \cup {s} ELSE subscribed
  /\ writes' = writes \cup Write("ensureUser", s)
  /\ UNCHANGED <<client, cut, status, failures>>

\* updateDaemonHeartbeat also for a socket that is not registered any more.
HandleHeartbeat(s) ==
  /\ toRelay[s] # <<>> /\ Head(toRelay[s]) = "relay_heartbeat" /\ rstate[s] \in {"open", "closing"}
  /\ toRelay' = [toRelay EXCEPT ![s] = Tail(@)]
  /\ silent' = StillSilent(s)
  /\ writes' = writes \cup Write("updateDaemonHeartbeat", s)
  /\ UNCHANGED <<client, cut, subscribed, rstate, greeted, registered, status, failures>>

\* The 5s authentication timeout: the hello is late or will never come.
AuthTimeout(s) ==
  /\ rstate[s] = "open" /\ s \notin greeted
  /\ IF s \in cut \/ cstate[s] # "open" THEN UNCHANGED failures ELSE Fault
  /\ rstate' = [rstate EXCEPT ![s] = "closing"]
  /\ UNCHANGED <<client, network, greeted, registered, silent, postgres>>

\* The daemon's close arrives, after what it sent before.
RelaySeesClose(s) ==
  /\ rstate[s] = "open" /\ cstate[s] \in {"closing", "closed"}
  /\ s \notin cut /\ toRelay[s] = <<>>
  /\ rstate' = [rstate EXCEPT ![s] = "closing"]
  /\ UNCHANGED <<client, network, greeted, registered, silent, postgres, failures>>

\* handleDisconnect: only a registered socket takes the daemon offline.
Disconnected(s) ==
  /\ registered' = registered \ {s} /\ silent' = StillSilent(s)
  /\ writes' = IF s \in registered THEN writes \cup Write("setDaemonOffline", s)
               ELSE writes

RelayCloseEvent(s) ==
  /\ rstate[s] = "closing"
  /\ rstate' = [rstate EXCEPT ![s] = "closed"]
  /\ toRelay' = [toRelay EXCEPT ![s] = <<>>]
  /\ Disconnected(s)
  /\ UNCHANGED <<client, cut, subscribed, greeted, status, failures>>

\* The relay's own error event: a frame it wrote to a dead path timed out.  The
\* handler disconnects at once, the close event finds nothing left to do.
RelayError(s) ==
  /\ rstate[s] = "open" /\ s \in cut
  /\ rstate' = [rstate EXCEPT ![s] = "closing"]
  /\ Disconnected(s)
  /\ UNCHANGED <<client, network, greeted, status, failures>>

\* 90s pass without a frame: nothing can come any more, or the daemon stalls.
BecomeSilent(s) ==
  /\ s \in registered \ silent /\ toRelay[s] = <<>>
  /\ IF s \in cut \/ cstate[s] # "open" THEN UNCHANGED failures ELSE Fault
  /\ silent' = silent \cup {s}
  /\ UNCHANGED <<client, network, rstate, greeted, registered, postgres>>

\* sweepDeadDaemons terminates what has been silent for too long.
SweptNever(s) == FALSE
Swept(s) == sweepRuns /\ s \in silent

SweepDeadDaemons(s) ==
  /\ s \in registered /\ rstate[s] = "open" /\ Swept(s)
  /\ rstate' = [rstate EXCEPT ![s] = "closing"]
  /\ UNCHANGED <<client, network, greeted, registered, silent, postgres, failures>>

\* The relay goes down and comes back: close() clears the registry before the
\* close events, a crash has none; what it was writing is lost or was committed.
RelayRestart ==
  /\ Fault
  /\ rstate' = [s \in Socket |-> IF rstate[s] = "none" THEN "none" ELSE "closed"]
  /\ toRelay' = [s \in Socket |-> <<>>] /\ subscribed' = {}
  /\ registered' = {} /\ silent' = {} /\ writes' = {}
  /\ UNCHANGED <<client, cut, greeted, status>>

------------------------------------------------------------------------------
(* The network and PostgreSQL. *)

\* The path dies silently: sleep, Wi-Fi drop, VPN cut.
Cut(s) ==
  /\ Fault
  /\ Live(cstate[s]) /\ s \notin cut
  /\ cut' = cut \cup {s}
  /\ toRelay' = [toRelay EXCEPT ![s] = <<>>]
  /\ subscribed' = subscribed \ {s}
  /\ UNCHANGED <<client, relay, postgres>>

\* A write commits.  The connections of the pool commit in any order; only
\* ensureUser and upsertDaemon follow each other.
StatusBeatIgnored(op) == CASE op = "upsertDaemon" -> "online"
                           [] op = "setDaemonOffline" /\ status # "absent" -> "offline"
                           [] OTHER -> status
StatusAfter(op) == CASE op = "upsertDaemon" -> "online"
                     [] status = "absent" -> "absent"
                     [] op = "updateDaemonHeartbeat" -> "online"
                     [] op = "setDaemonOffline" -> "offline"

Commit(w) ==
  /\ w \in writes
  /\ IF w.op = "ensureUser"
     THEN /\ writes' = (writes \ {w}) \cup {[w EXCEPT !.op = "upsertDaemon"]}
          /\ UNCHANGED status
     ELSE /\ writes' = writes \ {w}
          /\ status' = StatusAfter(w.op)
  /\ UNCHANGED <<client, network, relay, failures>>

\* A write fails: it is logged, and ensureUser's failure skips upsertDaemon.
WriteFails(w) ==
  /\ w \in writes
  /\ Fault
  /\ writes' = writes \ {w}
  /\ UNCHANGED <<client, network, relay, status>>

------------------------------------------------------------------------------

ClientStep(s) ==
  Opened(s) \/ ClientSeesClose(s) \/ ClientCloseEvent(s) \/ OnSubscribed(s)

RelayStep(s) ==
  HandleHello(s) \/ HandleHeartbeat(s) \/ RelaySeesClose(s) \/ RelayCloseEvent(s) \/ SweepDeadDaemons(s)

Next ==
  \/ Start \/ ReconnectTimer \/ Heartbeat \/ Close \/ RelayRestart
  \/ \E s \in Socket : \/ ClientStep(s) \/ RelayStep(s)
                       \/ ClientError(s) \/ RelayError(s) \/ AuthTimeout(s) \/ BecomeSilent(s) \/ Cut(s)
  \/ \E w \in writes : Commit(w) \/ WriteFails(w)

Spec == Init /\ [][Next]_vars

\* Event loops and timers run, queries end, TCP gives up on a dead path.
\* Nothing is assumed of failures, nor of the daemon's shutdown.
Fairness ==
  /\ WF_vars(Start) /\ WF_vars(ReconnectTimer) /\ WF_vars(Heartbeat)
  /\ \A s \in Socket :
       /\ WF_vars(ClientStep(s)) /\ WF_vars(RelayStep(s))
       /\ WF_vars(s \in cut /\ (ClientError(s) \/ AuthTimeout(s) \/ BecomeSilent(s)))
  /\ WF_vars(\E w \in writes : Commit(w))

FairSpec == Spec /\ Fairness

------------------------------------------------------------------------------
(* Properties. *)

ReadyState == {"none", "connecting", "open", "closing", "closed"}

\* The type of every variable.
TypeOK ==
  /\ closed \in BOOLEAN /\ connected \in BOOLEAN /\ timer \in BOOLEAN /\ beating \in BOOLEAN
  /\ sock \in 0..MaxSockets
  /\ cstate \in [Socket -> ReadyState]
  /\ rstate \in [Socket -> ReadyState \ {"connecting"}]
  /\ cut \subseteq Socket /\ subscribed \subseteq Socket
  /\ toRelay \in [Socket -> Seq({"hello", "relay_heartbeat"})]
  /\ greeted \subseteq Socket /\ registered \subseteq Socket /\ silent \subseteq registered
  /\ status \in {"absent", "online", "offline"}
  /\ writes \subseteq [op : {"ensureUser", "upsertDaemon", "updateDaemonHeartbeat", "setDaemonOffline"},
                       socket : Socket]
  /\ faults \in 0..MaxFaults /\ sweepRuns \in Wirings

\* A reconnect that is armed never replaces a connection that works: the timer
\* is armed only while the current socket is going away, whatever order its
\* error and close events and those of older sockets come in.
TimerOnlyForDeadSocket == timer => cstate[sock] \in {"closing", "closed"}

\* "Retry FOREVER": a client that was not closed never rests on a dead socket
\* without a reconnect armed.
RetryArmed == sock # 0 /\ cstate[sock] = "closed" => closed \/ timer

\* The relay holds one connection of the daemon, and it is not known to be dead.
OneRegistered ==
  Cardinality(registered) <= 1 /\ \A s \in registered : rstate[s] \in {"open", "closing"}

\* Both ends of the connection, whatever order errors, closes, timers and late
\* hellos come in: a retry exactly when it is needed, one connection at the relay.
LinkSound == TimerOnlyForDeadSocket /\ RetryArmed /\ OneRegistered

\* The daemon comes back: when failures stop, it stays registered on its latest
\* socket and knows it, unless it was closed.
Reconnects == <>[](closed \/ (connected /\ sock \in registered))

\* Where the sweep runs, the relay drops a connection whose path died, whether
\* the daemon reconnects or is gone for good.
DeadSocketDropped == <>[](sweepRuns => cut \cap registered = {})

\* Both ends recover from a broken connection: the daemon by its retries, the
\* relay by its sweep.
Recovers == Reconnects /\ DeadSocketDropped

\* A daemon that stays connected ends up online in PostgreSQL, however late the
\* offline write of an older connection commits (a row that could not be
\* created stays absent).
StatusHeals == <>[]connected => <>[](status \in {"online", "absent"})
=============================================================================
