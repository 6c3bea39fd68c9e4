------------------------------ MODULE RelaySync ------------------------------
(***************************************************************************)
(* One workspace's message stream through the relay: a daemon forwards a   *)
(* message, the relay gives it the next sequence number, fans it out to    *)
(* the subscribed daemons, and inserts it into PostgreSQL after the fact;  *)
(* an insert that fails goes to a Redis list that a timer replays.  A      *)
(* daemon that comes back asks for everything after the highest number it  *)
(* has seen.                                                               *)
(*                                                                         *)
(* Sequence numbers, subscriptions, rows and buffers of different          *)
(* workspaces are disjoint (each is a map keyed by workspace id), so one   *)
(* workspace is enough.  A message is its id; what tells ids apart here is *)
(* whether the relay stores the message at all (Storable).  A daemon's     *)
(* socket is up or down for both ends at once: the window in which only    *)
(* one end knows is the subject of DaemonLink and RelayServing.            *)
(***************************************************************************)
EXTENDS Integers, Sequences, FiniteSets

CONSTANTS
  Daemon,         \* the daemons that serve the workspace
  Msg,            \* message ids; each is posted at most once
  Storable,       \* channel posts and DMs; the others (agent_stream deltas,
                  \* status frames) take a number and are never a row
  Relay,          \* the sender of a message the relay injects itself
  PageSize,       \* limit of one sync answer (500 in the code)
  MaxLinks,       \* bound: connections each daemon may open
  MaxRestarts,    \* bound: daemon process restarts
  MaxCrashes,     \* bound: relay crashes
  MaxOutages,     \* bound: PostgreSQL outages
  MaxRedisErrors  \* bound: failed pushes to the Redis list

ASSUME ConstantsAssumption ==
  /\ Relay \notin Daemon
  /\ Storable \subseteq Msg
  /\ PageSize \in Nat \ {0}
  /\ MaxLinks \in Nat /\ MaxRestarts \in Nat /\ MaxCrashes \in Nat
  /\ MaxOutages \in Nat /\ MaxRedisErrors \in Nat

VARIABLES
  relayUp,      \* the relay process runs
  epoch,        \* relay crashes so far: the incarnation of the relay
  seq,          \* workspaceSeqs.get(ws).current
  subs,         \* daemons whose open socket is in workspaceSubscribers
  persisting,   \* entries whose persistMessage awaits PostgreSQL
  draining,     \* entries taken off the Redis list, not yet inserted
  query,        \* [Daemon -> the sync request the relay is answering]
  pgUp,         \* PostgreSQL answers
  outages,      \* outages so far
  rows,         \* the messages table
  buffer,       \* the Redis list pgbuf:<ws>
  redisErrors,  \* failed pushes so far
  link,         \* [Daemon -> "off" | "hello" | "on"], the daemon's socket
  links,        \* [Daemon -> connections opened so far]
  restarts,     \* daemon restarts so far
  lastSeq,      \* [Daemon -> lastSeqs.get(ws)]
  store,        \* [Daemon -> ids in its SQLite messages table]
  toRelay,      \* [Daemon -> frames sent and not yet read by the relay]
  toDaemon,     \* [Daemon -> frames sent and not yet read by the daemon]
  log,          \* history: every entry the relay has numbered
  recv,         \* history: [Daemon -> entries received live, in order]
  due,          \* history: [Daemon -> entries numbered on its current socket]
  members,      \* history: daemons that have received a numbered message
  owed,         \* history: [Daemon -> entries numbered since it became one]
  replayLost    \* history: entries whose replay from Redis failed

relayVars == <<relayUp, epoch, seq, subs, persisting, draining, query>>
dbVars == <<pgUp, outages, rows, buffer, redisErrors>>
daemonVars == <<link, links, restarts, lastSeq, store>>
wireVars == <<toRelay, toDaemon>>
history == <<log, recv, due, members, owed, replayLost>>
vars == <<relayVars, dbVars, daemonVars, wireVars, history>>

------------------------------------------------------------------------------
(* Entries and frames. *)

Entry == [id : Msg, seq : Nat, epoch : Nat, from : Daemon \cup {Relay}]

Hello == [type |-> "daemon_hello"]
Forward(m) == [type |-> "relay_forward", id |-> m]
SyncRequest(n) == [type |-> "relay_sync_request", since |-> n]
Subscribed == [type |-> "relay_subscribed"]
LiveBare(e) == [type |-> "relay_message", entry |-> e.id]
Live(e) == [type |-> "relay_message", entry |-> e]
SyncResponse(es) == [type |-> "relay_sync_response", entries |-> es]

Frames(q, type) == {q[i] : i \in {j \in DOMAIN q : q[j].type = type}}
Ids(es) == {e.id : e \in es}
Larger(m, n) == IF m < n THEN n ELSE m
\* The highest number among the entries, 0 when there are none.
Highest(es) == {n \in {0} \cup {e.seq : e \in es} : \A e \in es : e.seq <= n}

\* ORDER BY seq LIMIT PageSize over the rows numbered above n.
IsPage(page, n) ==
  LET later == {e \in rows : e.seq > n}
  IN  /\ page \subseteq later
      /\ Cardinality(page) = PageSize \/ page = later
      /\ Cardinality(page) <= PageSize
      /\ \A e \in page, f \in later \ page : e.seq <= f.seq

\* A message id nobody has used yet.
Fresh(m) ==
  /\ m \notin Ids(log)
  /\ \A d \in Daemon : m \notin store[d] /\ Forward(m) \notin Frames(toRelay[d], "relay_forward")

Idle == [state |-> "idle"]

Init ==
  /\ relayUp = TRUE /\ epoch = 0 /\ seq = 0
  /\ subs = {} /\ persisting = {} /\ draining = <<>>
  /\ query = [d \in Daemon |-> Idle]
  /\ pgUp = TRUE /\ outages = 0 /\ rows = {} /\ buffer = <<>> /\ redisErrors = 0
  /\ link = [d \in Daemon |-> "off"]
  /\ links = [d \in Daemon |-> 0]
  /\ restarts = 0
  /\ lastSeq = [d \in Daemon |-> 0]
  /\ store = [d \in Daemon |-> {}]
  /\ toRelay = [d \in Daemon |-> <<>>]
  /\ toDaemon = [d \in Daemon |-> <<>>]
  /\ log = {}
  /\ recv = [d \in Daemon |-> <<>>]
  /\ due = [d \in Daemon |-> {}]
  /\ members = {}
  /\ owed = [d \in Daemon |-> {}]
  /\ replayLost = {}

------------------------------------------------------------------------------
(* The relay.  An operator whose name ends as a slip of the code would read *)
(* (LiveBare, NumberReused, ...) is a mutant of the one defined after it.   *)

NumberReused(n) == n
Number(n) == n + 1

SendFirst(q, f) == <<f>> \o q
Send(q, f) == Append(q, f)

\* What is pushed to Redis keeps the number next to the message (_seq).
Buffered(e) == e

\* What one drain takes off the list (lrange, then ltrim by as many).
DrainedShort(q) == SubSeq(q, 1, Len(q) - 1)
Drained(q) == q

FlushDue(q) == q # <<>>

\* Number the message, fan it out to every subscribed socket (the sender's
\* included) and start persisting it: handleForward and injectMessage.
Publish(m, from) ==
  LET e == [id |-> m, seq |-> Number(seq), epoch |-> epoch, from |-> from]
  IN  /\ seq' = Number(seq)
      /\ toDaemon' = [d \in Daemon |->
                        IF d \in subs THEN Send(toDaemon[d], Live(e)) ELSE toDaemon[d]]
      /\ persisting' = IF m \in Storable THEN persisting \cup {e} ELSE persisting
      /\ log' = log \cup {e}
      /\ due' = [d \in Daemon |-> IF d \in subs THEN due[d] \cup {e} ELSE due[d]]
      /\ owed' = [d \in Daemon |-> IF d \in members THEN owed[d] \cup {e} ELSE owed[d]]

InjectMessage(m) ==
  /\ relayUp
  /\ Fresh(m)
  /\ Publish(m, Relay)
  /\ UNCHANGED <<relayUp, epoch, subs, draining, query, dbVars, daemonVars, toRelay, recv, members, replayLost>>

\* The first frame of a socket: register it, answer, route to it from now on.
HandleHello(d) ==
  /\ toRelay[d] # <<>> /\ Head(toRelay[d]) = Hello
  /\ toRelay' = [toRelay EXCEPT ![d] = Tail(@)]
  /\ toDaemon' = [toDaemon EXCEPT ![d] = Send(@, Subscribed)]
  /\ subs' = subs \cup {d}
  /\ due' = [due EXCEPT ![d] = {}]
  /\ UNCHANGED <<relayUp, epoch, seq, persisting, draining, query, dbVars, daemonVars, log, recv,
                 members, owed, replayLost>>

HandleForward(d) ==
  /\ toRelay[d] # <<>> /\ Head(toRelay[d]).type = "relay_forward"
  /\ d \in subs
  /\ toRelay' = [toRelay EXCEPT ![d] = Tail(@)]
  /\ Publish(Head(toRelay[d]).id, d)
  /\ UNCHANGED <<relayUp, epoch, subs, draining, query, dbVars, daemonVars, recv, members, replayLost>>

\* handleSyncRequest up to its await of getMessagesSince.
HandleSyncRequest(d) ==
  /\ toRelay[d] # <<>> /\ Head(toRelay[d]).type = "relay_sync_request"
  /\ toRelay' = [toRelay EXCEPT ![d] = Tail(@)]
  /\ query' = [query EXCEPT ![d] = [state |-> "asked", since |-> Head(toRelay[d]).since]]
  /\ UNCHANGED <<relayUp, epoch, seq, subs, persisting, draining, dbVars, daemonVars, toDaemon, history>>

\* PostgreSQL takes its snapshot for the query, or the query fails.
SyncRead(d) ==
  /\ query[d].state = "asked"
  /\ \E page \in SUBSET rows :
       /\ IF pgUp THEN IsPage(page, query[d].since) ELSE page = {}
       /\ query' = [query EXCEPT ![d] = [state |-> "read", entries |-> page]]
  /\ UNCHANGED <<relayUp, epoch, seq, subs, persisting, draining, dbVars, daemonVars, wireVars, history>>

\* The await resumes: the rows (none after an error) go to the socket.
SyncReply(d) ==
  /\ query[d].state = "read"
  /\ query' = [query EXCEPT ![d] = Idle]
  /\ toDaemon' = [toDaemon EXCEPT ![d] = Send(@, SyncResponse(query[d].entries))]
  /\ UNCHANGED <<relayUp, epoch, seq, subs, persisting, draining, dbVars, daemonVars, toRelay, history>>

PersistDone(e) ==
  /\ e \in persisting /\ pgUp
  /\ persisting' = persisting \ {e}
  /\ rows' = rows \cup {e}
  /\ UNCHANGED <<relayUp, epoch, seq, subs, draining, query, pgUp, outages, buffer, redisErrors,
                 daemonVars, wireVars, history>>

\* The insert fails (it may have committed before the connection broke); the
\* message goes to the end of the Redis list, unless that fails too.
PersistFailed(e) ==
  /\ e \in persisting /\ ~pgUp
  /\ persisting' = persisting \ {e}
  /\ rows' \in {rows, rows \cup {e}}
  /\ \/ buffer' = Append(buffer, Buffered(e)) /\ UNCHANGED redisErrors
     \/ /\ redisErrors < MaxRedisErrors
        /\ redisErrors' = redisErrors + 1 /\ UNCHANGED buffer
  /\ UNCHANGED <<relayUp, epoch, seq, subs, draining, query, pgUp, outages,
                 daemonVars, wireVars, history>>

\* The flush timer: drainBufferedMessages removes what it returns, fewer messages here
\* than the hundred it takes at once.  Its read and its trim are one step: what is
\* pushed in between lies behind what it trims, and a crash in between leaves the
\* list to the next flush, whose inserts change no row.
DrainBuffer ==
  /\ relayUp /\ draining = <<>> /\ FlushDue(buffer)
  /\ draining' = Drained(buffer)
  /\ buffer' = <<>>
  /\ UNCHANGED <<relayUp, epoch, seq, subs, persisting, query, pgUp, outages, rows, redisErrors,
                 daemonVars, wireVars, history>>

\* persistBufferedMessages, one message: a failed insert is logged, no more.
PersistBuffered ==
  /\ draining # <<>>
  /\ draining' = Tail(draining)
  /\ IF pgUp THEN rows' = rows \cup {Head(draining)} /\ UNCHANGED replayLost
             ELSE replayLost' = replayLost \cup {Head(draining)} /\ UNCHANGED rows
  /\ UNCHANGED <<relayUp, epoch, seq, subs, persisting, query, pgUp, outages, buffer, redisErrors,
                 daemonVars, wireVars, log, recv, due, members, owed>>

\* The process dies: sockets, counters and everything awaited are gone, the
\* rows and the Redis list stay.
RelayCrash ==
  /\ relayUp /\ epoch < MaxCrashes
  /\ relayUp' = FALSE
  /\ epoch' = epoch + 1
  /\ seq' = 0
  /\ subs' = {} /\ persisting' = {} /\ draining' = <<>>
  /\ query' = [d \in Daemon |-> Idle]
  /\ link' = [d \in Daemon |-> "off"]
  /\ toRelay' = [d \in Daemon |-> <<>>]
  /\ toDaemon' = [d \in Daemon |-> <<>>]
  /\ UNCHANGED <<dbVars, links, restarts, lastSeq, store, history>>

\* seedSequencesFromDb, before the first socket is accepted; when the query
\* fails the counters stay where they are.
RelayStart ==
  /\ ~relayUp
  /\ relayUp' = TRUE
  /\ IF pgUp THEN \E n \in Highest(rows) : seq' = Larger(seq, n) ELSE seq' = seq
  /\ UNCHANGED <<epoch, subs, persisting, draining, query, dbVars, daemonVars, wireVars, history>>

------------------------------------------------------------------------------
(* The daemon's relay client. *)

\* Open the socket and send daemon_hello.
Connect(d) ==
  /\ relayUp /\ link[d] = "off" /\ links[d] < MaxLinks
  /\ link' = [link EXCEPT ![d] = "hello"]
  /\ links' = [links EXCEPT ![d] = @ + 1]
  /\ toRelay' = [toRelay EXCEPT ![d] = <<Hello>>]
  /\ UNCHANGED <<relayVars, dbVars, restarts, lastSeq, store, toDaemon, history>>

\* A message of the daemon's own: written to its SQLite, then forwarded if the
\* socket is open and dropped silently if it is not.
Post(d, m) ==
  /\ Fresh(m)
  /\ store' = IF m \in Storable THEN [store EXCEPT ![d] = @ \cup {m}] ELSE store
  /\ toRelay' = IF link[d] = "off" THEN toRelay
                ELSE [toRelay EXCEPT ![d] = Append(@, Forward(m))]
  /\ UNCHANGED <<relayVars, dbVars, link, links, restarts, lastSeq, toDaemon, history>>

\* relay_subscribed: ask for what was missed, unless nothing was ever seen.
OnSubscribed(d) ==
  /\ toDaemon[d] # <<>> /\ Head(toDaemon[d]) = Subscribed
  /\ toDaemon' = [toDaemon EXCEPT ![d] = Tail(@)]
  /\ link' = [link EXCEPT ![d] = "on"]
  /\ toRelay' = IF lastSeq[d] > 0
                THEN [toRelay EXCEPT ![d] = Append(@, SyncRequest(lastSeq[d]))]
                ELSE toRelay
  /\ UNCHANGED <<relayVars, dbVars, links, restarts, lastSeq, store, history>>

\* Own messages come back too, and only storable ones are kept.
IngestsFromDaemons(d, e) == e.from \in Daemon \ {d} /\ e.id \in Storable
Ingests(d, e) == e.from # d /\ e.id \in Storable

\* handleRelayMessage: raise the watermark, then store what others sent.
HandleRelayMessage(d) ==
  /\ toDaemon[d] # <<>> /\ Head(toDaemon[d]).type = "relay_message"
  /\ LET e == Head(toDaemon[d]).entry
     IN  /\ lastSeq' = [lastSeq EXCEPT ![d] = Larger(@, e.seq)]
         /\ store' = IF Ingests(d, e)
                     THEN [store EXCEPT ![d] = @ \cup {e.id}] ELSE store
         /\ recv' = [recv EXCEPT ![d] = Append(@, e)]
  /\ members' = members \cup {d}
  /\ toDaemon' = [toDaemon EXCEPT ![d] = Tail(@)]
  /\ UNCHANGED <<relayVars, dbVars, link, links, restarts, toRelay, log, due, owed, replayLost>>

HandleSyncResponse(d) ==
  /\ toDaemon[d] # <<>> /\ Head(toDaemon[d]).type = "relay_sync_response"
  /\ LET es == Head(toDaemon[d]).entries
     IN  /\ store' = [store EXCEPT ![d] = @ \cup Ids(es)]
         /\ \E n \in Highest(es) : lastSeq' = [lastSeq EXCEPT ![d] = Larger(@, n)]
  /\ toDaemon' = [toDaemon EXCEPT ![d] = Tail(@)]
  /\ UNCHANGED <<relayVars, dbVars, link, links, restarts, toRelay, history>>

\* The connection is gone for both ends, with the frames under way and the
\* answer being prepared for it.
Unlink(d) ==
  /\ link' = [link EXCEPT ![d] = "off"]
  /\ toRelay' = [toRelay EXCEPT ![d] = <<>>]
  /\ toDaemon' = [toDaemon EXCEPT ![d] = <<>>]
  /\ subs' = subs \ {d}
  /\ query' = [query EXCEPT ![d] = Idle]

Disconnect(d) ==
  /\ link[d] # "off"
  /\ Unlink(d)
  /\ UNCHANGED <<relayUp, epoch, seq, persisting, draining, dbVars, links, restarts, lastSeq, store, history>>

\* The daemon process restarts: lastSeqs is in memory, SQLite is not.
DaemonRestart(d) ==
  /\ restarts < MaxRestarts
  /\ restarts' = restarts + 1
  /\ Unlink(d)
  /\ lastSeq' = [lastSeq EXCEPT ![d] = 0]
  /\ UNCHANGED <<relayUp, epoch, seq, persisting, draining, dbVars, links, store, history>>

------------------------------------------------------------------------------
(* PostgreSQL. *)

PgDown ==
  /\ pgUp /\ outages < MaxOutages
  /\ pgUp' = FALSE /\ outages' = outages + 1
  /\ UNCHANGED <<relayVars, rows, buffer, redisErrors, daemonVars, wireVars, history>>

PgRecover ==
  /\ ~pgUp /\ pgUp' = TRUE
  /\ UNCHANGED <<relayVars, outages, rows, buffer, redisErrors, daemonVars, wireVars, history>>

------------------------------------------------------------------------------

RelayStep ==
  \/ \E d \in Daemon : \/ HandleHello(d) \/ HandleForward(d) \/ HandleSyncRequest(d)
                       \/ SyncRead(d) \/ SyncReply(d)
  \/ \E e \in persisting : PersistDone(e) \/ PersistFailed(e)
  \/ DrainBuffer \/ PersistBuffered \/ RelayStart

DaemonStep(d) == OnSubscribed(d) \/ HandleRelayMessage(d) \/ HandleSyncResponse(d)

Environment ==
  \/ \E m \in Msg : InjectMessage(m)
  \/ \E d \in Daemon : \/ Connect(d) \/ Disconnect(d) \/ DaemonRestart(d)
                       \/ \E m \in Msg : Post(d, m)
  \/ RelayCrash \/ PgDown \/ PgRecover

Next == RelayStep \/ Environment \/ \E d \in Daemon : DaemonStep(d)

Spec == Init /\ [][Next]_vars

\* Handlers run when their input is there; PostgreSQL comes back and a crashed
\* relay is restarted by its supervisor.  Nothing is assumed of posts,
\* connections, disconnections, outages or crashes.
Fairness ==
  /\ WF_vars(RelayStep) /\ WF_vars(PgRecover)
  /\ \A d \in Daemon : WF_vars(DaemonStep(d))

FairSpec == Spec /\ Fairness

------------------------------------------------------------------------------
(* Properties. *)

FrameToRelay == [type : {"daemon_hello"}]
  \cup [type : {"relay_forward"}, id : Msg] \cup [type : {"relay_sync_request"}, since : Nat]

FrameToDaemon == [type : {"relay_subscribed"}]
  \cup [type : {"relay_message"}, entry : Entry]
  \cup [type : {"relay_sync_response"}, entries : SUBSET Entry]

\* The type of every variable.
TypeOK ==
  /\ relayUp \in BOOLEAN /\ epoch \in Nat /\ seq \in Nat
  /\ subs \subseteq Daemon
  /\ persisting \subseteq Entry
  /\ draining \in Seq(Entry)
  /\ query \in [Daemon -> {Idle} \cup [state : {"asked"}, since : Nat]
                                 \cup [state : {"read"}, entries : SUBSET Entry]]
  /\ pgUp \in BOOLEAN /\ outages \in Nat /\ redisErrors \in Nat
  /\ rows \subseteq Entry /\ buffer \in Seq(Entry)
  /\ link \in [Daemon -> {"off", "hello", "on"}]
  /\ links \in [Daemon -> Nat] /\ restarts \in Nat
  /\ lastSeq \in [Daemon -> Nat]
  /\ store \in [Daemon -> SUBSET Msg]
  /\ toRelay \in [Daemon -> Seq(FrameToRelay)]
  /\ toDaemon \in [Daemon -> Seq(FrameToDaemon)]
  /\ log \subseteq Entry
  /\ recv \in [Daemon -> Seq(Entry)]
  /\ due \in [Daemon -> SUBSET Entry] /\ owed \in [Daemon -> SUBSET Entry]
  /\ members \subseteq Daemon /\ replayLost \subseteq Entry

\* Within one life of the relay a number belongs to one message: two messages
\* never share a number, wherever the relay, PostgreSQL or Redis keeps them.
OneMessagePerNumber ==
  \A a, b \in log : (a.epoch = b.epoch /\ a.seq = b.seq) => a = b

\* A message is stored under the number its live copy carried, whichever path
\* (direct insert, Redis list, replay) took it to PostgreSQL.
StoredAsNumbered ==
  rows \cup persisting \cup {buffer[i] : i \in DOMAIN buffer}
       \cup {draining[i] : i \in DOMAIN draining} \subseteq log

\* "Messages have a consistent sequence for every daemon": the live stream
\* implements the feed of WorkspaceFeed, so no daemon sees a message twice and
\* no two daemons see two messages in opposite orders, whatever sockets break
\* and however often the relay restarts.
Feed == INSTANCE WorkspaceFeed WITH Reader <- Daemon, feed <- log, got <- recv
ConsistentFeed == Feed!FeedSpec

\* No frame is skipped on a live connection: everything numbered while the
\* daemon's current socket was subscribed is in its store or on the wire.
NoSkipOnLiveSocket ==
  \A d \in subs : \A e \in due[d] :
    e.id \in Storable => e.id \in store[d] \/ Live(e) \in Frames(toDaemon[d], "relay_message")

\* Where a numbered message can be while it is not lost.
Held(e) ==
  \/ e \in rows \cup persisting
  \/ \E i \in DOMAIN buffer : buffer[i] = e
  \/ \E i \in DOMAIN draining : draining[i] = e

\* The fallback chain has exactly one hole: a message the relay has numbered
\* is stored, being inserted, or in Redis, unless the relay crashed, the push
\* to Redis failed too, or its replay was attempted during an outage.
LostOnlyInReplay ==
  epoch = 0 /\ redisErrors = 0 =>
    \A e \in log : e.id \in Storable => Held(e) \/ e \in replayLost

\* What the relay has numbered is kept under that number on every path to
\* PostgreSQL, but for that one hole.
KeptAsNumbered == StoredAsNumbered /\ LostOnlyInReplay

\* The row is, or will be, in an answer to a sync the daemon has asked for.
InSync(d, e) ==
  \/ \E f \in Frames(toRelay[d], "relay_sync_request") : f.since < e.seq
  \/ query[d].state = "asked" /\ query[d].since < e.seq
  \/ query[d].state = "read" /\ e \in query[d].entries
  \/ \E f \in Frames(toDaemon[d], "relay_sync_response") : e \in f.entries

\* "A daemon that was offline can catch up cleanly on reconnect"
\* (docs/architecture.md:169): a daemon's watermark never passes a stored
\* message it lacks and is not about to get, because no later sync asks for
\* what is below the watermark.
NoPermanentGap ==
  \A d \in Daemon : \A e \in owed[d] \cap rows :
    e.seq <= lastSeq[d] =>
      e.id \in store[d] \/ Live(e) \in Frames(toDaemon[d], "relay_message") \/ InSync(d, e)

\* A message that reached the messages table is delivered to every daemon that
\* was subscribed when it was numbered, unless that daemon's socket broke.
Delivered ==
  \A m \in Storable, d \in Daemon :
    (m \in Ids(due[d]) /\ d \in subs) ~> (m \in store[d] \/ d \notin subs)
=============================================================================
