------------------------------ MODULE SendOutbox ------------------------------
(* The web client's outgoing channel messages: the optimistic bubbles, the      *)
(* replay queue and its mirror in IndexedDB, over a socket that drops and a     *)
(* page that reloads.  One user, one tab; the rows of others are left out.  The *)
(* relay serves its frames each by a handler of its own, which awaits several   *)
(* reads and may end in a refusal; the row of a message is written behind its   *)
(* echo.                                                                        *)
EXTENDS Integers, Sequences, FiniteSets, SequencesExt

CONSTANTS Channel, None,
          MaxSends,    \* messages there are
          Budgets      \* what a behaviour may do: channels it opens, messages written,
                       \* taps on Retry, and drops of the socket, refusals of the
                       \* relay, reloads and logouts together

ASSUME SendOutboxAssumption ==
    /\ None \notin Channel \cup {"pending", "failed"}
    /\ MaxSends \in Nat \ {0}
    /\ Budgets \subseteq [channels : SUBSET Channel, sends : 1 .. MaxSends, retries : Nat,
                          faults : Nat]

VARIABLES
    sock,       \* "closed", "open", "authed": client.ws and client.authenticated
    up, down,   \* frames between the page and the relay
    known,      \* the relay: "no", "checking" the token, "yes"
    posting,    \* channel_message handlers under way for each message, of any socket
    asking,     \* its fetch_messages and sync handlers under way
    rows,       \* the rows of PostgreSQL that a fetch or a sync has found
    restoring,  \* connectToServer has not authenticated since the page began
    active,     \* channelState.activeId
    parked,     \* the active channel's fetch waits in waitForAuth
    local,      \* channelState.messages: the status of the optimistic row of each message
    shown,      \* and the server's rows, <<message, how many times it had been posted>>
    blank,      \* lastSeq is 0: no row of the server has been on the list
    queue,      \* sendOutbox
    bubbles,    \* pendingOutboxBubbles: the status of each snapshot
    watch,      \* sendWatchdogs
    stored,     \* IndexedDB: the outbox store
    ops,        \* its transactions under way, in order
    home,       \* the channel of each message that was written
    posted,     \* times the relay has given each message to injectMessage
    again,      \* history: retries, and reloads that came before a record was deleted
    lost,       \* history: messages of which a frame was not read, or read too early
    refused,    \* history: messages of which a handler ended without posting
    dropped,    \* history: messages a logout dropped, or a reload before they were stored
    faults,
    may         \* the budget of this behaviour

wire == <<sock, up, down, known>>
relay == <<posting, asking, rows>>
list == <<active, parked, local, shown, blank>>
idb == <<stored, ops>>
history == <<again, lost, refused, dropped, faults, may>>
vars == <<wire, relay, restoring, list, queue, bubbles, watch, idb, home, posted, history>>

Message == 1 .. MaxSends
Status  == {None, "pending", "failed"}
Post(m) == [kind |-> "post", m |-> m]
Do(what, m) == [op |-> what, m |-> m]
IsPost(f) == f.kind = "post"
Posts(frames) == {frames[i].m : i \in {j \in DOMAIN frames : IsPost(frames[j])}}
Sent    == {m \in Message : home[m] # None}
Reading == \E i \in DOMAIN ops : ops[i].op = "read"
NoRows  == [m \in Message |-> None]

\* What a transaction does to the records.
Commit(s, o) == CASE o.op = "put"    -> s \cup {o.m}
                  [] o.op = "delete" -> s \ {o.m}
                  [] o.op = "clear"  -> {}
                  [] o.op = "read"   -> s

\* The records once n of the transactions under way have ended, and once all have.
Removes(o, m) == o = Do("delete", m) \/ o.op = "clear"
RecordsAfter(n) == {m \in Message :
    \/ m \in stored /\ \A i \in 1 .. n : ~Removes(ops[i], m)
    \/ \E i \in 1 .. n : ops[i] = Do("put", m) /\ \A j \in i+1 .. n : ~Removes(ops[j], m)}
Records == RecordsAfter(Len(ops))

Init == /\ sock = "closed" /\ up = <<>> /\ down = <<>> /\ known = "no"
        /\ posting = [m \in Message |-> 0] /\ asking = <<>> /\ rows = {} /\ blank = TRUE
        /\ restoring = TRUE /\ active = None /\ parked = FALSE
        /\ local = NoRows /\ shown = {} /\ queue = <<>> /\ bubbles = NoRows /\ watch = {}
        /\ stored = {} /\ ops = <<>> /\ home = NoRows
        /\ posted = [m \in Message |-> 0] /\ again = [m \in Message |-> 0]
        /\ lost = {} /\ refused = {} /\ dropped = {} /\ faults = 0 /\ may \in Budgets

-------------------------------------------------------------------------------
(* Sending.                                                                    *)

EnqueueAgain(m) == ops' = Append(ops, Do("put", m)) /\ queue' = Append(queue, m)

\* enqueueOutbox: the record is written again, the entry is not.
Enqueue(m) == /\ ops' = Append(ops, Do("put", m))
              /\ queue' = IF Contains(queue, m) THEN queue ELSE Append(queue, m)

DispatchUnwatched(m) ==
    IF sock = "authed" THEN /\ up' = Append(up, Post(m))
                            /\ UNCHANGED <<queue, ops, watch>>
                       ELSE Enqueue(m) /\ UNCHANGED <<up, watch>>

\* dispatchSend: a watchdog, and a frame if the relay knows us.
Dispatch(m) == /\ watch' = watch \cup {m}
               /\ IF sock = "authed" THEN up' = Append(up, Post(m)) /\ UNCHANGED <<queue, ops>>
                                     ELSE Enqueue(m) /\ UNCHANGED up

\* sendMessage.
Send == /\ ~restoring /\ active # None
        /\ \E m \in Message :
              /\ Sent = 1 .. (m - 1) /\ m <= may.sends
              /\ home' = [home EXCEPT ![m] = active]
              /\ local' = [local EXCEPT ![m] = "pending"]
              /\ Dispatch(m)
        /\ UNCHANGED <<sock, down, known, relay, restoring, active, parked, shown, blank, bubbles,
                       stored, posted, history>>

Repending(f, m) == [f EXCEPT ![m] = IF @ = None THEN None ELSE "pending"]

\* retrySendMessage, which the page offers on a failed row.
Retry == /\ ~restoring
         /\ \E m \in Message :
               /\ local[m] = "failed" /\ again[m] < may.retries
               /\ local' = [local EXCEPT ![m] = "pending"]
               /\ bubbles' = Repending(bubbles, m)
               /\ again' = [again EXCEPT ![m] = @ + 1]
               /\ Dispatch(m)
         /\ UNCHANGED <<sock, down, known, relay, restoring, active, parked, shown, blank, stored,
                        home, posted, lost, refused, dropped, faults, may>>

Failing(f, m) == [f EXCEPT ![m] = IF @ = None THEN None ELSE "failed"]

\* armSendWatchdog: twelve seconds without an echo.
Timeout == \E m \in watch :
    /\ watch' = watch \ {m}
    /\ local' = Failing(local, m)
    /\ bubbles' = Failing(bubbles, m)
    /\ UNCHANGED <<wire, relay, restoring, active, parked, shown, blank, queue, idb, home,
                   posted, history>>

\* flushSendOutbox: the queue q is handed to the socket, authenticated or not, and
\* its records are deleted; without a socket everything stays as it is.
Kept(q) == [up |-> <<>>, ops |-> <<>>, queue |-> q]
HandedOver(q) == [up |-> [i \in DOMAIN q |-> Post(q[i])],
                  ops |-> [i \in DOMAIN q |-> Do("delete", q[i])], queue |-> <<>>]
FlushForgets(q) == IF sock = "closed" THEN Kept(<<>>) ELSE HandedOver(q)
FlushKeepsRecords(q) == IF sock = "closed" THEN Kept(q) ELSE [HandedOver(q) EXCEPT !.ops = <<>>]
Flush(q) == IF sock = "closed" THEN Kept(q) ELSE HandedOver(q)

-------------------------------------------------------------------------------
(* The channel on screen.                                                      *)

Fetch(c, who) == [kind |-> "fetch", channel |-> c, by |-> who]
Ask(frames, waiting) == IF waiting THEN Append(frames, Fetch(active, "selectChannel")) ELSE frames

\* Bound: at most one request of the page is unanswered.
Answerable == {"fetch", "sync", "page", "delta", "snapshot"}
Clear(c) == /\ ~restoring
            /\ Len(SelectSeq(up \o asking \o down, LAMBDA f : f.kind \in Answerable)) < 2
            /\ active' = c /\ local' = NoRows /\ shown' = {}
            /\ UNCHANGED <<sock, down, known, relay, restoring, blank, queue, bubbles, watch,
                           idb, home, posted, history>>

\* selectChannel up to its await.
Select == \E c \in may.channels \ {active} :
    /\ Clear(c)
    /\ IF sock = "authed" THEN up' = Append(up, Fetch(c, "selectChannel")) /\ parked' = FALSE
                          ELSE parked' = TRUE /\ UNCHANGED up

\* selectWorkspace, after the page was loaded, opens a channel; the relay has just
\* answered its other requests.
SelectWorkspace == \E c \in may.channels :
    /\ active = None /\ sock = "authed"
    /\ Clear(c)
    /\ up' = Append(up, Fetch(c, "selectWorkspace"))
    /\ UNCHANGED parked

\* Snapshots of this channel go back on the list (reapplyOutboxBubbles).
Reapplied == [m \in Message |-> IF home[m] = active THEN bubbles[m] ELSE None]

In(c, found) == {r \in found : home[r[1]] = c}
Settled(found) == {r[1] : r \in found}
Collapse(mine, news) == [m \in Message |-> IF m \in Settled(news) THEN None ELSE mine[m]]

\* The list is replaced.  selectChannel looks whether the user has moved on, and
\* puts the snapshots back; selectWorkspace does neither.
Fetched(f) == /\ \/ /\ f.by = "selectChannel" /\ f.channel = active
                    /\ shown' = In(active, f.rows) /\ local' = Reapplied
                 \/ /\ f.by = "selectChannel" /\ f.channel # active
                    /\ UNCHANGED <<shown, local>>
                 \/ /\ f.by = "selectWorkspace"
                    /\ shown' = In(f.channel, f.rows) /\ local' = NoRows
              /\ blank' = (blank /\ shown' = {})
              /\ down' = Tail(down)
              /\ UNCHANGED <<sock, up, known, relay, restoring, active, parked, queue, bubbles,
                             watch, idb, home, posted, history>>

\* drainSync adds what is missing, or puts the rows in the place of the list; a list
\* still empty is fetched again.
Added(news) == shown' = shown \cup news /\ local' = Collapse(local, news)
Synced(f) == /\ \/ f.kind = "delta" /\ Added(In(active, f.rows) \ shown)
                \/ f.kind = "snapshot" /\ shown' = In(active, f.rows) /\ local' = NoRows
             /\ blank' = (blank /\ shown' = {})
             /\ down' = Tail(down)
             /\ up' = Ask(up, /\ active # None /\ shown' = {} /\ local' = NoRows
                              /\ sock = "authed")
             /\ UNCHANGED <<sock, known, relay, restoring, active, parked, queue, bubbles, watch,
                            idb, home, posted, history>>

\* The watchdogs whose row is not on screen are cleared.
Sweep(mine) == watch \cap {m \in Message : mine[m] # None}

\* channel_message: the echo of an own message, for the channel on screen.
Echoed(f) ==
    LET m == f.row[1] IN
    /\ IF home[m] = active
       THEN /\ local' = IF f.row \in shown THEN local ELSE Collapse(local, {f.row})
            /\ shown' = shown \cup {f.row} /\ blank' = FALSE
            /\ watch' = Sweep(local')
            /\ ops' = Append(ops, Do("delete", m))
            /\ queue' = RemoveFirst(queue, m)
            /\ bubbles' = [bubbles EXCEPT ![m] = None]
       ELSE UNCHANGED <<local, shown, blank, watch, ops, queue, bubbles>>
    /\ down' = Tail(down)
    /\ UNCHANGED <<sock, up, known, relay, restoring, active, parked, stored, home, posted,
                   history>>

-------------------------------------------------------------------------------
(* The connection.                                                             *)

\* The open handler: hello and cyborg:auth.
Open == /\ sock = "closed" /\ sock' = "open" /\ up' = <<[kind |-> "auth"]>> /\ down' = <<>>
        /\ known' = "no"
        /\ UNCHANGED <<relay, restoring, list, queue, bubbles, watch, idb, home, posted, history>>

\* authenticate() resolves.  In connectToServer the outbox is read next, in
\* handleReconnect the queue is replayed and the missing messages are asked for, or
\* all of them if no row has been seen, of this user or another.
Sync(cold) == [kind |-> "sync", cold |-> cold]
Welcomed ==
    LET flush == Flush(queue) IN
    /\ sock' = "authed" /\ restoring' = FALSE /\ parked' = FALSE
    /\ queue' = flush.queue
    /\ \E cold \in {FALSE, blank} :
          up' = Ask(up \o flush.up \o (IF restoring THEN <<>> ELSE <<Sync(cold)>>), parked)
    /\ ops' = ops \o flush.ops \o (IF restoring THEN <<Do("read", 0)>> ELSE <<>>)
    /\ down' = Tail(down)
    /\ UNCHANGED <<known, relay, active, local, shown, blank, bubbles, watch, stored, home,
                   posted, history>>

\* The page takes the next frame.
Receive == /\ down # <<>>
           /\ LET f == Head(down) IN
                 \/ f.kind = "welcome" /\ Welcomed
                 \/ f.kind = "echo" /\ Echoed(f)
                 \/ f.kind = "page" /\ Fetched(f)
                 \/ f.kind \in {"delta", "snapshot"} /\ Synced(f)

-------------------------------------------------------------------------------
(* The relay.                                                                  *)

\* The message handler takes the next frame; ws does not wait for it to end.
RelayReads ==
    /\ up # <<>> /\ up' = Tail(up)
    /\ LET f == Head(up)
       IN  \/ /\ f.kind = "auth" /\ known' = "checking" /\ UNCHANGED <<posting, asking, lost>>
           \/ /\ IsPost(f) /\ known = "yes"
              /\ posting' = [posting EXCEPT ![f.m] = @ + 1]
              /\ UNCHANGED <<known, asking, lost>>
           \/ /\ IsPost(f) /\ known # "yes"
              /\ lost' = lost \cup {f.m}
              /\ UNCHANGED <<known, posting, asking>>
           \/ /\ f.kind \in {"fetch", "sync"}
              /\ asking' = Append(asking, f)
              /\ UNCHANGED <<known, posting, lost>>
    /\ UNCHANGED <<sock, down, rows, restoring, list, queue, bubbles, watch, idb, home, posted,
                   again, refused, dropped, faults, may>>

\* authenticateGuest finds the user: registerGuest, auth_response.
RelayKnows == /\ known = "checking" /\ known' = "yes"
              /\ down' = Append(down, [kind |-> "welcome"])
              /\ UNCHANGED <<sock, up, relay, restoring, list, queue, bubbles, watch, idb, home,
                             posted, history>>

\* channel_message after its reads: injectMessage, which echoes to the sockets the
\* relay knows now.
Inject == /\ \E m \in Message :
                /\ posting[m] > 0
                /\ posting' = [posting EXCEPT ![m] = @ - 1]
                /\ posted' = [posted EXCEPT ![m] = @ + 1]
                /\ down' = IF known = "yes"
                           THEN Append(down, [kind |-> "echo", row |-> <<m, posted'[m]>>])
                           ELSE down
          /\ UNCHANGED <<sock, up, known, asking, rows, restoring, list, queue, bubbles, watch,
                         idb, home, history>>

\* fetch_messages and sync answer with the rows there are by now: those any request
\* has found, and whichever of the others persistMessage has got to.
History == UNION {{<<m, k>> : k \in 1 .. posted[m]} : m \in Message}
Found(f) == IF f.kind = "fetch"
            THEN [kind |-> "page", channel |-> f.channel, by |-> f.by, rows |-> rows']
            ELSE [kind |-> IF f.cold THEN "snapshot" ELSE "delta", rows |-> rows']
Answer == /\ \E i \in DOMAIN asking :
                /\ \E written \in SUBSET (History \ rows) : rows' = rows \cup written
                /\ down' = Append(down, Found(asking[i]))
                /\ asking' = RemoveAt(asking, i)
          /\ UNCHANGED <<sock, up, known, posting, restoring, list, queue, bubbles, watch, idb,
                         home, posted, history>>

\* A request ends without its effect: over the rate limit, a viewer, no such channel,
\* not a member, or a read that failed.  The page learns it of a request it waits
\* for, and does nothing then.
Refuse ==
    /\ faults < may.faults /\ faults' = faults + 1
    /\ \/ /\ \E m \in Message : /\ posting[m] > 0
                                 /\ posting' = [posting EXCEPT ![m] = @ - 1]
                                 /\ refused' = refused \cup {m}
          /\ UNCHANGED asking
       \/ /\ \E i \in DOMAIN asking : asking' = RemoveAt(asking, i)
          /\ UNCHANGED <<posting, refused>>
    /\ UNCHANGED <<wire, rows, restoring, list, queue, bubbles, watch, idb, home, posted, again,
                   lost, dropped, may>>

\* A socket dies: its frames are gone and its answers go nowhere, but the messages
\* the relay has taken are posted all the same.
Fault == /\ faults < may.faults /\ faults' = faults + 1
         /\ sock' = "closed" /\ up' = <<>> /\ down' = <<>> /\ known' = "no" /\ asking' = <<>>
         /\ lost' = lost \cup Posts(up)
         /\ UNCHANGED <<posting, rows, home, posted, refused, may>>

\* The close handler, whichever frames the path still held.
Drop == /\ sock # "closed" /\ Fault
        /\ UNCHANGED <<restoring, list, queue, bubbles, watch, idb, again, dropped>>

-------------------------------------------------------------------------------
(* IndexedDB, and what outlives the page.                                      *)

\* rehydrateOutbox and the flush after it, when the read ends.
RehydratedUnflushed(q) == Kept(q)
Rehydrated(q) == Flush(q)

\* getOutboxForUser: oldest first.
OldestFirst(found) == CHOOSE q \in [1 .. Cardinality(found) -> found] :
                          \A i, j \in DOMAIN q : i < j => q[i] < q[j]

Rehydrate ==
    LET found == stored
        q     == queue \o OldestFirst(found \ ToSet(queue))
        flush == Rehydrated(q)
    IN  /\ bubbles' = [m \in Message |-> IF m \in found THEN "pending" ELSE bubbles[m]]
        /\ local' = [m \in Message |->
                        IF m \in found /\ home[m] = active /\ local[m] = None
                        THEN "pending" ELSE local[m]]
        /\ watch' = watch \cup found
        /\ queue' = flush.queue
        /\ up' = up \o flush.up
        /\ ops' = Tail(ops) \o flush.ops
        /\ UNCHANGED stored

\* A transaction ends; they end in the order they began.
Transact == /\ ops # <<>>
            /\ IF Head(ops).op = "read"
               THEN Rehydrate
               ELSE /\ stored' = Commit(stored, Head(ops)) /\ ops' = Tail(ops)
                    /\ UNCHANGED <<up, local, queue, bubbles, watch>>
            /\ UNCHANGED <<sock, down, known, relay, restoring, active, parked, shown, blank,
                           home, posted, history>>

Unpage == /\ restoring' = TRUE /\ active' = None /\ parked' = FALSE
          /\ local' = NoRows /\ shown' = {} /\ blank' = TRUE
          /\ queue' = <<>> /\ bubbles' = NoRows

Deleting(m) == \E i \in DOMAIN ops : ops[i] = Do("delete", m)

\* The page is loaded again: transactions under way are aborted.
Reload == /\ Fault /\ Unpage /\ watch' = {} /\ ops' = <<>>
          /\ again' = [m \in Message |-> IF m \in stored /\ Deleting(m) THEN again[m] + 1
                                                                       ELSE again[m]]
          /\ dropped' = dropped \cup (ToSet(queue) \ stored)
          /\ UNCHANGED stored

\* disconnectFromServer; the timers and the transactions go on.
Logout == /\ ~restoring /\ Fault /\ Unpage
          /\ ops' = Append(ops, Do("clear", 0))
          /\ dropped' = dropped \cup Sent
          /\ UNCHANGED <<watch, stored, again>>

Next == Send \/ Retry \/ Timeout \/ Select \/ SelectWorkspace \/ Open \/ Receive \/ RelayReads \/ RelayKnows
        \/ Inject \/ Answer \/ Refuse \/ Drop \/ Transact \/ Reload \/ Logout

Fairness == /\ WF_vars(Open) /\ WF_vars(Receive) /\ WF_vars(RelayReads)
            /\ WF_vars(RelayKnows) /\ WF_vars(Inject) /\ WF_vars(Transact)

Spec == Init /\ [][Next]_vars
FairSpec == Spec /\ Fairness

-------------------------------------------------------------------------------
\* Types; the queue holds a message once.
TypeOK == /\ sock \in {"closed", "open", "authed"}
          /\ known \in {"no", "checking", "yes"}
          /\ restoring \in BOOLEAN /\ parked \in BOOLEAN
          /\ active \in Channel \cup {None}
          /\ posting \in [Message -> Nat] /\ rows \subseteq Message \X Nat /\ blank \in BOOLEAN
          /\ local \in [Message -> Status] /\ bubbles \in [Message -> Status]
          /\ shown \subseteq Message \X Nat
          /\ queue \in Seq(Message) /\ Cardinality(ToSet(queue)) = Len(queue)
          /\ watch \subseteq Message /\ stored \subseteq Message
          /\ \A i \in DOMAIN ops : ops[i].op \in {"put", "delete", "clear", "read"}
          /\ home \in [Message -> Channel \cup {None}]
          /\ posted \in [Message -> Nat] /\ again \in [Message -> Nat]
          /\ lost \subseteq Message /\ refused \subseteq Message /\ dropped \subseteq Message
          /\ may \in Budgets /\ faults \in 0 .. may.faults

\* enqueueOutbox, flushSendOutbox, rehydrateOutbox: whatever the socket and the
\* page go through, a message that was written is posted, or on its way to the
\* relay or in it, or will be sent again by this page or the next one, unless the
\* socket it was handed to died under it, the relay took it and did not post it,
\* the page went before its record was written, or the user logged out.
Accounted == \A m \in Sent \ (lost \cup refused \cup dropped) :
    \/ posted[m] > 0
    \/ m \in Posts(up) \/ posting[m] > 0
    \/ m \in Records /\ (Contains(queue, m) \/ restoring \/ Reading)

\* A message is posted twice only by a tap on Retry, or by a reload that came
\* before its record was deleted.
TwiceOnlyByRetry == \A m \in Message : posted[m] <= 1 + again[m]

\* A bubble of this page's own sends that is pending has its watchdog, and it
\* does not stand beside the delivered message.
FreshBubblesAreRight == \A m \in Message : local[m] # None /\ bubbles[m] = None =>
    /\ local[m] = "pending" => m \in watch
    /\ m \notin Settled(shown)

\* A queued message is posted in the end, over drops and reloads, unless the relay
\* takes it and does not post it.
QueuedIsPosted == \A m \in Message :
    Contains(queue, m) ~> posted[m] > 0 \/ m \in lost \cup refused \cup dropped

-------------------------------------------------------------------------------
(* What a comment says and the code does not do.                               *)

\* Re-applying the snapshots "is safe to call on every selectChannel/selectDm"
\* (app.svelte.ts:405): a delivered message never stands on the list twice.
NoDoubleRow == \A m \in Message : ~(local[m] # None /\ m \in Settled(shown))
===============================================================================
