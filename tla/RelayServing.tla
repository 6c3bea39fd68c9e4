---------------------------- MODULE RelayServing ----------------------------
(***************************************************************************)
(* Which daemon sockets the relay routes a workspace's traffic to.         *)
(*                                                                         *)
(* The relay keeps two maps that must agree: the registered connections    *)
(* with the workspaces each serves, and per workspace the subscribed       *)
(* sockets.  A hello registers a socket with the workspaces the daemon     *)
(* reports, drops the daemon's other connections and asks PostgreSQL for   *)
(* the workspaces it should serve; the answer is applied whenever it       *)
(* arrives, whatever has happened to the socket or to the rows meanwhile.  *)
(* The owner's serving toggle and the creation of a workspace change the   *)
(* rows and then the maps; the rows and the maps are never locked together.*)
(***************************************************************************)
EXTENDS Integers, FiniteSets

CONSTANTS
  Daemon,       \* daemon ids
  Socket,       \* sockets the relay accepts, each opened once
  Workspace,    \* workspace ids
  Owner,        \* users that own daemons
  OwnerOf,      \* [Daemon -> Owner], from the daemon's token
  None,         \* the daemon of a socket that has not said hello, the socket
                \* of a daemon that never did
  MaxChanges    \* bound: rows changed by toggles and new workspaces

ASSUME ServingAssumption ==
  /\ OwnerOf \in [Daemon -> Owner]
  /\ None \notin Daemon \cup Socket
  /\ MaxChanges \in Nat

VARIABLES
  ready,         \* [Socket -> its readyState]
  claimed,       \* [Socket -> the daemonId of its hello]
  daemons,       \* the registered sockets, the keys of the relay's map
  workspaceIds,  \* [Socket -> conn.workspaceIds]
  subscribers,   \* [Workspace -> sockets], workspaceSubscribers
  lookup,        \* [Socket -> getEnabledWorkspaceIdsForDaemon under way]
  owned,         \* PostgreSQL: [Owner -> workspaces the owner is a member of]
  disabled,      \* PostgreSQL: [Daemon -> workspaces with enabled = false]
  toggles,       \* toggles committed, handler not yet resumed
  linking,       \* linkOwnerDaemonsToWorkspace loops under way
  changes,       \* rows changed so far
  newest,        \* history: [Daemon -> socket of its latest hello]
  raced,         \* history: <<daemon, workspace>> whose row changed while a
                 \* handler that had read or written it was still to act on it
  targeted       \* history: <<socket, workspace>> subscribed by a targeted forward

registry == <<daemons, workspaceIds, subscribers>>
tables == <<owned, disabled, changes>>
vars == <<ready, claimed, registry, lookup, tables, toggles, linking, newest, raced, targeted>>

------------------------------------------------------------------------------

NoLookupEarly == [state |-> "asked"]
NoLookup == [state |-> "none"]
Enabled(d) == owned[OwnerOf[d]] \ disabled[d]
ConnsOf(d) == {s \in daemons : claimed[s] = d}
Pending(s) == lookup[s].state \in {"asked", "owned", "read"}

Init ==
  /\ ready = [s \in Socket |-> "unused"]
  /\ claimed = [s \in Socket |-> None]
  /\ daemons = {}
  /\ workspaceIds = [s \in Socket |-> {}]
  /\ subscribers = [w \in Workspace |-> {}]
  /\ lookup = [s \in Socket |-> NoLookup]
  /\ owned \in [Owner -> SUBSET Workspace]
  /\ disabled = [d \in Daemon |-> {}]
  /\ toggles = {} /\ linking = {} /\ changes = 0
  /\ newest = [d \in Daemon |-> None]
  /\ raced = {} /\ targeted = {}

------------------------------------------------------------------------------
(* Sockets. *)

HandleConnection(s) ==
  /\ ready[s] = "unused"
  /\ ready' = [ready EXCEPT ![s] = "open"]
  /\ UNCHANGED <<claimed, registry, lookup, tables, toggles, linking, newest, raced, targeted>>

\* evictDaemonConnections drops every other connection of the daemon and
\* closes its socket.  (An operator named as a slip of the code would read,
\* like EvictedNone, is a mutant of the one after it.)
EvictedNone(d, s) == {}
Evicted(d, s) == ConnsOf(d) \ {s}

ReadyEvicted(r) == IF r = "open" THEN "closing" ELSE r

\* handleHello with a valid token, also on a socket that is already closing
\* (the authentication timeout closes a socket and keeps its listeners).
HandleHello(s, d, reported) ==
  LET gone == Evicted(d, s)
  IN  /\ ready[s] \in {"open", "closing"} /\ claimed[s] = None
      /\ claimed' = [claimed EXCEPT ![s] = d]
      /\ daemons' = (daemons \ gone) \cup {s}
      /\ ready' = [t \in Socket |-> IF t \in gone THEN ReadyEvicted(ready[t]) ELSE ready[t]]
      /\ workspaceIds' = [t \in Socket |-> IF t = s THEN reported
                                           ELSE IF t \in gone THEN {} ELSE workspaceIds[t]]
      /\ subscribers' = [w \in Workspace |-> (subscribers[w] \ gone)
                                               \cup (IF w \in reported THEN {s} ELSE {})]
      /\ lookup' = [lookup EXCEPT ![s] = [state |-> "asked"]]
      /\ newest' = [newest EXCEPT ![d] = s]
      /\ UNCHANGED <<tables, toggles, linking, raced, targeted>>

\* A close begins: a bad hello, the authentication timeout, the peer's close
\* frame or terminate.
BeginClose(s) ==
  /\ ready[s] = "open"
  /\ ready' = [ready EXCEPT ![s] = "closing"]
  /\ UNCHANGED <<claimed, registry, lookup, tables, toggles, linking, newest, raced, targeted>>

\* handleDisconnect: nothing for a socket that is not registered (any more).
Disconnected(s) ==
  /\ daemons' = daemons \ {s}
  /\ subscribers' = IF s \in daemons
                    THEN [w \in Workspace |-> IF w \in workspaceIds[s] THEN subscribers[w] \ {s}
                                              ELSE subscribers[w]]
                    ELSE subscribers
  /\ UNCHANGED workspaceIds

\* The socket's error event; its close event follows.
SocketError(s) ==
  /\ ready[s] \in {"open", "closing"}
  /\ ready' = [ready EXCEPT ![s] = "closing"]
  /\ Disconnected(s)
  /\ UNCHANGED <<claimed, lookup, tables, toggles, linking, newest, raced, targeted>>

SocketClose(s) ==
  /\ ready[s] \in {"open", "closing"}
  /\ ready' = [ready EXCEPT ![s] = "closed"]
  /\ Disconnected(s)
  /\ UNCHANGED <<claimed, lookup, tables, toggles, linking, newest, raced, targeted>>

------------------------------------------------------------------------------
(* Serving. *)

\* subscribeDaemonConn.
Subscribe(s, w) ==
  /\ workspaceIds' = [workspaceIds EXCEPT ![s] = @ \cup {w}]
  /\ subscribers' = [subscribers EXCEPT ![w] = @ \cup {s}]

\* The two queries of getEnabledWorkspaceIdsForDaemon, in order.
ReadOwned(s) ==
  /\ lookup[s].state = "asked"
  /\ lookup' = [lookup EXCEPT ![s] = [state |-> "owned", ids |-> owned[OwnerOf[claimed[s]]]]]
  /\ UNCHANGED <<ready, claimed, registry, tables, toggles, linking, newest, raced, targeted>>

ReadDisabled(s) ==
  /\ lookup[s].state = "owned"
  /\ lookup' = [lookup EXCEPT ![s] = [state |-> "read", ids |-> @.ids \ disabled[claimed[s]]]]
  /\ UNCHANGED <<ready, claimed, registry, tables, toggles, linking, newest, raced, targeted>>

\* The answer replaces the connection's workspaces.
ReconciledAdding(current, ids) == current \cup ids
Reconciled(current, ids) == ids

Routed(w, s, ids) == IF w \in ids THEN subscribers[w] \cup {s}
                     ELSE IF w \in workspaceIds[s] THEN subscribers[w] \ {s} ELSE subscribers[w]

ApplyLookup(s) ==
  LET kept == Reconciled(workspaceIds[s], lookup[s].ids)
  IN  /\ lookup[s].state = "read"
      /\ workspaceIds' = [workspaceIds EXCEPT ![s] = kept]
      /\ subscribers' = [w \in Workspace |-> Routed(w, s, kept)]
      /\ lookup' = [lookup EXCEPT ![s] = [state |-> "applied"]]
      /\ UNCHANGED <<ready, claimed, daemons, tables, toggles, linking, newest, raced, targeted>>

\* A failed query keeps the reported set.
LookupFails(s) ==
  /\ lookup[s].state \in {"asked", "owned"}
  /\ lookup' = [lookup EXCEPT ![s] = [state |-> "failed"]]
  /\ UNCHANGED <<ready, claimed, registry, tables, toggles, linking, newest, raced, targeted>>

\* set_daemon_workspace: the row, and then, when its await resumes, the maps.
CommitToggle(d, w, on) ==
  /\ changes < MaxChanges
  /\ w \in owned[OwnerOf[d]]
  /\ changes' = changes + 1
  /\ disabled' = [disabled EXCEPT ![d] = IF on THEN @ \ {w} ELSE @ \cup {w}]
  /\ toggles' = toggles \cup {[daemon |-> d, workspace |-> w, on |-> on]}
  /\ raced' = IF \/ \E s \in Socket : claimed[s] = d /\ Pending(s)
                 \/ \E t \in toggles : t.daemon = d /\ t.workspace = w
                 \/ \E l \in linking : l.owner = OwnerOf[d] /\ l.workspace = w
              THEN raced \cup {<<d, w>>} ELSE raced
  /\ UNCHANGED <<ready, claimed, registry, lookup, owned, linking, newest, targeted>>

\* setDaemonWorkspaceServing, on every connection of the daemon.
ApplyToggle(t) ==
  LET conns == ConnsOf(t.daemon)
  IN  /\ t \in toggles
      /\ toggles' = toggles \ {t}
      /\ workspaceIds' = [s \in Socket |->
           IF s \notin conns THEN workspaceIds[s]
           ELSE IF t.on THEN workspaceIds[s] \cup {t.workspace} ELSE workspaceIds[s] \ {t.workspace}]
      /\ subscribers' = [subscribers EXCEPT ![t.workspace] = IF t.on THEN @ \cup conns ELSE @ \ conns]
      /\ UNCHANGED <<ready, claimed, daemons, lookup, tables, linking, newest, raced, targeted>>

\* create_workspace: the owner becomes a member, then its daemons are linked.
CreateWorkspace(o, w) ==
  /\ changes < MaxChanges
  /\ w \notin owned[o]
  /\ changes' = changes + 1
  /\ owned' = [owned EXCEPT ![o] = @ \cup {w}]
  /\ linking' = linking \cup {[owner |-> o, workspace |-> w, seen |-> {}]}
  /\ raced' = raced \cup {<<claimed[s], w>> : s \in {t \in Socket : Pending(t) /\ OwnerOf[claimed[t]] = o}}
  /\ UNCHANGED <<ready, claimed, registry, lookup, disabled, toggles, newest, targeted>>

\* One turn of linkOwnerDaemonsToWorkspace; the loop runs over the live map
\* and awaits ensureWorkspaceDaemon after each connection it links.
LinkNext(l, s) ==
  /\ l \in linking /\ s \in daemons \ l.seen
  /\ linking' = (linking \ {l}) \cup {[l EXCEPT !.seen = @ \cup {s}]}
  /\ IF OwnerOf[claimed[s]] = l.owner
     THEN Subscribe(s, l.workspace) ELSE UNCHANGED <<workspaceIds, subscribers>>
  /\ UNCHANGED <<ready, claimed, daemons, lookup, tables, toggles, newest, raced, targeted>>

LinkDone(l) ==
  /\ l \in linking /\ daemons \subseteq l.seen
  /\ linking' = linking \ {l}
  /\ UNCHANGED <<ready, claimed, registry, lookup, tables, toggles, newest, raced, targeted>>

\* A forward that names its daemon (sendToDaemonInWorkspace) subscribes the
\* daemon's open connection to the caller's workspace, whatever its row says.
TargetedForward(s, w) ==
  /\ s \in daemons /\ ready[s] = "open"
  /\ w \in owned[OwnerOf[claimed[s]]]
  /\ Subscribe(s, w)
  /\ targeted' = targeted \cup {<<s, w>>}
  /\ UNCHANGED <<ready, claimed, daemons, lookup, tables, toggles, linking, newest, raced>>

------------------------------------------------------------------------------

Next ==
  \/ \E s \in Socket :
       \/ HandleConnection(s) \/ BeginClose(s) \/ SocketError(s) \/ SocketClose(s)
       \/ \E d \in Daemon, reported \in SUBSET Workspace : HandleHello(s, d, reported)
       \/ ReadOwned(s) \/ ReadDisabled(s) \/ ApplyLookup(s) \/ LookupFails(s)
  \/ \E d \in Daemon, w \in Workspace, on \in BOOLEAN : CommitToggle(d, w, on)
  \/ \E t \in toggles : ApplyToggle(t)
  \/ \E o \in Owner, w \in Workspace : CreateWorkspace(o, w)
  \/ \E l \in linking : LinkDone(l) \/ \E s \in Socket : LinkNext(l, s)
  \/ \E s \in Socket, w \in Workspace : TargetedForward(s, w)

Spec == Init /\ [][Next]_vars

------------------------------------------------------------------------------
(* Properties. *)

LookupState == [state : {"none", "asked", "applied", "failed"}]
  \cup [state : {"owned", "read"}, ids : SUBSET Workspace]

\* The type of every variable; a socket with a lookup has said hello.
TypeOK ==
  /\ ready \in [Socket -> {"unused", "open", "closing", "closed"}]
  /\ claimed \in [Socket -> Daemon \cup {None}]
  /\ daemons \subseteq Socket
  /\ workspaceIds \in [Socket -> SUBSET Workspace]
  /\ subscribers \in [Workspace -> SUBSET Socket]
  /\ lookup \in [Socket -> LookupState]
  /\ \A s \in Socket : s \in daemons \/ lookup[s].state # "none" => claimed[s] \in Daemon
  /\ owned \in [Owner -> SUBSET Workspace]
  /\ disabled \in [Daemon -> SUBSET Workspace]
  /\ toggles \subseteq [daemon : Daemon, workspace : Workspace, on : BOOLEAN]
  /\ linking \subseteq [owner : Owner, workspace : Workspace, seen : SUBSET Socket]
  /\ changes \in Nat
  /\ newest \in [Daemon -> Socket \cup {None}]
  /\ raced \subseteq Daemon \X Workspace
  /\ targeted \subseteq Socket \X Workspace

\* "One live connection per daemon": a registered connection is its daemon's
\* latest, so a forward to the daemon cannot go to a zombie socket.
ConnectionIsNewest == \A s \in daemons : newest[claimed[s]] = s

\* The two maps of the registry agree on every registered connection: what the
\* fan-out uses is what the connection is listed as serving.
MapsAgree ==
  \A s \in daemons, w \in Workspace : s \in subscribers[w] <=> w \in workspaceIds[s]

\* A late answer of PostgreSQL can put a socket that was evicted or has gone
\* back among the subscribers for good; no frame is ever sent to it, so no
\* daemon gets a workspace's messages on two sockets.
GhostsCannotReceive ==
  \A w \in Workspace : \A s \in subscribers[w] \ daemons : ready[s] # "open"

\* The registry after any interleaving of hellos, closes, toggles, links and late
\* lookups: each daemon's latest connection and no other can be sent to, and the
\* fan-out and the list of what it serves are the same.
RegistrySound == ConnectionIsNewest /\ MapsAgree /\ GhostsCannotReceive

\* The rows decide what a settled connection serves.
Settled(s, w) ==
  /\ lookup[s].state = "applied"
  /\ \A t \in toggles : t.daemon = claimed[s] => t.workspace # w
  /\ \A l \in linking : l.owner = OwnerOf[claimed[s]] => l.workspace # w
  /\ <<s, w>> \notin targeted

\* A connection whose lookup was applied serves exactly the owner's workspaces
\* minus the disabled ones, except where a row changed under a handler.
ServesWhatIsEnabled ==
  \A s \in daemons, w \in Workspace :
    Settled(s, w) /\ <<claimed[s], w>> \notin raced =>
      (w \in workspaceIds[s] <=> w \in Enabled(claimed[s]))
=============================================================================
