------------------------- MODULE RelayServingProofs -------------------------
(* Proofs about RelayServing: the registry of daemon sockets is consistent in  *)
(* every interleaving, for any daemons, sockets and workspaces.                *)
EXTENDS RelayServing, TLAPS

\* Only an accepted socket says hello, and only one that said hello is
\* registered, subscribed or looked up for.
ClaimedFirst ==
  /\ \A s \in Socket : claimed[s] # None => ready[s] # "unused"
  /\ \A s \in daemons : claimed[s] # None
  /\ \A s \in Socket : lookup[s].state # "none" => claimed[s] # None
  /\ \A w \in Workspace : \A s \in subscribers[w] : claimed[s] # None

\* A socket that said hello and is not registered is on its way out: it was
\* evicted, failed or closed.
GoneIsClosing ==
  \A s \in Socket \ daemons : claimed[s] # None => ready[s] \in {"closing", "closed"}

\* The inductive invariant.
IInv == TypeOK /\ ClaimedFirst /\ GoneIsClosing /\ ConnectionIsNewest /\ MapsAgree

\* A socket that left the registry or joined it late is harmless because it
\* is closing.
LEMMA GhostsAreClosing ==
  ASSUME IInv
  PROVE GhostsCannotReceive
BY DEF IInv, TypeOK, ClaimedFirst, GoneIsClosing, GhostsCannotReceive

\* The relay starts with no socket.
LEMMA InitIInv ==
  ASSUME ServingAssumption, Init
  PROVE IInv
BY DEF ServingAssumption, Init, IInv, TypeOK, ClaimedFirst, GoneIsClosing, ConnectionIsNewest,
       MapsAgree, NoLookup, LookupState

\* The steps that leave the registry and the sockets' claims alone.
LEMMA RegistryUntouched ==
  ASSUME IInv, TypeOK', UNCHANGED <<claimed, daemons, workspaceIds, subscribers, newest>>,
         \A s \in Socket : ready'[s] = ready[s] \/ ready'[s] = "closing" \/ claimed[s] = None,
         \A s \in Socket : lookup'[s].state # "none" => claimed[s] # None
  PROVE IInv'
BY DEF IInv, TypeOK, ClaimedFirst, GoneIsClosing, ConnectionIsNewest, MapsAgree

\* A hello registers one socket and evicts the daemon's others.
LEMMA HelloIInv ==
  ASSUME ServingAssumption, IInv,
         NEW s \in Socket, NEW d \in Daemon, NEW reported \in SUBSET Workspace,
         HandleHello(s, d, reported)
  PROVE IInv'
<1> DEFINE gone == Evicted(d, s)
<1>1. gone \subseteq daemons /\ s \notin gone /\ \A t \in gone : claimed[t] = d
  BY DEF Evicted, ConnsOf
<1>2. s \notin daemons /\ claimed[s] = None /\ d # None
  BY DEF HandleHello, IInv, ClaimedFirst, ServingAssumption
<1>3. TypeOK'
  BY <1>1 DEF HandleHello, IInv, TypeOK, LookupState, ReadyEvicted, tables
<1>4. ClaimedFirst'
  BY <1>1, <1>2 DEF HandleHello, IInv, TypeOK, ClaimedFirst, ReadyEvicted
<1>5. GoneIsClosing'
  BY <1>1, <1>2 DEF HandleHello, IInv, TypeOK, ClaimedFirst, GoneIsClosing, ReadyEvicted
<1>6. ConnectionIsNewest'
  BY <1>1, <1>2 DEF HandleHello, IInv, TypeOK, ConnectionIsNewest, Evicted, ConnsOf
<1>7. MapsAgree'
  BY <1>1, <1>2 DEF HandleHello, IInv, TypeOK, ClaimedFirst, MapsAgree
<1>8. QED BY <1>3, <1>4, <1>5, <1>6, <1>7 DEF IInv

\* A socket's end takes it out of the registry and of the sets it is listed in.
LEMMA DisconnectedIInv ==
  ASSUME IInv, NEW s \in Socket, NEW r \in {"closing", "closed"},
         ready' = [ready EXCEPT ![s] = r], Disconnected(s),
         UNCHANGED <<claimed, lookup, tables, toggles, linking, newest, raced, targeted>>
  PROVE IInv'
BY DEF IInv, TypeOK, ClaimedFirst, GoneIsClosing, ConnectionIsNewest, MapsAgree, Disconnected, tables

\* Subscribing a socket that said hello keeps the maps together.
LEMMA SubscribeIInv ==
  ASSUME IInv, NEW s \in Socket, NEW w \in Workspace, claimed[s] # None, Subscribe(s, w),
         UNCHANGED <<ready, claimed, daemons, lookup, tables, toggles, newest>>,
         linking' \subseteq [owner : Owner, workspace : Workspace, seen : SUBSET Socket],
         UNCHANGED raced, targeted' \subseteq Socket \X Workspace
  PROVE IInv'
BY DEF IInv, TypeOK, ClaimedFirst, GoneIsClosing, ConnectionIsNewest, MapsAgree, Subscribe, tables

\* The late answer moves a socket in both maps at once.
LEMMA ApplyLookupIInv ==
  ASSUME IInv, NEW s \in Socket, ApplyLookup(s)
  PROVE IInv'
<1>1. claimed[s] # None /\ lookup[s].ids \in SUBSET Workspace
  BY DEF ApplyLookup, IInv, TypeOK, ClaimedFirst, LookupState
<1>2. TypeOK'
  BY <1>1 DEF ApplyLookup, IInv, TypeOK, LookupState, Reconciled, Routed, tables
<1>3. ClaimedFirst' /\ GoneIsClosing' /\ ConnectionIsNewest'
  BY <1>1 DEF ApplyLookup, IInv, TypeOK, ClaimedFirst, GoneIsClosing, ConnectionIsNewest, Reconciled, Routed
<1>4. MapsAgree'
  BY <1>1 DEF ApplyLookup, IInv, TypeOK, MapsAgree, Reconciled, Routed
<1>5. QED BY <1>2, <1>3, <1>4 DEF IInv

\* The toggle is applied to the registered connections of its daemon.
LEMMA ApplyToggleIInv ==
  ASSUME IInv, NEW t \in toggles, ApplyToggle(t)
  PROVE IInv'
<1>1. t.workspace \in Workspace /\ ConnsOf(t.daemon) \subseteq daemons
  BY DEF IInv, TypeOK, ConnsOf
<1>2. TypeOK'
  BY <1>1 DEF ApplyToggle, IInv, TypeOK, tables
<1>3. ClaimedFirst' /\ GoneIsClosing' /\ ConnectionIsNewest'
  BY <1>1 DEF ApplyToggle, IInv, TypeOK, ClaimedFirst, GoneIsClosing, ConnectionIsNewest
<1>4. MapsAgree'
  BY <1>1 DEF ApplyToggle, IInv, TypeOK, MapsAgree
<1>5. QED BY <1>2, <1>3, <1>4 DEF IInv

\* Every step keeps the invariant.
LEMMA NextIInv ==
  ASSUME ServingAssumption, IInv, [Next]_vars
  PROVE IInv'
<1>1. ASSUME NEW s \in Socket, HandleConnection(s) PROVE IInv'
  BY <1>1, RegistryUntouched DEF HandleConnection, IInv, TypeOK, ClaimedFirst, GoneIsClosing, registry, tables
<1>2. ASSUME NEW s \in Socket, BeginClose(s) PROVE IInv'
  BY <1>2, RegistryUntouched DEF BeginClose, IInv, TypeOK, ClaimedFirst, registry, tables
<1>3. ASSUME NEW s \in Socket, SocketError(s) \/ SocketClose(s) PROVE IInv'
  BY <1>3, DisconnectedIInv DEF SocketError, SocketClose
<1>4. ASSUME NEW s \in Socket, ReadOwned(s) \/ ReadDisabled(s) \/ LookupFails(s) PROVE IInv'
  <2>1. claimed[s] \in Daemon
    BY <1>4 DEF ReadOwned, ReadDisabled, LookupFails, IInv, TypeOK, ClaimedFirst
  <2>2. lookup' \in [Socket -> LookupState]
    <3>1. CASE ReadOwned(s)
      BY <2>1, <3>1 DEF ReadOwned, IInv, TypeOK, LookupState, ServingAssumption
    <3>2. CASE ReadDisabled(s)
      <4>1. lookup[s].ids \in SUBSET Workspace
        BY <3>2 DEF ReadDisabled, IInv, TypeOK, LookupState
      <4>2. QED BY <3>2, <4>1 DEF ReadDisabled, IInv, TypeOK, LookupState
    <3>3. CASE LookupFails(s)
      BY <3>3 DEF LookupFails, IInv, TypeOK, LookupState
    <3>4. QED BY <1>4, <3>1, <3>2, <3>3
  <2>3. TypeOK'
    BY <1>4, <2>1, <2>2 DEF ReadOwned, ReadDisabled, LookupFails, IInv, TypeOK, registry, tables
  <2>4. QED
    BY <1>4, <2>1, <2>3, RegistryUntouched
       DEF ReadOwned, ReadDisabled, LookupFails, IInv, TypeOK, ClaimedFirst, ServingAssumption, registry, tables
<1>5. ASSUME NEW d \in Daemon, NEW w \in Workspace, NEW on \in BOOLEAN, CommitToggle(d, w, on) PROVE IInv'
  BY <1>5, RegistryUntouched DEF CommitToggle, IInv, TypeOK, ClaimedFirst, registry
<1>6. ASSUME NEW o \in Owner, NEW w \in Workspace, CreateWorkspace(o, w) PROVE IInv'
  <2>1. raced' \subseteq Daemon \X Workspace
    BY <1>6 DEF CreateWorkspace, Pending, IInv, TypeOK
  <2>2. TypeOK'
    BY <1>6, <2>1 DEF CreateWorkspace, IInv, TypeOK, registry
  <2>3. QED BY <1>6, <2>2, RegistryUntouched DEF CreateWorkspace, IInv, ClaimedFirst, registry
<1>7. ASSUME NEW l \in linking, NEW s \in Socket, LinkNext(l, s) PROVE IInv'
  <2>1. l.workspace \in Workspace /\ claimed[s] # None /\ l.owner \in Owner /\ l.seen \in SUBSET Socket
    BY <1>7 DEF LinkNext, IInv, TypeOK, ClaimedFirst
  <2>2. linking' \subseteq [owner : Owner, workspace : Workspace, seen : SUBSET Socket]
    BY <1>7, <2>1 DEF LinkNext, IInv, TypeOK
  <2>3. CASE Subscribe(s, l.workspace)
    BY <1>7, <2>1, <2>2, <2>3, SubscribeIInv DEF LinkNext, IInv, TypeOK
  <2>4. CASE UNCHANGED <<workspaceIds, subscribers>>
    BY <1>7, <2>2, <2>4, RegistryUntouched DEF LinkNext, IInv, TypeOK, ClaimedFirst, tables
  <2>5. QED BY <1>7, <2>3, <2>4 DEF LinkNext
<1>8. ASSUME NEW l \in linking, LinkDone(l) PROVE IInv'
  BY <1>8, RegistryUntouched DEF LinkDone, IInv, TypeOK, ClaimedFirst, registry, tables
<1>9. ASSUME NEW s \in Socket, NEW w \in Workspace, TargetedForward(s, w) PROVE IInv'
  BY <1>9, SubscribeIInv DEF TargetedForward, IInv, TypeOK, ClaimedFirst
<1>10. CASE UNCHANGED vars
  BY <1>10, RegistryUntouched DEF vars, registry, tables, IInv, TypeOK, ClaimedFirst
<1>11. QED
  BY <1>1, <1>2, <1>3, <1>4, <1>5, <1>6, <1>7, <1>8, <1>9, <1>10,
     HelloIInv, ApplyLookupIInv, ApplyToggleIInv DEF Next

LEMMA SpecIInv == ASSUME ServingAssumption PROVE Spec => []IInv
BY InitIInv, NextIInv, PTL DEF Spec

\* Every variable of the registry, of the rows and of the handlers under way
\* keeps its type.
THEOREM ServingTypes == ASSUME ServingAssumption PROVE Spec => []TypeOK
<1>1. IInv => TypeOK BY DEF IInv
<1>2. QED BY <1>1, SpecIInv, PTL

\* One live connection per daemon, its latest (evictDaemonConnections);
\* workspaceSubscribers and the connections' workspaceIds agree; and no frame
\* goes to a socket that was evicted or has gone.
THEOREM RegistryIsSound == ASSUME ServingAssumption PROVE Spec => []RegistrySound
<1>1. IInv => ConnectionIsNewest /\ MapsAgree BY DEF IInv
<1>2. IInv => GhostsCannotReceive BY GhostsAreClosing
<1>3. IInv => RegistrySound BY <1>1, <1>2 DEF RegistrySound
<1>4. QED BY <1>3, SpecIInv, PTL

------------------------------------------------------------------------------
(* The rows decide what is served.                                              *)

Owns(d, w) == w \in owned[OwnerOf[d]]

\* A row can disable only a workspace the owner belongs to.
DisabledIsOwned == \A d \in Daemon : \A w \in disabled[d] : Owns(d, w)

\* What a handler under way has written is still what the row says.
TogglesAgree ==
  \A t \in toggles :
    /\ Owns(t.daemon, t.workspace)
    /\ <<t.daemon, t.workspace>> \notin raced => (t.on <=> t.workspace \notin disabled[t.daemon])

LinksAgree ==
  \A l \in linking :
    /\ l.workspace \in owned[l.owner]
    /\ \A d \in Daemon : OwnerOf[d] = l.owner /\ <<d, l.workspace>> \notin raced =>
                            l.workspace \notin disabled[d]

\* What a lookup under way has read is still what the rows say.
LookupsAgree ==
  \A s \in Socket, w \in Workspace : <<claimed[s], w>> \notin raced =>
    /\ lookup[s].state = "owned" => (w \in lookup[s].ids <=> Owns(claimed[s], w))
    /\ lookup[s].state = "read" => (w \in lookup[s].ids <=> w \in Enabled(claimed[s]))

\* No toggle of the pair is under way, and every link has passed the socket.
Reached(s, w) ==
  /\ lookup[s].state = "applied"
  /\ \A t \in toggles : t.daemon = claimed[s] => t.workspace # w
  /\ \A l \in linking : l.owner = OwnerOf[claimed[s]] /\ l.workspace = w => s \in l.seen
  /\ <<s, w>> \notin targeted

ReachedAgree ==
  \A s \in daemons, w \in Workspace : Reached(s, w) /\ <<claimed[s], w>> \notin raced =>
    (w \in workspaceIds[s] <=> w \in Enabled(claimed[s]))

\* The inductive invariant.
RowsInv == IInv /\ DisabledIsOwned /\ TogglesAgree /\ LinksAgree /\ LookupsAgree /\ ReachedAgree

LEMMA InitRows == ASSUME ServingAssumption, Init PROVE RowsInv
BY InitIInv DEF Init, RowsInv, DisabledIsOwned, TogglesAgree, LinksAgree, LookupsAgree, ReachedAgree,
                Reached, NoLookup

\* A step that writes no row, finishes no handler and moves no live connection.
LEMMA QuietRows ==
  ASSUME RowsInv, IInv', UNCHANGED <<claimed, workspaceIds, lookup, owned, disabled, toggles, linking,
                                     raced, targeted>>,
         daemons' \subseteq daemons
  PROVE  RowsInv'
BY DEF RowsInv, DisabledIsOwned, TogglesAgree, LinksAgree, LookupsAgree, ReachedAgree, Reached, Owns, Enabled

LEMMA HelloRows ==
  ASSUME ServingAssumption, RowsInv, IInv', NEW s \in Socket, NEW d \in Daemon,
         NEW reported \in SUBSET Workspace, HandleHello(s, d, reported)
  PROVE  RowsInv'
<1>1. /\ \A x \in Socket \ {s} : claimed'[x] = claimed[x] /\ lookup'[x] = lookup[x]
      /\ lookup'[s].state = "asked"
      /\ UNCHANGED <<owned, disabled, toggles, linking, raced, targeted>>
  BY DEF HandleHello, RowsInv, IInv, TypeOK, tables
<1>2. \A x \in daemons' \ {s} : x \in daemons /\ workspaceIds'[x] = workspaceIds[x]
  BY DEF HandleHello, RowsInv, IInv, TypeOK, tables
<1>3. DisabledIsOwned' /\ TogglesAgree' /\ LinksAgree'
  BY <1>1 DEF RowsInv, DisabledIsOwned, TogglesAgree, LinksAgree, Owns
<1>4. LookupsAgree'
  BY <1>1 DEF RowsInv, LookupsAgree, Owns, Enabled
<1>5. ReachedAgree'
  <2> SUFFICES ASSUME NEW x \in daemons', NEW w \in Workspace, Reached(x, w)',
                      (<<claimed[x], w>> \notin raced)'
               PROVE  (w \in workspaceIds[x] <=> w \in Enabled(claimed[x]))'
    BY DEF ReachedAgree
  <2>1. x # s
    BY <1>1 DEF Reached
  <2>2. x \in daemons /\ x \in Socket
    BY <1>2, <2>1 DEF RowsInv, IInv, TypeOK
  <2>3. claimed'[x] = claimed[x] /\ lookup'[x] = lookup[x] /\ workspaceIds'[x] = workspaceIds[x]
    BY <1>1, <1>2, <2>1, <2>2
  <2>4. Reached(x, w) /\ <<claimed[x], w>> \notin raced
    BY <1>1, <2>3 DEF Reached
  <2>5. w \in workspaceIds[x] <=> w \in Enabled(claimed[x])
    BY <2>2, <2>4 DEF RowsInv, ReachedAgree
  <2>6. QED BY <1>1, <2>3, <2>5 DEF Enabled
<1>6. QED BY <1>3, <1>4, <1>5 DEF RowsInv

\* The lookup reads one table after the other, and its answer is applied.
LEMMA LookupRows ==
  ASSUME ServingAssumption, RowsInv, IInv', NEW s \in Socket,
         ReadOwned(s) \/ ReadDisabled(s) \/ ApplyLookup(s) \/ LookupFails(s)
  PROVE  RowsInv'
<1>1. /\ \A x \in Socket \ {s} : lookup'[x] = lookup[x] /\ workspaceIds'[x] = workspaceIds[x]
      /\ UNCHANGED <<claimed, daemons, owned, disabled, toggles, linking, raced, targeted>>
  BY DEF ReadOwned, ReadDisabled, ApplyLookup, LookupFails, RowsInv, IInv, TypeOK, registry, tables
<1>2. DisabledIsOwned' /\ TogglesAgree' /\ LinksAgree'
  BY <1>1 DEF RowsInv, DisabledIsOwned, TogglesAgree, LinksAgree, Owns
<1>3. ASSUME NEW w \in Workspace, <<claimed[s], w>> \notin raced
      PROVE  /\ lookup'[s].state = "owned" => (w \in lookup'[s].ids <=> Owns(claimed[s], w))
             /\ lookup'[s].state = "read" => (w \in lookup'[s].ids <=> w \in Enabled(claimed[s]))
             /\ lookup'[s].state = "applied" => (w \in workspaceIds'[s] <=> w \in Enabled(claimed[s]))
  <2>1. CASE ReadOwned(s)
    BY <2>1 DEF ReadOwned, RowsInv, IInv, TypeOK, Owns
  <2>2. CASE ReadDisabled(s)
    BY <1>3, <2>2 DEF ReadDisabled, RowsInv, LookupsAgree, IInv, TypeOK, Owns, Enabled
  <2>3. CASE ApplyLookup(s)
    BY <1>3, <2>3 DEF ApplyLookup, Reconciled, RowsInv, LookupsAgree, IInv, TypeOK
  <2>4. CASE LookupFails(s)
    BY <2>4 DEF LookupFails, RowsInv, IInv, TypeOK
  <2>5. QED BY <2>1, <2>2, <2>3, <2>4
<1>4. LookupsAgree'
  BY <1>1, <1>3 DEF RowsInv, LookupsAgree, Owns, Enabled
<1>5. ReachedAgree'
  BY <1>1, <1>3 DEF RowsInv, IInv, TypeOK, ReachedAgree, Reached, Enabled
<1>6. QED BY <1>2, <1>4, <1>5 DEF RowsInv

\* A toggle changes the row of its pair only, and marks the pair if a handler
\* that depends on the row is under way.
LEMMA CommitToggleRows ==
  ASSUME ServingAssumption, RowsInv, IInv', NEW d \in Daemon, NEW w \in Workspace, NEW on \in BOOLEAN,
         CommitToggle(d, w, on)
  PROVE  RowsInv'
<1> DEFINE t == [daemon |-> d, workspace |-> w, on |-> on]
<1>1. /\ \A e \in Daemon, v \in Workspace : e # d \/ v # w => (v \in disabled'[e] <=> v \in disabled[e])
      /\ w \in disabled'[d] <=> ~on
      /\ toggles' = toggles \cup {t} /\ raced \subseteq raced' /\ Owns(d, w)
      /\ UNCHANGED <<claimed, daemons, workspaceIds, lookup, owned, linking, targeted>>
  BY DEF CommitToggle, RowsInv, IInv, TypeOK, registry, Owns
<1>2. <<d, w>> \notin raced' =>
        /\ \A s \in Socket : ~(claimed[s] = d /\ Pending(s))
        /\ \A u \in toggles : ~(u.daemon = d /\ u.workspace = w)
        /\ \A l \in linking : ~(l.owner = OwnerOf[d] /\ l.workspace = w)
  BY DEF CommitToggle
<1>3. DisabledIsOwned'
  BY <1>1 DEF RowsInv, IInv, TypeOK, DisabledIsOwned, Owns
<1>4. TogglesAgree'
  <2>1. t.daemon = d /\ t.workspace = w /\ t.on = on
    OBVIOUS
  <2>2. \A u \in toggles : u.daemon \in Daemon /\ u.workspace \in Workspace
    BY DEF RowsInv, IInv, TypeOK
  <2>3. Owns(d, w)' /\ \A u \in toggles : Owns(u.daemon, u.workspace)'
    BY <1>1 DEF RowsInv, TogglesAgree, Owns
  <2>4. ASSUME NEW u \in toggles, <<u.daemon, u.workspace>> \notin raced'
        PROVE  u.on <=> u.workspace \notin disabled'[u.daemon]
    BY <1>1, <1>2, <2>2, <2>4 DEF RowsInv, TogglesAgree
  <2>5. QED BY <1>1, <2>1, <2>3, <2>4 DEF TogglesAgree
<1>5. LinksAgree'
  <2>1. \A l \in linking : l.workspace \in Workspace
    BY DEF RowsInv, IInv, TypeOK
  <2>2. QED BY <1>1, <1>2, <2>1 DEF RowsInv, LinksAgree
<1>6. LookupsAgree'
  <2>1. \A s \in Socket : lookup[s].state \in {"owned", "read"} => Pending(s) /\ claimed[s] \in Daemon
    BY DEF RowsInv, IInv, TypeOK, Pending
  <2>2. QED BY <1>1, <1>2, <2>1 DEF RowsInv, LookupsAgree, Owns, Enabled
<1>7. ReachedAgree'
  <2>1. \A s \in daemons : claimed[s] \in Daemon
    BY DEF RowsInv, IInv, TypeOK
  <2>2. ASSUME NEW s \in daemons, NEW v \in Workspace, Reached(s, v)', <<claimed[s], v>> \notin raced'
        PROVE  v \in workspaceIds[s] <=> v \in Enabled(claimed[s])'
    <3>1. claimed[s] # d \/ v # w
      <4>1. t \in toggles' /\ t.daemon = d /\ t.workspace = w
        BY <1>1
      <4>2. QED BY <1>1, <2>2, <4>1 DEF Reached
    <3>2. Reached(s, v) /\ <<claimed[s], v>> \notin raced
      BY <1>1, <2>2 DEF Reached
    <3>3. QED BY <1>1, <2>1, <3>1, <3>2 DEF RowsInv, ReachedAgree, Enabled
  <2>3. QED BY <1>1, <2>2 DEF ReachedAgree
<1>8. QED BY <1>3, <1>4, <1>5, <1>6, <1>7 DEF RowsInv

\* The maps follow the row.
LEMMA ApplyToggleRows ==
  ASSUME ServingAssumption, RowsInv, IInv', NEW t \in toggles, ApplyToggle(t)
  PROVE  RowsInv'
<1>1. /\ toggles' = toggles \ {t}
      /\ UNCHANGED <<claimed, daemons, lookup, owned, disabled, linking, raced, targeted>>
  BY DEF ApplyToggle, tables
<1>2. DisabledIsOwned' /\ TogglesAgree' /\ LinksAgree' /\ LookupsAgree'
  BY <1>1 DEF RowsInv, DisabledIsOwned, TogglesAgree, LinksAgree, LookupsAgree, Owns, Enabled
<1>3. ASSUME NEW s \in daemons, NEW w \in Workspace, Reached(s, w)', <<claimed[s], w>> \notin raced
      PROVE  w \in workspaceIds'[s] <=> w \in Enabled(claimed[s])
  <2>1. s \in Socket /\ claimed[s] \in Daemon
    BY DEF RowsInv, IInv, TypeOK
  <2>2. CASE t.daemon = claimed[s] /\ t.workspace = w
    <3>1. w \in workspaceIds'[s] <=> t.on
      BY <2>1, <2>2 DEF ApplyToggle, ConnsOf
    <3>2. QED BY <1>3, <2>2, <3>1 DEF RowsInv, TogglesAgree, Owns, Enabled
  <2>3. CASE ~(t.daemon = claimed[s] /\ t.workspace = w)
    <3>1. w \in workspaceIds'[s] <=> w \in workspaceIds[s]
      BY <2>1, <2>3 DEF ApplyToggle, ConnsOf
    <3>2. Reached(s, w)
      BY <1>1, <1>3, <2>3 DEF Reached
    <3>3. QED BY <1>3, <3>1, <3>2 DEF RowsInv, ReachedAgree
  <2>4. QED BY <2>2, <2>3
<1>4. ReachedAgree'
  BY <1>1, <1>3 DEF ReachedAgree, Enabled
<1>5. QED BY <1>2, <1>4 DEF RowsInv

\* A new workspace is nobody's yet, so no row disables it and no toggle is about it.
LEMMA CreateRows ==
  ASSUME ServingAssumption, RowsInv, IInv', NEW o \in Owner, NEW w \in Workspace, CreateWorkspace(o, w)
  PROVE  RowsInv'
<1> DEFINE l == [owner |-> o, workspace |-> w, seen |-> {}]
<1>1. /\ \A p \in Owner, v \in Workspace : v \in owned'[p] <=> v \in owned[p] \/ (p = o /\ v = w)
      /\ w \notin owned[o] /\ linking' = linking \cup {l} /\ raced \subseteq raced'
      /\ \A s \in Socket : Pending(s) /\ OwnerOf[claimed[s]] = o => <<claimed[s], w>> \in raced'
      /\ UNCHANGED <<claimed, daemons, workspaceIds, lookup, disabled, toggles, targeted>>
  BY DEF CreateWorkspace, RowsInv, IInv, TypeOK, registry
<1>2. l.owner = o /\ l.workspace = w /\ l.seen = {}
  OBVIOUS
<1>3. \A d \in Daemon : OwnerOf[d] \in Owner
  BY DEF ServingAssumption
<1>4. DisabledIsOwned'
  BY <1>1, <1>3 DEF RowsInv, IInv, TypeOK, DisabledIsOwned, Owns
<1>5. TogglesAgree'
  <2>1. \A t \in toggles : t.daemon \in Daemon /\ t.workspace \in Workspace
    BY DEF RowsInv, IInv, TypeOK
  <2>2. QED BY <1>1, <1>3, <2>1 DEF RowsInv, TogglesAgree, Owns
<1>6. LinksAgree'
  <2>1. \A k \in linking : k.owner \in Owner /\ k.workspace \in Workspace
    BY DEF RowsInv, IInv, TypeOK
  <2>2. \A d \in Daemon : OwnerOf[d] = o => w \notin disabled[d]
    BY <1>1 DEF RowsInv, DisabledIsOwned, Owns
  <2>3. \A k \in linking :
          /\ k.workspace \in owned'[k.owner]
          /\ \A d \in Daemon : OwnerOf[d] = k.owner /\ <<d, k.workspace>> \notin raced' =>
                                  k.workspace \notin disabled[d]
    BY <1>1, <2>1 DEF RowsInv, LinksAgree
  <2>4. QED BY <1>1, <1>2, <2>2, <2>3 DEF LinksAgree
<1>7. LookupsAgree'
  <2>1. \A s \in Socket : lookup[s].state \in {"owned", "read"} => Pending(s) /\ claimed[s] \in Daemon
    BY DEF RowsInv, IInv, TypeOK, Pending
  <2>2. QED BY <1>1, <1>3, <2>1 DEF RowsInv, LookupsAgree, Owns, Enabled
<1>8. ReachedAgree'
  <2>1. ASSUME NEW s \in daemons, NEW v \in Workspace, Reached(s, v)', <<claimed[s], v>> \notin raced'
        PROVE  v \in workspaceIds[s] <=> v \in Enabled(claimed[s])'
    <3>1. claimed[s] \in Daemon
      BY DEF RowsInv, IInv, TypeOK
    <3>2. ~(OwnerOf[claimed[s]] = o /\ v = w)
      BY <1>1, <1>2, <2>1 DEF Reached
    <3>3. Reached(s, v) /\ <<claimed[s], v>> \notin raced
      BY <1>1, <2>1 DEF Reached
    <3>4. QED BY <1>1, <1>3, <3>1, <3>2, <3>3 DEF RowsInv, ReachedAgree, Enabled
  <2>2. QED BY <1>1, <2>1 DEF ReachedAgree
<1>9. QED BY <1>4, <1>5, <1>6, <1>7, <1>8 DEF RowsInv

\* A link gives a connection what the rows already say.
LEMMA LinkNextRows ==
  ASSUME ServingAssumption, RowsInv, IInv', NEW l \in linking, NEW s \in Socket, LinkNext(l, s)
  PROVE  RowsInv'
<1> DEFINE m == [l EXCEPT !.seen = @ \cup {s}]
<1>1. l \in [owner : Owner, workspace : Workspace, seen : SUBSET Socket]
  BY DEF RowsInv, IInv, TypeOK
<1>2. m.owner = l.owner /\ m.workspace = l.workspace /\ m.seen = l.seen \cup {s}
  BY <1>1
<1>3. /\ s \in daemons /\ linking' = (linking \ {l}) \cup {m}
      /\ UNCHANGED <<claimed, daemons, lookup, owned, disabled, toggles, raced, targeted>>
  BY DEF LinkNext, tables
<1>4. DisabledIsOwned' /\ TogglesAgree' /\ LookupsAgree'
  BY <1>3 DEF RowsInv, DisabledIsOwned, TogglesAgree, LookupsAgree, Owns, Enabled
<1>5. LinksAgree'
  BY <1>2, <1>3 DEF RowsInv, LinksAgree
<1>6. ASSUME NEW x \in daemons, NEW v \in Workspace, Reached(x, v)', <<claimed[x], v>> \notin raced
      PROVE  v \in workspaceIds'[x] <=> v \in Enabled(claimed[x])
  <2>1. x \in Socket /\ claimed[x] \in Daemon
    BY DEF RowsInv, IInv, TypeOK
  <2>2. CASE x = s /\ OwnerOf[claimed[s]] = l.owner /\ v = l.workspace
    <3>1. v \in workspaceIds'[x]
      BY <2>1, <2>2 DEF LinkNext, Subscribe, RowsInv, IInv, TypeOK
    <3>2. QED BY <1>6, <2>1, <2>2, <3>1 DEF RowsInv, LinksAgree, Enabled
  <2>3. CASE ~(x = s /\ OwnerOf[claimed[s]] = l.owner /\ v = l.workspace)
    <3>1. v \in workspaceIds'[x] <=> v \in workspaceIds[x]
      BY <2>1, <2>3 DEF LinkNext, Subscribe, RowsInv, IInv, TypeOK
    <3>2. Reached(x, v)
      <4>1. \A k \in linking : k.owner = OwnerOf[claimed[x]] /\ k.workspace = v => x \in k.seen
        BY <1>2, <1>3, <1>6, <2>3 DEF Reached
      <4>2. QED BY <1>3, <1>6, <4>1 DEF Reached
    <3>3. QED BY <1>6, <3>1, <3>2 DEF RowsInv, ReachedAgree
  <2>4. QED BY <2>2, <2>3
<1>7. ReachedAgree'
  BY <1>3, <1>6 DEF ReachedAgree, Enabled
<1>8. QED BY <1>4, <1>5, <1>7 DEF RowsInv

LEMMA LinkDoneRows ==
  ASSUME RowsInv, IInv', NEW l \in linking, LinkDone(l)
  PROVE  RowsInv'
<1>1. /\ daemons \subseteq l.seen /\ linking' = linking \ {l}
      /\ UNCHANGED <<claimed, daemons, workspaceIds, lookup, owned, disabled, toggles, raced, targeted>>
  BY DEF LinkDone, registry, tables
<1>2. DisabledIsOwned' /\ TogglesAgree' /\ LinksAgree' /\ LookupsAgree'
  BY <1>1 DEF RowsInv, DisabledIsOwned, TogglesAgree, LinksAgree, LookupsAgree, Owns, Enabled
<1>3. \A s \in daemons, w \in Workspace : Reached(s, w)' => Reached(s, w)
  BY <1>1 DEF Reached
<1>4. ReachedAgree'
  BY <1>1, <1>3 DEF RowsInv, ReachedAgree, Enabled
<1>5. QED BY <1>2, <1>4 DEF RowsInv

LEMMA TargetedRows ==
  ASSUME RowsInv, IInv', NEW s \in Socket, NEW w \in Workspace, TargetedForward(s, w)
  PROVE  RowsInv'
<1>1. /\ targeted' = targeted \cup {<<s, w>>} /\ s \in daemons
      /\ UNCHANGED <<claimed, daemons, lookup, owned, disabled, toggles, linking, raced>>
      /\ \A x \in Socket, v \in Workspace : x # s \/ v # w =>
            (v \in workspaceIds'[x] <=> v \in workspaceIds[x])
  BY DEF TargetedForward, Subscribe, tables, RowsInv, IInv, TypeOK
<1>2. DisabledIsOwned' /\ TogglesAgree' /\ LinksAgree' /\ LookupsAgree'
  BY <1>1 DEF RowsInv, DisabledIsOwned, TogglesAgree, LinksAgree, LookupsAgree, Owns, Enabled
<1>3. \A x \in daemons, v \in Workspace : Reached(x, v)' => Reached(x, v) /\ (x # s \/ v # w)
  BY <1>1 DEF Reached
<1>4. ReachedAgree'
  BY <1>1, <1>3 DEF RowsInv, IInv, TypeOK, ReachedAgree, Enabled
<1>5. QED BY <1>2, <1>4 DEF RowsInv

LEMMA NextRows == ASSUME ServingAssumption, RowsInv, [Next]_vars PROVE RowsInv'
<1>1. IInv'
  BY NextIInv DEF RowsInv
<1>2. ASSUME NEW s \in Socket, HandleConnection(s) \/ BeginClose(s) \/ SocketError(s) \/ SocketClose(s)
      PROVE  RowsInv'
  BY <1>1, <1>2, QuietRows DEF HandleConnection, BeginClose, SocketError, SocketClose, Disconnected,
                               registry, tables
<1>3. CASE UNCHANGED vars
  BY <1>1, <1>3, QuietRows DEF vars, registry, tables
<1>4. QED
  BY <1>1, <1>2, <1>3, HelloRows, LookupRows, CommitToggleRows, ApplyToggleRows, CreateRows,
     LinkNextRows, LinkDoneRows, TargetedRows DEF Next

\* A registered connection whose lookup was applied serves exactly the workspaces
\* the rows enable, unless a row changed under a handler that depended on it:
\* whatever hellos, toggles, links and late answers did to the maps.
THEOREM RowsDecide == ASSUME ServingAssumption PROVE Spec => []ServesWhatIsEnabled
<1>1. RowsInv => ServesWhatIsEnabled
  BY DEF RowsInv, ReachedAgree, ServesWhatIsEnabled, Settled, Reached
<1>2. QED BY <1>1, InitRows, NextRows, PTL DEF Spec
=============================================================================
