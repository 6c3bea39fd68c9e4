----------------------------- MODULE AgentReply -----------------------------
(***************************************************************************)
(* How the reply of a cybo reaches the people who asked.  The cybo has one *)
(* session bound to a channel; members prompt it from the channel and in   *)
(* private.  The daemon's message router tags each event of the session    *)
(* with the person it answers at that moment (dmTurnRecipient), the relay  *)
(* accumulates the text of a turn, stores it when the turn ends and        *)
(* announces it to the channel or to that person.                          *)
(*                                                                         *)
(* Agents share none of this state, so one is enough.  The text is a set   *)
(* of parts <<turn, number>>: what matters is whose turn a part comes from *)
(* and where it ends up.  A part is what the provider wrote within one     *)
(* window of the coalescer (60ms); part 0 is the end of a turn.  The parts *)
(* of a turn belong to one assistant message, so they carry one message    *)
(* id, the turn's.                                                         *)
(***************************************************************************)
EXTENDS Integers, Sequences, FiniteSets

CONSTANTS
  Users,       \* people who prompt the cybo in private
  MaxTurns,    \* bound: prompts
  MaxDeltas,   \* bound: parts of a turn's text
  MaxFaults,   \* bound: relay outages and failed inserts
  Situations   \* what may happen in a behaviour: the values of may

Situation ==
  [turns : 0..MaxTurns, deltas : 0..MaxDeltas, faults : 0..MaxFaults,
   autonomous : BOOLEAN,  \* the session was opened by a schedule (binding.autonomous)
   overlap : BOOLEAN,     \* a prompt may arrive while another one is being answered
   resend : BOOLEAN,      \* so may a second private prompt of the same person
   images : BOOLEAN,      \* a part may hold an image, uploaded before it is sent on
   tail : BOOLEAN,        \* a turn may end while its last parts are yet to be sent
   slow : BOOLEAN]        \* a prompt may arrive before the last reply is stored

ASSUME ReplyAssumption ==
  /\ {"channel", "nobody"} \cap Users = {}
  /\ {MaxTurns, MaxDeltas, MaxFaults} \subseteq Nat
  /\ Situations \subseteq Situation

VARIABLES
  to,          \* [prompt -> the person it comes from, "channel" or "nobody" yet]
  phase,       \* [prompt -> where routeToAgent is with it]
  sent,        \* [prompt -> parts its turn has produced]
  guard,       \* dmTurnRecipient: [person -> prompt that entered him, 0 if absent]
  window,      \* AgentStreamCoalescer: the last part of the running turn is in it
  chain,       \* broadcastChains: events on their way to the relay
  up,          \* the daemon's connection to the relay is open
  pending,     \* relay: pendingAgentMessages, the text of the turn so far
  lastFlushedDmEmail,  \* relay: recipient of the message flushed last
  inserting,   \* relay: flushed messages whose insert is under way
  buffered,    \* Redis: flush triggers kept for a retry after a failed insert
  messages,    \* PostgreSQL: stored replies
  heard,       \* replies announced, and to whom
  faults,      \* failures so far
  may          \* the situation: never changes

daemon == <<to, phase, sent, guard, window, chain>>
relay == <<pending, lastFlushedDmEmail, inserting, buffered>>
failures == <<faults, may>>
vars == <<daemon, up, relay, messages, heard, failures>>

Turn == 1..MaxTurns
NoReply == [id |-> 0, parts |-> {}, dm |-> "nobody", channel |-> FALSE]

Init ==
  /\ to = [n \in Turn |-> "nobody"] /\ phase = [n \in Turn |-> "none"]
  /\ sent = [n \in Turn |-> 0]
  /\ guard = [u \in Users |-> 0] /\ window = FALSE /\ chain = <<>> /\ up = TRUE
  /\ pending = NoReply /\ lastFlushedDmEmail = "nobody"
  /\ inserting = {} /\ buffered = 0
  /\ messages = {} /\ heard = {} /\ faults = 0
  /\ may \in Situations

Fault == faults < may.faults /\ faults' = faults + 1 /\ UNCHANGED may

------------------------------------------------------------------------------
(* The relay.  (An operator named as a slip of the code would read is a      *)
(* mutant of the one after it.)                                              *)

\* accumulateAgentStreamText and mergeAgentStreamDelta: a reply that was private
\* once stays private.
StaysInChannel(channel, dm) == channel
StaysInScope(channel, dm) == channel /\ dm = "nobody"

Merged(parts, part) == parts \cup {part}

Accumulate(part, dm, channel) ==
  /\ pending' = IF pending.parts = {}
                THEN [id |-> part[1], parts |-> {part}, dm |-> dm,
                      channel |-> StaysInScope(channel, dm)]
                ELSE [pending EXCEPT !.parts = Merged(@, part),
                                     !.dm = IF dm = "nobody" THEN @ ELSE dm,
                                     !.channel = StaysInScope(@, dm)]
  /\ UNCHANGED <<lastFlushedDmEmail, inserting>>

\* flushPendingAgentMessage: the narration of an autonomous session is dropped,
\* any other text is on its way to PostgreSQL.
AfterFlush == NoReply

Flush(dm, announced) ==
  /\ pending' = AfterFlush
  /\ IF pending.parts = {}
     THEN UNCHANGED <<lastFlushedDmEmail, inserting>>
     ELSE IF may.autonomous
     THEN lastFlushedDmEmail' = "nobody" /\ UNCHANGED inserting
     ELSE /\ lastFlushedDmEmail' = pending.dm
          /\ inserting' = inserting \cup {[id |-> pending.id, parts |-> pending.parts,
                                           channel |-> pending.channel,
                                           trigger |-> dm, announced |-> announced]}

------------------------------------------------------------------------------
(* The message router of the daemon. *)

Armed == {u \in Users : guard[u] # 0}

\* dmTurnRecipientEmail: the person who entered the map first.
RecipientOrChannel == IF Armed = {} THEN "channel"
                      ELSE CHOOSE u \in Armed : \A v \in Armed : guard[u] <= guard[v]
Recipient == IF Armed = {} THEN "nobody"
             ELSE CHOOSE u \in Armed : \A v \in Armed : guard[u] <= guard[v]

\* broadcast.toWorkspace: what is sent without a connection is lost.
ToRelay(Handler) ==
  IF up THEN Handler ELSE UNCHANGED <<pending, lastFlushedDmEmail, inserting>>

\* emitAgentStream: the event is tagged when it is sent on.
EmitDelta(part) == ToRelay(Accumulate(part, Recipient, Recipient = "nobody" /\ ~may.autonomous))
EmitEnd == ToRelay(Flush(Recipient, TRUE))

StillArmed(n) == guard
Disarmed(n) == [u \in Users |-> IF u = to[n] THEN 0 ELSE guard[u]]

\* routeDmTurn and routeToAgent: a private prompt enters its author in the map,
\* and the session's timeline is written before the run starts.
Busy == {n \in Turn : phase[n] \in {"routing", "running", "ended"}}

MayPrompt(who) ==
  /\ Busy = {} \/ may.overlap
  /\ (\A n \in Busy : to[n] # who) \/ may.resend \/ who = "channel"
  /\ inserting = {} \/ may.slow

Prompt(n, who) ==
  /\ n <= may.turns /\ phase[n] = "none" /\ \A m \in Turn : m < n => phase[m] # "none"
  /\ MayPrompt(who)
  /\ phase' = [phase EXCEPT ![n] = "routing"] /\ to' = [to EXCEPT ![n] = who]
  /\ guard' = [u \in Users |-> IF u = who /\ guard[u] = 0 THEN n ELSE guard[u]]
  /\ UNCHANGED <<sent, window, chain, up, relay, messages, heard, failures>>

Running == {n \in Turn : phase[n] = "running"}

StartTurn(n) ==
  /\ phase[n] = "routing" /\ Running = {}
  /\ phase' = [phase EXCEPT ![n] = "running"]
  /\ UNCHANGED <<to, sent, guard, window, chain, up, relay, messages, heard, failures>>

\* The agent already has an active run: a turn_failed event says so at once,
\* past the chain, and the person leaves the map.
RejectTurn(n) ==
  /\ phase[n] = "routing" /\ Running # {}
  /\ phase' = [phase EXCEPT ![n] = "over"]
  /\ EmitEnd
  /\ guard' = Disarmed(n)
  /\ UNCHANGED <<to, sent, window, chain, up, buffered, messages, heard, failures>>

\* AgentStreamCoalescer.handle: text opens a window, or joins the one that is open.
Delta(n) ==
  /\ phase[n] = "running" /\ sent[n] < may.deltas /\ ~window
  /\ sent' = [sent EXCEPT ![n] = @ + 1]
  /\ window' = TRUE
  /\ UNCHANGED <<to, phase, guard, chain, up, relay, messages, heard, failures>>

\* broadcastAgentStream: an event is sent in a continuation of the one before it.
Ahead(events) == events \o chain
Behind(events) == chain \o events

\* flushBuffer: what the open window holds, with an image or without.
Cut(n, image) == IF window THEN <<[part |-> <<n, sent[n]>>, image |-> image]>> ELSE <<>>

\* The window closes on its timer or before an event that is not coalesced.
WindowEnds(n, image) ==
  /\ window /\ phase[n] = "running" /\ (image => may.images)
  /\ window' = FALSE
  /\ chain' = Behind(Cut(n, image))
  /\ UNCHANGED <<to, phase, sent, guard, up, relay, messages, heard, failures>>

\* The continuation of the event at the head runs: it is sent, its image uploaded.
EmitNext ==
  /\ chain # <<>>
  /\ chain' = Tail(chain)
  /\ IF Head(chain).part[2] = 0 THEN EmitEnd ELSE EmitDelta(Head(chain).part)
  /\ UNCHANGED <<to, phase, sent, guard, window, up, buffered, messages, heard, failures>>

\* Continuations run before anything the router waits for; only an image can hold
\* them up.
Quiet == chain # <<>> => Head(chain).image

\* handleStreamEvent, the terminal event: it closes the window into the chain; the
\* idle agent_status of finalizeForegroundTurn is sent in the same pass, past the
\* chain, and flushes; the event itself follows behind the last part.
EndTurn(n, image) ==
  /\ phase[n] = "running"
  /\ ~may.tail => ~window /\ Quiet
  /\ image => window /\ may.images
  /\ phase' = [phase EXCEPT ![n] = "ended"]
  /\ window' = FALSE
  /\ chain' = Behind(Append(Cut(n, image), [part |-> <<n, 0>>, image |-> FALSE]))
  /\ EmitEnd
  /\ UNCHANGED <<to, sent, guard, up, buffered, messages, heard, failures>>

\* routeToAgent returns, after its own two generators and the provider's answer to
\* refreshRuntimeInfo; from the end of the turn on another run may start.
EndRouting(n) ==
  /\ phase[n] = "ended" /\ Quiet
  /\ phase' = [phase EXCEPT ![n] = "over"]
  /\ guard' = Disarmed(n)
  /\ UNCHANGED <<to, sent, window, chain, up, relay, messages, heard, failures>>

\* handleAgentMessage: the cybo posts to its channel by tool call, and is
\* redirected while a private prompt is being answered.  (A bound: once a turn.)
RedirectTarget == Recipient

SendMessage(n) ==
  /\ phase[n] = "running"
  /\ \A h \in heard : <<n, 0>> \notin h.parts
  /\ heard' = heard \cup {[parts |-> {<<n, 0>>},
                           to |-> IF RedirectTarget = "nobody" THEN "channel" ELSE RedirectTarget]}
  /\ UNCHANGED <<daemon, up, relay, messages, failures>>

------------------------------------------------------------------------------
(* PostgreSQL, Redis and the connection. *)

\* insertMessage does nothing on a message id it has.
Stored(r) == IF \E m \in messages : m.id = r.id THEN messages
             ELSE messages \cup {[id |-> r.id, parts |-> r.parts, channel |-> r.channel]}

\* broadcastAgentReply: the recipient is read after the insert.
AnnouncedInChannel(r) == IF r.channel THEN {[parts |-> r.parts, to |-> "channel"]} ELSE {}
Announced(r) ==
  LET private == IF lastFlushedDmEmail # "nobody" THEN lastFlushedDmEmail ELSE r.trigger
  IN  IF r.channel /\ lastFlushedDmEmail = "nobody" THEN {[parts |-> r.parts, to |-> "channel"]}
      ELSE IF private # "nobody" THEN {[parts |-> r.parts, to |-> private]}
      ELSE {}

Insert(r) ==
  /\ r \in inserting
  /\ inserting' = inserting \ {r}
  /\ messages' = Stored(r)
  /\ IF r.announced
     THEN heard' = heard \cup Announced(r) /\ lastFlushedDmEmail' = "nobody"
     ELSE UNCHANGED <<heard, lastFlushedDmEmail>>
  /\ UNCHANGED <<daemon, up, pending, buffered, failures>>

\* The insert fails: Redis keeps the event that triggered the flush, or, if it
\* was a retry already, nothing.
InsertFails(r) ==
  /\ r \in inserting
  /\ Fault
  /\ inserting' = inserting \ {r}
  /\ buffered' = IF r.announced THEN buffered + 1 ELSE buffered
  /\ UNCHANGED <<daemon, up, pending, lastFlushedDmEmail, messages, heard>>

\* persistBufferedMessages: the trigger flushes what is pending by now.
Retry ==
  /\ buffered > 0
  /\ buffered' = buffered - 1
  /\ Flush("nobody", FALSE)
  /\ UNCHANGED <<daemon, up, messages, heard, failures>>

Disconnect == up /\ Fault /\ up' = FALSE /\ UNCHANGED <<daemon, relay, messages, heard>>
Reconnect == ~up /\ up' = TRUE /\ UNCHANGED <<daemon, relay, messages, heard, failures>>

------------------------------------------------------------------------------

TurnStep(n) == StartTurn(n) \/ RejectTurn(n) \/ EndRouting(n)

Next ==
  \/ \E n \in Turn : \/ \E who \in Users \cup {"channel"} : Prompt(n, who)
                     \/ TurnStep(n) \/ Delta(n) \/ SendMessage(n)
                     \/ \E image \in BOOLEAN : WindowEnds(n, image) \/ EndTurn(n, image)
  \/ EmitNext \/ Retry \/ Disconnect \/ Reconnect
  \/ \E r \in inserting : Insert(r) \/ InsertFails(r)

Spec == Init /\ [][Next]_vars

\* Event loops run and queries end; nothing is assumed of people, of the
\* provider, nor of failures.
Fairness == /\ WF_vars(\E n \in Turn : TurnStep(n))
            /\ WF_vars(EmitNext) /\ WF_vars(\E r \in inserting : Insert(r))

FairSpec == Spec /\ Fairness

------------------------------------------------------------------------------
(* Properties. *)

Scope == Users \cup {"channel", "nobody"}
Part == Turn \X (0..MaxDeltas)

\* The type of every variable.
TypeOK ==
  /\ to \in [Turn -> Scope]
  /\ phase \in [Turn -> {"none", "routing", "running", "ended", "over"}]
  /\ sent \in [Turn -> 0..MaxDeltas]
  /\ guard \in [Users -> 0..MaxTurns]
  /\ window \in BOOLEAN /\ chain \in Seq([part : Part, image : BOOLEAN]) /\ up \in BOOLEAN
  /\ pending \in [id : 0..MaxTurns, parts : SUBSET Part, dm : Scope \ {"channel"}, channel : BOOLEAN]
  /\ lastFlushedDmEmail \in Scope \ {"channel"}
  /\ inserting \subseteq [id : Turn, parts : SUBSET Part, channel : BOOLEAN,
                          trigger : Scope \ {"channel"}, announced : BOOLEAN]
  /\ buffered \in 0..MaxFaults
  /\ messages \subseteq [id : Turn, parts : SUBSET Part, channel : BOOLEAN]
  /\ heard \subseteq [parts : SUBSET Part, to : Scope \ {"nobody"}]
  /\ faults \in 0..MaxFaults /\ may \in Situations

Private(parts) == \E p \in parts : to[p[1]] \in Users

\* "A DM-origin reply is STRUCTURALLY unable to land in a channel"
\* (workspace-relay.ts:87-89): nothing a person was answered in private is
\* stored in the channel, nor announced there.
StaysPrivate ==
  /\ \A m \in messages : m.channel => ~Private(m.parts)
  /\ \A h \in heard : h.to = "channel" => ~Private(h.parts)

\* The code keeps that promise to people who wait for an answer before they
\* write again, of a cybo that sends no images, also where the idle status goes
\* ahead of the last parts of an answer.
Patient == ~may.resend /\ ~may.images
PatientStayPrivate == Patient => StaysPrivate

\* What one person was answered in private is never announced to another one:
\* the captured recipient "is AUTHORITATIVE" (workspace-relay.ts:713-714).
PrivateToRecipient ==
  \A h \in heard : h.to \in Users => \A p \in h.parts : to[p[1]] \in {"channel", h.to}

\* "flush is idempotent" (workspace-relay.ts:807): no part of a reply is
\* announced in two messages, although every turn is flushed twice.
HeardOnce == \A g, h \in heard : g # h => g.parts \cap h.parts = {}

Received == pending.parts \cup UNION {r.parts : r \in inserting \cup messages}

\* "So emit order is preserved" (message-router.ts:535): nothing reaches the
\* relay before an earlier part of its turn that is still in the chain.
InOrder ==
  \A k \in DOMAIN chain : \A p \in Received :
    LET q == chain[k].part IN p[1] = q[1] /\ q[2] # 0 => p[2] < q[2]

\* Flushing twice, and past the chain, repeats nothing and overtakes nothing.
OnceInOrder == HeardOnce /\ InOrder

\* Prompts that wait for each other, and for PostgreSQL, without failures and
\* images: conditions of the three properties below.
Orderly == ~may.overlap /\ ~may.images /\ ~may.slow /\ ~may.autonomous /\ may.faults = 0

\* Every reply is announced where the prompt came from, and nowhere else.
HeardInScope == Orderly => \A h \in heard : \A p \in h.parts : h.to = to[p[1]]

Reply(n) == {<<n, i>> : i \in 1..sent[n]}
HeardBy(n) == UNION {h.parts : h \in {g \in heard : g.to = to[n]}}

Settled == Busy = {} /\ chain = <<>> /\ inserting = {} /\ buffered = 0

\* When all is done, the whole reply of every turn has been announced, and a reply
\* is stored; the whole of it ("commit one message when the turn ends",
\* workspace-relay.ts:802) where the idle status did not go ahead of its last parts:
\* the flush of those finds the message id taken.
StoredInFull ==
  Orderly /\ Settled => \A n \in Turn : sent[n] > 0
    => /\ Reply(n) \subseteq HeardBy(n)
       /\ \E m \in messages : m.id = n /\ m.parts # {} /\ m.parts \subseteq Reply(n)
                                /\ (~may.tail => m.parts = Reply(n))

\* An orderly reply arrives whole, where its prompt came from and nowhere else.
WholeInScope == HeardInScope /\ StoredInFull

\* Whoever is answered hears all of it.
Answered ==
  \A n \in Turn : (Orderly /\ phase[n] = "ended") ~> Reply(n) \subseteq HeardBy(n)
=============================================================================
