-------------------------- MODULE AgentReplyProofs --------------------------
(***************************************************************************)
(* Proofs about AgentReply, for every number of people, prompts, deltas    *)
(* and failures: the types; what was answered in private stays out of the  *)
(* channel, as long as nobody prompts twice without waiting and no image   *)
(* is uploaded; and no part of a reply is announced twice nor overtakes an *)
(* earlier one, whatever happens; and a reply to prompts that wait for     *)
(* each other arrives whole, where its prompt came from and nowhere else.  *)
(***************************************************************************)
EXTENDS AgentReply, SequenceTheorems, WellFoundedInduction, TLAPS

------------------------------------------------------------------------------
(* The chain. *)

\* A sequence and the one that is an element longer.
LEMMA Appended ==
  ASSUME NEW S, NEW s \in Seq(S), NEW e \in S
  PROVE  /\ Append(s, e) \in Seq(S) /\ Len(s) \in Nat
         /\ DOMAIN s = 1..Len(s) /\ DOMAIN Append(s, e) = 1..(Len(s) + 1)
         /\ \A k \in DOMAIN s : k \in DOMAIN Append(s, e) /\ Append(s, e)[k] = s[k]
         /\ Append(s, e)[Len(s) + 1] = e
         /\ \A k \in DOMAIN Append(s, e) : k \in DOMAIN s \/ k = Len(s) + 1
OBVIOUS

\* A sequence and the one that is an element shorter.
LEMMA Shortened ==
  ASSUME NEW S, NEW s \in Seq(S), s # <<>>
  PROVE  /\ Tail(s) \in Seq(S) /\ Len(s) \in Nat \ {0}
         /\ DOMAIN s = 1..Len(s) /\ DOMAIN Tail(s) = 1..(Len(s) - 1)
         /\ 1 \in DOMAIN s /\ Head(s) = s[1] /\ Head(s) \in S
         /\ \A k \in DOMAIN Tail(s) : k + 1 \in DOMAIN s /\ Tail(s)[k] = s[k + 1]
         /\ \A k \in DOMAIN s : k = 1 \/ k - 1 \in DOMAIN Tail(s)
         /\ Len(Tail(s)) = Len(s) - 1
OBVIOUS

\* The last part of a turn, its end, and the chain behind an open window.
LastPart(n, image) == [part |-> <<n, sent[n]>>, image |-> image]
End(n) == [part |-> <<n, 0>>, image |-> FALSE]
Closed(n, image) == IF window THEN Append(chain, LastPart(n, image)) ELSE chain

\* flushBuffer, and the terminal event behind it, put events at the end of the chain.
LEMMA Closing ==
  ASSUME NEW S, chain \in Seq(S), NEW n, NEW image, LastPart(n, image) \in S, End(n) \in S
  PROVE  /\ Behind(Cut(n, image)) = Closed(n, image)
         /\ Behind(Append(Cut(n, image), End(n))) = Append(Closed(n, image), End(n))
         /\ Closed(n, image) \in Seq(S)
<1> DEFINE l == LastPart(n, image)
           e == End(n)
<1>1. l \in S /\ e \in S /\ chain \in Seq(S) OBVIOUS
<1>2. Cut(n, image) = IF window THEN <<l>> ELSE <<>> BY DEF Cut, LastPart
<1>3. Closed(n, image) = IF window THEN Append(chain, l) ELSE chain BY DEF Closed
<1> HIDE DEF l, e
<1>4. chain \o <<l>> = Append(chain, l) /\ chain \o <<>> = chain BY <1>1
<1>5. chain \o Append(<<l>>, e) = Append(Append(chain, l), e) /\ chain \o Append(<<>>, e) = Append(chain, e)
  BY <1>1
<1>6. Append(chain, l) \in Seq(S) BY <1>1
<1>7. QED BY <1>1, <1>2, <1>3, <1>4, <1>5, <1>6 DEF Behind, e

------------------------------------------------------------------------------
(* Private answers. *)

\* The state of the router, and that a prompt has an author once it is there.
RouterTyped ==
  /\ to \in [Turn -> Scope] /\ phase \in [Turn -> {"none", "routing", "running", "ended", "over"}]
  /\ guard \in [Users -> 0..MaxTurns] /\ sent \in [Turn -> Nat]
  /\ \A n \in Turn : phase[n] # "none" => to[n] # "nobody"

\* Nobody has two prompts being answered, and the map knows whoever has one.
GuardHolds ==
  /\ \A m, n \in Busy : to[m] \in Users /\ to[m] = to[n] => m = n
  /\ \A n \in Busy : to[n] \in Users => guard[to[n]] # 0

\* A text under way, stored or announced comes from prompts that were made.
Made(parts) == \A p \in parts : p[1] \in Turn /\ phase[p[1]] # "none"

\* A text that goes to the channel, or to nobody but the channel.
Safe(text) == Made(text.parts) /\ (text.channel => ~Private(text.parts))

TextsSafe ==
  /\ Safe(pending)
  /\ \A r \in inserting \cup messages : Safe(r)
  /\ \A h \in heard : Made(h.parts) /\ (h.to = "channel" => ~Private(h.parts))

\* Replies are addressed to people, never to a person called "channel".
Addressed ==
  /\ pending \in [id : Nat, parts : SUBSET (Turn \X Nat), dm : Scope, channel : BOOLEAN]
  /\ "channel" \notin {pending.dm, lastFlushedDmEmail}
  /\ \A r \in inserting : r.trigger # "channel"

\* Without images nothing holds the chain up: what waits in it comes from a turn
\* that is still being answered, although the turn itself may be at its end.
Spoken == {n \in Turn : phase[n] \in {"running", "ended"}}

ChainSafe ==
  /\ chain \in Seq([part : Turn \X Nat, image : {FALSE}])
  /\ \A k \in DOMAIN chain : chain[k].part[1] \in Spoken

\* The inductive invariant, of a behaviour whose people are patient.
PrivacyInv == RouterTyped /\ GuardHolds /\ ChainSafe /\ TextsSafe /\ Addressed

\* It gives the property.
LEMMA PrivacyEnough == ASSUME PrivacyInv PROVE StaysPrivate
BY DEF PrivacyInv, TextsSafe, Safe, StaysPrivate

\* Nothing is under way at the start.
LEMMA InitPrivacy == ASSUME ReplyAssumption, Init PROVE PrivacyInv
<1>1. RouterTyped BY DEF Init, ReplyAssumption, RouterTyped, Scope, Turn
<1>2. GuardHolds BY DEF Init, GuardHolds, Busy
<1>3. TextsSafe BY DEF Init, TextsSafe, Safe, Made, Private, NoReply
<1>4. Addressed BY DEF Init, Addressed, NoReply, Scope
<1>5. ChainSafe BY DEF Init, ChainSafe
<1>6. QED BY <1>1, <1>2, <1>3, <1>4, <1>5 DEF PrivacyInv

\* Every set of numbers that is not empty has a least one.
Less == {ss \in Nat \X Nat : ss[1] < ss[2]}

LEMMA LeastNumber == ASSUME NEW S \in SUBSET Nat, S # {} PROVE \E k \in S : \A m \in S : k <= m
<1>1. IsWellFoundedOn(Less, Nat)
  <2>1. OpToRel(<, Nat) = Less BY DEF OpToRel, Less
  <2>2. QED BY <2>1, NatLessThanWellFounded
<1>2. PICK k \in S : \A m \in S : ~(<<m, k>> \in Less) BY <1>1, WFMin
<1>3. ASSUME NEW m \in S PROVE k <= m
  <2>1. k \in Nat /\ m \in Nat /\ ~(<<m, k>> \in Less) BY <1>2
  <2>2. <<m, k>> \in Nat \X Nat /\ <<m, k>>[1] = m /\ <<m, k>>[2] = k BY <2>1
  <2>3. ~(m < k) BY <2>1, <2>2 DEF Less
  <2>4. QED BY <2>1, <2>3
<1>4. QED BY <1>3

\* dmTurnRecipientEmail finds a person whenever the map has one.
LEMMA RecipientIsAPerson ==
  ASSUME ReplyAssumption, RouterTyped, Armed # {}
  PROVE  Recipient \in Users
<1> DEFINE entered == {guard[u] : u \in Armed}
<1>0. MaxTurns \in Nat BY DEF ReplyAssumption
<1>1. entered \in SUBSET Nat /\ entered # {}
  <2>1. \A u \in Armed : guard[u] \in Nat BY <1>0 DEF RouterTyped, Armed
  <2>2. QED BY <2>1
<1>2. PICK k \in entered : \A m \in entered : k <= m
  <2> HIDE DEF entered
  <2>1. QED BY <1>1, LeastNumber
<1>3. \E u \in Armed : \A v \in Armed : guard[u] <= guard[v]
  <2>1. PICK u \in Armed : guard[u] = k BY <1>2
  <2>2. \A v \in Armed : guard[v] \in entered OBVIOUS
  <2>3. QED BY <1>2, <2>1, <2>2
<1>4. Recipient \in Armed
  BY <1>3 DEF Recipient
<1>5. QED BY <1>4 DEF Armed

\* A tag is a person or nobody.
LEMMA TagIsAScope ==
  ASSUME ReplyAssumption, RouterTyped PROVE Recipient \in Scope \ {"channel"}
<1>1. CASE Armed = {} BY <1>1 DEF Recipient, Scope
<1>2. CASE Armed # {} BY <1>2, RecipientIsAPerson DEF Scope, ReplyAssumption
<1>3. QED BY <1>1, <1>2

\* While a private prompt is being answered, what is sent is tagged for a person.
LEMMA TaggedWhileAnswered ==
  ASSUME ReplyAssumption, PrivacyInv, NEW n \in Busy, to[n] \in Users
  PROVE  Recipient # "nobody"
<1>1. to[n] \in Armed BY DEF PrivacyInv, GuardHolds, Armed
<1>2. QED BY <1>1, RecipientIsAPerson DEF PrivacyInv, ReplyAssumption

------------------------------------------------------------------------------
(* The texts. *)

\* A step that forgets no prompt.
Later == \A n \in Turn : phase[n] # "none" => phase'[n] # "none" /\ to'[n] = to[n]

\* A text that is safe stays so.
LEMMA SafeLater ==
  ASSUME Later, NEW parts, Made(parts)
  PROVE  Made(parts)' /\ (Private(parts)' <=> Private(parts))
BY DEF Later, Made, Private

\* Nothing happens to the texts.
LEMMA SameTexts ==
  ASSUME TextsSafe, Later, UNCHANGED <<pending, inserting, messages, heard>>
  PROVE  TextsSafe'
<1>1. Safe(pending)' BY SafeLater DEF TextsSafe, Safe
<1>2. \A r \in inserting' \cup messages' : Safe(r)' BY SafeLater DEF TextsSafe, Safe
<1>3. \A h \in heard' : Made(h.parts)' /\ (h.to = "channel" => ~Private(h.parts)')
  BY SafeLater DEF TextsSafe
<1>4. QED BY <1>1, <1>2, <1>3 DEF TextsSafe, Made, Private, Safe

\* What a delta makes of the text.
LEMMA Accumulated ==
  ASSUME Addressed, NEW n \in Turn, NEW k \in Nat, NEW dm \in Scope \ {"channel"},
         NEW channel \in BOOLEAN, Accumulate(<<n, k>>, dm, channel)
  PROVE  /\ pending'.parts = pending.parts \cup {<<n, k>>}
         /\ pending'.channel => dm = "nobody" /\ (pending.parts = {} \/ pending.channel)
         /\ pending'.dm # "channel"
         /\ pending' \in [id : Nat, parts : SUBSET (Turn \X Nat), dm : Scope, channel : BOOLEAN]
<1>1. n \in Nat /\ <<n, k>> \in Turn \X Nat /\ <<n, k>>[1] = n BY DEF Turn
<1>2. CASE pending.parts = {}
  <2>1. pending' = [id |-> n, parts |-> {<<n, k>>}, dm |-> dm, channel |-> channel /\ dm = "nobody"]
    BY <1>1, <1>2 DEF Accumulate, StaysInScope
  <2>2. QED BY <1>1, <1>2, <2>1
<1>3. CASE pending.parts # {}
  <2>1. pending' = [pending EXCEPT !.parts = @ \cup {<<n, k>>},
                                   !.dm = IF dm = "nobody" THEN @ ELSE dm,
                                   !.channel = @ /\ dm = "nobody"]
    BY <1>3 DEF Accumulate, Merged, StaysInScope
  <2>2. QED BY <1>1, <1>3, <2>1 DEF Addressed
<1>4. QED BY <1>2, <1>3

\* The relay takes a part of a turn that is being answered: a private one makes the
\* whole text private.
LEMMA DeltaTexts ==
  ASSUME ReplyAssumption, PrivacyInv, Later, NEW n \in Busy, NEW k \in Nat,
         EmitDelta(<<n, k>>), UNCHANGED <<messages, heard>>
  PROVE  TextsSafe'
<1>1. CASE ~up
  BY <1>1, SameTexts DEF EmitDelta, ToRelay, PrivacyInv
<1>2. CASE up
  <2> DEFINE parts == pending.parts \cup {<<n, k>>}
  <2>0. Recipient \in Scope \ {"channel"} BY TagIsAScope DEF PrivacyInv
  <2>1. Accumulate(<<n, k>>, Recipient, Recipient = "nobody" /\ ~may.autonomous)
    BY <1>2 DEF EmitDelta, ToRelay
  <2>2. pending'.parts = parts /\ (pending'.channel => Recipient = "nobody" /\ (pending.parts = {} \/ pending.channel))
    BY <2>0, <2>1, Accumulated DEF PrivacyInv, Busy
  <2>3. Made(parts) BY DEF PrivacyInv, TextsSafe, Safe, Made, Busy
  <2>4. pending'.channel => ~Private(parts)
    BY <2>2, TaggedWhileAnswered DEF PrivacyInv, TextsSafe, Safe, Private
  <2>5. Safe(pending)' BY <2>2, <2>3, <2>4, SafeLater DEF Safe
  <2>6. UNCHANGED inserting BY <1>2 DEF EmitDelta, ToRelay, Accumulate
  <2>7. \A r \in inserting' \cup messages' : Safe(r)'
    BY <2>6, SafeLater DEF PrivacyInv, TextsSafe, Safe
  <2>8. \A h \in heard' : Made(h.parts)' /\ (h.to = "channel" => ~Private(h.parts)')
    BY SafeLater DEF PrivacyInv, TextsSafe
  <2>9. QED BY <2>5, <2>7, <2>8 DEF TextsSafe, Made, Private, Safe
<1>3. QED BY <1>1, <1>2

\* The relay flushes: the scope of the text goes with it.
LEMMA FlushTexts ==
  ASSUME TextsSafe, Later, NEW dm, NEW announced, Flush(dm, announced), UNCHANGED <<messages, heard>>
  PROVE  TextsSafe'
<1> DEFINE r == [id |-> pending.id, parts |-> pending.parts, channel |-> pending.channel,
                 trigger |-> dm, announced |-> announced]
<1>1. pending' = NoReply /\ inserting' \subseteq inserting \cup {r}
  BY DEF Flush, AfterFlush
<1>2. Safe(pending)' BY <1>1 DEF Safe, Made, NoReply, Private
<1>3. Safe(r) BY DEF TextsSafe, Safe
<1>4. \A q \in inserting' \cup messages' : Safe(q)'
  BY <1>1, <1>3, SafeLater DEF TextsSafe, Safe
<1>5. \A h \in heard' : Made(h.parts)' /\ (h.to = "channel" => ~Private(h.parts)')
  BY SafeLater DEF TextsSafe
<1>6. QED BY <1>2, <1>4, <1>5 DEF TextsSafe, Made, Private, Safe

\* A flush that is sent, whether it arrives or not.
LEMMA EndTexts ==
  ASSUME TextsSafe, Later, EmitEnd, UNCHANGED <<messages, heard>>
  PROVE  TextsSafe'
BY SameTexts, FlushTexts DEF EmitEnd, ToRelay

\* An insert ends: only what is bound for the channel is announced there.
LEMMA InsertTexts ==
  ASSUME TextsSafe, Addressed, NEW r \in inserting, Insert(r) \/ InsertFails(r)
  PROVE  TextsSafe'
<1>1. Later /\ UNCHANGED pending /\ inserting' \subseteq inserting
  BY DEF Later, Insert, InsertFails, daemon
<1>2. Safe(r) BY DEF TextsSafe
<1>3. \A m \in messages' : Made(m.parts) /\ (m.channel => ~Private(m.parts))
  BY <1>2 DEF Insert, InsertFails, Stored, TextsSafe, Safe
<1>4. \A h \in Announced(r) : Made(h.parts) /\ (h.to = "channel" => ~Private(h.parts))
  BY <1>2 DEF Announced, Safe, Addressed
<1>5. \A h \in heard' : Made(h.parts) /\ (h.to = "channel" => ~Private(h.parts))
  BY <1>4 DEF Insert, InsertFails, TextsSafe
<1>6. Safe(pending)' BY <1>1, SafeLater DEF TextsSafe, Safe
<1>7. \A q \in inserting' \cup messages' : Safe(q)'
  BY <1>1, <1>3, SafeLater DEF TextsSafe, Safe
<1>8. \A h \in heard' : Made(h.parts)' /\ (h.to = "channel" => ~Private(h.parts)')
  BY <1>1, <1>5, SafeLater
<1>9. QED BY <1>6, <1>7, <1>8 DEF TextsSafe, Made, Private, Safe

\* A new prompt: none of the texts is its own.
LEMMA PromptTexts ==
  ASSUME ReplyAssumption, PrivacyInv, NEW n \in Turn, NEW who, Prompt(n, who)
  PROVE  TextsSafe'
<1>1. Later BY DEF Later, Prompt, PrivacyInv, RouterTyped
<1>2. UNCHANGED <<pending, inserting, messages, heard>> BY DEF Prompt, relay
<1>3. QED BY <1>1, <1>2, SameTexts DEF PrivacyInv

\* cyborg7_send_message: a post of a private turn is redirected to a person.
LEMMA PostTexts ==
  ASSUME ReplyAssumption, PrivacyInv, NEW n \in Turn, SendMessage(n)
  PROVE  TextsSafe'
<1> DEFINE post == [parts |-> {<<n, 0>>},
                    to |-> IF Recipient = "nobody" THEN "channel" ELSE Recipient]
<1>1. Later /\ UNCHANGED <<pending, inserting, messages>> /\ heard' = heard \cup {post}
  BY DEF Later, SendMessage, RedirectTarget, daemon, relay
<1>2. Made(post.parts) BY DEF SendMessage, Made
<1>3. post.to = "channel" => ~Private(post.parts)
  <2>1. phase[n] = "running" BY DEF SendMessage
  <2>2. to[n] \in Users => Recipient # "nobody" BY <2>1, TaggedWhileAnswered DEF Busy
  <2>3. Recipient # "nobody" => Recipient \in Users
    BY RecipientIsAPerson DEF Recipient, PrivacyInv
  <2>4. QED BY <2>2, <2>3 DEF Private, ReplyAssumption
<1>4. \A h \in heard' : Made(h.parts)' /\ (h.to = "channel" => ~Private(h.parts)')
  BY <1>1, <1>2, <1>3, SafeLater DEF PrivacyInv, TextsSafe
<1>5. Safe(pending)' /\ \A r \in inserting' \cup messages' : Safe(r)'
  BY <1>1, SafeLater DEF PrivacyInv, TextsSafe, Safe
<1>6. QED BY <1>4, <1>5 DEF TextsSafe, Made, Private, Safe

\* Every step keeps the texts safe.
LEMMA NextTexts == ASSUME ReplyAssumption, PrivacyInv, Patient, [Next]_vars PROVE TextsSafe'
<1>1. ASSUME NEW n \in Turn, NEW who, Prompt(n, who) PROVE TextsSafe'
  BY <1>1, PromptTexts
<1>2. ASSUME NEW n \in Turn, StartTurn(n) \/ EndRouting(n) PROVE TextsSafe'
  <2>1. Later /\ UNCHANGED <<pending, inserting, messages, heard>>
    BY <1>2 DEF StartTurn, EndRouting, Later, relay, PrivacyInv, RouterTyped
  <2>2. QED BY <2>1, SameTexts DEF PrivacyInv
<1>3. ASSUME NEW n \in Turn, NEW image, RejectTurn(n) \/ EndTurn(n, image) PROVE TextsSafe'
  <2>1. Later /\ EmitEnd /\ UNCHANGED <<messages, heard>>
    BY <1>3 DEF RejectTurn, EndTurn, Later, PrivacyInv, RouterTyped
  <2>2. QED BY <2>1, EndTexts DEF PrivacyInv
<1>4. ASSUME NEW n \in Turn, SendMessage(n) PROVE TextsSafe'
  BY <1>4, PostTexts
<1>5. ASSUME NEW n \in Turn, NEW image, Delta(n) \/ WindowEnds(n, image) PROVE TextsSafe'
  <2>1. Later /\ UNCHANGED <<pending, inserting, messages, heard>>
    BY <1>5 DEF Delta, WindowEnds, Later, relay
  <2>2. QED BY <2>1, SameTexts DEF PrivacyInv
<1>6. ASSUME Retry PROVE TextsSafe'
  <2>1. Later /\ Flush("nobody", FALSE) /\ UNCHANGED <<messages, heard>>
    BY <1>6 DEF Retry, Later, daemon
  <2>2. QED BY <2>1, FlushTexts DEF PrivacyInv
<1>7. ASSUME NEW r \in inserting, Insert(r) \/ InsertFails(r) PROVE TextsSafe'
  BY <1>7, InsertTexts DEF PrivacyInv
<1>8. ASSUME EmitNext PROVE TextsSafe'
  <2>1. Later /\ UNCHANGED <<messages, heard>> /\ chain # <<>> BY <1>8 DEF EmitNext, Later
  <2>2. CASE Head(chain).part[2] = 0
    BY <1>8, <2>1, <2>2, EndTexts DEF EmitNext, PrivacyInv
  <2>3. CASE Head(chain).part[2] # 0
    <3>1. PICK n \in Spoken, k \in Nat : Head(chain).part = <<n, k>>
      <4>1. /\ Head(chain) \in [part : Turn \X Nat, image : {FALSE}]
            /\ 1 \in DOMAIN chain /\ Head(chain) = chain[1]
        BY <2>1, Shortened DEF PrivacyInv, ChainSafe
      <4>2. Head(chain).part[1] \in Spoken BY <4>1 DEF PrivacyInv, ChainSafe
      <4>3. QED BY <4>1, <4>2
    <3>2. EmitDelta(<<n, k>>) BY <1>8, <2>3, <3>1 DEF EmitNext
    <3>3. n \in Busy BY DEF Spoken, Busy
    <3>4. QED BY <2>1, <3>2, <3>3, DeltaTexts
  <2>4. QED BY <2>2, <2>3
<1>9. CASE Disconnect \/ Reconnect \/ UNCHANGED vars
  <2>1. Later /\ UNCHANGED <<pending, inserting, messages, heard>>
    BY <1>9 DEF Disconnect, Reconnect, Later, vars, daemon, relay
  <2>2. QED BY <2>1, SameTexts DEF PrivacyInv
<1>10. QED BY <1>1, <1>2, <1>3, <1>4, <1>5, <1>6, <1>7, <1>8, <1>9 DEF Next, TurnStep

------------------------------------------------------------------------------
(* The router. *)

\* routeDmTurn: a patient person enters the map with the prompt that is made.
LEMMA PromptGuard ==
  ASSUME ReplyAssumption, Patient, RouterTyped, GuardHolds,
         NEW n \in Turn, NEW who \in Users \cup {"channel"}, Prompt(n, who)
  PROVE  RouterTyped' /\ GuardHolds'
<1>1. RouterTyped' BY DEF Prompt, RouterTyped, ReplyAssumption, Scope, Turn
<1>2. Busy' = Busy \cup {n} /\ n \notin Busy
  BY DEF Prompt, Busy, RouterTyped
<1>3. /\ to'[n] = who /\ \A m \in Busy : to'[m] = to[m] /\ (who \in Users => to[m] # who)
      /\ \A u \in Users : guard'[u] = IF u = who /\ guard[u] = 0 THEN n ELSE guard[u]
  BY <1>2 DEF Prompt, RouterTyped, MayPrompt, Patient, ReplyAssumption
<1>4. n # 0 BY DEF Turn
<1>5. \A m \in Busy' : to'[m] \in Users => guard'[to'[m]] # 0
  BY <1>2, <1>3, <1>4 DEF GuardHolds
<1>6. \A k, m \in Busy' : to'[k] \in Users /\ to'[k] = to'[m] => k = m
  BY <1>2, <1>3 DEF GuardHolds
<1>7. QED BY <1>1, <1>5, <1>6 DEF GuardHolds

\* The prompt that is over takes its author out of the map, and no other's.
LEMMA OverGuard ==
  ASSUME ReplyAssumption, RouterTyped, GuardHolds, NEW n \in Busy,
         phase' = [phase EXCEPT ![n] = "over"], guard' = Disarmed(n), UNCHANGED <<to, sent>>
  PROVE  RouterTyped' /\ GuardHolds'
<1>1. RouterTyped'
  BY DEF RouterTyped, Disarmed, Busy, ReplyAssumption
<1>2. Busy' = Busy \ {n} BY DEF Busy, RouterTyped
<1>3. \A u \in Users : guard'[u] = IF u = to[n] THEN 0 ELSE guard[u] BY DEF Disarmed
<1>4. \A m \in Busy' : to'[m] \in Users => guard'[to'[m]] # 0
  BY <1>2, <1>3 DEF GuardHolds
<1>5. \A k, m \in Busy' : to'[k] \in Users /\ to'[k] = to'[m] => k = m
  BY <1>2 DEF GuardHolds
<1>6. QED BY <1>1, <1>4, <1>5 DEF GuardHolds

\* A prompt moves on without leaving the router, or nothing happens to it.
LEMMA MovedGuard ==
  ASSUME ReplyAssumption, RouterTyped, GuardHolds, NEW n \in Busy,
         phase' \in {[phase EXCEPT ![n] = "running"], [phase EXCEPT ![n] = "ended"], phase},
         UNCHANGED <<to, guard>>, sent' \in {sent, [sent EXCEPT ![n] = @ + 1]}
  PROVE  RouterTyped' /\ GuardHolds'
<1>1. RouterTyped' BY DEF RouterTyped, Busy
<1>2. Busy' = Busy BY DEF Busy, RouterTyped
<1>3. QED BY <1>1, <1>2 DEF GuardHolds

\* Every step keeps the router's part of the invariant.
LEMMA NextGuard ==
  ASSUME ReplyAssumption, Patient, RouterTyped, GuardHolds, [Next]_vars
  PROVE  RouterTyped' /\ GuardHolds'
<1>1. ASSUME NEW n \in Turn, NEW who \in Users \cup {"channel"}, Prompt(n, who)
      PROVE RouterTyped' /\ GuardHolds'
  BY <1>1, PromptGuard
<1>2. ASSUME NEW n \in Turn, RejectTurn(n) \/ EndRouting(n) PROVE RouterTyped' /\ GuardHolds'
  <2>1. n \in Busy /\ phase' = [phase EXCEPT ![n] = "over"] /\ guard' = Disarmed(n) /\ UNCHANGED <<to, sent>>
    BY <1>2 DEF RejectTurn, EndRouting, Busy
  <2>2. QED BY <2>1, OverGuard
<1>3. ASSUME NEW n \in Turn, NEW image,
             StartTurn(n) \/ EndTurn(n, image) \/ Delta(n) \/ WindowEnds(n, image)
      PROVE RouterTyped' /\ GuardHolds'
  <2>1. /\ n \in Busy /\ UNCHANGED <<to, guard>> /\ sent' \in {sent, [sent EXCEPT ![n] = @ + 1]}
        /\ phase' \in {[phase EXCEPT ![n] = "running"], [phase EXCEPT ![n] = "ended"], phase}
    BY <1>3 DEF StartTurn, EndTurn, Delta, WindowEnds, Busy
  <2>2. QED BY <2>1, MovedGuard
<1>4. ASSUME UNCHANGED <<to, phase, sent, guard>> PROVE RouterTyped' /\ GuardHolds'
  BY <1>4 DEF RouterTyped, GuardHolds, Busy
<1>5. ASSUME NEW n \in Turn, SendMessage(n) PROVE RouterTyped' /\ GuardHolds'
  BY <1>4, <1>5 DEF SendMessage, daemon
<1>6. ASSUME NEW r \in inserting, Insert(r) \/ InsertFails(r) PROVE RouterTyped' /\ GuardHolds'
  BY <1>4, <1>6 DEF Insert, InsertFails, daemon
<1>7. CASE EmitNext \/ Retry \/ Disconnect \/ Reconnect \/ UNCHANGED vars
  BY <1>4, <1>7 DEF EmitNext, Retry, Disconnect, Reconnect, vars, daemon
<1>8. QED BY <1>1, <1>2, <1>3, <1>5, <1>6, <1>7 DEF Next, TurnStep

------------------------------------------------------------------------------
(* The addresses and the chain. *)

\* A delta that is sent brings a person's address or none.
LEMMA DeltaAddressed ==
  ASSUME ReplyAssumption, RouterTyped, Addressed, NEW n \in Turn, NEW k \in Nat, EmitDelta(<<n, k>>)
  PROVE  Addressed'
<1>1. CASE ~up BY <1>1 DEF EmitDelta, ToRelay, Addressed
<1>2. CASE up
  <2>1. Recipient \in Scope \ {"channel"} BY TagIsAScope
  <2>2. Accumulate(<<n, k>>, Recipient, Recipient = "nobody" /\ ~may.autonomous)
    BY <1>2 DEF EmitDelta, ToRelay
  <2>3. UNCHANGED <<lastFlushedDmEmail, inserting>> BY <2>2 DEF Accumulate
  <2>4. QED BY <2>1, <2>2, <2>3, Accumulated DEF Addressed
<1>3. QED BY <1>1, <1>2

\* A flush takes over the address of the text.
LEMMA FlushAddressed ==
  ASSUME Addressed, NEW dm, dm # "channel", NEW announced, Flush(dm, announced)
  PROVE  Addressed'
BY DEF Flush, AfterFlush, Addressed, NoReply, Scope

\* So does a flush that is sent.
LEMMA EndAddressed ==
  ASSUME ReplyAssumption, RouterTyped, Addressed, EmitEnd PROVE Addressed'
<1>1. CASE ~up BY <1>1 DEF EmitEnd, ToRelay, Addressed
<1>2. CASE up
  <2>1. Recipient # "channel" BY TagIsAScope
  <2>2. QED BY <1>2, <2>1, FlushAddressed DEF EmitEnd, ToRelay
<1>3. QED BY <1>1, <1>2

\* Every step keeps the addresses.
LEMMA NextAddressed ==
  ASSUME ReplyAssumption, PrivacyInv, [Next]_vars PROVE Addressed'
<1> USE DEF PrivacyInv
<1>1. ASSUME NEW n \in Turn, NEW image, RejectTurn(n) \/ EndTurn(n, image) PROVE Addressed'
  BY <1>1, EndAddressed DEF RejectTurn, EndTurn
<1>2. ASSUME EmitNext PROVE Addressed'
  <2>1. Head(chain) \in [part : Turn \X Nat, image : {FALSE}]
    BY <1>2, Shortened DEF EmitNext, ChainSafe
  <2>2. PICK n \in Turn, k \in Nat : Head(chain).part = <<n, k>> BY <2>1
  <2>3. QED BY <1>2, <2>2, EndAddressed, DeltaAddressed DEF EmitNext
<1>3. CASE Retry
  <2>1. Flush("nobody", FALSE) BY <1>3 DEF Retry
  <2>2. QED BY <2>1, FlushAddressed
<1>4. ASSUME NEW r \in inserting, Insert(r) \/ InsertFails(r) PROVE Addressed'
  BY <1>4 DEF Insert, InsertFails, Addressed
<1>5. ASSUME UNCHANGED <<pending, lastFlushedDmEmail, inserting>> PROVE Addressed'
  BY <1>5 DEF Addressed
<1>6. ASSUME NEW n \in Turn, NEW who, Prompt(n, who) \/ StartTurn(n) \/ EndRouting(n) \/ SendMessage(n)
      PROVE Addressed'
  BY <1>5, <1>6 DEF Prompt, StartTurn, EndRouting, SendMessage, relay
<1>7. ASSUME NEW n \in Turn, NEW image, Delta(n) \/ WindowEnds(n, image) PROVE Addressed'
  BY <1>5, <1>7 DEF Delta, WindowEnds, relay
<1>8. CASE Disconnect \/ Reconnect \/ UNCHANGED vars
  BY <1>5, <1>8 DEF Disconnect, Reconnect, vars, relay
<1>9. QED BY <1>1, <1>2, <1>3, <1>4, <1>6, <1>7, <1>8 DEF Next, TurnStep

\* Without images, what a step leaves in the chain has no image and belongs to a
\* turn that is being answered.
LEMMA NextChain ==
  ASSUME ReplyAssumption, Patient, PrivacyInv, [Next]_vars PROVE ChainSafe'
<1> DEFINE Events == [part : Turn \X Nat, image : {FALSE}]
<1>1. RouterTyped /\ chain \in Seq(Events) /\ \A k \in DOMAIN chain : chain[k].part[1] \in Spoken
  BY DEF PrivacyInv, ChainSafe
<1>2. ASSUME UNCHANGED chain, Spoken \subseteq Spoken' PROVE ChainSafe'
  BY <1>1, <1>2 DEF ChainSafe
<1>3. ASSUME NEW n \in Turn, NEW who,
             Prompt(n, who) \/ StartTurn(n) \/ RejectTurn(n) \/ Delta(n) \/ SendMessage(n)
      PROVE  ChainSafe'
  BY <1>1, <1>2, <1>3 DEF Prompt, StartTurn, RejectTurn, Delta, SendMessage, daemon, Spoken, RouterTyped
<1>4. ASSUME NEW n \in Turn, NEW image \in BOOLEAN, WindowEnds(n, image) \/ EndTurn(n, image) PROVE ChainSafe'
  <2>1. image = FALSE /\ n \in Spoken /\ sent[n] \in Nat
    BY <1>1, <1>4 DEF WindowEnds, EndTurn, Patient, Spoken, RouterTyped
  <2>2. LastPart(n, image) \in Events /\ End(n) \in Events BY <2>1 DEF LastPart, End
  <2>3. LastPart(n, image).part[1] = n /\ End(n).part[1] = n BY DEF LastPart, End
  <2> HIDE DEF Events
  <2>4. /\ Closed(n, image) \in Seq(Events)
        /\ chain' \in {Closed(n, image), Append(Closed(n, image), End(n))}
    <3>1. chain' = Behind(Cut(n, image)) \/ chain' = Behind(Append(Cut(n, image), End(n)))
      BY <1>4 DEF WindowEnds, EndTurn, End
    <3>2. QED BY <1>1, <2>2, <3>1, Closing
  <2>5. \A k \in DOMAIN Closed(n, image) : Closed(n, image)[k].part[1] \in Spoken
    BY <1>1, <2>1, <2>2, <2>3, Appended DEF Closed
  <2>6. \A k \in DOMAIN Append(Closed(n, image), End(n)) :
          Append(Closed(n, image), End(n))[k].part[1] \in Spoken
    BY <2>1, <2>2, <2>3, <2>4, <2>5, Appended
  <2>7. Append(Closed(n, image), End(n)) \in Seq(Events) BY <2>2, <2>4, Appended
  <2>8. Spoken' = Spoken BY <1>1, <1>4 DEF WindowEnds, EndTurn, Spoken, RouterTyped
  <2>9. QED BY <2>4, <2>5, <2>6, <2>7, <2>8 DEF ChainSafe, Events
<1>5. ASSUME EmitNext PROVE ChainSafe'
  <2>1. chain # <<>> /\ chain' = Tail(chain) /\ UNCHANGED phase BY <1>5 DEF EmitNext
  <2> HIDE DEF Events
  <2>2. /\ chain' \in Seq(Events)
        /\ \A k \in DOMAIN chain' : k + 1 \in DOMAIN chain /\ chain'[k] = chain[k + 1]
    BY <1>1, <2>1, Shortened
  <2>3. QED BY <1>1, <2>1, <2>2 DEF ChainSafe, Spoken, Events
<1>6. ASSUME NEW n \in Turn, EndRouting(n) PROVE ChainSafe'
  <2>1. chain = <<>>
    <3>1. chain # <<>> => Head(chain) \in Events BY <1>1, Shortened
    <3>2. QED BY <1>6, <3>1 DEF EndRouting, Quiet
  <2>2. QED BY <1>1, <1>6, <2>1 DEF EndRouting, ChainSafe
<1>7. ASSUME NEW r \in inserting, Insert(r) \/ InsertFails(r) PROVE ChainSafe'
  BY <1>2, <1>7 DEF Insert, InsertFails, daemon, Spoken
<1>8. CASE Retry \/ Disconnect \/ Reconnect \/ UNCHANGED vars
  BY <1>2, <1>8 DEF Retry, Disconnect, Reconnect, vars, daemon, Spoken
<1>9. QED BY <1>3, <1>4, <1>5, <1>6, <1>7, <1>8 DEF Next, TurnStep

\* A behaviour stays in its situation.
LEMMA SituationStays == [Next]_vars => UNCHANGED may
<1>1. CASE EmitNext \/ Retry \/ Disconnect \/ Reconnect \/ UNCHANGED vars
  BY <1>1 DEF EmitNext, Retry, Disconnect, Reconnect, vars, failures, Fault
<1>2. ASSUME NEW n \in Turn, \/ \E who \in Users \cup {"channel"} : Prompt(n, who)
                             \/ TurnStep(n) \/ Delta(n) \/ SendMessage(n)
                             \/ \E image \in BOOLEAN : WindowEnds(n, image) \/ EndTurn(n, image)
      PROVE  UNCHANGED may
  BY <1>2 DEF Prompt, TurnStep, StartTurn, RejectTurn, EndRouting, EndTurn, SendMessage, Delta, WindowEnds, failures
<1>3. ASSUME NEW q \in inserting, Insert(q) \/ InsertFails(q) PROVE UNCHANGED may
  BY <1>3 DEF Insert, InsertFails, failures, Fault
<1>4. QED BY <1>1, <1>2, <1>3 DEF Next

\* message-router.ts:200-210 and workspace-relay.ts:84-91: the guard of the
\* router and the relay's sticky scope keep private answers out of the channel.
THEOREM PrivateStaysPrivate == ASSUME ReplyAssumption PROVE Spec => []PatientStayPrivate
<1> DEFINE Inv == Patient => PrivacyInv
<1>1. Init => Inv BY InitPrivacy
<1>2. Inv /\ [Next]_vars => Inv'
  <2>1. [Next]_vars => (Patient' <=> Patient) BY SituationStays DEF Patient
  <2>2. PrivacyInv /\ Patient /\ [Next]_vars => PrivacyInv'
    BY NextTexts, NextGuard, NextAddressed, NextChain DEF PrivacyInv
  <2>3. QED BY <2>1, <2>2
<1>3. Inv => PatientStayPrivate BY PrivacyEnough DEF PatientStayPrivate
<1>4. QED BY <1>1, <1>2, <1>3, PTL DEF Spec

------------------------------------------------------------------------------
(* Types, in every situation.                                                   *)

Text == [id : 0..MaxTurns, parts : SUBSET Part, dm : Scope \ {"channel"}, channel : BOOLEAN]
Flushed == [id : Turn, parts : SUBSET Part, channel : BOOLEAN,
            trigger : Scope \ {"channel"}, announced : BOOLEAN]

Event == [part : Part, image : BOOLEAN]

DaemonTypes ==
  /\ RouterTyped /\ window \in BOOLEAN /\ chain \in Seq(Event)
  /\ \A n \in Turn : sent[n] <= may.deltas

\* A text that is not empty has the number of the turn that began it.
RelayTypes ==
  /\ pending \in Text /\ (pending.parts # {} => pending.id \in Turn)
  /\ lastFlushedDmEmail \in Scope \ {"channel"}
  /\ inserting \subseteq Flushed
  /\ buffered \in Nat /\ buffered <= faults

StoreTypes ==
  /\ messages \subseteq [id : Turn, parts : SUBSET Part, channel : BOOLEAN]
  /\ heard \subseteq [parts : SUBSET Part, to : Scope \ {"nobody"}]

WorldTypes ==
  /\ up \in BOOLEAN /\ may \in Situations
  /\ faults \in Nat /\ faults <= may.faults

TypesInv == DaemonTypes /\ RelayTypes /\ StoreTypes /\ WorldTypes

\* What the situation bounds, the constants bound.
LEMMA Bounds ==
  ASSUME ReplyAssumption, may \in Situations
  PROVE  /\ may.deltas \in 0..MaxDeltas /\ may.faults \in 0..MaxFaults
         /\ MaxTurns \in Nat /\ MaxDeltas \in Nat /\ MaxFaults \in Nat
         /\ may.autonomous \in BOOLEAN
BY DEF ReplyAssumption, Situation

LEMMA TypesEnough == ASSUME ReplyAssumption, TypesInv PROVE TypeOK
<1>1. sent \in [Turn -> 0..MaxDeltas]
  BY Bounds DEF TypesInv, DaemonTypes, WorldTypes, RouterTyped
<1>2. faults \in 0..MaxFaults /\ buffered \in 0..MaxFaults
  BY Bounds DEF TypesInv, RelayTypes, WorldTypes
<1>3. QED
  BY <1>1, <1>2 DEF TypesInv, DaemonTypes, RelayTypes, StoreTypes, WorldTypes, RouterTyped, Text, Flushed, Event, TypeOK

LEMMA InitTypes == ASSUME ReplyAssumption, Init PROVE TypesInv
<1>1. DaemonTypes
  <2>1. RouterTyped /\ window \in BOOLEAN /\ chain \in Seq(Event)
    <3>1. RouterTyped
      BY DEF Init, RouterTyped, Scope, Turn, ReplyAssumption
    <3>2. QED BY <3>1, EmptySeq DEF Init
  <2>2. may.deltas \in Nat /\ \A n \in Turn : sent[n] = 0
    BY Bounds DEF Init
  <2>3. QED BY <2>1, <2>2 DEF DaemonTypes
<1>2. RelayTypes
  BY DEF Init, RelayTypes, Text, NoReply, Scope, ReplyAssumption
<1>3. StoreTypes
  BY DEF Init, StoreTypes
<1>4. WorldTypes
  BY Bounds DEF Init, WorldTypes
<1>5. QED BY <1>1, <1>2, <1>3, <1>4 DEF TypesInv

\* What a turn puts into the chain.
LEMMA EventTyped ==
  ASSUME ReplyAssumption, TypesInv, NEW n \in Turn, NEW image \in BOOLEAN
  PROVE  LastPart(n, image) \in Event /\ End(n) \in Event
<1>1. sent[n] \in 0..MaxDeltas
  BY Bounds DEF TypesInv, DaemonTypes, WorldTypes, RouterTyped
<1>2. <<n, sent[n]>> \in Part /\ <<n, 0>> \in Part
  BY <1>1 DEF Part, ReplyAssumption
<1>3. QED BY <1>2 DEF LastPart, End, Event

\* What the router does to its own state.
LEMMA DaemonTypesStep == ASSUME ReplyAssumption, TypesInv, [Next]_vars PROVE DaemonTypes'
<1> USE DEF DaemonTypes
<1>1. DaemonTypes /\ may \in Situations /\ UNCHANGED may /\ may.deltas \in Nat /\ may.deltas <= MaxDeltas
  BY SituationStays, Bounds DEF TypesInv, WorldTypes
<1>2. ASSUME NEW n \in Turn, NEW who \in Users \cup {"channel"}, Prompt(n, who) PROVE DaemonTypes'
  <2>1. RouterTyped'
    BY <1>1, <1>2 DEF Prompt, RouterTyped, ReplyAssumption, Scope, Turn
  <2>2. QED BY <1>1, <1>2, <2>1 DEF Prompt
<1>3. ASSUME NEW n \in Turn, NEW image \in BOOLEAN,
             \/ StartTurn(n) \/ RejectTurn(n) \/ EndRouting(n)
             \/ WindowEnds(n, image) \/ EndTurn(n, image)
      PROVE  DaemonTypes'
  <2>1. RouterTyped' /\ UNCHANGED sent
    <3>1. guard \in [Users -> 0..MaxTurns] /\ 0 \in 0..MaxTurns
      BY <1>1 DEF RouterTyped, ReplyAssumption
    <3>2. Disarmed(n) \in [Users -> 0..MaxTurns]
      BY <3>1 DEF Disarmed
    <3>3. guard' \in [Users -> 0..MaxTurns] /\ UNCHANGED <<to, sent>>
      BY <1>3, <3>1, <3>2 DEF StartTurn, RejectTurn, EndTurn, WindowEnds, EndRouting
    <3>4. /\ phase' \in [Turn -> {"none", "routing", "running", "ended", "over"}]
          /\ \A m \in Turn : phase'[m] # "none" => phase[m] # "none"
      BY <1>1, <1>3 DEF StartTurn, RejectTurn, EndTurn, WindowEnds, EndRouting, RouterTyped
    <3>5. QED BY <1>1, <3>3, <3>4 DEF RouterTyped
  <2>2. window' \in BOOLEAN
    BY <1>1, <1>3 DEF StartTurn, RejectTurn, EndTurn, WindowEnds, EndRouting
  <2>3. chain' \in Seq(Event)
    <3>1. LastPart(n, image) \in Event /\ End(n) \in Event
      BY <1>1, EventTyped DEF TypesInv
    <3>2. chain \in Seq(Event)
      BY <1>1
    <3>3. Closed(n, image) \in Seq(Event) /\ Append(Closed(n, image), End(n)) \in Seq(Event)
      BY <3>1, <3>2, Closing, Appended
    <3>4. chain' \in {chain, Closed(n, image), Append(Closed(n, image), End(n))}
      BY <1>3, <3>1, <3>2, Closing DEF StartTurn, RejectTurn, EndTurn, WindowEnds, EndRouting, End
    <3>5. QED BY <3>2, <3>3, <3>4
  <2>4. QED BY <1>1, <2>1, <2>2, <2>3
<1>4. ASSUME NEW n \in Turn, Delta(n) PROVE DaemonTypes'
  <2>1. /\ sent[n] \in Nat /\ sent[n] < may.deltas /\ sent' = [sent EXCEPT ![n] = @ + 1] /\ window' = TRUE
        /\ UNCHANGED <<to, phase, guard, chain>>
    BY <1>1, <1>4 DEF Delta, RouterTyped
  <2>2. RouterTyped' /\ \A m \in Turn : sent'[m] <= may.deltas
    BY <1>1, <2>1 DEF RouterTyped
  <2>3. QED BY <1>1, <2>1, <2>2
<1>5. CASE EmitNext
  <2>1. Tail(chain) \in Seq(Event)
    BY <1>1, <1>5, Shortened DEF EmitNext
  <2>2. QED BY <1>1, <1>5, <2>1 DEF EmitNext, RouterTyped
<1>6. ASSUME UNCHANGED daemon PROVE DaemonTypes'
  BY <1>1, <1>6 DEF daemon, RouterTyped
<1>7. ASSUME NEW n \in Turn, SendMessage(n) PROVE DaemonTypes'
  BY <1>6, <1>7 DEF SendMessage
<1>8. ASSUME NEW r \in inserting, Insert(r) \/ InsertFails(r) PROVE DaemonTypes'
  BY <1>6, <1>8 DEF Insert, InsertFails
<1>9. CASE Retry \/ Disconnect \/ Reconnect \/ UNCHANGED vars
  BY <1>6, <1>9 DEF Retry, Disconnect, Reconnect, vars
<1>10. QED BY <1>2, <1>3, <1>4, <1>5, <1>7, <1>8, <1>9 DEF Next, TurnStep

\* What the handlers of the relay do to its texts.
RelayTexts == pending \in Text /\ (pending.parts # {} => pending.id \in Turn)
              /\ lastFlushedDmEmail \in Scope \ {"channel"} /\ inserting \subseteq Flushed

LEMMA DeltaTyped ==
  ASSUME ReplyAssumption, TypesInv, NEW part \in Part, EmitDelta(part)
  PROVE  RelayTexts'
<1>1. RelayTexts
  BY DEF TypesInv, RelayTypes, RelayTexts
<1>2. CASE ~up
  BY <1>1, <1>2 DEF EmitDelta, ToRelay, RelayTexts
<1>3. CASE up
  <2> DEFINE dm == Recipient
             channel == Recipient = "nobody" /\ ~may.autonomous
  <2>1. dm \in Scope \ {"channel"}
    BY TagIsAScope DEF TypesInv, DaemonTypes
  <2>2. channel \in BOOLEAN
    OBVIOUS
  <2>3. Accumulate(part, dm, channel)
    BY <1>3 DEF EmitDelta, ToRelay
  <2> HIDE DEF dm, channel
  <2>4. part[1] \in Turn /\ part[1] \in 0..MaxTurns
    BY DEF Part, Turn, ReplyAssumption
  <2>5. CASE pending.parts = {}
    BY <1>1, <2>1, <2>2, <2>3, <2>4, <2>5 DEF Accumulate, StaysInScope, RelayTexts, Text
  <2>6. CASE pending.parts # {}
    BY <1>1, <2>1, <2>2, <2>3, <2>6 DEF Accumulate, StaysInScope, Merged, RelayTexts, Text
  <2>7. QED BY <2>5, <2>6
<1>4. QED BY <1>2, <1>3

LEMMA FlushTyped ==
  ASSUME ReplyAssumption, TypesInv, NEW dm \in Scope \ {"channel"}, NEW announced \in BOOLEAN,
         Flush(dm, announced)
  PROVE  RelayTexts'
<1>1. RelayTexts
  BY DEF TypesInv, RelayTypes, RelayTexts
<1>2. NoReply \in Text /\ NoReply.parts = {}
  BY DEF NoReply, Text, Scope, ReplyAssumption
<1>3. "nobody" \in Scope \ {"channel"}
  BY DEF Scope
<1>4. QED BY <1>1, <1>2, <1>3 DEF Flush, AfterFlush, RelayTexts, Text, Flushed

LEMMA EndTyped == ASSUME ReplyAssumption, TypesInv, EmitEnd PROVE RelayTexts'
<1>1. Recipient \in Scope \ {"channel"}
  BY TagIsAScope DEF TypesInv, DaemonTypes
<1>2. RelayTexts
  BY DEF TypesInv, RelayTypes, RelayTexts
<1>3. QED BY <1>1, <1>2, FlushTyped DEF EmitEnd, ToRelay, RelayTexts

LEMMA RelayTypesStep == ASSUME ReplyAssumption, TypesInv, [Next]_vars PROVE RelayTypes'
<1>1. RelayTexts /\ buffered \in Nat /\ faults \in Nat /\ buffered <= faults
  BY DEF TypesInv, RelayTypes, RelayTexts, WorldTypes
<1>2. ASSUME RelayTexts', buffered' \in Nat, buffered' <= faults' PROVE RelayTypes'
  BY <1>2 DEF RelayTexts, RelayTypes
<1>3. ASSUME NEW n \in Turn, NEW image, RejectTurn(n) \/ EndTurn(n, image) PROVE RelayTypes'
  BY <1>1, <1>2, <1>3, EndTyped DEF RejectTurn, EndTurn, failures
<1>9. ASSUME UNCHANGED relay, UNCHANGED faults \/ Fault PROVE RelayTypes'
  BY <1>1, <1>2, <1>9 DEF relay, Fault, RelayTexts
<1>4. ASSUME NEW n \in Turn, NEW image, Delta(n) \/ WindowEnds(n, image) PROVE RelayTypes'
  BY <1>9, <1>4 DEF Delta, WindowEnds, failures
<1>5. CASE EmitNext
  <2>1. Head(chain).part \in Part
    <3>1. Head(chain) \in Event
      BY <1>5, Shortened DEF EmitNext, TypesInv, DaemonTypes
    <3>2. QED BY <3>1 DEF Event
  <2>2. RelayTexts'
    BY <1>5, <2>1, DeltaTyped, EndTyped DEF EmitNext
  <2>3. QED BY <1>1, <1>2, <1>5, <2>2 DEF EmitNext, failures
<1>6. CASE Retry
  <2>1. RelayTexts'
    BY <1>6, FlushTyped DEF Retry, Scope, ReplyAssumption
  <2>2. QED BY <1>1, <1>2, <1>6, <2>1 DEF Retry, failures
<1>7. ASSUME NEW r \in inserting, Insert(r) PROVE RelayTypes'
  <2>1. RelayTexts'
    BY <1>1, <1>7 DEF Insert, RelayTexts, Scope, ReplyAssumption
  <2>2. QED BY <1>1, <1>2, <1>7, <2>1 DEF Insert, failures
<1>8. ASSUME NEW r \in inserting, InsertFails(r) PROVE RelayTypes'
  BY <1>1, <1>2, <1>8 DEF InsertFails, Fault, RelayTexts
<1>10. ASSUME NEW n \in Turn, NEW who, Prompt(n, who) \/ StartTurn(n) \/ EndRouting(n) \/ SendMessage(n)
       PROVE  RelayTypes'
  BY <1>9, <1>10 DEF Prompt, StartTurn, EndRouting, SendMessage, failures
<1>11. CASE Disconnect \/ Reconnect \/ UNCHANGED vars
  BY <1>9, <1>11 DEF Disconnect, Reconnect, vars, failures
<1>12. QED BY <1>3, <1>4, <1>5, <1>6, <1>7, <1>8, <1>10, <1>11 DEF Next, TurnStep

\* What is stored and announced comes from a flushed text or a tool call.
LEMMA StoreTypesStep == ASSUME ReplyAssumption, TypesInv, [Next]_vars PROVE StoreTypes'
<1>1. StoreTypes
  BY DEF TypesInv
<1>2. ASSUME NEW r \in inserting, Insert(r) PROVE StoreTypes'
  <2>1. r \in Flushed /\ lastFlushedDmEmail \in Scope \ {"channel"}
    BY DEF TypesInv, RelayTypes
  <2>2. messages' \subseteq [id : Turn, parts : SUBSET Part, channel : BOOLEAN]
    BY <1>1, <1>2, <2>1 DEF Insert, Stored, StoreTypes, Flushed
  <2>3. Announced(r) \subseteq [parts : SUBSET Part, to : Scope \ {"nobody"}]
    BY <2>1 DEF Announced, Flushed, Scope
  <2>4. QED BY <1>1, <1>2, <2>2, <2>3 DEF Insert, StoreTypes
<1>3. ASSUME NEW n \in Turn, SendMessage(n) PROVE StoreTypes'
  <2>1. Recipient \in Scope /\ <<n, 0>> \in Part /\ "channel" \in Scope \ {"nobody"}
    BY TagIsAScope DEF TypesInv, DaemonTypes, Part, Scope, ReplyAssumption
  <2>2. QED BY <1>1, <1>3, <2>1 DEF SendMessage, RedirectTarget, StoreTypes
<1>4. ASSUME UNCHANGED <<messages, heard>> PROVE StoreTypes'
  BY <1>1, <1>4 DEF StoreTypes
<1>5. ASSUME NEW n \in Turn, \/ \E who \in Users \cup {"channel"} : Prompt(n, who)
                             \/ TurnStep(n) \/ Delta(n)
                             \/ \E image \in BOOLEAN : WindowEnds(n, image) \/ EndTurn(n, image)
      PROVE  StoreTypes'
  BY <1>4, <1>5 DEF Prompt, TurnStep, StartTurn, RejectTurn, EndRouting, EndTurn, Delta, WindowEnds
<1>6. ASSUME NEW r \in inserting, InsertFails(r) PROVE StoreTypes'
  BY <1>4, <1>6 DEF InsertFails
<1>7. CASE EmitNext \/ Retry \/ Disconnect \/ Reconnect \/ UNCHANGED vars
  BY <1>4, <1>7 DEF EmitNext, Retry, Disconnect, Reconnect, vars
<1>8. QED BY <1>2, <1>3, <1>5, <1>6, <1>7 DEF Next

LEMMA WorldTypesStep == ASSUME ReplyAssumption, TypesInv, [Next]_vars PROVE WorldTypes'
<1>1. WorldTypes /\ may.faults \in Nat
  BY Bounds DEF TypesInv, WorldTypes
<1>2. ASSUME UNCHANGED may, up' \in BOOLEAN, UNCHANGED faults \/ Fault PROVE WorldTypes'
  BY <1>1, <1>2 DEF WorldTypes, Fault
<1>3. up \in BOOLEAN /\ UNCHANGED may
  BY <1>1, SituationStays DEF WorldTypes
<1>4. ASSUME NEW n \in Turn, \/ \E who \in Users \cup {"channel"} : Prompt(n, who)
                             \/ TurnStep(n) \/ Delta(n) \/ SendMessage(n)
                             \/ \E image \in BOOLEAN : WindowEnds(n, image) \/ EndTurn(n, image)
      PROVE  UNCHANGED <<up, faults>>
  BY <1>4 DEF Prompt, TurnStep, StartTurn, RejectTurn, EndRouting, EndTurn, SendMessage, Delta, WindowEnds, failures
<1>5. ASSUME NEW q \in inserting, Insert(q) \/ InsertFails(q) PROVE UNCHANGED up /\ (UNCHANGED faults \/ Fault)
  BY <1>5 DEF Insert, InsertFails, failures
<1>6. CASE EmitNext \/ Retry \/ Disconnect \/ Reconnect \/ UNCHANGED vars
  <2>1. up' \in BOOLEAN /\ (UNCHANGED faults \/ Fault)
    BY <1>3, <1>6 DEF EmitNext, Retry, Disconnect, Reconnect, vars, failures
  <2>2. QED BY <1>2, <1>3, <2>1
<1>7. QED BY <1>2, <1>3, <1>4, <1>5, <1>6 DEF Next

LEMMA NextTypes == ASSUME ReplyAssumption, TypesInv, [Next]_vars PROVE TypesInv'
BY DaemonTypesStep, RelayTypesStep, StoreTypesStep, WorldTypesStep DEF TypesInv

\* Every variable keeps its type in every situation; a text that is not empty
\* belongs to a turn, and no more triggers are buffered than inserts failed.
THEOREM ReplyTypes == ASSUME ReplyAssumption PROVE Spec => []TypeOK
<1>1. TypesInv => TypeOK BY TypesEnough
<1>2. QED BY <1>1, InitTypes, NextTypes, PTL DEF Spec

------------------------------------------------------------------------------
(* Flushing twice and past the chain repeats nothing and overtakes nothing.  *)

\* Every part that has reached the relay or a reader.
Seen == Received \cup UNION {h.parts : h \in heard}

\* The text being accumulated, the texts being stored and the announcements share
\* no part, and a text holds deltas only (part 0 is the post of a tool call).
Apart ==
  /\ HeardOnce
  /\ \A r \in inserting : /\ \A h \in heard : r.parts \cap h.parts = {}
                          /\ \A q \in inserting : q # r => q.parts \cap r.parts = {}
                          /\ r.parts \cap pending.parts = {}
  /\ \A h \in heard : h.parts \cap pending.parts = {}
  /\ \A p \in pending.parts : p[2] # 0
  /\ \A r \in inserting : \A p \in r.parts : p[2] # 0

\* The window belongs to the one turn that runs, and holds the last of its parts.
OneWindow ==
  /\ \A m, n \in Running : m = n
  /\ window => Running # {}
  /\ \A n \in Running : window => sent[n] > 0

\* The number of the last part of a turn that has left the window.
Out(n) == IF window /\ phase[n] = "running" THEN sent[n] - 1 ELSE sent[n]

\* A turn numbers its parts in the order it produces them; what waits in the chain
\* comes after everything of its turn that was seen, and waits in order.
Numbered ==
  /\ \A p \in Seen : p[2] <= Out(p[1])
  /\ \A k \in DOMAIN chain : chain[k].part[2] <= Out(chain[k].part[1])

Waiting ==
  \A k \in DOMAIN chain : \A p \in Seen :
    LET q == chain[k].part IN p[1] = q[1] /\ q[2] # 0 => p[2] < q[2]

Sorted ==
  \A j, k \in DOMAIN chain :
    LET p == chain[j].part
        q == chain[k].part
    IN  j < k /\ p[1] = q[1] /\ q[2] # 0 => p[2] < q[2]

OrderInv == Apart /\ OneWindow /\ Numbered /\ Waiting /\ Sorted

LEMMA OrderEnough == OrderInv => OnceInOrder
BY DEF OrderInv, Apart, Waiting, Seen, OnceInOrder, InOrder

\* What has been seen, and what waits, are parts.
LEMMA SeenParts ==
  ASSUME ReplyAssumption, TypesInv
  PROVE  /\ Seen \subseteq Part
         /\ \A p \in Part : p[1] \in Turn /\ p[2] \in Nat
         /\ chain \in Seq(Event) /\ \A e \in Event : e.part \in Part
         /\ sent \in [Turn -> Nat] /\ window \in BOOLEAN
BY DEF ReplyAssumption, TypesInv, DaemonTypes, RelayTypes, StoreTypes, RouterTyped, Seen, Received, Text, Flushed, Part, Event

LEMMA InitOrder == ASSUME Init PROVE OrderInv
BY DEF Init, NoReply, OrderInv, Apart, HeardOnce, OneWindow, Running, Numbered, Waiting, Sorted, Seen, Received

------------------------------------------------------------------------------

\* An event of the turn adds its part to the text; the end of a turn hands the
\* text on and leaves an empty one; without a connection nothing happens.
Gathers(part) == inserting' = inserting /\ pending'.parts \subseteq pending.parts \cup {part}

HandsOn ==
  \/ UNCHANGED inserting /\ pending'.parts \subseteq pending.parts
  \/ /\ pending'.parts = {}
     /\ \E r : r.parts = pending.parts /\ inserting' \subseteq inserting \cup {r}

LEMMA DeltaGathers == ASSUME TypesInv, NEW part, EmitDelta(part) PROVE Gathers(part)
<1>1. pending \in Text
  BY DEF TypesInv, RelayTypes
<1>2. CASE ~up
  BY <1>2 DEF EmitDelta, ToRelay, Gathers
<1>3. CASE up
  <2> DEFINE dm == Recipient
             channel == Recipient = "nobody" /\ ~may.autonomous
  <2>1. Accumulate(part, dm, channel)
    BY <1>3 DEF EmitDelta, ToRelay
  <2> HIDE DEF dm, channel
  <2>2. QED BY <1>1, <2>1 DEF Accumulate, Merged, Text, Gathers
<1>4. QED BY <1>2, <1>3

LEMMA FlushHandsOn == ASSUME NEW dm, NEW announced, Flush(dm, announced) PROVE HandsOn
<1>1. pending'.parts = {}
  BY DEF Flush, AfterFlush, NoReply
<1>2. CASE UNCHANGED inserting
  BY <1>1, <1>2 DEF HandsOn
<1>3. CASE ~ UNCHANGED inserting
  <2> DEFINE r == [id |-> pending.id, parts |-> pending.parts, channel |-> pending.channel,
                   trigger |-> dm, announced |-> announced]
  <2>1. inserting' = inserting \cup {r} /\ r.parts = pending.parts
    BY <1>3 DEF Flush
  <2>2. QED BY <1>1, <2>1 DEF HandsOn
<1>4. QED BY <1>2, <1>3

LEMMA EndHandsOn == ASSUME EmitEnd PROVE HandsOn
<1>1. CASE up
  BY <1>1, FlushHandsOn DEF EmitEnd, ToRelay
<1>2. CASE ~up
  BY <1>2 DEF EmitEnd, ToRelay, HandsOn
<1>3. QED BY <1>1, <1>2

\* Neither brings parts together that were apart.
LEMMA GatheringKeepsApart ==
  ASSUME Apart, NEW part, part \notin Seen, part[2] # 0, Gathers(part), UNCHANGED <<messages, heard>>
  PROVE  Apart' /\ Seen' \subseteq Seen \cup {part}
<1>1. Seen' \subseteq Seen \cup {part}
  BY DEF Gathers, Seen, Received
<1>2. (\A r \in inserting : part \notin r.parts) /\ (\A h \in heard : part \notin h.parts)
  BY DEF Seen, Received
<1>3. Apart'
  BY <1>2 DEF Gathers, Apart, HeardOnce
<1>4. QED BY <1>1, <1>3

LEMMA HandingOnKeepsApart ==
  ASSUME Apart, HandsOn, UNCHANGED <<messages, heard>>
  PROVE  Apart' /\ Seen' \subseteq Seen
<1>1. CASE UNCHANGED inserting /\ pending'.parts \subseteq pending.parts
  BY <1>1 DEF Apart, HeardOnce, Seen, Received
<1>2. ASSUME pending'.parts = {}, NEW r, r.parts = pending.parts, inserting' \subseteq inserting \cup {r}
      PROVE  Apart' /\ Seen' \subseteq Seen
  <2>1. Seen' \subseteq Seen
    BY <1>2 DEF Seen, Received
  <2>2. Apart'
    BY <1>2 DEF Apart, HeardOnce
  <2>3. QED BY <2>1, <2>2
<1>3. QED BY <1>1, <1>2 DEF HandsOn

\* A step that sends nothing, shows nothing new and moves no turn into or out of
\* its run keeps the numbering.
LEMMA NothingNew ==
  ASSUME OrderInv, Seen' \subseteq Seen, UNCHANGED <<sent, window, chain>>, Apart',
         \A n \in Turn : phase'[n] = "running" <=> phase[n] = "running",
         Seen \subseteq Part, \A p \in Part : p[1] \in Turn,
         \A k \in DOMAIN chain : chain[k].part \in Part
  PROVE  OrderInv'
<1>1. Running' = Running /\ \A n \in Turn : Out(n)' = Out(n)
  BY DEF Running, Out
<1>2. OneWindow'
  BY <1>1 DEF OrderInv, OneWindow, Running
<1>3. Numbered'
  BY <1>1 DEF OrderInv, Numbered
<1>4. Waiting' /\ Sorted'
  BY DEF OrderInv, Waiting, Sorted
<1>5. QED BY <1>2, <1>3, <1>4 DEF OrderInv

\* What waits is a part, and has a number.
LEMMA ChainParts ==
  ASSUME ReplyAssumption, TypesInv
  PROVE  /\ \A k \in DOMAIN chain : chain[k] \in Event /\ chain[k].part \in Part
         /\ \A n \in Turn : sent[n] \in Nat /\ Out(n) \in Int /\ Out(n) <= sent[n] /\ sent[n] - 1 <= Out(n)
<1>1. /\ chain \in Seq(Event) /\ \A e \in Event : e.part \in Part
      /\ sent \in [Turn -> Nat] /\ window \in BOOLEAN
  BY SeenParts
<1>2. \A k \in DOMAIN chain : chain[k] \in Event
  BY <1>1
<1>3. \A n \in Turn : sent[n] \in Nat
  BY <1>1
<1>4. QED BY <1>1, <1>2, <1>3 DEF Out

\* A run starts with a window that is closed.
LEMMA StartOrder ==
  ASSUME ReplyAssumption, TypesInv, OrderInv, NEW n \in Turn, StartTurn(n)
  PROVE  OrderInv'
<1>1. /\ Running = {} /\ phase' = [phase EXCEPT ![n] = "running"]
      /\ UNCHANGED <<sent, window, chain, pending, inserting, messages, heard>>
  BY DEF StartTurn, relay
<1>2. ~window /\ Running' \subseteq {n}
  BY <1>1 DEF OrderInv, OneWindow, Running, TypesInv, DaemonTypes, RouterTyped
<1>3. OneWindow'
  BY <1>1, <1>2 DEF OneWindow
<1>4. \A m : Out(m)' = Out(m)
  BY <1>1, <1>2 DEF Out
<1>5. Numbered'
  BY <1>1, <1>4 DEF OrderInv, Numbered, Seen, Received
<1>6. Apart' /\ Waiting' /\ Sorted'
  BY <1>1 DEF OrderInv, Apart, HeardOnce, Waiting, Sorted, Seen, Received
<1>7. QED BY <1>3, <1>5, <1>6 DEF OrderInv

\* Text opens the window: its part has not left it.
LEMMA DeltaOrder ==
  ASSUME ReplyAssumption, TypesInv, OrderInv, NEW n \in Turn, Delta(n)
  PROVE  OrderInv'
<1>1. /\ phase[n] = "running" /\ ~window /\ window' = TRUE /\ sent' = [sent EXCEPT ![n] = @ + 1]
      /\ UNCHANGED <<phase, chain, pending, inserting, messages, heard>>
  BY DEF Delta, relay
<1>2. n \in Running /\ Running' = Running /\ \A m \in Running : m = n
  BY <1>1 DEF OrderInv, OneWindow, Running
<1>3. \A m \in Turn : sent[m] \in Nat /\ sent'[m] = IF m = n THEN sent[m] + 1 ELSE sent[m]
  BY <1>1, ChainParts DEF TypesInv, DaemonTypes, RouterTyped
<1>4. \A m \in Turn : Out(m)' = Out(m)
  BY <1>1, <1>2, <1>3 DEF Out, Running
<1>5. OneWindow'
  BY <1>1, <1>2, <1>3 DEF OrderInv, OneWindow
<1>6. Seen' = Seen
  BY <1>1 DEF Seen, Received
<1>7. Numbered'
  <2>1. /\ \A p \in Seen : p[1] \in Turn
        /\ \A k \in DOMAIN chain : chain[k].part[1] \in Turn
    BY SeenParts, ChainParts
  <2>2. QED BY <1>1, <1>4, <1>6, <2>1 DEF OrderInv, Numbered
<1>8. Apart' /\ Waiting' /\ Sorted'
  BY <1>1, <1>6 DEF OrderInv, Apart, HeardOnce, Waiting, Sorted
<1>9. QED BY <1>5, <1>7, <1>8 DEF OrderInv

\* An event joins the chain: it is the end of a turn, or comes after every part of
\* its turn that was seen or waits.
LEMMA JoinedOrder ==
  ASSUME ReplyAssumption, NEW s \in Seq(Event), NEW e \in Event, NEW parts \in SUBSET Part,
         \A j, k \in DOMAIN s : j < k /\ s[j].part[1] = s[k].part[1] /\ s[k].part[2] # 0
                               => s[j].part[2] < s[k].part[2],
         \A k \in DOMAIN s : \A p \in parts :
           p[1] = s[k].part[1] /\ s[k].part[2] # 0 => p[2] < s[k].part[2],
         \A k \in DOMAIN s : s[k].part[1] = e.part[1] /\ e.part[2] # 0 => s[k].part[2] < e.part[2],
         \A p \in parts : p[1] = e.part[1] /\ e.part[2] # 0 => p[2] < e.part[2]
  PROVE  LET t == Append(s, e)
         IN  /\ \A j, k \in DOMAIN t : j < k /\ t[j].part[1] = t[k].part[1] /\ t[k].part[2] # 0
                                      => t[j].part[2] < t[k].part[2]
             /\ \A k \in DOMAIN t : \A p \in parts :
                  p[1] = t[k].part[1] /\ t[k].part[2] # 0 => p[2] < t[k].part[2]
<1> DEFINE t == Append(s, e)
<1>1. /\ Len(s) \in Nat /\ DOMAIN s = 1..Len(s) /\ DOMAIN t = 1..(Len(s) + 1)
      /\ \A k \in DOMAIN s : t[k] = s[k]
      /\ t[Len(s) + 1] = e
      /\ \A k \in DOMAIN t : k \in DOMAIN s \/ k = Len(s) + 1
  BY Appended
<1>2. \A j, k \in DOMAIN t : j < k => j \in DOMAIN s
  BY <1>1
<1> HIDE DEF t
<1>3. \A j, k \in DOMAIN t : j < k /\ t[j].part[1] = t[k].part[1] /\ t[k].part[2] # 0
                           => t[j].part[2] < t[k].part[2]
  BY <1>1, <1>2
<1>4. \A k \in DOMAIN t : \A p \in parts :
        p[1] = t[k].part[1] /\ t[k].part[2] # 0 => p[2] < t[k].part[2]
  BY <1>1
<1>5. QED BY <1>3, <1>4 DEF t

\* The window closes: what was in it comes after all that left it before.
LEMMA ClosedOrder ==
  ASSUME ReplyAssumption, TypesInv, OrderInv, NEW n \in Turn, NEW image \in BOOLEAN, phase[n] = "running"
  PROVE  LET t == Closed(n, image)
         IN  /\ t \in Seq(Event)
             /\ \A k \in DOMAIN t : t[k].part[2] <= sent[t[k].part[1]]
             /\ \A j, k \in DOMAIN t : j < k /\ t[j].part[1] = t[k].part[1] /\ t[k].part[2] # 0
                                      => t[j].part[2] < t[k].part[2]
             /\ \A k \in DOMAIN t : \A p \in Seen :
                  p[1] = t[k].part[1] /\ t[k].part[2] # 0 => p[2] < t[k].part[2]
<1> DEFINE t == Closed(n, image)
           l == LastPart(n, image)
<1>1. /\ Seen \subseteq Part /\ chain \in Seq(Event) /\ \A e \in Event : e.part \in Part
      /\ \A p \in Part : p[1] \in Turn /\ p[2] \in Nat
  BY SeenParts
<1>2. Numbered /\ Waiting /\ Sorted
  BY DEF OrderInv
<1>3. l \in Event /\ l.part[1] = n /\ l.part[2] = sent[n]
  BY EventTyped DEF LastPart
<1>4. \A k \in DOMAIN chain : chain[k].part[2] <= sent[chain[k].part[1]]
  BY <1>1, <1>2, ChainParts DEF Numbered
<1>5. CASE ~window
  <2>1. t = chain
    BY <1>5 DEF Closed
  <2>2. QED BY <1>1, <1>2, <1>4, <2>1 DEF Waiting, Sorted
<1>6. CASE window
  <2>1. t = Append(chain, l)
    BY <1>6 DEF Closed
  <2>2. Out(n) = sent[n] - 1 /\ sent[n] \in Nat
    BY <1>6, ChainParts DEF Out
  <2> HIDE DEF l, t
  <2>3. \A k \in DOMAIN chain : chain[k].part[1] = n => chain[k].part[2] < sent[n]
    BY <1>1, <1>2, <2>2, ChainParts DEF Numbered
  <2>4. \A p \in Seen : p[1] = n => p[2] < sent[n]
    BY <1>1, <1>2, <2>2 DEF Numbered
  <2>5. /\ t \in Seq(Event)
        /\ \A k \in DOMAIN t : (k \in DOMAIN chain /\ t[k] = chain[k]) \/ t[k] = l
    BY <1>1, <1>3, <2>1, Appended
  <2>6. \A k \in DOMAIN t : t[k].part[2] <= sent[t[k].part[1]]
    BY <1>3, <1>4, <2>2, <2>5
  <2>7. /\ \A j, k \in DOMAIN chain : j < k /\ chain[j].part[1] = chain[k].part[1] /\ chain[k].part[2] # 0
                                     => chain[j].part[2] < chain[k].part[2]
        /\ \A k \in DOMAIN chain : \A p \in Seen :
             p[1] = chain[k].part[1] /\ chain[k].part[2] # 0 => p[2] < chain[k].part[2]
    BY <1>2 DEF Waiting, Sorted
  <2>8. /\ \A j, k \in DOMAIN t : j < k /\ t[j].part[1] = t[k].part[1] /\ t[k].part[2] # 0
                                 => t[j].part[2] < t[k].part[2]
        /\ \A k \in DOMAIN t : \A p \in Seen :
             p[1] = t[k].part[1] /\ t[k].part[2] # 0 => p[2] < t[k].part[2]
    BY <1>1, <1>3, <2>1, <2>3, <2>4, <2>7, JoinedOrder
  <2>9. QED BY <2>5, <2>6, <2>8 DEF t
<1>7. QED BY <1>5, <1>6

\* The window closes on its timer.
LEMMA WindowOrder ==
  ASSUME ReplyAssumption, TypesInv, OrderInv, NEW n \in Turn, NEW image \in BOOLEAN, WindowEnds(n, image)
  PROVE  OrderInv'
<1>1. /\ phase[n] = "running" /\ ~window' /\ UNCHANGED <<phase, sent, pending, inserting, messages, heard>>
      /\ chain' = Closed(n, image)
  BY EventTyped, SeenParts, Closing DEF WindowEnds, relay
<1>2. /\ \A k \in DOMAIN chain' : chain'[k].part[2] <= sent[chain'[k].part[1]]
      /\ Sorted'
      /\ \A k \in DOMAIN chain' : \A p \in Seen :
           p[1] = chain'[k].part[1] /\ chain'[k].part[2] # 0 => p[2] < chain'[k].part[2]
  BY <1>1, ClosedOrder DEF Sorted
<1>3. Seen' = Seen /\ Apart'
  BY <1>1 DEF OrderInv, Apart, HeardOnce, Seen, Received
<1>4. \A m : Out(m)' = sent[m]
  BY <1>1 DEF Out
<1>5. Numbered'
  <2>1. \A p \in Seen : p[2] <= sent[p[1]]
    BY SeenParts, ChainParts DEF OrderInv, Numbered
  <2>2. QED BY <1>2, <1>3, <1>4, <2>1 DEF Numbered
<1>6. OneWindow'
  BY <1>1 DEF OrderInv, OneWindow, Running
<1>7. QED BY <1>2, <1>3, <1>5, <1>6 DEF OrderInv, Waiting

\* The event at the head of the chain is sent on: nothing seen came after it,
\* and what waits behind it comes after it.
LEMMA EmitOrder == ASSUME ReplyAssumption, TypesInv, OrderInv, EmitNext PROVE OrderInv'
<1> DEFINE head == Head(chain).part
<1>1. /\ Seen \subseteq Part /\ chain \in Seq(Event) /\ \A e \in Event : e.part \in Part
      /\ \A p \in Part : p[1] \in Turn /\ p[2] \in Nat
  BY SeenParts
<1>2. Apart /\ OneWindow /\ Numbered /\ Waiting /\ Sorted
  BY DEF OrderInv
<1>3. chain # <<>> /\ chain' = Tail(chain) /\ UNCHANGED <<phase, sent, window, messages, heard>>
  BY DEF EmitNext
<1>4. /\ Len(chain) \in Nat \ {0} /\ DOMAIN chain = 1..Len(chain) /\ DOMAIN chain' = 1..(Len(chain) - 1)
      /\ \A k \in DOMAIN chain' : k + 1 \in DOMAIN chain /\ chain'[k] = chain[k + 1]
      /\ 1 \in DOMAIN chain /\ Head(chain) = chain[1] /\ Head(chain) \in Event
  BY <1>1, <1>3, Shortened
<1>5. head \in Part /\ head = chain[1].part
  BY <1>1, <1>4
<1>6. Apart' /\ Seen' \subseteq Seen \cup {head} /\ (head[2] = 0 => Seen' \subseteq Seen)
  <2>1. CASE head[2] = 0
    BY <1>2, <1>3, <2>1, EndHandsOn, HandingOnKeepsApart DEF EmitNext
  <2>2. CASE head[2] # 0
    <3>1. head \notin Seen
      BY <1>1, <1>2, <1>4, <1>5, <2>2 DEF Waiting
    <3>2. Gathers(head)
      BY <2>2, DeltaGathers DEF EmitNext
    <3>3. QED BY <1>2, <1>3, <2>2, <3>1, <3>2, GatheringKeepsApart
  <2>3. QED BY <2>1, <2>2
<1> HIDE DEF head
<1>7. Numbered'
  <2>1. head[2] <= Out(head[1])
    BY <1>2, <1>4, <1>5 DEF Numbered
  <2>2. \A k \in DOMAIN chain' : chain'[k].part[2] <= Out(chain'[k].part[1])
    BY <1>2, <1>4 DEF Numbered
  <2>3. \A m : Out(m)' = Out(m)
    BY <1>3 DEF Out
  <2>4. QED BY <1>2, <1>6, <2>1, <2>2, <2>3 DEF Numbered
<1>8. Waiting'
  <2>1. \A k \in DOMAIN chain' : head[1] = chain'[k].part[1] /\ chain'[k].part[2] # 0 => head[2] < chain'[k].part[2]
    <3>1. \A k \in DOMAIN chain' : 1 < k + 1
      BY <1>4
    <3>2. QED BY <1>2, <1>4, <1>5, <3>1 DEF Sorted
  <2>2. \A k \in DOMAIN chain' : \A p \in Seen :
          p[1] = chain'[k].part[1] /\ chain'[k].part[2] # 0 => p[2] < chain'[k].part[2]
    BY <1>2, <1>4 DEF Waiting
  <2>3. QED BY <1>6, <2>1, <2>2 DEF Waiting
<1>9. Sorted'
  <2>1. \A j, k \in DOMAIN chain' : j < k => j + 1 < k + 1
    BY <1>4
  <2>2. QED BY <1>2, <1>4, <2>1 DEF Sorted
<1>10. OneWindow'
  BY <1>2, <1>3 DEF OneWindow, Running
<1>11. QED BY <1>6, <1>7, <1>8, <1>9, <1>10 DEF OrderInv

\* A turn ends: what was gathered is handed on at once, the last part and the
\* terminal event wait in the chain.
LEMMA EndTurnOrder ==
  ASSUME ReplyAssumption, TypesInv, OrderInv, NEW n \in Turn, NEW image \in BOOLEAN, EndTurn(n, image)
  PROVE  OrderInv'
<1> DEFINE t == Closed(n, image)
           e == End(n)
<1>1. /\ Seen \subseteq Part /\ chain \in Seq(Event) /\ \A p \in Part : p[1] \in Turn /\ p[2] \in Nat
      /\ \A m \in Turn : sent[m] \in Nat
  BY SeenParts, ChainParts
<1>2. /\ phase[n] = "running" /\ phase' = [phase EXCEPT ![n] = "ended"] /\ ~window' /\ UNCHANGED sent
      /\ EmitEnd /\ UNCHANGED <<messages, heard>>
  BY DEF EndTurn
<1>3. e \in Event /\ e.part[1] = n /\ e.part[2] = 0
  BY EventTyped DEF End
<1>4. chain' = Append(t, e)
  <2>1. LastPart(n, image) \in Event /\ End(n) \in Event
    BY EventTyped
  <2>2. chain' = Behind(Append(Cut(n, image), End(n)))
    BY DEF EndTurn, End
  <2>3. QED BY <1>1, <2>1, <2>2, Closing
<1>5. /\ t \in Seq(Event)
      /\ \A k \in DOMAIN t : t[k].part[2] <= sent[t[k].part[1]]
      /\ \A j, k \in DOMAIN t : j < k /\ t[j].part[1] = t[k].part[1] /\ t[k].part[2] # 0
                               => t[j].part[2] < t[k].part[2]
      /\ \A k \in DOMAIN t : \A p \in Seen :
           p[1] = t[k].part[1] /\ t[k].part[2] # 0 => p[2] < t[k].part[2]
  BY <1>2, ClosedOrder
<1> HIDE DEF t, e
<1>6. Apart' /\ Seen' \subseteq Seen
  BY <1>2, EndHandsOn, HandingOnKeepsApart DEF OrderInv
<1>7. /\ Sorted'
      /\ \A k \in DOMAIN chain' : \A p \in Seen :
           p[1] = chain'[k].part[1] /\ chain'[k].part[2] # 0 => p[2] < chain'[k].part[2]
  BY <1>1, <1>3, <1>4, <1>5, JoinedOrder DEF Sorted
<1>8. Waiting'
  BY <1>6, <1>7 DEF Waiting
<1>9. Numbered'
  <2>1. \A m : Out(m)' = sent[m]
    BY <1>2 DEF Out
  <2>2. \A p \in Seen : p[2] <= sent[p[1]]
    BY <1>1, ChainParts DEF OrderInv, Numbered
  <2>3. \A k \in DOMAIN chain' : chain'[k].part[2] <= sent[chain'[k].part[1]]
    BY <1>1, <1>3, <1>4, <1>5, Appended
  <2>4. QED BY <1>6, <2>1, <2>2, <2>3 DEF Numbered
<1>10. OneWindow'
  BY <1>2 DEF OrderInv, OneWindow, Running, TypesInv, DaemonTypes, RouterTyped
<1>11. QED BY <1>6, <1>7, <1>8, <1>9, <1>10 DEF OrderInv

\* A text is announced: it was apart from the others.
LEMMA InsertOrder ==
  ASSUME ReplyAssumption, TypesInv, OrderInv, NEW r \in inserting, Insert(r)
  PROVE  OrderInv'
<1>1. Apart
  BY DEF OrderInv
<1>2. /\ inserting' = inserting \ {r} /\ UNCHANGED <<pending, phase, sent, window, chain>>
      /\ \A m \in messages' : m \in messages \/ m.parts = r.parts
      /\ heard' \subseteq heard \cup Announced(r)
  BY DEF Insert, Stored, daemon
<1>3. \A h \in Announced(r) : h.parts = r.parts /\ \A g \in Announced(r) : g = h
  BY DEF Announced
<1>4. \A h \in heard' : h \in heard \/ (h \in Announced(r) /\ h.parts = r.parts)
  BY <1>2, <1>3
<1>5. Seen' \subseteq Seen
  BY <1>2, <1>4 DEF Seen, Received
<1>6. HeardOnce'
  BY <1>1, <1>3, <1>4 DEF Apart, HeardOnce
<1>7. Apart'
  BY <1>1, <1>2, <1>4, <1>6 DEF Apart
<1>8. QED BY <1>2, <1>5, <1>7, NothingNew, SeenParts, ChainParts

\* A post by tool call is part 0 of its turn, which no text has.
LEMMA SendMessageOrder ==
  ASSUME ReplyAssumption, TypesInv, OrderInv, NEW n \in Turn, SendMessage(n)
  PROVE  OrderInv'
<1> DEFINE post == <<n, 0>>
<1>1. /\ Seen \subseteq Part /\ \A m \in Turn : sent[m] \in Nat /\ Out(m) \in Int /\ Out(m) <= sent[m]
      /\ \A p \in Part : p[1] \in Turn /\ p[2] \in Nat
  BY SeenParts, ChainParts
<1>2. Apart /\ OneWindow /\ Numbered /\ Waiting /\ Sorted
  BY DEF OrderInv
<1>3. phase[n] = "running" /\ UNCHANGED <<phase, sent, window, chain, pending, inserting, messages>>
  BY DEF SendMessage, daemon, relay
<1>4. PICK g : g.parts = {post} /\ heard' = heard \cup {g}
  <2>1. PICK who : heard' = heard \cup {[parts |-> {post}, to |-> who]}
    BY DEF SendMessage
  <2>2. [parts |-> {post}, to |-> who].parts = {post}
    OBVIOUS
  <2>3. QED BY <2>1, <2>2
<1>5. post[1] = n /\ post[2] = 0 /\ \A h \in heard : post \notin h.parts
  BY DEF SendMessage
<1> HIDE DEF post
<1>6. Seen' \subseteq Seen \cup {post}
  BY <1>3, <1>4 DEF Seen, Received
<1>7. Apart'
  <2>1. post \notin pending.parts /\ \A r \in inserting : post \notin r.parts
    BY <1>2, <1>5 DEF Apart
  <2>2. QED BY <1>2, <1>3, <1>4, <1>5, <2>1 DEF Apart, HeardOnce
<1>8. 0 <= Out(n)
  BY <1>1, <1>2, <1>3 DEF OneWindow, Running, Out
<1>9. \A k \in DOMAIN chain : chain[k].part[2] \in Nat
  BY <1>1, ChainParts
<1>10. OneWindow' /\ \A m : Out(m)' = Out(m)
  BY <1>2, <1>3 DEF OneWindow, Running, Out
<1>11. Numbered' /\ Waiting' /\ Sorted'
  BY <1>2, <1>3, <1>5, <1>6, <1>8, <1>9, <1>10 DEF Numbered, Waiting, Sorted
<1>12. QED BY <1>7, <1>10, <1>11 DEF OrderInv

\* Every step keeps the order.
LEMMA NextOrder == ASSUME ReplyAssumption, TypesInv, OrderInv, [Next]_vars PROVE OrderInv'
<1>1. /\ Apart /\ Seen \subseteq Part /\ \A p \in Part : p[1] \in Turn
      /\ \A k \in DOMAIN chain : chain[k].part \in Part
      /\ phase \in [Turn -> {"none", "routing", "running", "ended", "over"}]
  BY SeenParts, ChainParts DEF OrderInv, TypesInv, DaemonTypes, RouterTyped
<1>2. ASSUME NEW n \in Turn, RejectTurn(n) PROVE OrderInv'
  <2>1. Apart' /\ Seen' \subseteq Seen
    BY <1>1, <1>2, EndHandsOn, HandingOnKeepsApart DEF RejectTurn
  <2>2. UNCHANGED <<sent, window, chain>> /\ \A m \in Turn : phase'[m] = "running" <=> phase[m] = "running"
    BY <1>1, <1>2 DEF RejectTurn
  <2>3. QED BY <1>1, <2>1, <2>2, NothingNew
<1>3. CASE Retry
  BY <1>1, <1>3, FlushHandsOn, HandingOnKeepsApart, NothingNew DEF Retry, daemon
<1>4. ASSUME NEW r \in inserting, InsertFails(r) PROVE OrderInv'
  <2>1. UNCHANGED <<pending, messages, heard, phase, sent, window, chain>> /\ inserting' \subseteq inserting
    BY <1>4 DEF InsertFails, daemon
  <2>2. Apart' /\ Seen' \subseteq Seen
    BY <1>1, <2>1 DEF Apart, HeardOnce, Seen, Received
  <2>3. QED BY <1>1, <2>1, <2>2, NothingNew
<1>5. ASSUME UNCHANGED <<pending, inserting, messages, heard, sent, window, chain>>,
             \A m \in Turn : phase'[m] = "running" <=> phase[m] = "running"
      PROVE  OrderInv'
  <2>1. Apart' /\ Seen' \subseteq Seen
    BY <1>1, <1>5 DEF Apart, HeardOnce, Seen, Received
  <2>2. QED BY <1>1, <1>5, <2>1, NothingNew
<1>6. ASSUME NEW n \in Turn, (\E who \in Users \cup {"channel"} : Prompt(n, who)) \/ EndRouting(n)
      PROVE  OrderInv'
  BY <1>1, <1>5, <1>6 DEF Prompt, EndRouting, relay
<1>7. CASE Disconnect \/ Reconnect \/ UNCHANGED vars
  BY <1>5, <1>7 DEF Disconnect, Reconnect, vars, daemon, relay
<1>8. QED
  BY <1>2, <1>3, <1>4, <1>6, <1>7, StartOrder, DeltaOrder, WindowOrder, EmitOrder, EndTurnOrder, InsertOrder, SendMessageOrder
  DEF Next, TurnStep

\* In every situation, overlapping prompts and failures included, no part of a
\* reply is announced twice and none overtakes an earlier one of its turn.
THEOREM RepliesOnceInOrder == ASSUME ReplyAssumption PROVE Spec => []OnceInOrder
<1>1. Init => TypesInv /\ OrderInv
  BY InitTypes, InitOrder
<1>2. TypesInv /\ OrderInv /\ [Next]_vars => (TypesInv /\ OrderInv)'
  BY NextTypes, NextOrder
<1>3. OrderInv => OnceInOrder
  BY OrderEnough
<1>4. QED BY <1>1, <1>2, <1>3, PTL DEF Spec

------------------------------------------------------------------------------
(* Prompts that wait for each other are answered whole, where they came from. *)

Address(n) == IF to[n] = "channel" THEN "nobody" ELSE to[n]
Finished == {n \in Turn : phase[n] \in {"ended", "over"}}

\* One prompt is being answered, and the map holds its author and nobody else.
OneAtATime ==
  /\ \A m, n \in Busy : m = n
  /\ \A u \in Users : guard[u] # 0 <=> \E n \in Busy : to[n] = u
  /\ \A n \in Turn : phase[n] \in {"none", "routing"} => sent[n] = 0

\* Nothing fails, and nothing waits for a retry.
NoTrouble == up /\ buffered = 0

\* What waits in the chain comes from the prompt being answered; its end is the
\* last of it, and waits once the turn has ended.
InLine ==
  /\ \A k \in DOMAIN chain :
       /\ ~chain[k].image /\ chain[k].part[1] \in Spoken
       /\ chain[k].part[2] = 0 => k = Len(chain) /\ Running = {}
  /\ chain # <<>> /\ Running = {} => chain[Len(chain)].part[2] = 0
  /\ ~may.tail /\ Running = {} => \A k \in DOMAIN chain : chain[k].part[2] = 0

\* The text belongs to the prompt being answered, and is for whoever made it.
Gathered ==
  pending.parts # {} =>
    /\ pending.id \in Spoken /\ pending.parts \subseteq Reply(pending.id)
    /\ pending.dm = Address(pending.id) /\ pending.channel = (to[pending.id] = "channel")
    /\ chain = <<>> \/ ~may.tail => Running # {}

\* A text that is being stored is of one turn, which ended; nobody prompts until
\* it is stored, and the address kept with it is that of the turn's author.
Leaving ==
  /\ \A r \in inserting :
       /\ r.id \in Finished /\ r.parts # {} /\ r.parts \subseteq Reply(r.id)
       /\ r.channel = (to[r.id] = "channel") /\ r.trigger = Address(r.id) /\ r.announced
       /\ lastFlushedDmEmail \in {"nobody", Address(r.id)}
       /\ ~may.tail => r.parts = Reply(r.id)
       /\ \A n \in Turn : phase[n] \notin {"routing", "running"} /\ (n # r.id => phase[n] # "ended")
  /\ \A q, r \in inserting : q.id = r.id
  /\ inserting = {} => lastFlushedDmEmail = "nobody"

\* Every part of a reply is somewhere between the window and who hears it.
Chained == {chain[k].part : k \in DOMAIN chain}
Held(n) == IF window /\ phase[n] = "running" THEN {<<n, sent[n]>>} ELSE {}
Flying == UNION {r.parts : r \in inserting}
Complete ==
  \A n \in Turn : Reply(n) \subseteq pending.parts \cup Chained \cup Held(n) \cup Flying \cup HeardBy(n)

\* What is stored under a turn's message id is of that turn.
Kept ==
  \A m \in messages :
    /\ m.id \in Finished /\ m.parts # {} /\ m.parts \subseteq Reply(m.id)
    /\ ~may.tail => m.parts = Reply(m.id)

\* What is announced goes where its prompt came from, and its turn has a message.
Scoped ==
  \A h \in heard : \A p \in h.parts :
    /\ p[1] \in Turn /\ phase[p[1]] # "none" /\ h.to = to[p[1]]
    /\ p[2] # 0 => p[1] \in Finished /\ \E m \in messages : m.id = p[1]

OrderlyInv == OneAtATime /\ NoTrouble /\ InLine /\ Gathered /\ Leaving /\ Complete /\ Kept /\ Scoped

\* The invariant gives both halves of the property.
LEMMA OrderlyEnough == ASSUME TypesInv, OrderlyInv PROVE HeardInScope /\ StoredInFull
<1>1. OneAtATime /\ InLine /\ Gathered /\ Complete /\ Kept /\ Scoped
  BY DEF OrderlyInv
<1>2. HeardInScope
  BY <1>1 DEF Scoped, HeardInScope
<1>3. ASSUME Settled, NEW n \in Turn, sent[n] > 0
      PROVE  /\ Reply(n) \subseteq HeardBy(n)
             /\ \E m \in messages : m.id = n /\ m.parts # {} /\ m.parts \subseteq Reply(n)
                                      /\ (~may.tail => m.parts = Reply(n))
  <2>1. Busy = {} /\ chain = <<>> /\ inserting = {} /\ Spoken = {}
    BY <1>3 DEF Settled, Busy, Spoken
  <2>2. pending.parts = {} /\ Chained = {} /\ Flying = {} /\ Held(n) = {}
    BY <1>1, <2>1 DEF Gathered, Chained, Flying, Held, Spoken
  <2>3. Reply(n) \subseteq HeardBy(n)
    BY <1>1, <2>2 DEF Complete
  <2>4. <<n, 1>> \in Reply(n)
    BY <1>3 DEF Reply, TypesInv, DaemonTypes, RouterTyped
  <2>5. PICK h \in heard : <<n, 1>> \in h.parts
    BY <2>3, <2>4 DEF HeardBy
  <2>6. PICK m \in messages : m.id = n
    <3>1. <<n, 1>>[1] = n /\ <<n, 1>>[2] # 0
      OBVIOUS
    <3>2. QED BY <1>1, <2>5, <3>1 DEF Scoped
  <2>7. QED BY <1>1, <2>3, <2>6 DEF Kept
<1>4. QED BY <1>2, <1>3 DEF StoredInFull

\* Nothing has been said at the start.
LEMMA InitOrderly == ASSUME ReplyAssumption, Init PROVE OrderlyInv
<1>1. OneAtATime
  BY DEF Init, OneAtATime, Busy
<1>2. InLine /\ Gathered
  BY DEF Init, InLine, Gathered, NoReply
<1>3. Leaving /\ Kept /\ Scoped
  BY DEF Init, Leaving, Kept, Scoped
<1>4. Complete
  BY DEF Init, Complete, Reply
<1>5. QED BY <1>1, <1>2, <1>3, <1>4 DEF Init, OrderlyInv, NoTrouble

\* What a turn has said, part by part.
LEMMA ReplyParts ==
  ASSUME TypesInv
  PROVE  /\ \A n \in Turn : sent[n] \in Nat /\ phase[n] \in {"none", "routing", "running", "ended", "over"}
         /\ \A n : \A p \in Reply(n) : p[1] = n /\ p[2] # 0 /\ p \in {<<n, i>> : i \in Nat \ {0}}
         /\ \A n \in Turn : sent[n] = 0 => Reply(n) = {}
         /\ \A n \in Turn : sent[n] > 0 => <<n, sent[n]>> \in Reply(n)
BY DEF Reply, TypesInv, DaemonTypes, RouterTyped

\* While a prompt is answered, its author alone is in the map, or nobody is.
LEMMA TaggedForItsAuthor ==
  ASSUME ReplyAssumption, TypesInv, OneAtATime, NEW n \in Busy
  PROVE  Recipient = Address(n)
<1>1. to[n] \in Users \cup {"channel"}
  BY DEF Busy, TypesInv, DaemonTypes, RouterTyped, Scope
<1>2. \A u \in Users : guard[u] # 0 <=> to[n] = u
  BY DEF OneAtATime
<1>3. CASE to[n] = "channel"
  BY <1>2, <1>3 DEF Armed, Recipient, Address, ReplyAssumption
<1>4. CASE to[n] \in Users
  <2>1. Armed = {to[n]}
    BY <1>2, <1>4 DEF Armed
  <2>2. Recipient \in Armed
    <3>1. Armed # {}
      BY <2>1
    <3>2. guard[to[n]] \in Nat
      BY <1>4 DEF TypesInv, DaemonTypes, RouterTyped, ReplyAssumption
    <3>3. \E u \in Armed : \A v \in Armed : guard[u] <= guard[v]
      BY <2>1, <3>2
    <3>4. QED BY <3>1, <3>3 DEF Recipient
  <2>3. QED BY <1>4, <2>1, <2>2 DEF Address, ReplyAssumption
<1>5. QED BY <1>1, <1>3, <1>4

\* Nothing waits, is gathered or is being stored while nobody is answered yet.
LEMMA QuietBefore ==
  ASSUME TypesInv, OrderInv, OrderlyInv, Spoken = {}
  PROVE  chain = <<>> /\ ~window /\ pending.parts = {} /\ Running = {}
<1>1. Running = {} /\ ~window
  BY DEF Spoken, Running, OrderInv, OneWindow
<1>2. chain \in Seq(Event) /\ \A k \in DOMAIN chain : FALSE
  BY DEF OrderlyInv, InLine, TypesInv, DaemonTypes
<1>3. chain = <<>>
  <2>1. chain # <<>> => 1 \in DOMAIN chain
    BY <1>2, Shortened
  <2>2. QED BY <1>2, <2>1
<1>4. QED BY <1>1, <1>3 DEF OrderlyInv, Gathered

------------------------------------------------------------------------------

\* A flush that is sent for the prompt being answered: the text, if any, is on its
\* way to PostgreSQL with its author's address.
LEMMA EndFlushes ==
  ASSUME ReplyAssumption, TypesInv, Orderly, OrderlyInv, NEW n \in Spoken, EmitEnd,
         UNCHANGED <<to, sent, messages>>,
         phase'[n] = "ended", \A m \in Turn : m # n => phase'[m] = phase[m],
         ~may.tail /\ pending.parts # {} => pending.parts = Reply(n), UNCHANGED may
  PROVE  pending'.parts = {} /\ Leaving' /\ pending.parts \cup Flying \subseteq Flying'
<1>1. OneAtATime /\ NoTrouble /\ Gathered /\ Leaving
  BY DEF OrderlyInv
<1>2. n \in Busy /\ \A m \in Spoken : m = n
  BY <1>1 DEF Spoken, Busy, OneAtATime
<1>3. Flush(Address(n), TRUE) /\ ~may.autonomous
  BY <1>1, <1>2, TaggedForItsAuthor DEF EmitEnd, ToRelay, NoTrouble, Orderly
<1>4. pending'.parts = {}
  BY <1>3 DEF Flush, AfterFlush, NoReply
<1>5. /\ \A m : Reply(m)' = Reply(m) /\ Address(m)' = Address(m)
      /\ \A m \in Finished : m \in Finished'
      /\ n \in Finished' /\ n \in Turn
  BY DEF Reply, Address, Finished, Spoken
<1>6. \A r \in inserting : r.id = n /\ \A m \in Turn : phase'[m] = phase[m]
  <2>1. ASSUME NEW r \in inserting PROVE phase[n] = "ended" /\ r.id = n
    BY <1>1 DEF Leaving, Spoken
  <2>2. QED BY <2>1
<1>7. CASE pending.parts = {}
  <2>1. UNCHANGED <<lastFlushedDmEmail, inserting>>
    BY <1>3, <1>7 DEF Flush
  <2>2. Leaving'
    BY <1>1, <1>5, <1>6, <2>1 DEF Leaving
  <2>3. QED BY <1>4, <1>7, <2>1, <2>2 DEF Flying
<1>8. CASE pending.parts # {}
  <2> DEFINE r == [id |-> n, parts |-> pending.parts, channel |-> (to[n] = "channel"),
                   trigger |-> Address(n), announced |-> TRUE]
  <2>1. /\ pending.id = n /\ pending.dm = Address(n) /\ pending.channel = (to[n] = "channel")
        /\ pending.parts \subseteq Reply(n)
    BY <1>1, <1>2, <1>8 DEF Gathered
  <2>2. inserting' = inserting \cup {r} /\ lastFlushedDmEmail' = Address(n)
    BY <1>3, <1>8, <2>1 DEF Flush
  <2>3. /\ r.id = n /\ r.parts = pending.parts /\ r.channel = (to[n] = "channel")
        /\ r.trigger = Address(n) /\ r.announced
    OBVIOUS
  <2> HIDE DEF r
  <2>4. \A m \in Turn : phase'[m] \notin {"routing", "running"} /\ (m # n => phase'[m] # "ended")
    <3>1. ASSUME NEW m \in Turn, m # n PROVE phase[m] \notin {"routing", "running", "ended"}
      BY <1>1, <1>2, <3>1 DEF OneAtATime, Busy
    <3>2. QED BY <3>1
  <2>5. Leaving'
    <3>1. ASSUME NEW q \in inserting'
          PROVE  /\ q.id = n /\ q.parts # {} /\ q.parts \subseteq Reply(n)
                 /\ q.channel = (to[n] = "channel") /\ q.trigger = Address(n) /\ q.announced
                 /\ ~may.tail => q.parts = Reply(n)
      <4>1. CASE q \in inserting
        BY <1>1, <1>6, <4>1 DEF Leaving
      <4>2. CASE q = r
        BY <1>8, <2>1, <2>3, <4>2
      <4>3. QED BY <2>2, <4>1, <4>2
    <3>2. inserting' # {}
      BY <2>2
    <3>3. QED BY <1>5, <2>2, <2>4, <3>1, <3>2 DEF Leaving
  <2>6. QED BY <1>4, <2>2, <2>3, <2>5 DEF Flying
<1>9. QED BY <1>7, <1>8

------------------------------------------------------------------------------

\* A prompt is made when nobody is being answered and nothing is being stored.
LEMMA PromptOrderly ==
  ASSUME ReplyAssumption, TypesInv, OrderInv, Orderly, OrderlyInv,
         NEW n \in Turn, NEW who \in Users \cup {"channel"}, Prompt(n, who)
  PROVE  OrderlyInv'
<1>1. /\ Busy = {} /\ inserting = {} /\ phase[n] = "none"
      /\ phase' = [phase EXCEPT ![n] = "routing"] /\ to' = [to EXCEPT ![n] = who]
      /\ guard' = [u \in Users |-> IF u = who /\ guard[u] = 0 THEN n ELSE guard[u]]
      /\ UNCHANGED <<sent, window, chain, up, pending, lastFlushedDmEmail, inserting, buffered, messages, heard, may>>
  BY DEF Prompt, MayPrompt, Orderly, relay, failures
<1>2. phase \in [Turn -> {"none", "routing", "running", "ended", "over"}] /\ to \in [Turn -> Scope]
  BY DEF TypesInv, DaemonTypes, RouterTyped
<1>3. OneAtATime /\ NoTrouble /\ InLine /\ Gathered /\ Leaving /\ Complete /\ Kept /\ Scoped
  BY DEF OrderlyInv
<1>4. chain = <<>> /\ ~window /\ pending.parts = {}
  <2>1. Spoken = {}
    BY <1>1 DEF Busy, Spoken
  <2>2. QED BY <2>1, QuietBefore
<1>5. Busy' = {n} /\ to'[n] = who /\ Running' = {} /\ Finished' = Finished /\ n \notin Finished
  BY <1>1, <1>2 DEF Busy, Running, Finished
<1>6. OneAtATime'
  <2>1. \A u \in Users : guard[u] = 0
    BY <1>1, <1>3 DEF OneAtATime
  <2>2. \A u \in Users : guard'[u] # 0 <=> u = who
    BY <1>1, <2>1 DEF Turn
  <2>3. \A m \in Turn : phase'[m] \in {"none", "routing"} => sent'[m] = 0
    BY <1>1, <1>2, <1>3 DEF OneAtATime
  <2>4. QED BY <1>5, <2>2, <2>3 DEF OneAtATime
<1>7. InLine' /\ Gathered' /\ Leaving' /\ NoTrouble'
  BY <1>1, <1>3, <1>4 DEF InLine, Gathered, Leaving, NoTrouble
<1>8. Complete'
  <2>1. ASSUME NEW m \in Turn, m # n
        PROVE  Reply(m)' = Reply(m) /\ HeardBy(m)' = HeardBy(m) /\ Held(m) = {}
    BY <1>1, <1>4, <2>1 DEF Reply, HeardBy, Held
  <2>2. Reply(n)' = {}
    BY <1>1, <1>3, ReplyParts DEF OneAtATime, Reply
  <2>3. UNCHANGED <<pending, Chained, Flying>>
    BY <1>1 DEF Chained, Flying
  <2>4. QED BY <1>3, <2>1, <2>2, <2>3 DEF Complete
<1>9. Kept'
  BY <1>1, <1>3, <1>5 DEF Kept, Reply
<1>10. Scoped'
  BY <1>1, <1>2, <1>3, <1>5 DEF Scoped
<1>11. QED BY <1>6, <1>7, <1>8, <1>9, <1>10 DEF OrderlyInv

\* Its run starts with an empty text.
LEMMA StartOrderly ==
  ASSUME ReplyAssumption, TypesInv, OrderInv, Orderly, OrderlyInv, NEW n \in Turn, StartTurn(n)
  PROVE  OrderlyInv'
<1>1. /\ phase[n] = "routing" /\ Running = {} /\ phase' = [phase EXCEPT ![n] = "running"]
      /\ UNCHANGED <<to, guard, sent, window, chain, up, pending, lastFlushedDmEmail, inserting, buffered, messages, heard, may>>
  BY DEF StartTurn, relay, failures
<1>2. phase \in [Turn -> {"none", "routing", "running", "ended", "over"}]
  BY DEF TypesInv, DaemonTypes, RouterTyped
<1>3. OneAtATime /\ NoTrouble /\ InLine /\ Gathered /\ Leaving /\ Complete /\ Kept /\ Scoped
  BY DEF OrderlyInv
<1>4. chain = <<>> /\ ~window /\ pending.parts = {} /\ inserting = {}
  <2>1. Spoken = {}
    BY <1>1, <1>3 DEF Busy, Spoken, OneAtATime
  <2>2. QED BY <1>1, <1>3, <2>1, QuietBefore DEF Leaving
<1>5. Busy' = Busy /\ Running' = {n} /\ Finished' = Finished
  BY <1>1, <1>2 DEF Busy, Running, Finished
<1>6. OneAtATime'
  BY <1>1, <1>2, <1>3, <1>5 DEF OneAtATime
<1>7. InLine' /\ Gathered' /\ Leaving' /\ NoTrouble'
  BY <1>1, <1>3, <1>4, <1>5 DEF InLine, Gathered, Leaving, NoTrouble
<1>8. Complete'
  BY <1>1, <1>3, <1>4 DEF Complete, Reply, HeardBy, Held, Chained, Flying
<1>9. Kept' /\ Scoped'
  BY <1>1, <1>2, <1>3, <1>5 DEF Kept, Reply, Scoped
<1>10. QED BY <1>6, <1>7, <1>8, <1>9 DEF OrderlyInv

\* What a running turn knows of itself.
LEMMA WhileRunning ==
  ASSUME TypesInv, OrderInv, OrderlyInv, NEW n \in Turn, phase[n] = "running"
  PROVE  /\ n \in Running /\ \A m \in Busy : m = n
         /\ inserting = {} /\ n \notin Finished
         /\ \A k \in DOMAIN chain : ~chain[k].image /\ chain[k].part[1] = n /\ chain[k].part[2] # 0
         /\ window => sent[n] > 0
<1>1. OneAtATime /\ InLine /\ Leaving
  BY DEF OrderlyInv
<1>2. n \in Running /\ n \in Busy /\ n \notin Finished
  BY DEF Running, Busy, Finished
<1>3. \A m \in Busy : m = n
  BY <1>1, <1>2 DEF OneAtATime
<1>4. inserting = {}
  BY <1>1 DEF Leaving
<1>5. \A k \in DOMAIN chain : ~chain[k].image /\ chain[k].part[1] = n /\ chain[k].part[2] # 0
  BY <1>1, <1>2, <1>3 DEF InLine, Spoken, Busy
<1>6. QED BY <1>2, <1>3, <1>4, <1>5 DEF OrderInv, OneWindow

\* Text opens the window: a part more to be heard.
LEMMA DeltaOrderly ==
  ASSUME ReplyAssumption, TypesInv, OrderInv, Orderly, OrderlyInv, NEW n \in Turn, Delta(n)
  PROVE  OrderlyInv'
<1> DEFINE part == <<n, sent[n] + 1>>
<1>1. OneAtATime /\ NoTrouble /\ InLine /\ Gathered /\ Leaving /\ Complete /\ Kept /\ Scoped
  BY DEF OrderlyInv
<1>2. /\ phase[n] = "running" /\ sent' = [sent EXCEPT ![n] = @ + 1] /\ ~window /\ window' = TRUE
      /\ UNCHANGED <<to, phase, guard, chain, up, pending, lastFlushedDmEmail, inserting, buffered, messages, heard, may>>
  BY DEF Delta, relay, failures
<1>3. n \in Running /\ inserting = {} /\ n \notin Finished /\ \A m \in Busy : m = n
  BY <1>2, WhileRunning
<1>4. /\ sent[n] \in Nat /\ sent'[n] = sent[n] + 1
      /\ \A m \in Turn : m # n => sent'[m] = sent[m] /\ Reply(m)' = Reply(m)
  BY <1>2, ReplyParts DEF Reply, TypesInv, DaemonTypes, RouterTyped
<1>5. Reply(n)' = Reply(n) \cup {part}
  <2>1. 1..(sent[n] + 1) = 1..sent[n] \cup {sent[n] + 1}
    BY <1>4
  <2>2. QED BY <1>4, <2>1 DEF Reply
<1>6. Busy' = Busy /\ Running' = Running /\ Finished' = Finished /\ Spoken' = Spoken
  BY <1>2 DEF Busy, Running, Finished, Spoken
<1>7. OneAtATime' /\ NoTrouble' /\ InLine'
  BY <1>1, <1>2, <1>4, <1>6 DEF OneAtATime, NoTrouble, InLine
<1>8. Gathered'
  <2>1. \A m \in Spoken : m = n
    BY <1>3 DEF Spoken, Busy
  <2>2. QED BY <1>1, <1>2, <1>5, <1>6, <2>1 DEF Gathered, Address
<1>9. Leaving'
  BY <1>1, <1>2, <1>3 DEF Leaving
<1>10. Complete'
  <2>1. Held(n)' = {part}
    BY <1>2, <1>4 DEF Held
  <2>2. UNCHANGED <<pending, Chained, Flying>> /\ \A m : HeardBy(m)' = HeardBy(m)
    BY <1>2 DEF Chained, Flying, HeardBy
  <2>3. Held(n) = {} /\ \A m : Held(m) = {}
    BY <1>2 DEF Held
  <2>4. QED BY <1>1, <1>4, <1>5, <2>1, <2>2, <2>3 DEF Complete
<1>11. Kept'
  <2>1. \A m \in Finished : m \in Turn /\ m # n
    BY <1>3 DEF Finished
  <2>2. QED BY <1>1, <1>2, <1>4, <1>6, <2>1 DEF Kept
<1>12. Scoped'
  BY <1>1, <1>2, <1>6 DEF Scoped
<1>13. QED BY <1>7, <1>8, <1>9, <1>10, <1>11, <1>12 DEF OrderlyInv

\* The chain behind a window that closes.
LEMMA ClosedOrderly ==
  ASSUME ReplyAssumption, TypesInv, OrderInv, OrderlyInv, NEW n \in Turn, phase[n] = "running"
  PROVE  LET t == Closed(n, FALSE)
         IN  /\ t \in Seq(Event)
             /\ \A k \in DOMAIN t : ~t[k].image /\ t[k].part[1] = n /\ t[k].part[2] # 0
             /\ Chained \cup Held(n) \subseteq {t[k].part : k \in DOMAIN t}
<1> DEFINE t == Closed(n, FALSE)
           l == LastPart(n, FALSE)
<1>1. /\ chain \in Seq(Event) /\ window \in BOOLEAN
      /\ \A k \in DOMAIN chain : ~chain[k].image /\ chain[k].part[1] = n /\ chain[k].part[2] # 0
  BY SeenParts, WhileRunning
<1>2. /\ l \in Event /\ l.part = <<n, sent[n]>> /\ l.part[1] = n /\ l.part[2] = sent[n] /\ ~l.image
      /\ window => l.part[2] # 0
  <2>1. l \in Event
    BY EventTyped
  <2>2. l.part = <<n, sent[n]>> /\ ~l.image /\ <<n, sent[n]>>[1] = n /\ <<n, sent[n]>>[2] = sent[n]
    BY DEF LastPart
  <2>3. window => sent[n] > 0 /\ sent[n] \in Nat
    BY WhileRunning, ReplyParts
  <2>4. window => sent[n] # 0
    BY <2>3
  <2>5. QED BY <2>1, <2>2, <2>4
<1>3. CASE ~window
  <2>1. t = chain /\ Held(n) = {}
    BY <1>3 DEF Closed, Held
  <2>2. QED BY <1>1, <2>1 DEF Chained
<1>4. CASE window
  <2>1. t = Append(chain, l) /\ Held(n) = {l.part}
    BY <1>2, <1>4 DEF Closed, Held
  <2> HIDE DEF l, t
  <2>2. /\ t \in Seq(Event)
        /\ \A k \in DOMAIN chain : k \in DOMAIN t /\ t[k] = chain[k]
        /\ \A k \in DOMAIN t : k \in DOMAIN chain \/ t[k] = l
        /\ \E k \in DOMAIN t : t[k] = l
    BY <1>1, <1>2, <2>1, Appended
  <2>3. \A k \in DOMAIN t : ~t[k].image /\ t[k].part[1] = n /\ t[k].part[2] # 0
    BY <1>1, <1>2, <1>4, <2>2
  <2>4. Chained \cup Held(n) \subseteq {t[k].part : k \in DOMAIN t}
    BY <2>1, <2>2 DEF Chained
  <2>5. QED BY <2>2, <2>3, <2>4 DEF t
<1>5. QED BY <1>1, <1>3, <1>4

\* The window closes on its timer: its part waits in the chain.
LEMMA WindowOrderly ==
  ASSUME ReplyAssumption, TypesInv, OrderInv, Orderly, OrderlyInv,
         NEW n \in Turn, NEW image \in BOOLEAN, WindowEnds(n, image)
  PROVE  OrderlyInv'
<1>1. OneAtATime /\ NoTrouble /\ InLine /\ Gathered /\ Leaving /\ Complete /\ Kept /\ Scoped
  BY DEF OrderlyInv
<1>2. /\ image = FALSE /\ phase[n] = "running" /\ window' = FALSE
      /\ UNCHANGED <<to, phase, guard, sent, up, pending, lastFlushedDmEmail, inserting, buffered, messages, heard, may>>
  BY DEF WindowEnds, Orderly, relay, failures
<1>3. chain' = Closed(n, FALSE)
  BY <1>2, EventTyped, SeenParts, Closing DEF WindowEnds
<1>4. n \in Running /\ inserting = {} /\ n \in Spoken
  BY <1>2, WhileRunning DEF Spoken
<1>5. /\ \A k \in DOMAIN chain' : ~chain'[k].image /\ chain'[k].part[1] = n /\ chain'[k].part[2] # 0
      /\ Chained \cup Held(n) \subseteq Chained'
  <2> DEFINE t == Closed(n, FALSE)
  <2>1. /\ \A k \in DOMAIN t : ~t[k].image /\ t[k].part[1] = n /\ t[k].part[2] # 0
        /\ Chained \cup Held(n) \subseteq {t[k].part : k \in DOMAIN t}
    BY <1>2, ClosedOrderly
  <2>2. chain' = t
    BY <1>3
  <2> HIDE DEF t
  <2>3. Chained' = {t[k].part : k \in DOMAIN t}
    BY <2>2 DEF Chained
  <2>4. QED BY <2>1, <2>2, <2>3
<1>6. Busy' = Busy /\ Running' = Running /\ Finished' = Finished /\ Spoken' = Spoken
  BY <1>2 DEF Busy, Running, Finished, Spoken
<1>7. OneAtATime' /\ NoTrouble'
  BY <1>1, <1>2, <1>6 DEF OneAtATime, NoTrouble
<1>8. InLine'
  BY <1>4, <1>5, <1>6 DEF InLine
<1>9. Gathered' /\ Leaving'
  BY <1>1, <1>2, <1>4, <1>6 DEF Gathered, Leaving, Reply, Address
<1>10. Complete'
  <2>1. \A m \in Turn : m # n => Held(m) = {}
    BY <1>2, WhileRunning DEF Held, Busy
  <2>2. Flying' = Flying /\ \A m : HeardBy(m)' = HeardBy(m) /\ Reply(m)' = Reply(m)
    BY <1>2 DEF Flying, HeardBy, Reply
  <2>3. QED BY <1>1, <1>2, <1>5, <2>1, <2>2 DEF Complete
<1>11. Kept' /\ Scoped'
  BY <1>1, <1>2, <1>6 DEF Kept, Scoped, Reply
<1>12. QED BY <1>7, <1>8, <1>9, <1>10, <1>11 DEF OrderlyInv

\* A part that is sent joins the text of its turn, in its author's scope.
LEMMA PartOrderly ==
  ASSUME ReplyAssumption, TypesInv, Orderly, OrderlyInv, NEW n \in Spoken,
         NEW k \in Nat \ {0}, k <= sent[n], EmitDelta(<<n, k>>)
  PROVE  /\ pending'.parts = pending.parts \cup {<<n, k>>} /\ pending'.id = n /\ pending'.dm = Address(n)
         /\ pending'.channel = (to[n] = "channel") /\ pending'.parts \subseteq Reply(n)
         /\ UNCHANGED <<lastFlushedDmEmail, inserting>>
<1> DEFINE part == <<n, k>>
<1>1. OneAtATime /\ NoTrouble /\ Gathered /\ pending \in Text
  BY DEF OrderlyInv, TypesInv, RelayTypes
<1>2. n \in Turn /\ n \in Busy /\ \A m \in Spoken : m = n
  BY <1>1 DEF Spoken, Busy, OneAtATime
<1>3. Accumulate(part, Address(n), Address(n) = "nobody")
  BY <1>1, <1>2, TaggedForItsAuthor DEF EmitDelta, ToRelay, NoTrouble, Orderly
<1>4. (Address(n) = "nobody") = (to[n] = "channel") /\ to[n] # "nobody"
  BY <1>2 DEF Address, Spoken, TypesInv, DaemonTypes, RouterTyped
<1>5. part \in Reply(n) /\ part[1] = n
  BY <1>2, ReplyParts DEF Reply
<1> HIDE DEF part
<1>6. CASE pending.parts = {}
  <2>1. pending' = [id |-> n, parts |-> {part}, dm |-> Address(n),
                    channel |-> (Address(n) = "nobody") /\ Address(n) = "nobody"]
    BY <1>3, <1>5, <1>6 DEF Accumulate, StaysInScope
  <2>2. QED BY <1>3, <1>4, <1>5, <1>6, <2>1 DEF Accumulate, part
<1>7. CASE pending.parts # {}
  <2>1. /\ pending.id = n /\ pending.dm = Address(n) /\ pending.channel = (to[n] = "channel")
        /\ pending.parts \subseteq Reply(n)
    BY <1>1, <1>2, <1>7 DEF Gathered
  <2>2. pending' = [pending EXCEPT !.parts = @ \cup {part},
                                   !.dm = IF Address(n) = "nobody" THEN @ ELSE Address(n),
                                   !.channel = @ /\ Address(n) = "nobody"]
    BY <1>3, <1>7 DEF Accumulate, StaysInScope, Merged
  <2>3. /\ pending'.parts = pending.parts \cup {part} /\ pending'.id = n
        /\ pending'.dm = IF Address(n) = "nobody" THEN pending.dm ELSE Address(n)
        /\ pending'.channel = (pending.channel /\ Address(n) = "nobody")
    BY <1>1, <2>1, <2>2 DEF Text
  <2>4. pending'.dm = Address(n) /\ pending'.channel = (to[n] = "channel")
    BY <1>4, <2>1, <2>3
  <2>5. UNCHANGED <<lastFlushedDmEmail, inserting>>
    BY <1>3 DEF Accumulate
  <2>6. QED BY <1>5, <2>1, <2>3, <2>4, <2>5 DEF part
<1>8. QED BY <1>6, <1>7

\* The event at the head of the chain is sent: a part joins the text, the end of the
\* turn sends the text on.
LEMMA EmitOrderly ==
  ASSUME ReplyAssumption, TypesInv, OrderInv, Orderly, OrderlyInv, EmitNext
  PROVE  OrderlyInv'
<1>1. OneAtATime /\ NoTrouble /\ InLine /\ Gathered /\ Leaving /\ Complete /\ Kept /\ Scoped
  BY DEF OrderlyInv
<1>2. /\ chain # <<>> /\ chain' = Tail(chain)
      /\ UNCHANGED <<to, phase, guard, sent, window, up, buffered, messages, heard, may>>
  BY DEF EmitNext, failures
<1>3. /\ chain \in Seq(Event) /\ Len(chain) \in Nat \ {0} /\ DOMAIN chain = 1..Len(chain)
      /\ chain' \in Seq(Event) /\ DOMAIN chain' = 1..(Len(chain) - 1)
      /\ \A k \in DOMAIN chain' : k + 1 \in DOMAIN chain /\ chain'[k] = chain[k + 1]
      /\ \A k \in DOMAIN chain : k = 1 \/ k - 1 \in DOMAIN chain'
      /\ 1 \in DOMAIN chain /\ Head(chain) = chain[1] /\ Head(chain) \in Event
  BY <1>2, SeenParts, Shortened
<1>4. PICK n \in Spoken, i \in Nat : Head(chain).part = <<n, i>> /\ i <= sent[n]
  <2>1. Head(chain).part \in Part /\ Head(chain).part[1] \in Spoken
    BY <1>1, <1>3, SeenParts DEF InLine
  <2>2. Head(chain).part[2] <= sent[Head(chain).part[1]]
    BY <1>3, <2>1, ChainParts, SeenParts DEF OrderInv, Numbered
  <2>3. QED BY <2>1, <2>2 DEF Part
<1>5. n \in Turn /\ n \in Busy /\ (\A m \in Spoken : m = n) /\ (\A m \in Busy : m = n)
  BY <1>1 DEF Spoken, Busy, OneAtATime
<1>6. Busy' = Busy /\ Running' = Running /\ Finished' = Finished /\ Spoken' = Spoken
  BY <1>2 DEF Busy, Running, Finished, Spoken
<1>7. OneAtATime' /\ NoTrouble'
  BY <1>1, <1>2, <1>6 DEF OneAtATime, NoTrouble
<1>8. Len(chain') = Len(chain) - 1 /\ (chain' # <<>> => chain'[Len(chain')] = chain[Len(chain)])
  <2>1. Len(chain') = Len(chain) - 1
    BY <1>2, <1>3, Shortened
  <2>2. chain' # <<>> => Len(chain') \in DOMAIN chain'
    BY <1>3
  <2>3. ASSUME chain' # <<>> PROVE chain'[Len(chain')] = chain[Len(chain)]
    BY <1>3, <2>1, <2>2, <2>3
  <2>4. QED BY <2>1, <2>3
<1>9. InLine'
  <2>1. ASSUME NEW k \in DOMAIN chain'
        PROVE  /\ ~chain'[k].image /\ chain'[k].part[1] \in Spoken
               /\ chain'[k].part[2] = 0 => k = Len(chain') /\ Running = {}
               /\ ~may.tail /\ Running = {} => chain'[k].part[2] = 0
    <3>1. k \in Nat /\ k + 1 \in DOMAIN chain /\ chain'[k] = chain[k + 1]
      BY <1>3
    <3>2. QED BY <1>1, <1>3, <1>8, <3>1 DEF InLine
  <2>2. chain' # <<>> /\ Running = {} => chain'[Len(chain')].part[2] = 0
    BY <1>1, <1>2, <1>8 DEF InLine
  <2>3. QED BY <1>2, <1>6, <2>1, <2>2 DEF InLine
<1>10. /\ Chained \subseteq Chained' \cup {<<n, i>>}
       /\ \A m : Held(m)' = Held(m) /\ HeardBy(m)' = HeardBy(m) /\ Reply(m)' = Reply(m) /\ Address(m)' = Address(m)
  <2>1. ASSUME NEW k \in DOMAIN chain PROVE chain[k].part \in Chained' \cup {<<n, i>>}
    <3>1. CASE k = 1
      BY <1>3, <1>4, <3>1
    <3>2. CASE k # 1
      <4>1. k - 1 \in DOMAIN chain' /\ chain'[k - 1] = chain[k]
        BY <1>3, <3>2
      <4>2. QED BY <4>1 DEF Chained
    <3>3. QED BY <3>1, <3>2
  <2>2. QED BY <1>2, <2>1 DEF Chained, Held, HeardBy, Reply, Address
<1>11. Kept' /\ Scoped'
  BY <1>1, <1>2, <1>6 DEF Kept, Scoped, Reply
<1>12. CASE i = 0
  <2>1. EmitEnd
    BY <1>4, <1>12 DEF EmitNext
  <2>2. Running = {} /\ Len(chain) = 1
    BY <1>1, <1>3, <1>4, <1>12 DEF InLine
  <2>3. phase[n] = "ended"
    BY <1>5, <2>2 DEF Spoken, Running
  <2>4. ~may.tail => pending.parts = {}
    BY <1>1, <2>2 DEF Gathered
  <2>5. pending'.parts = {} /\ Leaving' /\ pending.parts \cup Flying \subseteq Flying'
    BY <1>2, <2>1, <2>3, <2>4, EndFlushes
  <2>6. Gathered'
    BY <2>5 DEF Gathered
  <2>7. Complete'
    <3>1. \A m : <<n, i>> \notin Reply(m)
      BY <1>12, ReplyParts
    <3>2. QED BY <1>1, <1>10, <2>5, <3>1 DEF Complete
  <2>8. QED BY <1>7, <1>9, <1>11, <2>5, <2>6, <2>7 DEF OrderlyInv
<1>13. CASE i # 0
  <2>1. EmitDelta(<<n, i>>)
    <3>1. <<n, i>>[2] = i
      OBVIOUS
    <3>2. QED BY <1>4, <1>13, <3>1 DEF EmitNext
  <2>2. /\ pending'.parts = pending.parts \cup {<<n, i>>} /\ pending'.id = n /\ pending'.dm = Address(n)
        /\ pending'.channel = (to[n] = "channel") /\ pending'.parts \subseteq Reply(n)
        /\ UNCHANGED <<lastFlushedDmEmail, inserting>>
    BY <1>4, <1>13, <2>1, PartOrderly
  <2>3. Leaving'
    BY <1>1, <1>2, <1>6, <2>2 DEF Leaving, Reply, Address
  <2>4. (chain' = <<>> => Running # {}) /\ (~may.tail => Running # {})
    <3>1. chain' = <<>> => Len(chain) = 1
      BY <1>3, <1>8
    <3>2. QED BY <1>1, <1>2, <1>3, <1>4, <1>13, <3>1 DEF InLine
  <2>5. Gathered'
    BY <1>2, <1>6, <1>10, <2>2, <2>4 DEF Gathered
  <2>6. Complete'
    BY <1>1, <1>10, <2>2 DEF Complete, Flying
  <2>7. QED BY <1>7, <1>9, <1>11, <2>3, <2>5, <2>6 DEF OrderlyInv
<1>14. QED BY <1>12, <1>13

\* The turn ends: the text so far is on its way to PostgreSQL, the last part and the
\* terminal event wait in the chain.
LEMMA EndTurnOrderly ==
  ASSUME ReplyAssumption, TypesInv, OrderInv, Orderly, OrderlyInv,
         NEW n \in Turn, NEW image \in BOOLEAN, EndTurn(n, image)
  PROVE  OrderlyInv'
<1> DEFINE t == Closed(n, FALSE)
           e == End(n)
<1>1. OneAtATime /\ NoTrouble /\ InLine /\ Gathered /\ Leaving /\ Complete /\ Kept /\ Scoped
  BY DEF OrderlyInv
<1>2. /\ image = FALSE /\ phase[n] = "running" /\ phase' = [phase EXCEPT ![n] = "ended"] /\ window' = FALSE
      /\ EmitEnd /\ (~may.tail => ~window /\ Quiet)
      /\ UNCHANGED <<to, guard, sent, up, buffered, messages, heard, may>>
  BY DEF EndTurn, Orderly, failures
<1>3. /\ phase \in [Turn -> {"none", "routing", "running", "ended", "over"}]
      /\ n \in Running /\ n \in Spoken /\ inserting = {} /\ n \notin Finished /\ \A m \in Busy : m = n
      /\ \A k \in DOMAIN chain : ~chain[k].image
  BY <1>2, WhileRunning DEF Spoken, TypesInv, DaemonTypes, RouterTyped
<1>4. Busy' = Busy /\ Running' = {} /\ Finished' = Finished \cup {n} /\ Spoken' = Spoken
  <2>1. \A m \in Turn : phase[m] = "running" => m = n
    BY <1>3 DEF Busy
  <2>2. QED BY <1>2, <1>3, <2>1 DEF Busy, Running, Finished, Spoken
<1>5. e \in Event /\ e.part[1] = n /\ e.part[2] = 0 /\ ~e.image
  BY EventTyped DEF End
<1>6. /\ t \in Seq(Event)
      /\ \A k \in DOMAIN t : ~t[k].image /\ t[k].part[1] = n /\ t[k].part[2] # 0
      /\ Chained \cup Held(n) \subseteq {t[k].part : k \in DOMAIN t}
  BY <1>2, ClosedOrderly
<1>7. chain' = Append(t, e)
  <2>1. LastPart(n, FALSE) \in Event /\ End(n) \in Event /\ chain \in Seq(Event)
    BY EventTyped, SeenParts
  <2>2. chain' = Behind(Append(Cut(n, FALSE), End(n)))
    BY <1>2 DEF EndTurn, End
  <2>3. QED BY <2>1, <2>2, Closing
<1>8. ~may.tail => t = <<>>
  <2>1. ~may.tail => t = chain
    BY <1>2 DEF Closed
  <2>2. chain # <<>> => ~Head(chain).image
    BY <1>3, SeenParts, Shortened
  <2>3. QED BY <1>2, <2>1, <2>2 DEF Quiet
<1> HIDE DEF t, e
<1>9. /\ Len(t) \in Nat /\ Len(chain') = Len(t) + 1 /\ chain'[Len(t) + 1] = e
      /\ \A k \in DOMAIN t : k \in DOMAIN chain' /\ chain'[k] = t[k]
      /\ \A k \in DOMAIN chain' : k \in DOMAIN t \/ k = Len(t) + 1
      /\ (t = <<>> => \A k \in DOMAIN chain' : k = Len(t) + 1)
  BY <1>5, <1>6, <1>7, Appended
<1>10. InLine'
  <2>1. \A k \in DOMAIN chain' : ~chain'[k].image /\ chain'[k].part[1] \in Spoken
                                 /\ (chain'[k].part[2] = 0 => k = Len(chain'))
    BY <1>3, <1>5, <1>6, <1>9
  <2>2. ~may.tail => \A k \in DOMAIN chain' : chain'[k].part[2] = 0
    BY <1>5, <1>8, <1>9
  <2>3. chain'[Len(chain')].part[2] = 0
    BY <1>5, <1>9
  <2>4. QED BY <1>2, <1>4, <2>1, <2>2, <2>3 DEF InLine
<1>11. ~may.tail /\ pending.parts # {} => pending.parts = Reply(n)
  <2>1. ASSUME ~may.tail, pending.parts # {} PROVE pending.parts = Reply(n)
    <3>1. Held(n) = {} /\ Flying = {}
      BY <1>2, <1>3, <2>1 DEF Held, Flying
    <3>2. Chained = {}
      BY <1>2, <1>3, <2>1, SeenParts, Shortened DEF Quiet, Chained
    <3>3. \A h \in heard : h.parts \cap Reply(n) = {}
      BY <1>1, <1>3, ReplyParts DEF Scoped
    <3>4. Reply(n) \subseteq pending.parts
      BY <1>1, <3>1, <3>2, <3>3 DEF Complete, HeardBy
    <3>5. pending.parts \subseteq Reply(n)
      BY <1>1, <1>3, <2>1 DEF Gathered, Spoken, Busy
    <3>6. QED BY <3>4, <3>5
  <2>2. QED BY <2>1
<1>12. pending'.parts = {} /\ Leaving' /\ pending.parts \cup Flying \subseteq Flying'
  BY <1>2, <1>3, <1>11, EndFlushes
<1>13. OneAtATime' /\ NoTrouble' /\ Gathered'
  BY <1>1, <1>2, <1>3, <1>4, <1>12 DEF OneAtATime, NoTrouble, Gathered
<1>14. Complete'
  <2>1. Chained \cup Held(n) \subseteq Chained'
    BY <1>6, <1>9 DEF Chained
  <2>2. \A m \in Turn : m # n => Held(m) = {}
    BY <1>3 DEF Held, Busy
  <2>3. \A m : HeardBy(m)' = HeardBy(m) /\ Reply(m)' = Reply(m)
    BY <1>2 DEF HeardBy, Reply
  <2>4. QED BY <1>1, <1>12, <2>1, <2>2, <2>3 DEF Complete
<1>15. Kept' /\ Scoped'
  BY <1>1, <1>2, <1>3, <1>4 DEF Kept, Scoped, Reply
<1>16. QED BY <1>10, <1>12, <1>13, <1>14, <1>15 DEF OrderlyInv

\* routeToAgent returns: the author leaves the map; nothing of the turn waits.
LEMMA OverOrderly ==
  ASSUME ReplyAssumption, TypesInv, OrderInv, Orderly, OrderlyInv, NEW n \in Turn, EndRouting(n)
  PROVE  OrderlyInv'
<1>1. OneAtATime /\ NoTrouble /\ InLine /\ Gathered /\ Leaving /\ Complete /\ Kept /\ Scoped
  BY DEF OrderlyInv
<1>2. /\ phase[n] = "ended" /\ Quiet /\ phase' = [phase EXCEPT ![n] = "over"] /\ guard' = Disarmed(n)
      /\ UNCHANGED <<to, sent, window, chain, up, pending, lastFlushedDmEmail, inserting, buffered, messages, heard, may>>
  BY DEF EndRouting, relay, failures
<1>3. phase \in [Turn -> {"none", "routing", "running", "ended", "over"}]
  BY DEF TypesInv, DaemonTypes, RouterTyped
<1>4. n \in Busy /\ \A m \in Busy : m = n
  BY <1>1, <1>2 DEF Busy, OneAtATime
<1>5. Busy' = {} /\ Running = {} /\ Running' = {} /\ Finished' = Finished
  BY <1>2, <1>3, <1>4 DEF Busy, Running, Finished
<1>6. chain = <<>> /\ pending.parts = {} /\ ~window
  <2>1. chain = <<>>
    BY <1>1, <1>2, SeenParts, Shortened DEF Quiet, InLine
  <2>2. QED BY <1>1, <1>5, <2>1 DEF Gathered, OrderInv, OneWindow
<1>7. OneAtATime'
  <2>1. \A u \in Users : guard'[u] = 0
    BY <1>1, <1>2, <1>4 DEF OneAtATime, Disarmed
  <2>2. \A m \in Turn : phase'[m] \in {"none", "routing"} => sent'[m] = 0
    BY <1>1, <1>2, <1>3 DEF OneAtATime
  <2>3. QED BY <1>5, <2>1, <2>2 DEF OneAtATime
<1>8. Gathered' /\ NoTrouble' /\ InLine'
  BY <1>1, <1>2, <1>5, <1>6 DEF Gathered, NoTrouble, InLine
<1>9. Leaving'
  <2>1. \A m \in Turn : phase'[m] \in {"routing", "running", "ended"} => phase'[m] = phase[m]
    BY <1>2, <1>3
  <2>2. \A m : Reply(m)' = Reply(m) /\ Address(m)' = Address(m)
    BY <1>2 DEF Reply, Address
  <2>3. QED BY <1>1, <1>2, <1>5, <2>1, <2>2 DEF Leaving
<1>10. Complete'
  BY <1>1, <1>2, <1>6 DEF Complete, Reply, HeardBy, Held, Chained, Flying
<1>11. Kept' /\ Scoped'
  BY <1>1, <1>2, <1>3, <1>5 DEF Kept, Reply, Scoped
<1>12. QED BY <1>7, <1>8, <1>9, <1>10, <1>11 DEF OrderlyInv

\* A post by tool call goes where the prompt came from.
LEMMA PostOrderly ==
  ASSUME ReplyAssumption, TypesInv, OrderlyInv, NEW n \in Turn, SendMessage(n)
  PROVE  OrderlyInv'
<1>1. OneAtATime /\ Scoped /\ phase[n] = "running"
  BY DEF OrderlyInv, SendMessage
<1>2. UNCHANGED <<to, phase, sent, guard, window, chain, up, pending, lastFlushedDmEmail, inserting, buffered, messages, may>>
  BY DEF SendMessage, daemon, relay, failures
<1>3. Recipient = Address(n) /\ to[n] # "nobody"
  BY <1>1, TaggedForItsAuthor DEF Busy, TypesInv, DaemonTypes, RouterTyped
<1> DEFINE post == <<n, 0>>
           where == IF Recipient = "nobody" THEN "channel" ELSE Recipient
           h == [parts |-> {post}, to |-> where]
<1>4. where = to[n]
  BY <1>3 DEF Address
<1>5. heard' = heard \cup {h}
  BY DEF SendMessage, RedirectTarget
<1>6. h.parts = {post} /\ h.to = where /\ post[1] = n /\ post[2] = 0
  OBVIOUS
<1> HIDE DEF h, where, post
<1>7. Scoped'
  BY <1>1, <1>2, <1>4, <1>5, <1>6 DEF Scoped, Finished
<1>8. OneAtATime' /\ NoTrouble' /\ InLine' /\ Gathered'
  BY <1>2 DEF OrderlyInv, OneAtATime, NoTrouble, InLine, Gathered, Busy, Running, Spoken, Reply, Address
<1>9. Leaving' /\ Kept'
  BY <1>2 DEF OrderlyInv, Leaving, Kept, Finished, Reply, Address
<1>10. Complete'
  <2>1. \A m : HeardBy(m) \subseteq HeardBy(m)'
    BY <1>2, <1>5 DEF HeardBy
  <2>2. UNCHANGED <<pending, Chained, Flying>> /\ \A m : Held(m)' = Held(m) /\ Reply(m)' = Reply(m)
    BY <1>2 DEF Chained, Flying, Held, Reply
  <2>3. QED BY <2>1, <2>2 DEF OrderlyInv, Complete
<1>11. QED BY <1>7, <1>8, <1>9, <1>10 DEF OrderlyInv

\* A text is stored, unless its message id is taken, and announced to the author.
LEMMA InsertOrderly ==
  ASSUME ReplyAssumption, TypesInv, OrderlyInv, NEW r \in inserting, Insert(r)
  PROVE  OrderlyInv'
<1>1. OneAtATime /\ NoTrouble /\ InLine /\ Gathered /\ Leaving /\ Complete /\ Kept /\ Scoped
  BY DEF OrderlyInv
<1>2. /\ r.id \in Finished /\ r.parts # {} /\ r.parts \subseteq Reply(r.id) /\ r.channel = (to[r.id] = "channel")
      /\ r.announced /\ r.trigger = Address(r.id) /\ lastFlushedDmEmail \in {"nobody", Address(r.id)}
      /\ (~may.tail => r.parts = Reply(r.id))
  BY <1>1 DEF Leaving
<1>3. inserting' = inserting \ {r} /\ lastFlushedDmEmail' = "nobody" /\ heard' = heard \cup Announced(r)
  BY <1>2 DEF Insert
<1>4. UNCHANGED <<to, phase, sent, guard, window, chain, up, pending, buffered, may>>
  BY DEF Insert, daemon, failures
<1>5. /\ \A m \in messages : m \in messages'
      /\ \E m \in messages' : m.id = r.id
      /\ \A m \in messages' : m \in messages \/ (m.id = r.id /\ m.parts = r.parts)
  <2> DEFINE row == [id |-> r.id, parts |-> r.parts, channel |-> r.channel]
  <2>1. \/ messages' = messages /\ (\E m \in messages : m.id = r.id)
        \/ messages' = messages \cup {row}
    BY DEF Insert, Stored
  <2>2. row.id = r.id /\ row.parts = r.parts
    OBVIOUS
  <2> HIDE DEF row
  <2>3. QED BY <2>1, <2>2
<1>6. Announced(r) # {} /\ \A h \in Announced(r) : h.parts = r.parts /\ h.to = to[r.id]
  <2>1. r.id \in Turn /\ to[r.id] # "nobody"
    BY <1>2 DEF Finished, TypesInv, DaemonTypes, RouterTyped
  <2>2. CASE to[r.id] = "channel"
    <3>1. r.channel /\ lastFlushedDmEmail = "nobody"
      BY <1>2, <2>2 DEF Address
    <3>2. Announced(r) = {[parts |-> r.parts, to |-> "channel"]}
      BY <3>1 DEF Announced
    <3>3. QED BY <2>2, <3>2
  <2>3. CASE to[r.id] # "channel"
    <3>1. ~r.channel /\ r.trigger = to[r.id] /\ lastFlushedDmEmail \in {"nobody", to[r.id]}
      BY <1>2, <2>3 DEF Address
    <3>2. Announced(r) = {[parts |-> r.parts, to |-> to[r.id]]}
      BY <2>1, <3>1 DEF Announced
    <3>3. QED BY <3>2
  <2>4. QED BY <2>2, <2>3
<1>7. OneAtATime' /\ NoTrouble' /\ InLine' /\ Gathered'
  BY <1>1, <1>4 DEF OneAtATime, NoTrouble, InLine, Gathered, Busy, Running, Spoken, Reply, Address
<1>8. Leaving'
  BY <1>1, <1>3, <1>4 DEF Leaving, Finished, Reply, Address
<1>9. Complete'
  <2>1. \A m : HeardBy(m) \subseteq HeardBy(m)'
    BY <1>3, <1>4 DEF HeardBy
  <2>2. r.parts \subseteq HeardBy(r.id)'
    BY <1>3, <1>4, <1>6 DEF HeardBy
  <2>3. UNCHANGED <<pending, Chained>> /\ \A m : Held(m)' = Held(m) /\ Reply(m)' = Reply(m)
    BY <1>4 DEF Chained, Held, Reply
  <2>4. Flying \subseteq Flying' \cup r.parts
    BY <1>3 DEF Flying
  <2>5. \A m : \A p \in Reply(m) \cap r.parts : p \in HeardBy(m)'
    <3>1. \A p \in r.parts : p[1] = r.id
      BY <1>2, ReplyParts
    <3>2. \A m : \A p \in Reply(m) : p[1] = m
      BY ReplyParts
    <3>3. QED BY <2>2, <3>1, <3>2
  <2>6. ASSUME NEW m \in Turn, NEW p \in Reply(m)
        PROVE  p \in pending'.parts \cup Chained' \cup Held(m)' \cup Flying' \cup HeardBy(m)'
    <3>1. p \in pending.parts \cup Chained \cup Held(m) \cup Flying \cup HeardBy(m)
      BY <1>1, <2>6 DEF Complete
    <3>2. QED BY <2>1, <2>3, <2>4, <2>5, <2>6, <3>1
  <2>7. QED BY <2>3, <2>6 DEF Complete
<1>10. Kept'
  BY <1>1, <1>2, <1>4, <1>5 DEF Kept, Finished, Reply
<1>11. Scoped'
  <2>1. \A h \in Announced(r) : \A p \in h.parts : p[1] = r.id /\ h.to = to[r.id]
    BY <1>2, <1>6, ReplyParts
  <2>2. r.id \in Turn /\ phase[r.id] # "none" /\ Finished' = Finished
    BY <1>2, <1>4 DEF Finished
  <2>3. QED BY <1>1, <1>2, <1>3, <1>4, <1>5, <2>1, <2>2 DEF Scoped
<1>12. QED BY <1>7, <1>8, <1>9, <1>10, <1>11 DEF OrderlyInv

\* Every step keeps it: what fails or rejects cannot happen.
LEMMA NextOrderly ==
  ASSUME ReplyAssumption, TypesInv, OrderInv, Orderly, OrderlyInv, [Next]_vars PROVE OrderlyInv'
<1>1. OneAtATime /\ NoTrouble /\ InLine /\ Gathered /\ Leaving /\ Complete /\ Kept /\ Scoped
  BY DEF OrderlyInv
<1>2. ~Fault
  BY DEF Fault, Orderly, TypesInv, WorldTypes
<1>3. ASSUME NEW n \in Turn PROVE ~RejectTurn(n)
  BY <1>1 DEF RejectTurn, Running, Busy, OneAtATime
<1>4. ~Retry /\ ~Disconnect /\ ~Reconnect /\ \A r \in inserting : ~InsertFails(r)
  <2>1. ~Retry /\ ~Reconnect
    BY <1>1 DEF Retry, Reconnect, NoTrouble
  <2>2. ~Disconnect /\ \A r \in inserting : ~InsertFails(r)
    BY <1>2 DEF Disconnect, InsertFails
  <2>3. QED BY <2>1, <2>2
<1>5. CASE UNCHANGED vars
  <2>1. UNCHANGED <<to, phase, sent, guard, window, chain, up, pending, lastFlushedDmEmail, inserting, buffered, messages, heard, may>>
    BY <1>5 DEF vars, daemon, relay, failures
  <2>2. OneAtATime' /\ NoTrouble' /\ InLine' /\ Gathered' /\ Scoped'
    BY <1>1, <2>1 DEF OneAtATime, NoTrouble, InLine, Gathered, Busy, Running, Spoken, Finished, Reply, Address, Scoped
  <2>3. Leaving' /\ Kept'
    BY <1>1, <2>1 DEF Leaving, Kept, Finished, Reply, Address
  <2>4. Complete'
    BY <1>1, <2>1 DEF Complete, Reply, HeardBy, Held, Chained, Flying
  <2>5. QED BY <2>2, <2>3, <2>4 DEF OrderlyInv
<1>6. QED
  BY <1>3, <1>4, <1>5, PromptOrderly, StartOrderly, DeltaOrderly, WindowOrderly, EmitOrderly, EndTurnOrderly,
     OverOrderly, PostOrderly, InsertOrderly
  DEF Next, TurnStep

\* Without overlapping prompts, images, slow inserts and failures, the whole of every
\* reply is announced where its prompt came from and nowhere else, although the idle
\* status may go ahead of its last parts; a message is stored under the turn's id, of
\* the whole reply if the status did not (message-router.ts:434 and 536-547,
\* workspace-relay.ts:713-714 and 802-805).
THEOREM OrderlyRepliesArrive == ASSUME ReplyAssumption PROVE Spec => []WholeInScope
<1> DEFINE Inv == TypesInv /\ OrderInv /\ (Orderly => OrderlyInv)
<1>1. Init => Inv
  BY InitTypes, InitOrder, InitOrderly
<1>2. Inv /\ [Next]_vars => Inv'
  <2>1. [Next]_vars => (Orderly' <=> Orderly)
    BY SituationStays DEF Orderly
  <2>2. QED BY <2>1, NextTypes, NextOrder, NextOrderly
<1>3. Inv => WholeInScope
  BY OrderlyEnough DEF WholeInScope, HeardInScope, StoredInFull
<1>4. QED BY <1>1, <1>2, <1>3, PTL DEF Spec
=============================================================================
