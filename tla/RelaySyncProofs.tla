--------------------------- MODULE RelaySyncProofs ---------------------------
(***************************************************************************)
(* Proofs about RelaySync, for every set of daemons and messages and every *)
(* value of the bounds.                                                    *)
(***************************************************************************)
EXTENDS RelaySync, TLAPS

\* What the numbering and the way to PostgreSQL depend on.
numbering == <<epoch, seq, log, persisting, rows, buffer, draining, redisErrors, replayLost>>

\* Everything on its way to PostgreSQL, or there, is an entry of the log.
StoredFromLog ==
  /\ rows \subseteq log /\ persisting \subseteq log
  /\ buffer \in Seq(log) /\ draining \in Seq(log)

\* Nothing in the log is numbered beyond the counter of its incarnation.
NumbersBelowCounter ==
  \A e \in log : e.epoch < epoch \/ (e.epoch = epoch /\ e.seq <= seq)

\* The inductive invariant.
NumberingInv ==
  /\ epoch \in Nat /\ seq \in Nat
  /\ \A e \in log : e.epoch \in Nat /\ e.seq \in Nat
  /\ NumbersBelowCounter
  /\ OneMessagePerNumber
  /\ StoredFromLog

LEMMA InitNumbering == Init => NumberingInv
  BY DEF Init, NumberingInv, NumbersBelowCounter, OneMessagePerNumber, StoredFromLog

\* The steps that number nothing and move nothing towards the messages table.
LEMMA OtherSteps ==
  ASSUME \/ \E d \in Daemon : \/ HandleHello(d) \/ HandleSyncRequest(d) \/ SyncRead(d)
                              \/ SyncReply(d) \/ Connect(d) \/ Disconnect(d)
                              \/ DaemonRestart(d) \/ DaemonStep(d)
                              \/ \E m \in Msg : Post(d, m)
         \/ PgDown \/ PgRecover \/ UNCHANGED vars
  PROVE  UNCHANGED numbering
  BY DEF numbering, HandleHello, HandleSyncRequest, SyncRead, SyncReply, Connect, Disconnect,
         DaemonRestart, DaemonStep, OnSubscribed, HandleRelayMessage, HandleSyncResponse, Post,
         PgDown, PgRecover, Unlink, vars, relayVars, dbVars, daemonVars, wireVars, history

\* A published entry has a number no entry of this incarnation has.
LEMMA PublishKeeps ==
  ASSUME NumberingInv, NEW m, NEW from, Publish(m, from),
         UNCHANGED <<epoch, rows, buffer, draining>>
  PROVE  NumberingInv'
<1> USE DEF Number
<1> DEFINE e == [id |-> m, seq |-> Number(seq), epoch |-> epoch, from |-> from]
<1>1. log' = log \cup {e} /\ seq' = seq + 1 /\ persisting' \subseteq persisting \cup {e}
  BY DEF Publish
<1>2. NumbersBelowCounter' /\ (\A f \in log : f # e /\ f.epoch = epoch => f.seq # e.seq)
  BY <1>1 DEF NumberingInv, NumbersBelowCounter
<1>3. OneMessagePerNumber'
  BY <1>1, <1>2 DEF NumberingInv, NumbersBelowCounter, OneMessagePerNumber
<1>4. StoredFromLog'
  BY <1>1 DEF NumberingInv, StoredFromLog
<1>5. QED BY <1>1, <1>2, <1>3, <1>4 DEF NumberingInv

LEMMA StepNumbering == NumberingInv /\ [Next]_vars => NumberingInv'
<1> SUFFICES ASSUME NumberingInv, [Next]_vars PROVE NumberingInv'
  OBVIOUS
<1> USE DEF Number, Buffered, Drained, dbVars, daemonVars, wireVars, history
<1>1. CASE UNCHANGED numbering
  BY <1>1 DEF numbering, NumberingInv, NumbersBelowCounter, OneMessagePerNumber, StoredFromLog
<1>2. ASSUME NEW m \in Msg, InjectMessage(m) PROVE NumberingInv'
  BY <1>2, PublishKeeps DEF InjectMessage
<1>3. ASSUME NEW d \in Daemon, HandleForward(d) PROVE NumberingInv'
  BY <1>3, PublishKeeps DEF HandleForward
<1>4. ASSUME NEW e \in persisting, PersistDone(e) PROVE NumberingInv'
  BY <1>4 DEF PersistDone, NumberingInv, NumbersBelowCounter, OneMessagePerNumber, StoredFromLog
<1>5. ASSUME NEW e \in persisting, PersistFailed(e) PROVE NumberingInv'
  <2>1. rows' \subseteq log /\ persisting' \subseteq log /\ buffer' \in Seq(log)
    BY <1>5 DEF PersistFailed, NumberingInv, StoredFromLog
  <2>2. UNCHANGED <<epoch, seq, log, draining>>
    BY <1>5 DEF PersistFailed
  <2>3. QED
    BY <2>1, <2>2 DEF NumberingInv, NumbersBelowCounter, OneMessagePerNumber, StoredFromLog
<1>6. CASE DrainBuffer
  BY <1>6 DEF DrainBuffer, NumberingInv, NumbersBelowCounter, OneMessagePerNumber, StoredFromLog
<1>7. CASE PersistBuffered
  <2>1. Head(draining) \in log /\ draining' \in Seq(log)
    BY <1>7 DEF PersistBuffered, NumberingInv, StoredFromLog
  <2>2. rows' \subseteq log /\ UNCHANGED <<epoch, seq, log, persisting, buffer>>
    BY <1>7, <2>1 DEF PersistBuffered, NumberingInv, StoredFromLog
  <2>3. QED
    BY <2>1, <2>2 DEF NumberingInv, NumbersBelowCounter, OneMessagePerNumber, StoredFromLog
<1>8. CASE RelayCrash
  \* the counter restarts from 0 in an incarnation no entry belongs to yet
  BY <1>8 DEF RelayCrash, NumberingInv, NumbersBelowCounter, OneMessagePerNumber, StoredFromLog
<1>9. CASE RelayStart
  <2>1. seq' \in Nat /\ seq <= seq' /\ UNCHANGED <<epoch, log, persisting, rows, buffer, draining>>
    BY <1>9 DEF RelayStart, NumberingInv, StoredFromLog, Highest, Larger
  <2>2. QED
    BY <2>1 DEF NumberingInv, NumbersBelowCounter, OneMessagePerNumber, StoredFromLog
<1>10. QED
  BY <1>1, <1>2, <1>3, <1>4, <1>5, <1>6, <1>7, <1>8, <1>9, OtherSteps
     DEF Next, RelayStep, Environment, DaemonStep

\* Two messages never share a number within one life of the relay
\* (handleForward and injectMessage bump one counter per workspace).
THEOREM NumberingIsInjective == Spec => []OneMessagePerNumber
<1>1. NumberingInv => OneMessagePerNumber
  BY DEF NumberingInv
<1>2. QED
  BY <1>1, InitNumbering, StepNumbering, PTL DEF Spec

------------------------------------------------------------------------------
(* What becomes of a numbered message.  LostOnlyInReplay is inductive together  *)
(* with the types NumberingInv has, once the counter of failed pushes has one.  *)

LossInv == redisErrors \in Nat /\ LostOnlyInReplay

LEMMA InitLoss == Init => LossInv
  BY DEF Init, LossInv, LostOnlyInReplay

\* A published message that is to be stored is being inserted.
LEMMA PublishHolds ==
  ASSUME LossInv, NEW m, NEW from, Publish(m, from),
         UNCHANGED <<epoch, rows, buffer, draining, redisErrors, replayLost>>
  PROVE  LossInv'
<1>1. PICK e : /\ log' = log \cup {e} /\ persisting \subseteq persisting'
               /\ e.id \in Storable => e \in persisting'
  BY DEF Publish
<1>2. \A f : Held(f) => Held(f)'
  BY <1>1 DEF Held
<1>3. e.id \in Storable => Held(e)'
  BY <1>1 DEF Held
<1>4. QED
  BY <1>1, <1>2, <1>3 DEF LossInv, LostOnlyInReplay

\* A step that keeps the log loses nothing if what was held is held, or was
\* lost in a replay.
LEMMA HeldSuffices ==
  ASSUME LossInv, UNCHANGED <<epoch, log, redisErrors>>, replayLost \subseteq replayLost',
         \A f \in log : Held(f) => Held(f)' \/ f \in replayLost'
  PROVE  LossInv'
  BY DEF LossInv, LostOnlyInReplay

LEMMA StepLoss == NumberingInv /\ LossInv /\ [Next]_vars => LossInv'
<1> SUFFICES ASSUME NumberingInv, LossInv, [Next]_vars PROVE LossInv'
  OBVIOUS
<1> USE DEF Buffered, Drained, dbVars, daemonVars, wireVars, history
<1>1. CASE UNCHANGED numbering
  <2>1. \A f : Held(f) => Held(f)'
    BY <1>1 DEF numbering, Held
  <2>2. QED
    BY <1>1, <2>1, HeldSuffices DEF numbering
<1>2. ASSUME NEW m \in Msg, InjectMessage(m) PROVE LossInv'
  BY <1>2, PublishHolds DEF InjectMessage
<1>3. ASSUME NEW d \in Daemon, HandleForward(d) PROVE LossInv'
  BY <1>3, PublishHolds DEF HandleForward
<1>4. ASSUME NEW e \in persisting, PersistDone(e) PROVE LossInv'
  <2>1. \A f : Held(f) => Held(f)'
    BY <1>4 DEF PersistDone, Held
  <2>2. QED
    BY <1>4, <2>1, HeldSuffices DEF PersistDone
<1>5. ASSUME NEW e \in persisting, PersistFailed(e) PROVE LossInv'
  <2>1. CASE redisErrors' = redisErrors + 1
    BY <2>1 DEF LossInv, LostOnlyInReplay
  <2>2. CASE buffer' = Append(buffer, e) /\ UNCHANGED redisErrors
    <3>1. buffer \in Seq(log) /\ Len(buffer) + 1 \in DOMAIN buffer' /\ buffer'[Len(buffer) + 1] = e
          /\ \A i \in DOMAIN buffer : i \in DOMAIN buffer' /\ buffer'[i] = buffer[i]
      BY <2>2, <1>5 DEF NumberingInv, StoredFromLog, PersistFailed
    <3>2. \A f : Held(f) => Held(f)'
      BY <1>5, <3>1 DEF PersistFailed, Held
    <3>3. QED
      BY <1>5, <2>2, <3>2, HeldSuffices DEF PersistFailed
  <2>3. QED
    BY <1>5, <2>1, <2>2 DEF PersistFailed
<1>6. CASE DrainBuffer
  <2>1. \A f : Held(f) => Held(f)'
    BY <1>6 DEF DrainBuffer, Held
  <2>2. QED
    BY <1>6, <2>1, HeldSuffices DEF DrainBuffer
<1>7. CASE PersistBuffered
  \* the first of the drained messages is stored or lost, the others stay
  <2>1. draining \in Seq(log) /\ draining # <<>>
    BY <1>7 DEF PersistBuffered, NumberingInv, StoredFromLog
  <2>2. \A i \in DOMAIN draining : draining[i] = Head(draining) \/ \E j \in DOMAIN draining' : draining'[j] = draining[i]
    <3> SUFFICES ASSUME NEW i \in DOMAIN draining, i # 1
                 PROVE  i - 1 \in DOMAIN draining' /\ draining'[i - 1] = draining[i]
      BY <2>1
    <3> QED
      BY <1>7, <2>1 DEF PersistBuffered
  <2>3. Head(draining) \in rows' \/ Head(draining) \in replayLost'
    BY <1>7 DEF PersistBuffered
  <2>4. \A f : Held(f) => Held(f)' \/ f \in replayLost'
    BY <1>7, <2>2, <2>3 DEF PersistBuffered, Held
  <2>5. QED
    BY <1>7, <2>4, HeldSuffices DEF PersistBuffered
<1>8. CASE RelayCrash
  BY <1>8 DEF RelayCrash, LossInv, LostOnlyInReplay, NumberingInv
<1>9. CASE RelayStart
  <2>1. \A f : Held(f) => Held(f)'
    BY <1>9 DEF RelayStart, Held
  <2>2. QED
    BY <1>9, <2>1, HeldSuffices DEF RelayStart
<1>10. QED
  BY <1>1, <1>2, <1>3, <1>4, <1>5, <1>6, <1>7, <1>8, <1>9, OtherSteps
     DEF Next, RelayStep, Environment, DaemonStep

\* Whichever path takes a message to PostgreSQL, it is stored under the number
\* its live copy carried (persistMessage, bufferMessage, persistBufferedMessages),
\* and it is lost only where the code gives up on it.
THEOREM NumberedIsKept == Spec => []KeptAsNumbered
<1>1. NumberingInv => StoredAsNumbered
  BY DEF NumberingInv, StoredFromLog, StoredAsNumbered
<1>2. LossInv => LostOnlyInReplay
  BY DEF LossInv
<1>3. QED
  BY <1>1, <1>2, InitNumbering, StepNumbering, InitLoss, StepLoss, PTL DEF Spec, KeptAsNumbered

------------------------------------------------------------------------------
(* Types.                                                                       *)

Answer == {Idle} \cup [state : {"asked"}, since : Nat]
                 \cup [state : {"read"}, entries : SUBSET Entry]

\* The frames of either direction have their types.
LEMMA FrameTypes ==
  /\ Hello \in FrameToRelay /\ Subscribed \in FrameToDaemon
  /\ \A m \in Msg : Forward(m) \in FrameToRelay
  /\ \A n \in Nat : SyncRequest(n) \in FrameToRelay
  /\ \A e \in Entry : Live(e) \in FrameToDaemon
  /\ \A es \in SUBSET Entry : SyncResponse(es) \in FrameToDaemon
BY DEF Hello, Forward, SyncRequest, Subscribed, Live, SyncResponse, FrameToRelay, FrameToDaemon

\* And their fields: what a handler takes from the frame it reads.
LEMMA FrameFields ==
  /\ \A f \in FrameToRelay : f.type = "relay_forward" => f.id \in Msg
  /\ \A f \in FrameToRelay : f.type = "relay_sync_request" => f.since \in Nat
  /\ \A f \in FrameToDaemon : f.type = "relay_message" => f.entry \in Entry
  /\ \A f \in FrameToDaemon : f.type = "relay_sync_response" => f.entries \in SUBSET Entry
BY DEF FrameToRelay, FrameToDaemon

\* The highest number of entries is a number.
LEMMA HighestIsNat == \A es \in SUBSET Entry : \A n \in Highest(es) : n \in Nat
BY DEF Highest, Entry

LEMMA InitTypes == ASSUME Init PROVE TypeOK
BY ConstantsAssumption DEF Init, TypeOK, Idle

\* Numbering a message keeps the types.
LEMMA PublishTypes ==
  ASSUME TypeOK, NEW m \in Msg, NEW from \in Daemon \cup {Relay}, Publish(m, from)
  PROVE  /\ seq' \in Nat /\ persisting' \subseteq Entry /\ log' \subseteq Entry
         /\ toDaemon' \in [Daemon -> Seq(FrameToDaemon)]
         /\ due' \in [Daemon -> SUBSET Entry] /\ owed' \in [Daemon -> SUBSET Entry]
<1>1. PICK e \in Entry :
        /\ seq' = seq + 1
        /\ toDaemon' = [d \in Daemon |->
                          IF d \in subs THEN Append(toDaemon[d], Live(e)) ELSE toDaemon[d]]
        /\ persisting' \subseteq persisting \cup {e} /\ log' = log \cup {e}
        /\ due' = [d \in Daemon |-> IF d \in subs THEN due[d] \cup {e} ELSE due[d]]
        /\ owed' = [d \in Daemon |-> IF d \in members THEN owed[d] \cup {e} ELSE owed[d]]
  <2> DEFINE f == [id |-> m, seq |-> Number(seq), epoch |-> epoch, from |-> from]
  <2>1. f \in Entry
    BY DEF Number, Entry, TypeOK
  <2>2. seq' = seq + 1 /\ f.seq = seq + 1
    BY DEF Publish, Number
  <2> QED BY <2>1, <2>2 DEF Publish, Send
<1>2. Live(e) \in FrameToDaemon
  BY FrameTypes
<1>3. toDaemon' \in [Daemon -> Seq(FrameToDaemon)]
  BY <1>1, <1>2 DEF TypeOK
<1>4. QED
  BY <1>1, <1>3 DEF TypeOK

\* The handlers of one daemon's frames, and what its client does.
LEMMA DaemonTypes ==
  ASSUME TypeOK, NEW d \in Daemon,
         \/ HandleHello(d) \/ HandleForward(d) \/ HandleSyncRequest(d)
         \/ SyncRead(d) \/ SyncReply(d) \/ Connect(d) \/ Disconnect(d) \/ DaemonRestart(d)
         \/ DaemonStep(d) \/ \E m \in Msg : Post(d, m)
  PROVE  TypeOK'
<1> USE DEF relayVars, dbVars, daemonVars, wireVars, history
<1>1. toRelay[d] \in Seq(FrameToRelay) /\ toDaemon[d] \in Seq(FrameToDaemon)
  BY DEF TypeOK
<1>2. CASE HandleHello(d)
  <2>1. Append(toDaemon[d], Subscribed) \in Seq(FrameToDaemon)
    BY <1>1, FrameTypes
  <2>2. QED BY <1>1, <1>2, <2>1 DEF HandleHello, Send, TypeOK
<1>3. CASE HandleForward(d)
  <2>1. Head(toRelay[d]).id \in Msg
    BY <1>1, <1>3, FrameFields DEF HandleForward
  <2>2. /\ toRelay' = [toRelay EXCEPT ![d] = Tail(@)]
        /\ UNCHANGED <<relayUp, epoch, subs, draining, query, dbVars, daemonVars, recv, members,
                       replayLost>>
    BY <1>3 DEF HandleForward
  <2>3. toRelay' \in [Daemon -> Seq(FrameToRelay)]
    BY <1>1, <1>3, <2>2 DEF HandleForward, TypeOK
  <2>4. Publish(Head(toRelay[d]).id, d)
    BY <1>3 DEF HandleForward
  <2>5. QED BY <2>1, <2>2, <2>3, <2>4, PublishTypes DEF TypeOK
<1>4. CASE HandleSyncRequest(d)
  <2>1. Head(toRelay[d]).since \in Nat
    BY <1>1, <1>4, FrameFields DEF HandleSyncRequest
  <2>2. QED BY <1>1, <1>4, <2>1 DEF HandleSyncRequest, TypeOK
<1>5. CASE SyncRead(d)
  BY <1>5 DEF SyncRead, TypeOK
<1>6. CASE SyncReply(d)
  <2>1. query[d].entries \in SUBSET Entry
    <3>1. query[d] \in Answer
      BY DEF TypeOK, Answer
    <3>2. QED BY <1>6, <3>1 DEF SyncReply, Answer, Idle
  <2>2. Append(toDaemon[d], SyncResponse(query[d].entries)) \in Seq(FrameToDaemon)
    BY <1>1, <2>1, FrameTypes
  <2>3. QED BY <1>6, <2>2 DEF SyncReply, Send, TypeOK
<1>7. CASE Connect(d)
  <2>1. <<Hello>> \in Seq(FrameToRelay)
    BY FrameTypes
  <2>2. QED BY <1>7, <2>1 DEF Connect, TypeOK
<1>8. CASE Disconnect(d) \/ DaemonRestart(d)
  <2> Unlink(d)
    BY <1>8 DEF Disconnect, DaemonRestart
  <2>1. /\ link' \in [Daemon -> {"off", "hello", "on"}] /\ subs' \subseteq Daemon
        /\ toRelay' \in [Daemon -> Seq(FrameToRelay)]
        /\ toDaemon' \in [Daemon -> Seq(FrameToDaemon)]
    <3>1. <<>> \in Seq(FrameToRelay) /\ <<>> \in Seq(FrameToDaemon)
      OBVIOUS
    <3>2. QED BY <3>1 DEF Unlink, TypeOK
  <2>2. query' \in [Daemon -> Answer]
    BY <1>8 DEF Disconnect, DaemonRestart, Unlink, TypeOK, Answer
  <2>3. CASE Disconnect(d)
    BY <2>1, <2>2, <2>3 DEF Disconnect, TypeOK, Answer
  <2>4. CASE DaemonRestart(d)
    BY <2>1, <2>2, <2>4 DEF DaemonRestart, TypeOK, Answer
  <2>5. QED BY <1>8, <2>3, <2>4
<1>9. CASE OnSubscribed(d)
  <2>1. Append(toRelay[d], SyncRequest(lastSeq[d])) \in Seq(FrameToRelay)
    BY <1>1, FrameTypes DEF TypeOK
  <2>2. QED BY <1>1, <1>9, <2>1 DEF OnSubscribed, TypeOK
<1>10. CASE HandleRelayMessage(d)
  <2>1. Head(toDaemon[d]).entry \in Entry
    BY <1>1, <1>10, FrameFields DEF HandleRelayMessage
  <2>2. lastSeq' \in [Daemon -> Nat]
    BY <1>10, <2>1 DEF HandleRelayMessage, Larger, Entry, TypeOK
  <2>3. store' \in [Daemon -> SUBSET Msg]
    BY <1>10, <2>1 DEF HandleRelayMessage, Entry, TypeOK
  <2>4. recv' \in [Daemon -> Seq(Entry)]
    BY <1>10, <2>1 DEF HandleRelayMessage, TypeOK
  <2>5. toDaemon' \in [Daemon -> Seq(FrameToDaemon)] /\ members' \subseteq Daemon
    BY <1>1, <1>10 DEF HandleRelayMessage, TypeOK
  <2>6. QED BY <1>10, <2>2, <2>3, <2>4, <2>5 DEF HandleRelayMessage, TypeOK
<1>11. CASE HandleSyncResponse(d)
  <2>1. Head(toDaemon[d]).entries \in SUBSET Entry
    BY <1>1, <1>11, FrameFields DEF HandleSyncResponse
  <2>2. \A n \in Highest(Head(toDaemon[d]).entries) : Larger(lastSeq[d], n) \in Nat
    BY <2>1, HighestIsNat DEF Larger, TypeOK
  <2>3. Ids(Head(toDaemon[d]).entries) \subseteq Msg
    BY <2>1 DEF Ids, Entry
  <2>4. store' \in [Daemon -> SUBSET Msg]
    BY <1>11, <2>3 DEF HandleSyncResponse, TypeOK
  <2>5. lastSeq' \in [Daemon -> Nat]
    BY <1>11, <2>2 DEF HandleSyncResponse, TypeOK
  <2>6. toDaemon' \in [Daemon -> Seq(FrameToDaemon)]
    BY <1>1, <1>11 DEF HandleSyncResponse, TypeOK
  <2>7. QED BY <1>11, <2>4, <2>5, <2>6 DEF HandleSyncResponse, TypeOK
<1>12. ASSUME NEW m \in Msg, Post(d, m) PROVE TypeOK'
  <2>1. Append(toRelay[d], Forward(m)) \in Seq(FrameToRelay)
    BY <1>1, FrameTypes
  <2>2. QED BY <1>12, <2>1 DEF Post, TypeOK
<1>13. QED
  BY <1>2, <1>3, <1>4, <1>5, <1>6, <1>7, <1>8, <1>9, <1>10, <1>11, <1>12 DEF DaemonStep

LEMMA StepTypes == ASSUME TypeOK, [Next]_vars PROVE TypeOK'
<1> USE DEF relayVars, dbVars, daemonVars, wireVars, history
<1>1. CASE UNCHANGED vars
  BY <1>1 DEF vars, TypeOK
<1>2. ASSUME NEW m \in Msg, InjectMessage(m) PROVE TypeOK'
  BY <1>2, PublishTypes DEF InjectMessage, TypeOK
<1>3. ASSUME NEW e \in persisting, PersistDone(e) \/ PersistFailed(e) PROVE TypeOK'
  <2>1. e \in Entry /\ Append(buffer, e) \in Seq(Entry)
    BY DEF TypeOK
  <2>2. CASE PersistDone(e)
    BY <2>1, <2>2 DEF PersistDone, TypeOK
  <2>3. CASE PersistFailed(e)
    <3>1. /\ persisting' \subseteq Entry /\ rows' \subseteq Entry /\ buffer' \in Seq(Entry)
          /\ redisErrors' \in Nat
      <4>1. persisting \subseteq Entry /\ rows \subseteq Entry /\ buffer \in Seq(Entry)
            /\ redisErrors \in Nat
        BY DEF TypeOK
      <4>2. /\ persisting' \subseteq Entry /\ rows' \subseteq Entry
        BY <2>1, <2>3, <4>1 DEF PersistFailed
      <4>3. buffer' \in Seq(Entry)
        BY <2>1, <2>3, <4>1 DEF PersistFailed, Buffered
      <4>4. redisErrors' \in Nat
        BY <2>3, <4>1 DEF PersistFailed
      <4>5. QED BY <4>2, <4>3, <4>4
    <3>2. QED BY <2>3, <3>1 DEF PersistFailed, TypeOK
  <2>4. QED BY <1>3, <2>2, <2>3
<1>4. CASE DrainBuffer
  BY <1>4 DEF DrainBuffer, Drained, TypeOK
<1>5. CASE PersistBuffered
  <2>1. Head(draining) \in Entry /\ Tail(draining) \in Seq(Entry)
    BY <1>5 DEF PersistBuffered, TypeOK
  <2>2. QED BY <1>5, <2>1 DEF PersistBuffered, TypeOK
<1>6. CASE RelayStart
  <2>1. rows \in SUBSET Entry /\ seq \in Nat
    BY DEF TypeOK
  <2>2. \A n \in Highest(rows) : Larger(seq, n) \in Nat
    BY <2>1, HighestIsNat DEF Larger
  <2>3. seq' \in Nat
    BY <1>6, <2>1, <2>2 DEF RelayStart
  <2>4. QED BY <1>6, <2>3 DEF RelayStart, TypeOK
<1>7. CASE RelayCrash
  <2>1. /\ toRelay' \in [Daemon -> Seq(FrameToRelay)] /\ toDaemon' \in [Daemon -> Seq(FrameToDaemon)]
        /\ link' \in [Daemon -> {"off", "hello", "on"}] /\ query' \in [Daemon -> Answer]
        /\ epoch' \in Nat /\ seq' \in Nat /\ draining' \in Seq(Entry)
    BY <1>7 DEF RelayCrash, TypeOK, Answer
  <2>2. QED BY <1>7, <2>1 DEF RelayCrash, TypeOK, Answer
<1>8. CASE PgDown \/ PgRecover
  <2>1. pgUp' \in BOOLEAN /\ outages' \in Nat
    <3>1. outages \in Nat
      BY DEF TypeOK
    <3>2. outages' \in {outages, outages + 1}
      BY <1>8 DEF PgDown, PgRecover
    <3>3. pgUp' \in BOOLEAN
      BY <1>8, Zenon DEF PgDown, PgRecover
    <3>4. QED BY <3>1, <3>2, <3>3
  <2>2. UNCHANGED <<relayVars, rows, buffer, redisErrors, daemonVars, wireVars, history>>
    BY <1>8 DEF PgDown, PgRecover
  <2>3. QED BY <2>1, <2>2 DEF TypeOK
<1>9. QED
  BY <1>1, <1>2, <1>3, <1>4, <1>5, <1>6, <1>7, <1>8, DaemonTypes DEF Next, RelayStep, Environment

\* Every variable of the relay, of PostgreSQL and Redis, of the daemons and of
\* the wire keeps its type.
THEOREM SyncTypes == Spec => []TypeOK
BY InitTypes, StepTypes, PTL DEF Spec

------------------------------------------------------------------------------
(* Nothing is skipped on a live socket.                                         *)

Forwards(d) == Frames(toRelay[d], "relay_forward")
Lives(d) == Frames(toDaemon[d], "relay_message")

\* What a daemon has posted, it has stored: while the frame is on its way and
\* after the relay has numbered the message.
OwnStored ==
  \A d \in Daemon :
    /\ \A m \in Storable : Forward(m) \in Forwards(d) => m \in store[d]
    /\ \A e \in log : e.from = d /\ e.id \in Storable => e.id \in store[d]

DueNumbered == \A d \in Daemon : due[d] \subseteq log

\* The inductive invariant.
SkipInv == TypeOK /\ OwnStored /\ DueNumbered /\ NoSkipOnLiveSocket

\* What reading and sending a frame do to the frames of a type.
LEMMA FramesOfTail ==
  ASSUME NEW S, NEW q \in Seq(S), q # <<>>, NEW t
  PROVE  /\ Frames(Tail(q), t) \subseteq Frames(q, t)
         /\ \A f \in Frames(q, t) : f = Head(q) \/ f \in Frames(Tail(q), t)
<1>1. \A i \in DOMAIN Tail(q) : i + 1 \in DOMAIN q /\ Tail(q)[i] = q[i + 1]
  OBVIOUS
<1>2. \A i \in DOMAIN q : i = 1 \/ (i - 1 \in DOMAIN Tail(q) /\ Tail(q)[i - 1] = q[i])
  OBVIOUS
<1>3. Frames(Tail(q), t) \subseteq Frames(q, t)
  BY <1>1 DEF Frames
<1>4. ASSUME NEW i \in DOMAIN q, q[i].type = t PROVE q[i] = Head(q) \/ q[i] \in Frames(Tail(q), t)
  <2>1. CASE i = 1
    BY <2>1
  <2>2. CASE i - 1 \in DOMAIN Tail(q) /\ Tail(q)[i - 1] = q[i]
    <3>1. Tail(q)[i - 1].type = t
      BY <1>4, <2>2
    <3>2. QED BY <2>2, <3>1 DEF Frames
  <2>3. QED BY <1>2, <2>1, <2>2
<1>5. QED BY <1>3, <1>4 DEF Frames

LEMMA FramesOfAppend ==
  ASSUME NEW S, NEW q \in Seq(S), NEW f \in S, NEW t
  PROVE  /\ Frames(q, t) \subseteq Frames(Append(q, f), t)
         /\ f.type = t => f \in Frames(Append(q, f), t)
         /\ \A g \in Frames(Append(q, f), t) : g \in Frames(q, t) \/ (g = f /\ f.type = t)
<1>1. /\ \A i \in DOMAIN q : i \in DOMAIN Append(q, f) /\ Append(q, f)[i] = q[i]
      /\ Len(q) + 1 \in DOMAIN Append(q, f) /\ Append(q, f)[Len(q) + 1] = f
      /\ \A i \in DOMAIN Append(q, f) : i \in DOMAIN q \/ i = Len(q) + 1
  OBVIOUS
<1>2. QED BY <1>1 DEF Frames

\* A step that numbers nothing, forgets nothing a daemon has stored, and takes
\* live frames from a socket that stays subscribed only by storing what they hold.
LEMMA QuietSkip ==
  ASSUME SkipInv, TypeOK', log' = log,
         \A d \in Daemon :
           /\ store[d] \subseteq store'[d]
           /\ due'[d] \in {due[d], {}}
           /\ \A m \in Storable : Forward(m) \in Forwards(d)' => Forward(m) \in Forwards(d) \/ m \in store'[d],
         \A d \in subs' : \A e \in due'[d] :
           e.id \in Storable =>
             /\ d \in subs
             /\ Live(e) \in Lives(d) => Live(e) \in Lives(d)' \/ e.id \in store'[d]
  PROVE  SkipInv'
<1>1. OwnStored'
  BY DEF SkipInv, OwnStored, Forward
<1>2. DueNumbered'
  BY DEF SkipInv, DueNumbered
<1>3. subs' \subseteq Daemon
  BY DEF TypeOK
<1>4. ASSUME NEW d \in subs', NEW e \in due'[d], e.id \in Storable
      PROVE  e.id \in store'[d] \/ Live(e) \in Lives(d)'
  <2>1. d \in Daemon /\ d \in subs /\ e \in due[d]
    BY <1>3, <1>4
  <2>2. e.id \in store[d] \/ Live(e) \in Lives(d)
    BY <1>4, <2>1 DEF SkipInv, NoSkipOnLiveSocket, Lives
  <2>3. QED BY <1>4, <2>1, <2>2
<1>5. NoSkipOnLiveSocket'
  BY <1>4 DEF NoSkipOnLiveSocket, Lives, Live
<1>6. QED BY <1>1, <1>2, <1>5 DEF SkipInv

LEMMA InitSkip == ASSUME Init PROVE SkipInv
BY InitTypes DEF Init, SkipInv, OwnStored, DueNumbered, NoSkipOnLiveSocket, Forwards, Frames

\* Numbering sends the entry to every subscribed socket.
LEMMA PublishSkip ==
  ASSUME SkipInv, TypeOK', NEW m \in Msg, NEW from \in Daemon \cup {Relay}, Publish(m, from),
         from \in Daemon /\ m \in Storable => m \in store[from],
         UNCHANGED <<subs, store>>,
         \A d \in Daemon : Forwards(d)' \subseteq Forwards(d)
  PROVE  SkipInv'
<1>1. PICK e \in Entry :
        /\ e.id = m /\ e.from = from /\ log' = log \cup {e}
        /\ toDaemon' = [d \in Daemon |->
                          IF d \in subs THEN Append(toDaemon[d], Live(e)) ELSE toDaemon[d]]
        /\ due' = [d \in Daemon |-> IF d \in subs THEN due[d] \cup {e} ELSE due[d]]
  <2> DEFINE f == [id |-> m, seq |-> Number(seq), epoch |-> epoch, from |-> from]
  <2>1. f \in Entry
    BY DEF Number, Entry, TypeOK, SkipInv
  <2>2. QED BY <2>1 DEF Publish, Send
<1>2. OwnStored'
  BY <1>1 DEF SkipInv, OwnStored, Forward
<1>3. DueNumbered'
  BY <1>1 DEF SkipInv, DueNumbered
<1>4. ASSUME NEW d \in subs, NEW g \in due'[d], g.id \in Storable
      PROVE  g.id \in store[d] \/ Live(g) \in Lives(d)'
  <2>1. d \in Daemon /\ toDaemon[d] \in Seq(FrameToDaemon) /\ Live(e) \in FrameToDaemon
    BY FrameTypes DEF SkipInv, TypeOK
  <2>2. Lives(d) \subseteq Lives(d)' /\ Live(e) \in Lives(d)'
    BY <1>1, <1>4, <2>1, FramesOfAppend DEF Lives, Live
  <2>3. CASE g \in due[d]
    BY <1>4, <2>2, <2>3 DEF SkipInv, NoSkipOnLiveSocket, Lives
  <2>4. CASE g = e
    BY <2>2, <2>4
  <2>5. QED BY <1>1, <1>4, <2>1, <2>3, <2>4
<1>5. NoSkipOnLiveSocket'
  BY <1>4 DEF NoSkipOnLiveSocket, Lives, Live
<1>6. QED BY <1>2, <1>3, <1>5 DEF SkipInv

\* The steps of one daemon's socket.
LEMMA DaemonSkip ==
  ASSUME SkipInv, TypeOK', NEW d \in Daemon,
         \/ HandleHello(d) \/ HandleForward(d) \/ HandleSyncRequest(d)
         \/ SyncRead(d) \/ SyncReply(d) \/ Connect(d) \/ Disconnect(d) \/ DaemonRestart(d)
         \/ DaemonStep(d) \/ \E m \in Msg : Post(d, m)
  PROVE  SkipInv'
<1> USE DEF relayVars, dbVars, daemonVars, wireVars, history
<1>1. /\ toRelay \in [Daemon -> Seq(FrameToRelay)] /\ toDaemon \in [Daemon -> Seq(FrameToDaemon)]
      /\ store \in [Daemon -> SUBSET Msg] /\ due \in [Daemon -> SUBSET Entry] /\ subs \subseteq Daemon
      /\ lastSeq[d] \in Nat
  BY DEF SkipInv, TypeOK
<1>2. CASE HandleHello(d)
  <2>1. \A x \in Daemon : Forwards(x)' \subseteq Forwards(x)
    BY <1>1, <1>2, FramesOfTail DEF HandleHello, Forwards
  <2>2. \A x \in Daemon \ {d} : Lives(x)' = Lives(x)
    BY <1>1, <1>2 DEF HandleHello, Lives
  <2>3. due' = [due EXCEPT ![d] = {}] /\ subs' = subs \cup {d} /\ UNCHANGED <<store, log>>
    BY <1>2 DEF HandleHello
  <2>4. QED BY <1>1, <2>1, <2>2, <2>3, QuietSkip
<1>3. CASE HandleForward(d)
  <2>1. /\ toRelay[d] # <<>> /\ Head(toRelay[d]).type = "relay_forward"
        /\ toRelay' = [toRelay EXCEPT ![d] = Tail(@)]
        /\ Publish(Head(toRelay[d]).id, d) /\ UNCHANGED <<subs, store>>
    BY <1>3 DEF HandleForward
  <2>2. PICK m \in Msg : Head(toRelay[d]) = Forward(m) /\ Head(toRelay[d]).id = m
    <3>1. Head(toRelay[d]) \in FrameToRelay
      BY <1>1, <2>1
    <3>2. QED BY <2>1, <3>1 DEF FrameToRelay, Forward
  <2>3. Forward(m) \in Forwards(d)
    <3>1. 1 \in DOMAIN toRelay[d] /\ toRelay[d][1] = Forward(m)
      BY <1>1, <2>1, <2>2
    <3>2. QED BY <2>1, <2>2, <3>1 DEF Forwards, Frames
  <2>4. m \in Storable => m \in store[d]
    BY <2>3 DEF SkipInv, OwnStored
  <2>5. \A x \in Daemon : Forwards(x)' \subseteq Forwards(x)
    BY <1>1, <2>1, FramesOfTail DEF Forwards
  <2>6. QED BY <2>1, <2>2, <2>4, <2>5, PublishSkip
<1>4. CASE HandleSyncRequest(d)
  <2>1. \A x \in Daemon : Forwards(x)' \subseteq Forwards(x) /\ Lives(x)' = Lives(x)
    BY <1>1, <1>4, FramesOfTail DEF HandleSyncRequest, Forwards, Lives
  <2>2. QED BY <1>1, <1>4, <2>1, QuietSkip DEF HandleSyncRequest
<1>5. CASE SyncRead(d)
  BY <1>5, QuietSkip DEF SyncRead, Forwards, Lives
<1>6. CASE SyncReply(d)
  <2>1. \A x \in Daemon : Lives(x) \subseteq Lives(x)' /\ Forwards(x)' = Forwards(x)
    <3>1. query[d].entries \in SUBSET Entry
      <4>1. query[d] \in Answer
        BY DEF SkipInv, TypeOK, Answer
      <4>2. QED BY <1>6, <4>1 DEF SyncReply, Answer, Idle
    <3>2. SyncResponse(query[d].entries) \in FrameToDaemon
      BY <3>1, FrameTypes
    <3>3. QED BY <1>1, <1>6, <3>2, FramesOfAppend DEF SyncReply, Send, Lives, Forwards
  <2>2. UNCHANGED <<subs, due, store, log>>
    BY <1>6 DEF SyncReply
  <2>3. QED BY <1>1, <2>1, <2>2, QuietSkip
<1>7. CASE Connect(d)
  <2>1. \A x \in Daemon : Forwards(x)' \subseteq Forwards(x) /\ Lives(x)' = Lives(x)
    <3>1. Frames(<<Hello>>, "relay_forward") = {}
      BY DEF Frames, Hello
    <3>2. QED BY <1>1, <1>7, <3>1 DEF Connect, Forwards, Lives
  <2>2. QED BY <1>1, <1>7, <2>1, QuietSkip DEF Connect
<1>8. CASE Disconnect(d) \/ DaemonRestart(d)
  <2>1. /\ toRelay' = [toRelay EXCEPT ![d] = <<>>] /\ toDaemon' = [toDaemon EXCEPT ![d] = <<>>]
        /\ subs' = subs \ {d} /\ UNCHANGED <<due, store, log>>
    BY <1>8 DEF Disconnect, DaemonRestart, Unlink
  <2>2. \A x \in Daemon : Forwards(x)' \subseteq Forwards(x)
    BY <1>1, <2>1 DEF Forwards, Frames
  <2>3. \A x \in Daemon \ {d} : Lives(x)' = Lives(x)
    BY <1>1, <2>1 DEF Lives
  <2>4. QED BY <1>1, <2>1, <2>2, <2>3, QuietSkip
<1>9. CASE OnSubscribed(d)
  <2>1. /\ toDaemon[d] # <<>> /\ Head(toDaemon[d]) = Subscribed
        /\ toDaemon' = [toDaemon EXCEPT ![d] = Tail(@)]
        /\ UNCHANGED <<subs, due, store, log>>
        /\ \/ toRelay' = toRelay
           \/ toRelay' = [toRelay EXCEPT ![d] = Append(@, SyncRequest(lastSeq[d]))]
    BY <1>9 DEF OnSubscribed
  <2>2. \A x \in Daemon, e \in Entry : Live(e) \in Lives(x) => Live(e) \in Lives(x)'
    <3>1. \A e \in Entry : Live(e) # Subscribed
      BY DEF Live, Subscribed
    <3>2. QED BY <1>1, <2>1, <3>1, FramesOfTail DEF Lives
  <2>3. \A x \in Daemon, m \in Storable : Forward(m) \in Forwards(x)' => Forward(m) \in Forwards(x)
    <3>1. SyncRequest(lastSeq[d]) \in FrameToRelay /\ SyncRequest(lastSeq[d]).type # "relay_forward"
      BY <1>1, FrameTypes DEF SyncRequest
    <3> DEFINE f == SyncRequest(lastSeq[d])
    <3>2. Frames(Append(toRelay[d], f), "relay_forward") \subseteq Forwards(d)
      <4>1. toRelay[d] \in Seq(FrameToRelay)
        BY <1>1
      <4>2. QED BY <3>1, <4>1, FramesOfAppend DEF Forwards
    <3>3. \A x \in Daemon : toRelay'[x] = toRelay[x] \/ (x = d /\ toRelay'[x] = Append(toRelay[d], f))
      BY <1>1, <2>1
    <3>4. QED BY <3>2, <3>3 DEF Forwards
  <2>4. QED BY <1>1, <2>1, <2>2, <2>3, QuietSkip
<1>10. CASE HandleRelayMessage(d)
  <2>1. PICK g \in Entry : Head(toDaemon[d]) = Live(g) /\ Head(toDaemon[d]).entry = g
    <3>1. Head(toDaemon[d]) \in FrameToDaemon /\ Head(toDaemon[d]).type = "relay_message"
      BY <1>1, <1>10 DEF HandleRelayMessage
    <3>2. QED BY <3>1 DEF FrameToDaemon, Live
  <2>2. /\ toDaemon[d] # <<>> /\ toDaemon' = [toDaemon EXCEPT ![d] = Tail(@)]
        /\ store' = IF Ingests(d, g) THEN [store EXCEPT ![d] = @ \cup {g.id}] ELSE store
        /\ UNCHANGED <<subs, due, log, toRelay>>
    BY <1>10, <2>1 DEF HandleRelayMessage
  <2>3. \A x \in Daemon : store[x] \subseteq store'[x] /\ Forwards(x)' = Forwards(x)
    BY <1>1, <2>2 DEF Forwards
  <2>4. ASSUME NEW x \in subs, NEW e \in due[x], e.id \in Storable, Live(e) \in Lives(x)
        PROVE  Live(e) \in Lives(x)' \/ e.id \in store'[x]
    <3>1. CASE x # d
      BY <1>1, <2>2, <2>4, <3>1 DEF Lives
    <3>2. CASE x = d /\ Live(e) # Live(g)
      BY <1>1, <2>1, <2>2, <2>4, <3>2, FramesOfTail DEF Lives
    <3>3. CASE x = d /\ Live(e) = Live(g)
      <4>1. e = g
        BY <3>3 DEF Live
      <4>2. CASE e.from = d
        BY <1>1, <2>3, <2>4, <3>3, <4>2 DEF SkipInv, OwnStored, DueNumbered
      <4>3. CASE e.from # d
        BY <1>1, <2>2, <2>4, <3>3, <4>1, <4>3 DEF Ingests
      <4>4. QED BY <4>2, <4>3
    <3>4. QED BY <3>1, <3>2, <3>3
  <2>5. QED BY <1>1, <2>2, <2>3, <2>4, QuietSkip
<1>11. CASE HandleSyncResponse(d)
  <2>1. /\ toDaemon[d] # <<>> /\ Head(toDaemon[d]).type = "relay_sync_response"
        /\ toDaemon' = [toDaemon EXCEPT ![d] = Tail(@)]
        /\ store' = [store EXCEPT ![d] = @ \cup Ids(Head(toDaemon[d]).entries)]
        /\ UNCHANGED <<subs, due, log, toRelay>>
    BY <1>11 DEF HandleSyncResponse
  <2>2. \A x \in Daemon : store[x] \subseteq store'[x] /\ Forwards(x)' = Forwards(x)
    BY <1>1, <2>1 DEF Forwards
  <2>3. \A x \in Daemon, e \in Entry : Live(e) \in Lives(x) => Live(e) \in Lives(x)'
    <3>1. \A e \in Entry : Live(e) # Head(toDaemon[d])
      BY <2>1 DEF Live
    <3>2. QED BY <1>1, <2>1, <3>1, FramesOfTail DEF Lives
  <2>4. QED BY <1>1, <2>1, <2>2, <2>3, QuietSkip
<1>12. ASSUME NEW m \in Msg, Post(d, m) PROVE SkipInv'
  <2>1. /\ store' = IF m \in Storable THEN [store EXCEPT ![d] = @ \cup {m}] ELSE store
        /\ \/ toRelay' = toRelay
           \/ toRelay' = [toRelay EXCEPT ![d] = Append(@, Forward(m))]
        /\ UNCHANGED <<subs, due, log, toDaemon>>
    BY <1>12 DEF Post
  <2>2. \A x \in Daemon : store[x] \subseteq store'[x] /\ Lives(x)' = Lives(x)
    BY <1>1, <2>1 DEF Lives
  <2>3. ASSUME NEW x \in Daemon, NEW n \in Storable, Forward(n) \in Forwards(x)'
        PROVE  Forward(n) \in Forwards(x) \/ n \in store'[x]
    <3>1. CASE Forward(n) \in Forwards(x)
      BY <3>1
    <3>2. CASE Forward(n) \notin Forwards(x)
      <4>1. x = d /\ Forward(n) = Forward(m)
        <5>1. toRelay'[x] = toRelay[x] \/ (x = d /\ toRelay'[x] = Append(toRelay[d], Forward(m)))
          BY <1>1, <2>1
        <5>2. \A g \in Frames(Append(toRelay[d], Forward(m)), "relay_forward") :
                g \in Frames(toRelay[d], "relay_forward") \/ g = Forward(m)
          <6>1. toRelay[d] \in Seq(FrameToRelay) /\ Forward(m) \in FrameToRelay
            BY <1>1, FrameTypes
          <6>2. QED BY <6>1, FramesOfAppend
        <5>3. QED BY <2>3, <3>2, <5>1, <5>2 DEF Forwards
      <4>2. n = m
        BY <4>1 DEF Forward
      <4>3. QED BY <1>1, <2>1, <4>1, <4>2
    <3>3. QED BY <3>1, <3>2
  <2>4. QED BY <1>1, <2>1, <2>2, <2>3, QuietSkip
<1>13. QED
  BY <1>2, <1>3, <1>4, <1>5, <1>6, <1>7, <1>8, <1>9, <1>10, <1>11, <1>12 DEF DaemonStep

LEMMA StepSkip == ASSUME SkipInv, [Next]_vars PROVE SkipInv'
<1> USE DEF relayVars, dbVars, daemonVars, wireVars, history
<1>1. TypeOK'
  BY StepTypes DEF SkipInv
<1>2. ASSUME UNCHANGED <<subs, store, due, log, toRelay, toDaemon>> PROVE SkipInv'
  BY <1>1, <1>2 DEF SkipInv, OwnStored, DueNumbered, NoSkipOnLiveSocket, Forwards
<1>3. ASSUME NEW m \in Msg, InjectMessage(m) PROVE SkipInv'
  <2>1. \A d \in Daemon : Forwards(d)' = Forwards(d)
    BY <1>3 DEF InjectMessage, Forwards
  <2>2. QED BY <1>1, <1>3, <2>1, PublishSkip, ConstantsAssumption DEF InjectMessage
<1>4. CASE RelayCrash
  <2>1. /\ subs' = {} /\ toRelay' = [d \in Daemon |-> <<>>] /\ UNCHANGED <<store, due, log>>
    BY <1>4 DEF RelayCrash
  <2>2. \A d \in Daemon : Forwards(d)' = {}
    BY <2>1 DEF Forwards, Frames
  <2>3. QED BY <1>1, <2>1, <2>2, QuietSkip
<1>5. ASSUME \/ \E e \in persisting : PersistDone(e) \/ PersistFailed(e)
             \/ DrainBuffer \/ PersistBuffered \/ RelayStart \/ PgDown \/ PgRecover
             \/ UNCHANGED vars
      PROVE  UNCHANGED <<subs, store, due, log, toRelay, toDaemon>>
  BY <1>5 DEF PersistDone, PersistFailed, DrainBuffer, PersistBuffered, RelayStart, PgDown,
              PgRecover, vars
<1>6. QED
  BY <1>1, <1>2, <1>3, <1>4, <1>5, DaemonSkip DEF Next, RelayStep, Environment

\* What is numbered while a daemon's current socket is subscribed is in its store
\* or on the wire, however the frames, syncs, crashes and restarts fall
\* (handleForward's fan-out against handleRelayMessage).
THEOREM LiveSocketsSkipNothing == Spec => []NoSkipOnLiveSocket
<1>1. SkipInv => NoSkipOnLiveSocket
  BY DEF SkipInv
<1>2. QED BY <1>1, InitSkip, StepSkip, PTL DEF Spec

------------------------------------------------------------------------------
(* The stream implements the feed of WorkspaceFeed.                             *)

IsForward(f) == f.type = "relay_forward"
IsLive(f) == f.type = "relay_message"

\* No frame on the wire forwards a message that was numbered, and no two of them
\* forward the same one.
ForwardsFresh ==
  \A d \in Daemon : \A i \in DOMAIN toRelay[d] : IsForward(toRelay[d][i]) =>
    /\ toRelay[d][i].id \notin Ids(log)
    /\ \A x \in Daemon : \A j \in DOMAIN toRelay[x] :
         IsForward(toRelay[x][j]) /\ toRelay[x][j].id = toRelay[d][i].id => x = d /\ j = i

\* What a daemon has received, and what is on its way to it, is of the log.
FromLog ==
  \A d \in Daemon :
    /\ \A i \in DOMAIN recv[d] : recv[d][i] \in log
    /\ \A j \in DOMAIN toDaemon[d] : IsLive(toDaemon[d][j]) => toDaemon[d][j].entry \in log

\* A daemon's live frames are in the order of the feed, after all it has received.
InFeedOrder ==
  \A d \in Daemon : \A j \in DOMAIN toDaemon[d] : IsLive(toDaemon[d][j]) =>
    /\ \A i \in DOMAIN recv[d] : Feed!Earlier(recv[d][i], toDaemon[d][j].entry)
    /\ \A i \in DOMAIN toDaemon[d] : i < j /\ IsLive(toDaemon[d][i]) =>
         Feed!Earlier(toDaemon[d][i].entry, toDaemon[d][j].entry)

\* The inductive invariant.
WireInv == ForwardsFresh /\ FromLog /\ InFeedOrder
FeedInv == TypeOK /\ NumberingInv /\ WireInv

\* The frames of q that satisfy P are frames of p, n places further on: p has lost
\* its first n frames, all of them, or gained others.
ForwardsOf(q, p, n) ==
  \A i \in DOMAIN q : IsForward(q[i]) => i + n \in DOMAIN p /\ p[i + n] = q[i]
LivesOf(q, p, n) ==
  \A i \in DOMAIN q : IsLive(q[i]) => i + n \in DOMAIN p /\ p[i + n] = q[i]

\* What the steps do to a queue.
LEMMA QueueSteps ==
  ASSUME NEW S, NEW q \in Seq(S)
  PROVE  /\ ForwardsOf(q, q, 0) /\ LivesOf(q, q, 0)
         /\ ForwardsOf(<<>>, q, 0) /\ LivesOf(<<>>, q, 0)
         /\ q # <<>> => ForwardsOf(Tail(q), q, 1) /\ LivesOf(Tail(q), q, 1)
         /\ \A f \in S : ~IsForward(f) => ForwardsOf(Append(q, f), q, 0)
         /\ \A f \in S : ~IsLive(f) => LivesOf(Append(q, f), q, 0)
<1>1. ForwardsOf(q, q, 0) /\ LivesOf(q, q, 0)
  BY DEF ForwardsOf, LivesOf
<1>2. ForwardsOf(<<>>, q, 0) /\ LivesOf(<<>>, q, 0)
  BY DEF ForwardsOf, LivesOf
<1>3. ASSUME q # <<>> PROVE ForwardsOf(Tail(q), q, 1) /\ LivesOf(Tail(q), q, 1)
  <2>1. \A i \in DOMAIN Tail(q) : i + 1 \in DOMAIN q /\ Tail(q)[i] = q[i + 1]
    BY <1>3
  <2>2. QED BY <2>1 DEF ForwardsOf, LivesOf
<1>4. \A f \in S : \A i \in DOMAIN Append(q, f) :
        \/ i + 0 \in DOMAIN q /\ Append(q, f)[i] = q[i + 0]
        \/ Append(q, f)[i] = f
  OBVIOUS
<1>5. QED BY <1>1, <1>2, <1>3, <1>4 DEF ForwardsOf, LivesOf

\* A step that forwards nothing new, and numbers only what is not on the wire.
LEMMA QuietForwards ==
  ASSUME TypeOK', ForwardsFresh,
         \A d \in Daemon : \E n \in Nat : ForwardsOf(toRelay'[d], toRelay[d], n),
         \A d \in Daemon : \A i \in DOMAIN toRelay'[d] :
            IsForward(toRelay'[d][i]) /\ toRelay'[d][i].id \in Ids(log)' =>
              toRelay'[d][i].id \in Ids(log)
  PROVE  ForwardsFresh'
<1>1. ASSUME NEW d \in Daemon, NEW i \in DOMAIN toRelay'[d], IsForward(toRelay'[d][i])
      PROVE  (toRelay[d][i].id \notin Ids(log))'
  <2>1. PICK n \in Nat : ForwardsOf(toRelay'[d], toRelay[d], n) OBVIOUS
  <2>2. QED BY <1>1, <2>1 DEF ForwardsOf, ForwardsFresh
<1>2. ASSUME NEW d \in Daemon, NEW i \in DOMAIN toRelay'[d], IsForward(toRelay'[d][i]),
             NEW x \in Daemon, NEW j \in DOMAIN toRelay'[x], IsForward(toRelay'[x][j]),
             toRelay'[x][j].id = toRelay'[d][i].id
      PROVE  x = d /\ j = i
  <2>1. PICK n \in Nat : ForwardsOf(toRelay'[d], toRelay[d], n) OBVIOUS
  <2>2. PICK m \in Nat : ForwardsOf(toRelay'[x], toRelay[x], m) OBVIOUS
  <2>3. i + n \in DOMAIN toRelay[d] /\ toRelay[d][i + n] = toRelay'[d][i]
    BY <1>2, <2>1 DEF ForwardsOf
  <2>4. j + m \in DOMAIN toRelay[x] /\ toRelay[x][j + m] = toRelay'[x][j]
    BY <1>2, <2>2 DEF ForwardsOf
  <2>5. x = d /\ j + m = i + n
    BY <1>2, <2>3, <2>4 DEF ForwardsFresh
  <2>6. j + n \in DOMAIN toRelay[d] /\ toRelay[d][j + n] = toRelay'[d][j]
    BY <1>2, <2>1, <2>5 DEF ForwardsOf
  <2>7. j + n = i + n
    BY <1>2, <2>3, <2>5, <2>6 DEF ForwardsFresh
  <2>8. i \in Nat /\ j \in Nat
    <3>1. toRelay'[d] \in Seq(FrameToRelay) /\ toRelay'[x] \in Seq(FrameToRelay)
      BY DEF TypeOK
    <3>2. QED BY <3>1
  <2>9. QED BY <2>5, <2>7, <2>8
<1>3. QED BY <1>1, <1>2 DEF ForwardsFresh

\* A step that numbers nothing, and delivers nothing.
LEMMA QuietLives ==
  ASSUME TypeOK', FromLog, InFeedOrder, log' = log, recv' = recv,
         \A d \in Daemon : \E n \in Nat : LivesOf(toDaemon'[d], toDaemon[d], n)
  PROVE  FromLog' /\ InFeedOrder'
<1>1. ASSUME NEW d \in Daemon, NEW j \in DOMAIN toDaemon'[d], IsLive(toDaemon'[d][j])
      PROVE  /\ toDaemon'[d][j].entry \in log
             /\ \A i \in DOMAIN recv[d] : Feed!Earlier(recv[d][i], toDaemon'[d][j].entry)
             /\ \A i \in DOMAIN toDaemon'[d] : i < j /\ IsLive(toDaemon'[d][i]) =>
                  Feed!Earlier(toDaemon'[d][i].entry, toDaemon'[d][j].entry)
  <2>1. PICK n \in Nat : LivesOf(toDaemon'[d], toDaemon[d], n) OBVIOUS
  <2>2. j + n \in DOMAIN toDaemon[d] /\ toDaemon[d][j + n] = toDaemon'[d][j]
    BY <1>1, <2>1 DEF LivesOf
  <2>3. ASSUME NEW i \in DOMAIN toDaemon'[d], i < j, IsLive(toDaemon'[d][i])
        PROVE  Feed!Earlier(toDaemon'[d][i].entry, toDaemon'[d][j].entry)
    <3>1. i + n \in DOMAIN toDaemon[d] /\ toDaemon[d][i + n] = toDaemon'[d][i]
      BY <2>1, <2>3 DEF LivesOf
    <3>2. i \in Nat /\ j \in Nat
      BY DEF TypeOK
    <3>3. i + n < j + n
      BY <2>3, <3>2
    <3>4. QED BY <1>1, <2>2, <2>3, <3>1, <3>3 DEF InFeedOrder
  <2>4. QED BY <1>1, <2>2, <2>3 DEF FromLog, InFeedOrder
<1>2. FromLog'
  BY <1>1 DEF FromLog
<1>3. InFeedOrder'
  BY <1>1 DEF InFeedOrder, Feed!Earlier
<1>4. QED BY <1>2, <1>3

\* A step that neither numbers nor delivers, nor forwards anything new.
LEMMA QuietWire ==
  ASSUME TypeOK', WireInv, log' = log, recv' = recv,
         \A d \in Daemon : \E n \in Nat : ForwardsOf(toRelay'[d], toRelay[d], n),
         \A d \in Daemon : \E n \in Nat : LivesOf(toDaemon'[d], toDaemon[d], n)
  PROVE  WireInv'
<1>1. Ids(log)' = Ids(log)
  BY DEF Ids
<1>2. ForwardsFresh'
  BY <1>1, QuietForwards DEF WireInv
<1>3. QED BY <1>2, QuietLives DEF WireInv

\* Numbering: the new entry comes after all of the log.
LEMMA PublishFeeds ==
  ASSUME NumberingInv, NEW m, NEW from, Publish(m, from), UNCHANGED recv, m \notin Ids(log)
  PROVE  Feed!PublishEntry
<1> DEFINE e == [id |-> m, seq |-> Number(seq), epoch |-> epoch, from |-> from]
<1>1. log' = log \cup {e} /\ e.id = m /\ e.epoch = epoch /\ e.seq = seq + 1
  BY DEF Publish, Number
<1>2. \A f \in log : Feed!Earlier(f, e)
  BY <1>1 DEF NumberingInv, NumbersBelowCounter, Feed!Earlier
<1>3. \A f \in log : f.id # e.id
  BY <1>1 DEF Ids
<1>4. e \in log' \ log
  BY <1>1, <1>3
<1>5. QED BY <1>1, <1>2, <1>3, <1>4 DEF Feed!PublishEntry

LEMMA PublishWire ==
  ASSUME TypeOK, TypeOK', NumberingInv, WireInv, NEW m, NEW from, Publish(m, from),
         UNCHANGED recv, m \notin Ids(log),
         \A d \in Daemon : \E n \in Nat : ForwardsOf(toRelay'[d], toRelay[d], n),
         \A d \in Daemon : \A i \in DOMAIN toRelay'[d] :
            IsForward(toRelay'[d][i]) => toRelay'[d][i].id # m
  PROVE  WireInv'
<1> DEFINE e == [id |-> m, seq |-> Number(seq), epoch |-> epoch, from |-> from]
<1>1. log' = log \cup {e} /\ e.id = m /\ e.epoch = epoch /\ e.seq = seq + 1
  BY DEF Publish, Number
<1>2. \A f \in log : Feed!Earlier(f, e)
  BY <1>1 DEF NumberingInv, NumbersBelowCounter, Feed!Earlier
<1>3. ForwardsFresh'
  <2>1. Ids(log)' \subseteq Ids(log) \cup {m}
    BY <1>1 DEF Ids
  <2>2. QED BY <2>1, QuietForwards DEF WireInv
<1>4. ASSUME NEW d \in Daemon, NEW j \in DOMAIN toDaemon'[d]
      PROVE  \/ j \in DOMAIN toDaemon[d] /\ toDaemon'[d][j] = toDaemon[d][j]
             \/ /\ toDaemon'[d][j] = Live(e) /\ toDaemon'[d][j].entry = e
                /\ \A i \in DOMAIN toDaemon'[d] : i < j =>
                      i \in DOMAIN toDaemon[d] /\ toDaemon'[d][i] = toDaemon[d][i]
  <2>1. toDaemon[d] \in Seq(FrameToDaemon)
    BY DEF TypeOK
  <2>2. toDaemon'[d] = toDaemon[d] \/ toDaemon'[d] = Append(toDaemon[d], Live(e))
    BY DEF Publish, Send
  <2>3. Live(e).entry = e
    BY DEF Live
  <2> DEFINE f == Live(e)
  <2> HIDE DEF e, f
  <2>4. CASE toDaemon'[d] = Append(toDaemon[d], f)
    <3>1. j \in 1..(Len(toDaemon[d]) + 1) /\ Len(toDaemon[d]) \in Nat
      BY <2>1, <2>4
    <3>2. CASE j = Len(toDaemon[d]) + 1
      <4>1. toDaemon'[d][j] = f
        BY <2>1, <2>4, <3>2
      <4>2. \A i \in DOMAIN toDaemon'[d] : i < j =>
              i \in DOMAIN toDaemon[d] /\ toDaemon'[d][i] = toDaemon[d][i]
        BY <2>1, <2>4, <3>2
      <4>3. QED BY <2>3, <4>1, <4>2 DEF f
    <3>3. CASE j # Len(toDaemon[d]) + 1
      BY <2>1, <2>4, <3>1, <3>3
    <3>4. QED BY <3>2, <3>3
  <2>5. QED BY <2>2, <2>4 DEF f
<1> HIDE DEF e
<1>5. ASSUME NEW d \in Daemon, NEW j \in DOMAIN toDaemon'[d], IsLive(toDaemon'[d][j])
      PROVE  /\ toDaemon'[d][j].entry \in log'
             /\ \A i \in DOMAIN recv[d] : Feed!Earlier(recv[d][i], toDaemon'[d][j].entry)
             /\ \A i \in DOMAIN toDaemon'[d] : i < j /\ IsLive(toDaemon'[d][i]) =>
                  Feed!Earlier(toDaemon'[d][i].entry, toDaemon'[d][j].entry)
  <2>1. CASE toDaemon'[d][j].entry = e /\ \A i \in DOMAIN toDaemon'[d] : i < j =>
                      i \in DOMAIN toDaemon[d] /\ toDaemon'[d][i] = toDaemon[d][i]
    BY <1>1, <1>2, <2>1 DEF WireInv, FromLog
  <2>2. CASE j \in DOMAIN toDaemon[d] /\ toDaemon'[d][j] = toDaemon[d][j]
    <3>1. toDaemon[d] \in Seq(FrameToDaemon) /\ toDaemon'[d] \in Seq(FrameToDaemon)
      BY DEF TypeOK
    <3>2. \A i \in DOMAIN toDaemon'[d] : i < j =>
            i \in DOMAIN toDaemon[d] /\ toDaemon'[d][i] = toDaemon[d][i]
      <4> SUFFICES ASSUME NEW i \in DOMAIN toDaemon'[d], i < j,
                          ~(i \in DOMAIN toDaemon[d] /\ toDaemon'[d][i] = toDaemon[d][i])
                   PROVE  FALSE
        OBVIOUS
      <4>1. i \in DOMAIN toDaemon[d]
        BY <2>2, <3>1
      <4>2. toDaemon'[d][i] = toDaemon[d][i]
        BY <3>1, <4>1 DEF Publish, Send
      <4>3. QED BY <4>1, <4>2
    <3>3. QED BY <1>1, <1>5, <2>2, <3>2 DEF WireInv, FromLog, InFeedOrder
  <2>3. QED BY <1>4, <2>1, <2>2
<1>6. FromLog'
  BY <1>1, <1>5 DEF WireInv, FromLog
<1>7. InFeedOrder'
  BY <1>5 DEF InFeedOrder, Feed!Earlier
<1>8. QED BY <1>3, <1>6, <1>7 DEF WireInv

\* A feed step or a stutter.
FeedStep == Feed!FeedNext \/ UNCHANGED <<log, recv>>

\* The steps of one daemon's socket.
LEMMA DaemonWire ==
  ASSUME FeedInv, TypeOK', NEW d \in Daemon,
         \/ HandleHello(d) \/ HandleForward(d) \/ HandleSyncRequest(d)
         \/ SyncRead(d) \/ SyncReply(d) \/ Connect(d) \/ Disconnect(d) \/ DaemonRestart(d)
         \/ DaemonStep(d) \/ \E m \in Msg : Post(d, m)
  PROVE  WireInv' /\ FeedStep
<1> USE DEF relayVars, dbVars, daemonVars, wireVars, history
<1>1. /\ toRelay \in [Daemon -> Seq(FrameToRelay)] /\ toDaemon \in [Daemon -> Seq(FrameToDaemon)]
      /\ \A x \in Daemon : toRelay[x] \in Seq(FrameToRelay) /\ toDaemon[x] \in Seq(FrameToDaemon)
      /\ TypeOK /\ NumberingInv /\ WireInv /\ lastSeq[d] \in Nat
  BY DEF FeedInv, TypeOK
<1>2. /\ \A x \in Daemon : ForwardsOf(toRelay[x], toRelay[x], 0) /\ ForwardsOf(<<>>, toRelay[x], 0)
      /\ \A x \in Daemon : LivesOf(toDaemon[x], toDaemon[x], 0) /\ LivesOf(<<>>, toDaemon[x], 0)
      /\ toRelay[d] # <<>> => ForwardsOf(Tail(toRelay[d]), toRelay[d], 1)
      /\ toDaemon[d] # <<>> => LivesOf(Tail(toDaemon[d]), toDaemon[d], 1)
      /\ \A f \in FrameToRelay : ~IsForward(f) => ForwardsOf(Append(toRelay[d], f), toRelay[d], 0)
      /\ \A f \in FrameToDaemon : ~IsLive(f) => LivesOf(Append(toDaemon[d], f), toDaemon[d], 0)
  BY <1>1, QueueSteps
<1>3. ASSUME \/ toRelay' = toRelay
             \/ \E q : toRelay' = [toRelay EXCEPT ![d] = q] /\ \E n \in Nat : ForwardsOf(q, toRelay[d], n)
      PROVE  \A x \in Daemon : \E n \in Nat : ForwardsOf(toRelay'[x], toRelay[x], n)
  BY <1>1, <1>2, <1>3
<1>4. ASSUME \/ toDaemon' = toDaemon
             \/ \E q : toDaemon' = [toDaemon EXCEPT ![d] = q] /\ \E n \in Nat : LivesOf(q, toDaemon[d], n)
      PROVE  \A x \in Daemon : \E n \in Nat : LivesOf(toDaemon'[x], toDaemon[x], n)
  BY <1>1, <1>2, <1>4
<1>5. CASE HandleHello(d)
  <2>1. toRelay' = [toRelay EXCEPT ![d] = Tail(toRelay[d])] /\ toRelay[d] # <<>> /\ UNCHANGED <<log, recv>>
    BY <1>5 DEF HandleHello
  <2>2. Subscribed \in FrameToDaemon /\ ~IsLive(Subscribed)
    BY FrameTypes DEF Subscribed, IsLive
  <2>3. toDaemon' = [toDaemon EXCEPT ![d] = Append(toDaemon[d], Subscribed)]
    BY <1>5 DEF HandleHello, Send
  <2>4. QED BY <1>1, <1>2, <1>3, <1>4, <2>1, <2>2, <2>3, QuietWire DEF FeedStep
<1>6. CASE HandleForward(d)
  <2>1. /\ toRelay[d] # <<>> /\ Head(toRelay[d]).type = "relay_forward"
        /\ toRelay' = [toRelay EXCEPT ![d] = Tail(toRelay[d])]
        /\ Publish(Head(toRelay[d]).id, d) /\ UNCHANGED recv
    BY <1>6 DEF HandleForward
  <2>2. 1 \in DOMAIN toRelay[d] /\ toRelay[d][1] = Head(toRelay[d]) /\ IsForward(toRelay[d][1])
    BY <1>1, <2>1 DEF IsForward
  <2>3. Head(toRelay[d]).id \notin Ids(log)
    BY <1>1, <2>2 DEF WireInv, ForwardsFresh
  <2>4. ASSUME NEW x \in Daemon, NEW i \in DOMAIN toRelay'[x], IsForward(toRelay'[x][i])
        PROVE  toRelay'[x][i].id # Head(toRelay[d]).id
    <3>1. CASE x # d
      BY <1>1, <2>1, <2>2, <2>4, <3>1 DEF WireInv, ForwardsFresh
    <3>2. CASE x = d
      <4>1. i + 1 \in DOMAIN toRelay[d] /\ toRelay'[d][i] = toRelay[d][i + 1] /\ i + 1 # 1
        BY <1>1, <2>1, <2>4, <3>2
      <4>2. QED BY <1>1, <2>2, <2>4, <3>2, <4>1 DEF WireInv, ForwardsFresh
    <3>3. QED BY <3>1, <3>2
  <2>5. \A x \in Daemon : \E n \in Nat : ForwardsOf(toRelay'[x], toRelay[x], n)
    BY <1>2, <1>3, <2>1
  <2>6. WireInv'
    BY <1>1, <2>1, <2>3, <2>4, <2>5, PublishWire
  <2>7. Feed!PublishEntry
    BY <1>1, <2>1, <2>3, PublishFeeds
  <2>8. QED BY <2>6, <2>7 DEF FeedStep, Feed!FeedNext
<1>7. CASE HandleSyncRequest(d)
  <2>1. /\ toRelay' = [toRelay EXCEPT ![d] = Tail(toRelay[d])] /\ toRelay[d] # <<>>
        /\ UNCHANGED <<log, recv, toDaemon>>
    BY <1>7 DEF HandleSyncRequest
  <2>2. QED BY <1>1, <1>2, <1>3, <1>4, <2>1, QuietWire DEF FeedStep
<1>8. CASE SyncRead(d)
  <2>1. UNCHANGED <<log, recv, toDaemon, toRelay>>
    BY <1>8 DEF SyncRead
  <2>2. QED BY <1>1, <1>2, <1>3, <1>4, <2>1, QuietWire DEF FeedStep
<1>9. CASE SyncReply(d)
  <2> DEFINE f == SyncResponse(query[d].entries)
  <2>1. toDaemon' = [toDaemon EXCEPT ![d] = Append(toDaemon[d], f)] /\ UNCHANGED <<log, recv, toRelay>>
    BY <1>9 DEF SyncReply, Send
  <2>2. f \in FrameToDaemon /\ ~IsLive(f)
    <3>1. query[d].entries \in SUBSET Entry
      <4>1. query[d] \in Answer
        BY <1>1 DEF TypeOK, Answer
      <4>2. QED BY <1>9, <4>1 DEF SyncReply, Answer, Idle
    <3>2. QED BY <3>1, FrameTypes DEF SyncResponse, IsLive
  <2> HIDE DEF f
  <2>3. QED BY <1>1, <1>2, <1>3, <1>4, <2>1, <2>2, QuietWire DEF FeedStep
<1>10. CASE Connect(d)
  <2>1. toRelay' = [toRelay EXCEPT ![d] = <<Hello>>] /\ UNCHANGED <<log, recv, toDaemon>>
    BY <1>10 DEF Connect
  <2>2. ForwardsOf(<<Hello>>, toRelay[d], 0)
    BY DEF ForwardsOf, Hello, IsForward
  <2>3. QED BY <1>1, <1>2, <1>3, <1>4, <2>1, <2>2, QuietWire DEF FeedStep
<1>11. CASE Disconnect(d) \/ DaemonRestart(d)
  <2>1. /\ toRelay' = [toRelay EXCEPT ![d] = <<>>] /\ toDaemon' = [toDaemon EXCEPT ![d] = <<>>]
        /\ UNCHANGED <<log, recv>>
    BY <1>11 DEF Disconnect, DaemonRestart, Unlink
  <2>2. QED BY <1>1, <1>2, <1>3, <1>4, <2>1, QuietWire DEF FeedStep
<1>12. CASE OnSubscribed(d)
  <2>1. /\ toDaemon[d] # <<>> /\ toDaemon' = [toDaemon EXCEPT ![d] = Tail(toDaemon[d])]
        /\ UNCHANGED <<log, recv>>
        /\ \/ toRelay' = toRelay
           \/ toRelay' = [toRelay EXCEPT ![d] = Append(toRelay[d], SyncRequest(lastSeq[d]))]
    BY <1>12 DEF OnSubscribed
  <2>2. SyncRequest(lastSeq[d]) \in FrameToRelay /\ ~IsForward(SyncRequest(lastSeq[d]))
    BY <1>1, FrameTypes DEF SyncRequest, IsForward
  <2>3. QED BY <1>1, <1>2, <1>3, <1>4, <2>1, <2>2, QuietWire DEF FeedStep
<1>13. CASE HandleSyncResponse(d)
  <2>1. /\ toDaemon[d] # <<>> /\ toDaemon' = [toDaemon EXCEPT ![d] = Tail(toDaemon[d])]
        /\ UNCHANGED <<log, recv, toRelay>>
    BY <1>13 DEF HandleSyncResponse
  <2>2. QED BY <1>1, <1>2, <1>3, <1>4, <2>1, QuietWire DEF FeedStep
<1>14. CASE HandleRelayMessage(d)
  \* the head of the queue is read, after all the daemon has received
  <2> DEFINE e == Head(toDaemon[d]).entry
  <2>1. /\ toDaemon[d] # <<>> /\ toDaemon' = [toDaemon EXCEPT ![d] = Tail(toDaemon[d])]
        /\ recv' = [recv EXCEPT ![d] = Append(recv[d], e)] /\ UNCHANGED <<log, toRelay>>
    BY <1>14 DEF HandleRelayMessage
  <2>2. 1 \in DOMAIN toDaemon[d] /\ IsLive(toDaemon[d][1]) /\ toDaemon[d][1].entry = e
    BY <1>1, <1>14, <2>1 DEF HandleRelayMessage, IsLive
  <2> HIDE DEF e
  <2>3. e \in log /\ \A i \in DOMAIN recv[d] : Feed!Earlier(recv[d][i], e)
    BY <1>1, <2>2 DEF WireInv, FromLog, InFeedOrder
  <2>4. Feed!ReadEntry(d)
    BY <2>1, <2>3 DEF Feed!ReadEntry
  <2>5. recv[d] \in Seq(Entry) /\ recv \in [Daemon -> Seq(Entry)]
    BY <1>1 DEF TypeOK
  <2>6. ASSUME NEW x \in Daemon, NEW i \in DOMAIN recv'[x]
        PROVE  (i \in DOMAIN recv[x] /\ recv'[x][i] = recv[x][i]) \/ (x = d /\ recv'[x][i] = e)
    BY <2>1, <2>5
  <2>7. ASSUME NEW x \in Daemon, NEW j \in DOMAIN toDaemon'[x], IsLive(toDaemon'[x][j])
        PROVE  /\ toDaemon'[x][j].entry \in log
               /\ \A i \in DOMAIN recv'[x] : Feed!Earlier(recv'[x][i], toDaemon'[x][j].entry)
               /\ \A i \in DOMAIN toDaemon'[x] : i < j /\ IsLive(toDaemon'[x][i]) =>
                    Feed!Earlier(toDaemon'[x][i].entry, toDaemon'[x][j].entry)
    <3>1. CASE x # d
      <4>1. toDaemon'[x] = toDaemon[x] /\ recv'[x] = recv[x]
        BY <1>1, <2>1, <2>5, <3>1
      <4>2. QED BY <1>1, <2>7, <4>1 DEF WireInv, FromLog, InFeedOrder
    <3>2. CASE x = d
      <4>1. \A i \in DOMAIN toDaemon'[d] :
              i \in Nat /\ 1 < i + 1 /\ i + 1 \in DOMAIN toDaemon[d] /\ toDaemon'[d][i] = toDaemon[d][i + 1]
        BY <1>1, <2>1
      <4>2. \A i, k \in DOMAIN toDaemon'[d] : i < k => i + 1 < k + 1
        BY <4>1
      <4>3. Feed!Earlier(e, toDaemon'[d][j].entry)
        BY <1>1, <2>2, <2>7, <3>2, <4>1 DEF WireInv, InFeedOrder
      <4>4. \A i \in DOMAIN recv[d] : Feed!Earlier(recv[d][i], toDaemon'[d][j].entry)
        BY <1>1, <2>7, <3>2, <4>1 DEF WireInv, InFeedOrder
      <4>5. \A i \in DOMAIN toDaemon'[d] : i < j /\ IsLive(toDaemon'[d][i]) =>
                    Feed!Earlier(toDaemon'[d][i].entry, toDaemon'[d][j].entry)
        BY <1>1, <2>7, <3>2, <4>1, <4>2 DEF WireInv, InFeedOrder
      <4>6. QED BY <1>1, <2>6, <2>7, <3>2, <4>1, <4>3, <4>4, <4>5 DEF WireInv, FromLog
    <3>3. QED BY <3>1, <3>2
  <2>8. FromLog'
    <3>1. \A x \in Daemon : \A i \in DOMAIN recv'[x] : recv'[x][i] \in log
      BY <1>1, <2>3, <2>6 DEF WireInv, FromLog
    <3>2. QED BY <2>1, <2>7, <3>1 DEF FromLog
  <2>9. InFeedOrder'
    BY <2>7 DEF InFeedOrder, Feed!Earlier
  <2>10. ForwardsFresh'
    BY <1>1, <2>1 DEF WireInv, ForwardsFresh, Ids
  <2>11. QED BY <2>4, <2>8, <2>9, <2>10 DEF WireInv, FeedStep, Feed!FeedNext
<1>15. ASSUME NEW m \in Msg, Post(d, m) PROVE WireInv' /\ FeedStep
  <2>1. /\ Fresh(m) /\ UNCHANGED <<log, recv, toDaemon>>
        /\ \/ toRelay' = toRelay
           \/ toRelay' = [toRelay EXCEPT ![d] = Append(toRelay[d], Forward(m))]
    BY <1>15 DEF Post
  <2>2. \A x \in Daemon : \E n \in Nat : LivesOf(toDaemon'[x], toDaemon[x], n)
    BY <1>4, <2>1
  <2>3. FromLog' /\ InFeedOrder'
    BY <1>1, <2>1, <2>2, QuietLives DEF WireInv
  <2>4. m \notin Ids(log) /\ \A x \in Daemon : \A i \in DOMAIN toRelay[x] :
          IsForward(toRelay[x][i]) => toRelay[x][i].id # m
    <3>1. ASSUME NEW x \in Daemon, NEW i \in DOMAIN toRelay[x], IsForward(toRelay[x][i]),
                 toRelay[x][i].id = m
          PROVE  FALSE
      <4>1. toRelay[x][i] \in FrameToRelay
        BY <1>1
      <4>2. toRelay[x][i] = Forward(m)
        BY <3>1, <4>1 DEF FrameToRelay, IsForward, Forward
      <4>3. toRelay[x][i] \in Frames(toRelay[x], "relay_forward")
        BY <3>1 DEF Frames, IsForward
      <4>4. QED BY <2>1, <4>2, <4>3 DEF Fresh
    <3>2. QED BY <2>1, <3>1 DEF Fresh
  <2>5. ForwardsFresh'
    <3>1. CASE toRelay' = toRelay
      BY <1>1, <2>1, <3>1 DEF WireInv, ForwardsFresh, Ids
    <3>2. CASE toRelay' = [toRelay EXCEPT ![d] = Append(toRelay[d], Forward(m))]
      <4>1. \A x \in Daemon : \A i \in DOMAIN toRelay'[x] :
              \/ i \in DOMAIN toRelay[x] /\ toRelay'[x][i] = toRelay[x][i]
              \/ x = d /\ i = Len(toRelay[d]) + 1 /\ toRelay'[x][i] = Forward(m)
        BY <1>1, <3>2
      <4>2. Forward(m).id = m
        BY DEF Forward
      <4>3. Ids(log)' = Ids(log)
        BY <2>1 DEF Ids
      <4>4. ASSUME NEW x \in Daemon, NEW i \in DOMAIN toRelay'[x], IsForward(toRelay'[x][i])
            PROVE  /\ toRelay'[x][i].id \notin Ids(log)
                   /\ \A y \in Daemon : \A j \in DOMAIN toRelay'[y] :
                        IsForward(toRelay'[y][j]) /\ toRelay'[y][j].id = toRelay'[x][i].id
                          => y = x /\ j = i
        <5>1. CASE x = d /\ i = Len(toRelay[d]) + 1 /\ toRelay'[x][i] = Forward(m)
          BY <2>4, <4>1, <4>2, <5>1
        <5>2. CASE i \in DOMAIN toRelay[x] /\ toRelay'[x][i] = toRelay[x][i]
          <6>1. toRelay[x][i].id \notin Ids(log) /\ toRelay[x][i].id # m
            BY <1>1, <2>4, <4>4, <5>2 DEF WireInv, ForwardsFresh
          <6>2. ASSUME NEW y \in Daemon, NEW j \in DOMAIN toRelay'[y], IsForward(toRelay'[y][j]),
                       toRelay'[y][j].id = toRelay'[x][i].id
                PROVE  y = x /\ j = i
            <7>1. j \in DOMAIN toRelay[y] /\ toRelay'[y][j] = toRelay[y][j]
              BY <4>1, <4>2, <5>2, <6>1, <6>2
            <7>2. QED BY <1>1, <4>4, <5>2, <6>2, <7>1 DEF WireInv, ForwardsFresh
          <6>3. QED BY <5>2, <6>1, <6>2
        <5>3. QED BY <4>1, <5>1, <5>2
      <4>5. QED BY <4>3, <4>4 DEF ForwardsFresh
    <3>3. QED BY <2>1, <3>1, <3>2
  <2>6. QED BY <2>1, <2>3, <2>5 DEF WireInv, FeedStep
<1>16. QED
  BY <1>5, <1>6, <1>7, <1>8, <1>9, <1>10, <1>11, <1>12, <1>13, <1>14, <1>15 DEF DaemonStep

LEMMA InitFeed == ASSUME Init PROVE FeedInv /\ Feed!FeedInit
<1>1. WireInv
  BY DEF Init, WireInv, ForwardsFresh, FromLog, InFeedOrder
<1>2. QED BY <1>1, InitTypes, InitNumbering DEF FeedInv, Init, Feed!FeedInit

LEMMA StepFeed == ASSUME FeedInv, [Next]_vars PROVE FeedInv' /\ FeedStep
<1> USE DEF relayVars, dbVars, daemonVars, wireVars, history
<1>1. TypeOK' /\ NumberingInv' /\ TypeOK /\ NumberingInv /\ WireInv
  BY StepTypes, StepNumbering DEF FeedInv
<1>2. \A x \in Daemon : /\ toRelay[x] \in Seq(FrameToRelay) /\ ForwardsOf(toRelay[x], toRelay[x], 0)
                        /\ toDaemon[x] \in Seq(FrameToDaemon) /\ LivesOf(<<>>, toDaemon[x], 0)
                        /\ ForwardsOf(<<>>, toRelay[x], 0)
  BY <1>1, QueueSteps DEF TypeOK
<1>3. ASSUME UNCHANGED <<log, recv, toRelay, toDaemon>> PROVE WireInv' /\ FeedStep
  BY <1>1, <1>3 DEF WireInv, ForwardsFresh, FromLog, InFeedOrder, Ids, FeedStep, Feed!Earlier
<1>4. ASSUME NEW m \in Msg, InjectMessage(m) PROVE WireInv' /\ FeedStep
  <2>1. Publish(m, Relay) /\ m \notin Ids(log) /\ Fresh(m) /\ UNCHANGED <<toRelay, recv>>
    BY <1>4 DEF InjectMessage, Fresh
  <2>2. ASSUME NEW x \in Daemon, NEW i \in DOMAIN toRelay[x], IsForward(toRelay[x][i])
        PROVE  toRelay[x][i].id # m
    <3>1. toRelay[x][i] \in FrameToRelay
      BY <1>2
    <3>2. toRelay[x][i].id = m => toRelay[x][i] = Forward(m)
      BY <2>2, <3>1 DEF FrameToRelay, IsForward, Forward
    <3>3. toRelay[x][i] \in Frames(toRelay[x], "relay_forward")
      BY <2>2 DEF Frames, IsForward
    <3>4. QED BY <2>1, <3>2, <3>3 DEF Fresh
  <2>3. WireInv'
    BY <1>1, <1>2, <2>1, <2>2, PublishWire
  <2>4. Feed!PublishEntry
    BY <1>1, <2>1, PublishFeeds
  <2>5. QED BY <2>3, <2>4 DEF FeedStep, Feed!FeedNext
<1>5. ASSUME RelayCrash PROVE WireInv' /\ FeedStep
  <2>1. /\ toRelay' = [d \in Daemon |-> <<>>] /\ toDaemon' = [d \in Daemon |-> <<>>]
        /\ UNCHANGED <<log, recv>>
    BY <1>5 DEF RelayCrash
  <2>2. \A x \in Daemon : /\ \E n \in Nat : ForwardsOf(toRelay'[x], toRelay[x], n)
                          /\ \E n \in Nat : LivesOf(toDaemon'[x], toDaemon[x], n)
    BY <1>2, <2>1
  <2>3. QED BY <1>1, <2>1, <2>2, QuietWire DEF FeedStep
<1>6. ASSUME \/ \E e \in persisting : PersistDone(e) \/ PersistFailed(e)
             \/ DrainBuffer \/ PersistBuffered \/ RelayStart \/ PgDown \/ PgRecover
             \/ UNCHANGED vars
      PROVE  UNCHANGED <<log, recv, toRelay, toDaemon>>
  BY <1>6 DEF PersistDone, PersistFailed, DrainBuffer, PersistBuffered, RelayStart, PgDown,
              PgRecover, vars
<1>7. WireInv' /\ FeedStep
  BY <1>1, <1>3, <1>4, <1>5, <1>6, DaemonWire DEF Next, RelayStep, Environment
<1>8. FeedInv' BY <1>1, <1>7 DEF FeedInv
<1>9. QED BY <1>7, <1>8

\* "Messages have a consistent sequence for every daemon" (docs/architecture.md:168):
\* the relay's stream implements the feed of WorkspaceFeed.  Every numbered entry
\* comes after all the others and is a new message; every daemon reads in that order
\* and nothing twice, over broken sockets, daemon restarts and relay crashes
\* (handleForward, injectMessage, handleRelayMessage).
THEOREM StreamIsAFeed == Spec => ConsistentFeed
<1>1. FeedStep => [Feed!FeedNext]_(Feed!feedVars)
  BY DEF FeedStep, Feed!feedVars
<1>2. QED
  BY <1>1, InitFeed, StepFeed, PTL DEF Spec, ConsistentFeed, Feed!FeedSpec
==============================================================================
