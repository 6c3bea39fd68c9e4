--------------------------- MODULE AgentRunProofs ---------------------------
(***************************************************************************)
(* Proofs about AgentRun: whoever prompts, replaces and cancels in         *)
(* whatever order, and whatever the process does, an agent has one run at  *)
(* a time, and its turn is active until the run has been told.             *)
(* Whatever it cancels, the agent names only runs there are.               *)
(*                                                                         *)
(* The manager and the session agree on who is busy (BusyInv), so prompts  *)
(* are admitted and an agent that is shown as running runs; if nobody      *)
(* cancels a run that starts, their turns match event for event            *)
(* (TurnsInv), so no idle shows while a run is replaced; and if nothing    *)
(* crosses a result either, prompts, interrupts and answers stay in line   *)
(* (OrderInv), so a turn ends, and by the answer to its own prompt.        *)
(***************************************************************************)
EXTENDS AgentRun, TLAPS

Stages == {"none", "interrupting", "waiting", "forced", "over"}

\* What a cancellation keeps.
CancelTyped ==
  cancel \in [Canceller -> [stage : Stages, turn : 0..MaxRuns, pend : 0..MaxRuns]]

\* What the manager keeps, and nothing of the session and the process.
ManagerTyped ==
  /\ activeForegroundTurnId \in 0..MaxRuns /\ pendingRun \in 0..MaxRuns
  /\ run \in [Run -> {"new", "replacing", "starting", "streaming", "done", "failed", "rejected"}]
  /\ told \in [Run -> Terminal \cup {"nothing"}]
  /\ CancelTyped

\* A run is told while it streams, and not before.
ToldRuns == \A r \in Run : told[r] # "nothing" => run[r] \in {"streaming", "done"}

\* A prompt that cancels has not become a run yet.
CancelersWait ==
  \A r \in Run : cancel[r].stage \in {"interrupting", "waiting", "forced"} => run[r] = "replacing"

\* The inductive invariant.
RunInv == ManagerTyped /\ OneRun /\ ToldRuns /\ CancelersWait

\* Numbers of runs are numbers, and runs are cancellers.
LEMMA Runs0 ==
  ASSUME RunAssumption
  PROVE  /\ Run \subseteq Canceller /\ Run \subseteq 0..MaxRuns /\ 0 \in 0..MaxRuns /\ 0 \notin Run
         /\ \A n \in 0..MaxRuns : n # 0 => n \in Run
         /\ Stop \subseteq Canceller /\ Stop \cap Run = {}
BY DEF RunAssumption, Run, Stop, Canceller

\* No run, no cancellation.
LEMMA InitRun == ASSUME RunAssumption, Init PROVE RunInv
BY Runs0 DEF Init, RunInv, ManagerTyped, CancelTyped, OneRun, ToldRuns, CancelersWait, Live, Waiting, NoCancel,
   Stages

\* Without Live and Waiting, a step is judged by five variables.
LEMMA Unseen ==
  ASSUME RunInv, UNCHANGED <<activeForegroundTurnId, pendingRun, run, told, cancel>>
  PROVE  RunInv'
BY DEF RunInv, ManagerTyped, CancelTyped, OneRun, ToldRuns, CancelersWait, Live, Waiting

\* Runs that are live are the same run.
LEMMA Alone ==
  ASSUME RunAssumption, RunInv
  PROVE  /\ pendingRun = 0 => \A s \in Run : ~Live(s)
         /\ \A r, s \in Run : Live(r) /\ Live(s) => r = s
         /\ \A r \in Run : run[r] = "starting" => activeForegroundTurnId = 0 /\ told[r] = "nothing"
<1>1. /\ pendingRun = 0 => \A s \in Run : ~Live(s)
      /\ \A r, s \in Run : Live(r) /\ Live(s) => r = s
  BY Runs0 DEF RunInv, OneRun
<1>2. ASSUME NEW r \in Run, run[r] = "starting"
      PROVE  activeForegroundTurnId = 0 /\ told[r] = "nothing"
  <2>1. \A s \in Run : ~Waiting(s) BY <1>1, <1>2 DEF Live, Waiting
  <2>2. QED BY <1>2, <2>1, Runs0 DEF RunInv, ManagerTyped, CancelTyped, OneRun, ToldRuns
<1>3. QED BY <1>1, <1>2

\* An event of the session: its run is told, and its turn is over, at once.
LEMMA HandleKeeps ==
  ASSUME RunAssumption, RunInv, NEW e, Handle(e),
         CancelTyped',
         CancelersWait'
  PROVE  RunInv'
<1>1. CASE Stale(e) BY <1>1 DEF Handle, manager, RunInv, ManagerTyped, CancelTyped, OneRun, ToldRuns, Live, Waiting
<1>2. CASE ~Stale(e)
  <2> DEFINE ends == e.type \in Terminal
             over == OfActiveTurn(e) /\ ends
  <2>1. /\ activeForegroundTurnId' = IF over THEN 0 ELSE activeForegroundTurnId
        /\ told' = [r \in Run |-> IF ends /\ r = e.turn /\ Waiting(r) THEN e.type ELSE told[r]]
        /\ UNCHANGED <<pendingRun, run>>
    BY <1>2 DEF Handle, Ends
  <2>2. ManagerTyped' BY <2>1, Runs0 DEF RunInv, ManagerTyped, CancelTyped
  <2>3. ToldRuns' BY <2>1 DEF RunInv, ManagerTyped, CancelTyped, ToldRuns, Waiting
  <2>4. ASSUME NEW r \in Run PROVE Waiting(r)' <=> activeForegroundTurnId' = r
    <3>1. Waiting(r) <=> activeForegroundTurnId = r BY DEF RunInv, OneRun
    <3>2. "nothing" \notin Terminal BY DEF Terminal
    <3>3. CASE over
      <4>1. ~Waiting(r)' BY <2>1, <3>1, <3>2, <3>3 DEF Waiting, OfActiveTurn
      <4>2. QED BY <2>1, <3>3, <4>1, Runs0
    <3>4. CASE ~over
      <4>1. ~(ends /\ r = e.turn /\ Waiting(r)) BY <3>1, <3>4, Runs0 DEF OfActiveTurn
      <4>2. QED BY <2>1, <3>1, <3>4, <4>1 DEF Waiting
    <3>5. QED BY <3>3, <3>4
  <2>5. \A r \in Run : Live(r)' => pendingRun' = r BY <2>1 DEF RunInv, OneRun, Live
  <2>6. QED BY <2>2, <2>3, <2>4, <2>5 DEF RunInv, OneRun
<1>3. QED BY <1>1, <1>2

\* streamAgent: the session is free, so there is no other run.
LEMMA StreamAgentKeeps ==
  ASSUME RunAssumption, RunInv, NEW r \in Run, Free, StreamAgent(r),
         run[r] \in {"new", "replacing"},
         CancelTyped',
         cancel'[r].stage \in {"none", "over"},
         \A s \in Run \ {r} : cancel'[s].stage = cancel[s].stage
  PROVE  RunInv'
<1>1. /\ run' = [run EXCEPT ![r] = "starting"] /\ pendingRun' = r
      /\ UNCHANGED <<activeForegroundTurnId, told>>
  BY DEF StreamAgent
<1>2. ManagerTyped' BY <1>1, Runs0 DEF RunInv, ManagerTyped, CancelTyped
<1>3. OneRun'
  <2>1. \A s \in Run : ~Live(s) /\ ~Waiting(s) BY Alone DEF Free, Live, Waiting
  <2>2. QED BY <1>1, <2>1 DEF RunInv, ManagerTyped, CancelTyped, OneRun, Live, Waiting
<1>4. ToldRuns' BY <1>1 DEF RunInv, ManagerTyped, CancelTyped, ToldRuns
<1>5. CancelersWait' BY <1>1 DEF RunInv, ManagerTyped, CancelTyped, CancelersWait
<1>6. QED BY <1>2, <1>3, <1>4, <1>5 DEF RunInv

\* startTurn has returned.
LEMMA StartedKeeps == ASSUME RunAssumption, RunInv, NEW r \in Run, Started(r) PROVE RunInv'
<1>1. /\ run[r] = "starting" /\ run' = [run EXCEPT ![r] = "streaming"]
      /\ activeForegroundTurnId' = r /\ UNCHANGED <<pendingRun, told, cancel>>
  BY DEF Started
<1>2. ManagerTyped' BY <1>1, Runs0 DEF RunInv, ManagerTyped, CancelTyped
<1>3. OneRun'
  <2>1. told[r] = "nothing" /\ pendingRun = r BY <1>1, Alone DEF RunInv, OneRun, Live
  <2>2. \A s \in Run \ {r} : ~Live(s) /\ ~Waiting(s) BY <1>1, Alone DEF Live, Waiting
  <2>3. QED BY <1>1, <2>1, <2>2 DEF RunInv, ManagerTyped, CancelTyped, OneRun, Live, Waiting
<1>4. ToldRuns' BY <1>1 DEF RunInv, ManagerTyped, CancelTyped, ToldRuns
<1>5. CancelersWait' BY <1>1 DEF RunInv, ManagerTyped, CancelTyped, CancelersWait
<1>6. QED BY <1>2, <1>3, <1>4, <1>5 DEF RunInv

\* startTurn has thrown.
LEMMA ThrowsKeeps ==
  ASSUME RunAssumption, RunInv, NEW r \in Run, StartTurnThrows(r) PROVE RunInv'
<1>1. /\ run[r] = "starting" /\ run' = [run EXCEPT ![r] = "failed"]
      /\ activeForegroundTurnId' = 0 /\ UNCHANGED <<told, cancel>>
      /\ pendingRun' = AfterRun(r)
  BY DEF StartTurnThrows
<1>2. ManagerTyped' BY <1>1, Runs0 DEF RunInv, ManagerTyped, CancelTyped, AfterRun
<1>3. OneRun'
  <2>1. told[r] = "nothing" BY <1>1, Alone
  <2>2. \A s \in Run \ {r} : ~Live(s) /\ ~Waiting(s) BY <1>1, Alone DEF Live, Waiting
  <2>3. QED BY <1>1, <2>1, <2>2, Runs0 DEF RunInv, ManagerTyped, CancelTyped, OneRun, Live, Waiting
<1>4. ToldRuns' BY <1>1, Alone DEF RunInv, ManagerTyped, CancelTyped, ToldRuns
<1>5. CancelersWait' BY <1>1 DEF RunInv, ManagerTyped, CancelTyped, CancelersWait
<1>6. QED BY <1>2, <1>3, <1>4, <1>5 DEF RunInv

\* The generator of a run that was told has returned.
LEMMA DrainKeeps == ASSUME RunAssumption, RunInv, NEW r \in Run, Drain(r) PROVE RunInv'
<1>1. /\ run[r] = "streaming" /\ told[r] # "nothing" /\ run' = [run EXCEPT ![r] = "done"]
      /\ pendingRun' = AfterRun(r) /\ UNCHANGED <<activeForegroundTurnId, told, cancel>>
  BY DEF Drain
<1>2. ManagerTyped' BY <1>1, Runs0 DEF RunInv, ManagerTyped, CancelTyped, AfterRun
<1>3. OneRun'
  <2>1. \A s \in Run \ {r} : ~Live(s) /\ ~Waiting(s) BY <1>1, Alone DEF Live, Waiting
  <2>2. QED BY <1>1, <2>1 DEF RunInv, ManagerTyped, CancelTyped, OneRun, Live, Waiting
<1>4. ToldRuns' BY <1>1 DEF RunInv, ManagerTyped, CancelTyped, ToldRuns
<1>5. CancelersWait' BY <1>1 DEF RunInv, ManagerTyped, CancelTyped, CancelersWait
<1>6. QED BY <1>2, <1>3, <1>4, <1>5 DEF RunInv

------------------------------------------------------------------------------
(* Cancelling. *)

\* The session is interrupted, by a stop or by the prompt that replaces a run.
LEMMA BeginKeeps ==
  ASSUME RunAssumption, RunInv, NEW c \in Canceller, BeginCancel(c),
         UNCHANGED <<activeForegroundTurnId, pendingRun, told>>,
         \/ c \in Stop /\ run' = run
         \/ c \in Run /\ run[c] = "new" /\ run' = [run EXCEPT ![c] = "replacing"]
  PROVE  RunInv'
<1> DEFINE kept == [stage |-> IF foreground = 0 /\ query THEN "interrupting" ELSE "waiting",
                    turn |-> activeForegroundTurnId, pend |-> pendingRun]
<1>1. cancel' = [cancel EXCEPT ![c] = kept] BY DEF BeginCancel
<1>2. kept \in [stage : Stages, turn : 0..MaxRuns, pend : 0..MaxRuns]
  BY DEF RunInv, ManagerTyped, CancelTyped, Stages
<1>3. ManagerTyped'
  <2>1. run' \in [Run -> {"new", "replacing", "starting", "streaming", "done", "failed", "rejected"}]
    BY DEF RunInv, ManagerTyped, CancelTyped
  <2>2. CancelTyped'
    BY <1>1, <1>2 DEF RunInv, ManagerTyped, CancelTyped
  <2>3. QED BY <2>1, <2>2 DEF RunInv, ManagerTyped, CancelTyped
<1>4. OneRun' BY DEF RunInv, ManagerTyped, CancelTyped, OneRun, Live, Waiting
<1>5. ToldRuns' BY DEF RunInv, ManagerTyped, CancelTyped, ToldRuns
<1>6. ASSUME NEW r \in Run, cancel'[r].stage \in {"interrupting", "waiting", "forced"}
      PROVE  run'[r] = "replacing"
  <2>1. CASE r = c BY <2>1, Runs0 DEF RunInv, ManagerTyped, CancelTyped
  <2>2. CASE r # c BY <1>1, <1>6, <2>2, Runs0 DEF RunInv, ManagerTyped, CancelTyped, CancelersWait
  <2>3. QED BY <2>1, <2>2
<1>7. QED BY <1>3, <1>4, <1>5, <1>6 DEF RunInv, CancelersWait

\* A cancellation goes on to a later stage.
LEMMA StageKeeps ==
  ASSUME RunAssumption, RunInv, NEW c \in Canceller, NEW k \in [stage : Stages, turn : 0..MaxRuns, pend : 0..MaxRuns],
         cancel[c].stage \in {"interrupting", "waiting", "forced"},
         cancel' = [cancel EXCEPT ![c] = k]
  PROVE  /\ CancelTyped'
         /\ run' = run => CancelersWait'
<1>1. CancelTyped'
  BY DEF RunInv, ManagerTyped, CancelTyped
<1>2. ASSUME run' = run, NEW r \in Run, cancel'[r].stage \in {"interrupting", "waiting", "forced"}
      PROVE  run'[r] = "replacing"
  <2>1. cancel[r].stage \in {"interrupting", "waiting", "forced"}
    BY <1>2, Runs0 DEF RunInv, ManagerTyped, CancelTyped
  <2>2. QED BY <1>2, <2>1 DEF RunInv, CancelersWait
<1>3. QED BY <1>1, <1>2 DEF CancelersWait

\* A cancellation is over: a stop leaves all as it is, a prompt becomes a run
\* or is rejected.
LEMMA EndKeeps ==
  ASSUME RunAssumption, RunInv, NEW c \in Canceller, EndCancel(c),
         cancel[c].stage \in {"interrupting", "waiting", "forced"}
  PROVE  RunInv'
<1> DEFINE over == [NoCancel EXCEPT !.stage = "over"]
<1>1. cancel' = [cancel EXCEPT ![c] = over] BY DEF EndCancel
<1>2. over \in [stage : Stages, turn : 0..MaxRuns, pend : 0..MaxRuns] BY Runs0 DEF NoCancel, Stages
<1>3. /\ CancelTyped'
      /\ run' = run => CancelersWait'
  BY <1>1, <1>2, StageKeeps
<1>4. CASE c \in Stop /\ UNCHANGED <<manager, tail, session, process>>
  BY <1>3, <1>4 DEF manager, RunInv, ManagerTyped, CancelTyped, OneRun, ToldRuns, Live, Waiting
<1>5. CASE c \in Run /\ Free /\ StreamAgent(c)
  <2>1. run[c] = "replacing" BY <1>5 DEF RunInv, CancelersWait
  <2>2. cancel'[c].stage = "over" BY <1>1 DEF RunInv, ManagerTyped, CancelTyped, NoCancel
  <2>3. \A s \in Run \ {c} : cancel'[s].stage = cancel[s].stage
    BY <1>1, Runs0 DEF RunInv, ManagerTyped, CancelTyped
  <2>4. QED BY <1>3, <1>5, <2>1, <2>2, <2>3, StreamAgentKeeps
<1>6. CASE c \in Run /\ run' = [run EXCEPT ![c] = "rejected"]
           /\ UNCHANGED <<activeForegroundTurnId, pendingRun, told>>
  <2>1. run[c] = "replacing" BY <1>6 DEF RunInv, CancelersWait
  <2>2. ManagerTyped' BY <1>3, <1>6 DEF RunInv, ManagerTyped, CancelTyped
  <2>3. OneRun' BY <1>6, <2>1 DEF RunInv, ManagerTyped, CancelTyped, OneRun, Live, Waiting
  <2>4. ToldRuns' BY <1>6, <2>1 DEF RunInv, ManagerTyped, CancelTyped, ToldRuns
  <2>5. ASSUME NEW r \in Run, cancel'[r].stage \in {"interrupting", "waiting", "forced"}
        PROVE  run'[r] = "replacing"
    <3>1. r # c BY <1>1, <2>5 DEF RunInv, ManagerTyped, CancelTyped, NoCancel
    <3>2. QED BY <1>1, <1>6, <2>5, <3>1, Runs0 DEF RunInv, ManagerTyped, CancelTyped, CancelersWait
  <2>6. QED BY <2>2, <2>3, <2>4, <2>5 DEF RunInv, CancelersWait
<1>7. QED BY <1>4, <1>5, <1>6 DEF EndCancel

\* Two seconds are over.
LEMMA TimedOutKeeps ==
  ASSUME RunAssumption, RunInv, NEW c \in Canceller, TimedOut(c) PROVE RunInv'
<1>1. cancel[c].stage = "waiting" BY DEF TimedOut
<1>2. CASE MustForce(c)
  <2> DEFINE e == [type |-> "canceled", turn |-> cancel[c].turn]
             k == [stage |-> "forced", turn |-> 0, pend |-> pendingRun]
  <2>1. Handle(e) /\ cancel' = [cancel EXCEPT ![c] = k] BY <1>2 DEF TimedOut
  <2>2. k \in [stage : Stages, turn : 0..MaxRuns, pend : 0..MaxRuns]
    BY Runs0 DEF RunInv, ManagerTyped, CancelTyped, Stages
  <2>3. run' = run BY <2>1 DEF Handle, manager
  <2>4. CancelTyped' /\ CancelersWait'
    BY <1>1, <2>1, <2>2, <2>3, StageKeeps
  <2>5. QED BY <2>1, <2>4, HandleKeeps
<1>3. CASE ~MustForce(c) BY <1>1, <1>3, EndKeeps DEF TimedOut
<1>4. QED BY <1>2, <1>3

------------------------------------------------------------------------------
(* Every step. *)

LEMMA NextRun == ASSUME RunAssumption, RunInv, [Next]_vars PROVE RunInv'
<1>1. CASE Dispatch
  <2>1. Handle(Head(tail)) /\ cancel' = cancel BY <1>1 DEF Dispatch
  <2>2. run' = run BY <2>1 DEF Handle, manager
  <2>3. CancelTyped' /\ CancelersWait' BY <2>1, <2>2 DEF RunInv, ManagerTyped, CancelTyped, CancelersWait
  <2>4. QED BY <2>1, <2>3, HandleKeeps
<1>2. ASSUME NEW r \in Run, Drain(r) PROVE RunInv' BY <1>2, DrainKeeps
<1>3. ASSUME NEW r \in Run, StartTurn(r) \/ StartTurnFails(r) PROVE RunInv'
  BY <1>3, StartedKeeps DEF StartTurn, StartTurnFails
<1>4. ASSUME NEW r \in Run, StartTurnThrows(r) PROVE RunInv' BY <1>4, ThrowsKeeps
<1>5. ASSUME NEW c \in Canceller, Canceled(c) PROVE RunInv' BY <1>5, EndKeeps DEF Canceled
<1>6. ASSUME NEW c \in Canceller, TimedOut(c) PROVE RunInv' BY <1>6, TimedOutKeeps
<1>7. ASSUME NEW c \in Canceller, Interrupted(c) PROVE RunInv'
  <2> DEFINE k == [cancel[c] EXCEPT !.stage = "waiting"]
  <2>1. cancel' = [cancel EXCEPT ![c] = k] BY <1>7 DEF Interrupted
  <2>2. k \in [stage : Stages, turn : 0..MaxRuns, pend : 0..MaxRuns]
    BY DEF RunInv, ManagerTyped, CancelTyped, Stages
  <2>3. cancel[c].stage = "interrupting" /\ UNCHANGED manager BY <1>7 DEF Interrupted
  <2>4. CancelersWait' /\ CancelTyped' BY <2>1, <2>2, <2>3, StageKeeps DEF manager
  <2>5. QED BY <2>3, <2>4 DEF manager, RunInv, ManagerTyped, CancelTyped, OneRun, ToldRuns, Live, Waiting
<1>8. ASSUME NEW r \in Run, Prompt(r) PROVE RunInv'
  <2>1. Free /\ StreamAgent(r) /\ cancel' = cancel /\ run[r] = "new"
    BY <1>8 DEF Prompt, NextPrompt
  <2>2. cancel[r].stage \in {"none", "over"}
    BY <2>1, Runs0 DEF RunInv, ManagerTyped, CancelTyped, CancelersWait, Stages
  <2>3. QED BY <2>1, <2>2, StreamAgentKeeps DEF RunInv, ManagerTyped, CancelTyped
<1>9. ASSUME NEW r \in Run, Replace(r) PROVE RunInv'
  <2>1. /\ BeginCancel(r) /\ run[r] = "new" /\ run' = [run EXCEPT ![r] = "replacing"]
        /\ UNCHANGED <<activeForegroundTurnId, pendingRun, told>>
    BY <1>9 DEF Replace, NextPrompt
  <2>2. QED BY <2>1, BeginKeeps, Runs0
<1>10. ASSUME NEW c \in Stop, StopRun(c) PROVE RunInv'
  <2>1. BeginCancel(c) /\ UNCHANGED manager BY <1>10 DEF StopRun
  <2>2. QED BY <2>1, BeginKeeps, Runs0 DEF manager
<1>11. CASE Reads \/ Speaks \/ Answers \/ Wakes \/ Pump \/ Dies
  BY <1>11, Unseen DEF Reads, Speaks, Answers, Wakes, Pump, Dies, elsewhere, manager
<1>12. CASE UNCHANGED vars BY <1>12, Unseen DEF vars, manager
<1>13. QED
  BY <1>1, <1>2, <1>3, <1>4, <1>5, <1>6, <1>7, <1>8, <1>9, <1>10, <1>11, <1>12
  DEF Next, Microtask, Macrotask

\* An agent has one run at a time (streamAgent's "already has an active run"),
\* and a turn is active exactly while the run that waits for it has not been
\* told: for any number of prompts, stops, background tasks and failures, with
\* runs cancelled while they start, overlapping replacements and late results.
THEOREM OneRunAtATime == RunAssumption /\ Spec => []OneRun
<1>1. RunAssumption /\ Init => RunInv BY InitRun
<1>2. RunAssumption /\ RunInv /\ [Next]_vars => RunInv' BY NextRun
<1>3. RunInv => OneRun BY DEF RunInv
<1>4. QED BY <1>1, <1>2, <1>3, RunAssumption, PTL DEF Spec
------------------------------------------------------------------------------
(* Types of what the other parts keep. *)

LifeTyped ==
  /\ lifecycle \in {"idle", "running", "error"} /\ pendingReplacement \in BOOLEAN /\ lastError \in BOOLEAN
  /\ finalized \subseteq Run

SessionTyped ==
  /\ tail \in Seq(Event) /\ foreground \in 0..MaxRuns
  /\ autonomous \in BOOLEAN /\ pendingInterruptAbort \in BOOLEAN

Message == [type : {"assistant", "success", "error", "abort"}, of : 1..Autonomous]
ProcessTyped ==
  /\ query \in BOOLEAN /\ spoken \in BOOLEAN /\ stdin \in Seq(1..Interrupt) /\ job \in 0..Autonomous
  /\ pipe \in Seq(Message) /\ answered \subseteq Run /\ tasks \in Nat /\ faults \in Nat /\ may \in Situations

RunTypesInv == LifeTyped /\ SessionTyped /\ ProcessTyped

\* The parts make up the type invariant.
LEMMA RunTypesSuffice == RunInv /\ RunTypesInv => TypeOK
BY DEF RunInv, ManagerTyped, CancelTyped, Stages, RunTypesInv, LifeTyped, SessionTyped, ProcessTyped, Message, TypeOK

\* Numbers of turns and jobs.
LEMMA Numbers ==
  ASSUME RunAssumption
  PROVE  /\ MaxRuns \in Nat /\ Autonomous \in 1..Interrupt /\ Autonomous \in 1..Autonomous
         /\ Interrupt \in 1..Interrupt /\ Interrupt \notin 0..Autonomous
         /\ Run \subseteq 1..Interrupt /\ Run \subseteq 1..Autonomous /\ Run \subseteq 0..MaxRuns
         /\ 0..MaxRuns \subseteq 0..Autonomous /\ 0 \in 0..MaxRuns /\ 0..Autonomous \subseteq 0..Interrupt
         /\ \A n \in 1..Interrupt : n # Interrupt => n \in 1..Autonomous
         /\ \A n \in 0..Autonomous : n # 0 => n \in 1..Autonomous
         /\ <<>> \in Seq(1..Interrupt) /\ 0 \in 0..Autonomous
BY DEF RunAssumption, Autonomous, Interrupt, Run

\* What is written to the process.
LEMMA StdinTyped ==
  ASSUME NEW S, NEW q \in Seq(S)
  PROVE  /\ \A x \in S : Append(q, x) \in Seq(S)
         /\ q # <<>> => Head(q) \in S /\ Tail(q) \in Seq(S)
         /\ \A i \in DOMAIN q : q[i] \in S
OBVIOUS

\* The session's events are of turns there are.
LEMMA EventsTyped ==
  ASSUME RunAssumption, SessionTyped, NEW type \in Terminal \cup {"started"},
         NEW turn \in {foreground, TurnId, Autonomous}
  PROVE  [type |-> type, turn |-> turn] \in Event
<1>1. turn \in 0..Autonomous
  BY Numbers DEF SessionTyped, TurnId
<1>2. QED BY <1>1 DEF Event

\* An event leaves one of the lifecycles, and finalizes a run.
LEMMA HandleTyped ==
  ASSUME RunAssumption, RunInv, LifeTyped, NEW e \in Event, Handle(e) PROVE LifeTyped'
<1>1. CASE Stale(e)
  BY <1>1 DEF Handle, manager, LifeTyped
<1>2. CASE ~Stale(e)
  <2>1. OfActiveTurn(e) => e.turn \in Run
    BY Runs0 DEF OfActiveTurn, RunInv, ManagerTyped
  <2>2. /\ finalized' = IF Remember(e) THEN finalized \cup {e.turn} ELSE finalized
        /\ UNCHANGED pendingReplacement
        /\ lastError' = IF e.type \in Terminal THEN e.type = "failed" ELSE lastError
        /\ lifecycle' \in {lifecycle, AfterOthers(e.type), AfterTurn(lastError')}
    BY <1>2 DEF Handle
  <2>3. lastError' \in BOOLEAN
    BY <2>2 DEF LifeTyped
  <2>4. {AfterOthers(e.type), AfterTurn(lastError')} \subseteq {"idle", "running", "error"}
    BY DEF AfterOthers, AfterTurn, LifeTyped
  <2>5. QED BY <2>1, <2>2, <2>3, <2>4 DEF Remember, LifeTyped
<1>3. QED BY <1>1, <1>2

\* streamAgent announces the turn, after the end of an autonomous one.
LEMMA StreamAgentTyped ==
  ASSUME RunAssumption, RunTypesInv, NEW r \in Run, StreamAgent(r) PROVE RunTypesInv'
<1>1. [type |-> "started", turn |-> r] \in Event /\ [type |-> "completed", turn |-> Autonomous] \in Event
  <2>1. r \in 0..Autonomous /\ Autonomous \in 0..Autonomous
    BY Numbers
  <2>2. QED BY <2>1 DEF Event, Terminal
<1>2. tail' \in Seq(Event)
  <2>1. (IF autonomous THEN <<[type |-> "completed", turn |-> Autonomous]>> ELSE <<>>) \in Seq(Event)
    BY <1>1
  <2>2. <<[type |-> "started", turn |-> r]>> \in Seq(Event)
    BY <1>1
  <2>3. QED BY <2>1, <2>2 DEF StreamAgent, RunTypesInv, SessionTyped
<1>3. SessionTyped'
  BY <1>2, Runs0 DEF StreamAgent, RunTypesInv, SessionTyped
<1>4. LifeTyped'
  BY DEF StreamAgent, Held, RunTypesInv, LifeTyped
<1>5. ProcessTyped'
  BY DEF StreamAgent, process, failures, RunTypesInv, ProcessTyped
<1>6. QED BY <1>3, <1>4, <1>5 DEF RunTypesInv

\* interrupt ends the turn and asks the process to stop.
LEMMA InterruptTyped ==
  ASSUME RunAssumption, RunTypesInv, InterruptSession PROVE SessionTyped' /\ ProcessTyped'
<1>1. /\ [type |-> "canceled", turn |-> foreground] \in Event
      /\ [type |-> "completed", turn |-> Autonomous] \in Event
  BY EventsTyped DEF RunTypesInv, Terminal
<1>2. tail' \in Seq(Event)
  BY <1>1 DEF InterruptSession, RunTypesInv, SessionTyped
<1>3. stdin' \in Seq(1..Interrupt)
  <2>1. stdin \in Seq(1..Interrupt) /\ Interrupt \in 1..Interrupt
    BY Numbers DEF RunTypesInv, ProcessTyped
  <2>2. Append(stdin, Interrupt) \in Seq(1..Interrupt)
    BY <2>1, StdinTyped
  <2>3. QED BY <2>1, <2>2 DEF InterruptSession
<1>4. foreground' \in 0..MaxRuns /\ autonomous' \in BOOLEAN /\ pendingInterruptAbort' \in BOOLEAN
  BY Runs0 DEF InterruptSession, RunTypesInv, SessionTyped, ProcessTyped
<1>5. QED BY <1>2, <1>3, <1>4 DEF InterruptSession, failures, RunTypesInv, SessionTyped, ProcessTyped

\* A cancellation that is over.
LEMMA EndTyped ==
  ASSUME RunAssumption, RunTypesInv, NEW c \in Canceller, EndCancel(c) PROVE RunTypesInv'
<1>1. CASE c \in Stop /\ UNCHANGED <<manager, tail, session, process>>
  BY <1>1 DEF manager, session, process, failures, RunTypesInv, LifeTyped, SessionTyped, ProcessTyped
<1>2. CASE c \in Run /\ StreamAgent(c)
  BY <1>2, StreamAgentTyped
<1>3. CASE /\ pendingReplacement' = FALSE /\ lifecycle' = GiveUp
           /\ UNCHANGED <<lastError, finalized>> /\ UNCHANGED <<tail, session, process>>
  BY <1>3 DEF GiveUp, session, process, failures, RunTypesInv, LifeTyped, SessionTyped, ProcessTyped
<1>4. QED BY <1>1, <1>2, <1>3 DEF EndCancel

\* The process: reading, speaking, answering, and its end.
LEMMA ProcessSteps ==
  ASSUME RunAssumption, RunTypesInv, Reads \/ Speaks \/ Answers \/ Wakes PROVE RunTypesInv'
<1>1. LifeTyped' /\ SessionTyped'
  BY DEF Reads, Speaks, Answers, Wakes, elsewhere, manager, session, RunTypesInv, LifeTyped, SessionTyped
<1>2. /\ ProcessTyped /\ stdin \in Seq(1..Interrupt) /\ pipe \in Seq(Message) /\ job \in 0..Autonomous
      /\ tasks \in Nat /\ faults \in Nat
  BY DEF RunTypesInv, ProcessTyped
<1>3. ASSUME NEW type \in {"assistant", "success", "error", "abort"}, job # 0
      PROVE  Append(pipe, [type |-> type, of |-> job]) \in Seq(Message)
  <2>1. [type |-> type, of |-> job] \in Message
    BY <1>2, <1>3, Numbers DEF Message
  <2>2. QED BY <1>2, <2>1
<1>4. CASE Reads
  <2>1. stdin # <<>> => Head(stdin) \in 1..Interrupt /\ Tail(stdin) \in Seq(1..Interrupt)
    BY <1>2, StdinTyped
  <2>2. stdin' \in Seq(1..Interrupt) /\ spoken' = FALSE /\ UNCHANGED <<query, answered, tasks, faults, may>>
    BY <1>4, <2>1 DEF Reads, failures
  <2>3. job' \in 0..Autonomous
    BY <1>4, <2>1, Numbers DEF Reads
  <2>4. pipe' \in Seq(Message)
    BY <1>2, <1>3, <1>4 DEF Reads
  <2>5. QED BY <1>1, <1>2, <2>2, <2>3, <2>4 DEF RunTypesInv, ProcessTyped
<1>5. CASE Speaks
  BY <1>1, <1>2, <1>3, <1>5 DEF Speaks, failures, RunTypesInv, ProcessTyped
<1>6. CASE Answers
  <2>1. /\ job # 0 /\ job' = 0 /\ spoken' = FALSE /\ UNCHANGED <<query, stdin, tasks>>
        /\ \E type \in {"success", "error"} : pipe' = Append(pipe, [type |-> type, of |-> job])
        /\ answered' \subseteq answered \cup Run
        /\ faults' \in Nat /\ UNCHANGED may
    BY <1>2, <1>6 DEF Answers, Fault, failures
  <2>2. pipe' \in Seq(Message)
    BY <1>3, <2>1
  <2>3. QED BY <1>1, <1>2, <2>1, <2>2, Numbers DEF RunTypesInv, ProcessTyped
<1>7. CASE Wakes
  <2>1. stdin' \in Seq(1..Interrupt) /\ tasks' \in Nat
    BY <1>2, <1>7, Numbers DEF Wakes
  <2>2. QED BY <1>1, <1>2, <1>7, <2>1 DEF Wakes, failures, RunTypesInv, ProcessTyped
<1>8. QED BY <1>4, <1>5, <1>6, <1>7

\* The session's reading of the process.
LEMMA PumpTyped == ASSUME RunAssumption, RunTypesInv, Pump PROVE RunTypesInv'
<1>1. LifeTyped' /\ SessionTyped /\ ProcessTyped
  BY DEF Pump, manager, RunTypesInv, LifeTyped
<1>2. ASSUME NEW type \in {"completed", "failed", "started"}, NEW turn \in {TurnId, Autonomous}
      PROVE  Append(tail, [type |-> type, turn |-> turn]) \in Seq(Event)
  <2>1. [type |-> type, turn |-> turn] \in Event
    BY <1>1, EventsTyped DEF Terminal
  <2>2. QED BY <1>1, <2>1 DEF SessionTyped
<1>3. \/ UNCHANGED tail
      \/ \E type \in {"completed", "failed", "started"}, turn \in {TurnId, Autonomous} :
           tail' = Append(tail, [type |-> type, turn |-> turn])
  BY DEF Pump
<1>4. tail' \in Seq(Event)
  BY <1>1, <1>2, <1>3 DEF SessionTyped
<1>5. foreground' \in 0..MaxRuns /\ autonomous' \in BOOLEAN /\ pendingInterruptAbort' \in BOOLEAN
  BY <1>1, Runs0 DEF Pump, SessionTyped
<1>6. ProcessTyped'
  BY <1>1 DEF Pump, failures, ProcessTyped
<1>7. QED BY <1>1, <1>4, <1>5, <1>6 DEF RunTypesInv, SessionTyped

\* The end of the process.
LEMMA DiesTyped == ASSUME RunAssumption, RunTypesInv, Dies PROVE RunTypesInv'
<1>1. LifeTyped' /\ SessionTyped /\ ProcessTyped
  BY DEF Dies, manager, RunTypesInv, LifeTyped
<1>2. [type |-> "failed", turn |-> TurnId] \in Event
  BY <1>1, EventsTyped DEF Terminal
<1>3. SessionTyped'
  BY <1>1, <1>2, Runs0 DEF Dies, SessionTyped
<1>4. ProcessTyped'
  <2>1. stdin' = <<>> /\ job' = 0 /\ <<>> \in Seq(1..Interrupt) /\ 0 \in 0..Autonomous
    BY Numbers DEF Dies
  <2>2. faults' \in Nat /\ UNCHANGED may
    BY <1>1 DEF Dies, Fault, ProcessTyped
  <2>3. QED BY <1>1, <2>1, <2>2 DEF Dies, ProcessTyped
<1>5. QED BY <1>1, <1>3, <1>4 DEF RunTypesInv

\* A run that starts, fails to, or throws.
LEMMA StartTyped ==
  ASSUME RunAssumption, RunInv, RunTypesInv, NEW r \in Run, StartTurn(r) \/ StartTurnFails(r) \/ StartTurnThrows(r)
  PROVE  RunTypesInv'
<1>1. LifeTyped /\ SessionTyped /\ ProcessTyped
  BY DEF RunTypesInv
<1>2. CASE StartTurn(r)
  <2>1. Append(stdin, r) \in Seq(1..Interrupt)
    BY <1>1, Numbers DEF ProcessTyped
  <2>2. QED BY <1>1, <1>2, <2>1 DEF StartTurn, Started, session, failures, RunTypesInv, LifeTyped, SessionTyped, ProcessTyped
<1>3. CASE StartTurnFails(r)
  <2>1. [type |-> "failed", turn |-> TurnId] \in Event
    BY <1>1, EventsTyped DEF Terminal
  <2>2. QED BY <1>1, <1>3, <2>1, Runs0 DEF StartTurnFails, Started, Fault, RunTypesInv, LifeTyped, SessionTyped, ProcessTyped
<1>4. CASE StartTurnThrows(r)
  BY <1>1, <1>4, Runs0 DEF StartTurnThrows, Fault, RunTypesInv, LifeTyped, SessionTyped, ProcessTyped
<1>5. QED BY <1>2, <1>3, <1>4

\* Every step keeps the types.
LEMMA NextRunTypes == ASSUME RunAssumption, RunInv, RunTypesInv, [Next]_vars PROVE RunTypesInv'
<1>1. CASE Dispatch
  <2>1. Head(tail) \in Event /\ Tail(tail) \in Seq(Event)
    BY <1>1 DEF Dispatch, RunTypesInv, SessionTyped
  <2>2. LifeTyped'
    BY <1>1, <2>1, HandleTyped DEF Dispatch, RunTypesInv
  <2>3. SessionTyped' /\ ProcessTyped'
    BY <1>1, <2>1 DEF Dispatch, session, process, failures, RunTypesInv, SessionTyped, ProcessTyped
  <2>4. QED BY <2>2, <2>3 DEF RunTypesInv
<1>2. ASSUME UNCHANGED <<lifecycle, pendingReplacement, lastError, finalized, tail, session, process>>
      PROVE  RunTypesInv'
  BY <1>2 DEF session, process, failures, RunTypesInv, LifeTyped, SessionTyped, ProcessTyped
<1>3. ASSUME NEW r \in Run, Drain(r) PROVE RunTypesInv'
  BY <1>2, <1>3 DEF Drain
<1>4. ASSUME NEW r \in Run, StartTurn(r) \/ StartTurnFails(r) \/ StartTurnThrows(r) PROVE RunTypesInv'
  BY <1>4, StartTyped
<1>5. ASSUME NEW c \in Canceller, Canceled(c) PROVE RunTypesInv'
  BY <1>5, EndTyped DEF Canceled
<1>6. ASSUME NEW c \in Canceller, TimedOut(c) PROVE RunTypesInv'
  <2>1. CASE MustForce(c)
    <3> DEFINE e == [type |-> "canceled", turn |-> cancel[c].turn]
    <3>1. e \in Event
      BY Numbers DEF RunInv, ManagerTyped, CancelTyped, Event, Terminal
    <3>2. Handle(e) /\ UNCHANGED <<tail, session, process>>
      BY <1>6, <2>1 DEF TimedOut
    <3>3. LifeTyped'
      BY <3>1, <3>2, HandleTyped DEF RunTypesInv
    <3>4. QED BY <3>2, <3>3 DEF session, process, failures, RunTypesInv, SessionTyped, ProcessTyped
  <2>2. CASE ~MustForce(c)
    BY <1>6, <2>2, EndTyped DEF TimedOut
  <2>3. QED BY <2>1, <2>2
<1>7. ASSUME NEW c \in Canceller, Interrupted(c) PROVE RunTypesInv'
  BY <1>2, <1>7 DEF Interrupted, manager
<1>8. ASSUME NEW r \in Run, Prompt(r) PROVE RunTypesInv'
  BY <1>8, StreamAgentTyped DEF Prompt
<1>9. ASSUME NEW r \in Run, Replace(r) PROVE RunTypesInv'
  <2>1. /\ InterruptSession /\ pendingReplacement' = TRUE /\ lifecycle' = "running"
        /\ UNCHANGED <<lastError, finalized>>
    BY <1>9 DEF Replace, BeginCancel
  <2>2. QED BY <2>1, InterruptTyped DEF RunTypesInv, LifeTyped
<1>10. ASSUME NEW c \in Stop, StopRun(c) PROVE RunTypesInv'
  <2>1. InterruptSession /\ UNCHANGED manager
    BY <1>10 DEF StopRun, BeginCancel
  <2>2. QED BY <2>1, InterruptTyped DEF manager, RunTypesInv, LifeTyped
<1>11. CASE Reads \/ Speaks \/ Answers \/ Wakes \/ Pump \/ Dies
  BY <1>11, ProcessSteps, PumpTyped, DiesTyped
<1>12. CASE UNCHANGED vars
  BY <1>2, <1>12 DEF vars, manager
<1>13. QED
  BY <1>1, <1>3, <1>4, <1>5, <1>6, <1>7, <1>8, <1>9, <1>10, <1>11, <1>12 DEF Next, Microtask, Macrotask

\* The first state has them.
LEMMA InitRunTypes == ASSUME RunAssumption, Init PROVE RunTypesInv
<1>1. LifeTyped
  BY DEF Init, LifeTyped
<1>2. SessionTyped
  <2>1. tail = <<>> /\ foreground = 0 /\ autonomous = FALSE /\ pendingInterruptAbort = FALSE
    BY DEF Init
  <2>2. tail \in Seq(Event) /\ foreground \in 0..MaxRuns
    BY <2>1, Runs0
  <2>3. QED BY <2>1, <2>2 DEF SessionTyped
<1>3. /\ stdin = <<>> /\ pipe = <<>> /\ job = 0 /\ query = FALSE /\ spoken = FALSE
      /\ answered = {} /\ tasks = 0 /\ faults = 0 /\ may \in Situations
  BY DEF Init
<1>4. stdin \in Seq(1..Interrupt) /\ job \in 0..Autonomous /\ pipe \in Seq(Message)
  BY <1>3, Numbers
<1>5. ProcessTyped
  BY <1>3, <1>4 DEF ProcessTyped
<1>6. QED BY <1>1, <1>2, <1>5 DEF RunTypesInv

\* The manager, the session and the process only ever name runs there are, whoever
\* cancels whom (agent-manager.ts:1590, claude/agent.ts:1730).
THEOREM RunTypes == RunAssumption /\ Spec => []TypeOK
<1>1. RunAssumption /\ Init => RunInv /\ RunTypesInv
  BY InitRun, InitRunTypes
<1>2. RunAssumption /\ RunInv /\ RunTypesInv /\ [Next]_vars => RunInv' /\ RunTypesInv'
  BY NextRun, NextRunTypes
<1>3. RunInv /\ RunTypesInv => TypeOK
  BY RunTypesSuffice
<1>4. QED BY <1>1, <1>2, <1>3, RunAssumption, PTL DEF Spec

------------------------------------------------------------------------------
(* The manager and the session agree on who is busy.                           *)

\* Runs that a cancellation waits for, or that are over.
Accepted == {r \in Run : run[r] \in {"streaming", "done"}}
Cancels(c) == cancel[c].stage \in {"interrupting", "waiting", "forced"}

\* The session's turn belongs to a run that has not been told; its end is not on
\* its way, and nobody who cancelled that turn finds it again.
ForegroundIsLive ==
  foreground # 0 => Live(foreground) /\ told[foreground] = "nothing" /\ ~autonomous

EndsOf(e, turn, runs) ==
  e.type \in Terminal =>
    /\ turn # 0 => e.turn # turn
    /\ e.turn \in Run => runs[e.turn] \notin {"new", "replacing"}

EndsElsewhere == \A i \in DOMAIN tail : EndsOf(tail[i], foreground, run)

Leaves(c) ==
  cancel[c].stage \in {"interrupting", "waiting"} /\ cancel[c].turn # 0
    => cancel[c].turn # foreground /\ cancel[c].turn \in Accepted

TurnsAreLeft == \A c \in Canceller : Leaves(c)

ForegroundInv == ForegroundIsLive /\ EndsElsewhere /\ TurnsAreLeft

\* The pending run is live, and the turns that were finalized are over.
PendingIsLive ==
  /\ pendingRun # 0 => Live(pendingRun)
  /\ finalized \subseteq Accepted /\ activeForegroundTurnId \notin finalized

\* What an agent that is shown as running may have: a turn that is said to
\* have started has not ended, or its end is behind it.
Real == activeForegroundTurnId # 0 \/ Starting \/ autonomous \/ Replacing
EndsAutonomous(e) == e.type \in Terminal /\ e.turn = Autonomous

HoldIsReal == pendingReplacement => Replacing

StartedRuns ==
  \A i \in DOMAIN tail : tail[i].type = "started" =>
    tail[i].turn = Autonomous \/ (tail[i].turn \in Run /\ run[tail[i].turn] = "starting")

StartedAutonomous ==
  \A i \in DOMAIN tail : tail[i].type = "started" /\ tail[i].turn = Autonomous =>
    autonomous \/ \E j \in DOMAIN tail : i < j /\ EndsAutonomous(tail[j])

ShownIsReal == lifecycle = "running" => Real \/ \E i \in DOMAIN tail : EndsAutonomous(tail[i])

ShownInv == HoldIsReal /\ StartedRuns /\ StartedAutonomous /\ ShownIsReal

\* Cancellations are neither early nor overlapping.
Exclusive == ~may.early /\ ~may.overlap

\* While a prompt replaces a run there is no other replacement, and no run but
\* the one it cancels.
ReplacesAlone ==
  Exclusive =>
    /\ \A r \in Run : run[r] # "rejected"
    /\ \A r \in Run : run[r] = "replacing" =>
         /\ pendingReplacement /\ Cancels(r)
         /\ pendingRun \in {0, cancel[r].pend}
         /\ cancel[r].stage \in {"interrupting", "waiting"} => cancel[r].turn = cancel[r].pend
         /\ \A s \in Run : run[s] # "starting" /\ (run[s] = "replacing" => s = r)

\* The inductive invariant of PromptsAreAdmitted.
BusyInv == RunInv /\ RunTypesInv /\ ForegroundInv /\ PendingIsLive /\ ShownInv /\ ReplacesAlone

\* A process that is not there says nothing.
NoQuery == ~query => pipe = <<>> /\ stdin = <<>> /\ job = 0

\* If nobody cancels a run that starts: the active turn is the session's, or its
\* end is the one event that waits; other ends are those of autonomous turns.
TurnsMatch ==
  ~may.early =>
    /\ \A r \in Run : run[r] = "starting" => foreground = r
    /\ activeForegroundTurnId # 0 =>
         \/ foreground = activeForegroundTurnId /\ tail = <<>>
         \/ /\ foreground = 0 /\ Len(tail) = 1
            /\ tail[1].type \in Terminal /\ tail[1].turn = activeForegroundTurnId
    /\ activeForegroundTurnId = 0 =>
         \A i \in DOMAIN tail : tail[i].type \in Terminal => tail[i].turn = Autonomous

\* No cancellation disturbs a run that starts, another one or a result, and no task
\* has woken the process.
Peaceful == Calm /\ tasks = 0
Uninterrupted == \A i \in DOMAIN stdin : stdin[i] # Interrupt

\* A prompt that waits, and the one the process works on, is the session's, which
\* nothing follows, or one that is interrupted next.
PromptsInLine ==
  \A i \in DOMAIN stdin : stdin[i] # Interrupt =>
    /\ stdin[i] \in Accepted
    /\ IF stdin[i] = foreground THEN i = Len(stdin) ELSE i + 1 \in DOMAIN stdin /\ stdin[i + 1] = Interrupt

JobInLine ==
  job # 0 =>
    /\ job \in Accepted
    /\ IF job = foreground THEN stdin = <<>> ELSE stdin # <<>> /\ stdin[1] = Interrupt

\* What the process has said, but that it was interrupted, is of the session's
\* turn; its result is the last it says.
IsResult(m) == m.type \in {"success", "error"}
InLine(m) ==
  m.type # "abort" =>
    /\ m.of = foreground /\ m.of \in Accepted
    /\ m.type = "success" => m.of \in answered

PipeInLine ==
  \A i \in DOMAIN pipe :
    /\ InLine(pipe[i])
    /\ pipe[i].type # "abort" => Uninterrupted
    /\ IsResult(pipe[i]) => i = Len(pipe) /\ job = 0 /\ stdin = <<>>

\* A turn that is complete has been answered.
CompleteInLine ==
  /\ \A i \in DOMAIN tail : tail[i].type = "completed" => tail[i].turn \in answered
  /\ \A r \in Run : told[r] = "completed" => r \in answered

Lines == ~autonomous /\ PromptsInLine /\ JobInLine /\ PipeInLine /\ CompleteInLine

\* Every interrupt finds a prompt to abort, and no error is taken for its result.
InterruptsAbort ==
  \A i \in DOMAIN stdin : stdin[i] = Interrupt => IF i = 1 THEN job # 0 ELSE stdin[i - 1] # Interrupt

Says(type) == \E i \in DOMAIN pipe : pipe[i].type = type

AbortExpected ==
  /\ pendingInterruptAbort => ~Uninterrupted \/ Says("abort") \/ (faults = 1 /\ ~Says("error"))
  /\ Says("error") => faults = 1

\* The prompt of the active turn is somewhere.
Prompted ==
  activeForegroundTurnId # 0 /\ foreground = activeForegroundTurnId =>
    \/ foreground = job
    \/ \E i \in DOMAIN stdin : stdin[i] = foreground
    \/ \E i \in DOMAIN pipe : pipe[i].of = foreground /\ IsResult(pipe[i])

Aborts == InterruptsAbort /\ AbortExpected /\ Prompted

\* The inductive invariant of TurnsEndByOwnAnswer, with TurnsInv.
OrderInv == (Peaceful => Lines) /\ (Peaceful /\ faults <= 1 => Aborts)

\* The number of an autonomous turn is no run's.
LEMMA AutonomousApart ==
  ASSUME RunAssumption
  PROVE  Autonomous \notin Run /\ Autonomous # 0 /\ Interrupt \notin Run /\ Interrupt # 0 /\ Interrupt # Autonomous
BY DEF RunAssumption, Autonomous, Interrupt, Run

\* The elements of a sequence that grows by one, and of one that loses its head.
LEMMA Appended ==
  ASSUME NEW S, NEW s \in Seq(S), NEW x \in S
  PROVE  /\ Append(s, x) \in Seq(S)
         /\ \A i \in DOMAIN s : i \in DOMAIN Append(s, x) /\ Append(s, x)[i] = s[i]
         /\ \A i \in DOMAIN Append(s, x) : i \in DOMAIN s \/ i = Len(s) + 1
         /\ Append(s, x)[Len(s) + 1] = x /\ Len(s) + 1 \in DOMAIN Append(s, x)
         /\ \A i \in DOMAIN s : i < Len(s) + 1
         /\ Len(Append(s, x)) = Len(s) + 1 /\ Len(s) \in Nat /\ DOMAIN s = 1..Len(s)
OBVIOUS

\* A sequence that loses its head.
LEMMA Behead ==
  ASSUME NEW S, NEW s \in Seq(S), s # <<>>
  PROVE  /\ Tail(s) \in Seq(S) /\ Head(s) = s[1] /\ Head(s) \in S /\ 1 \in DOMAIN s
         /\ \A i \in DOMAIN Tail(s) : i + 1 \in DOMAIN s /\ Tail(s)[i] = s[i + 1]
         /\ \A i \in DOMAIN s : i # 1 => i - 1 \in DOMAIN Tail(s) /\ Tail(s)[i - 1] = s[i]
         /\ Len(Tail(s)) = Len(s) - 1 /\ Len(s) \in Nat \ {0} /\ DOMAIN s = 1..Len(s)
OBVIOUS

\* What an event does to the runs: nothing, or it tells its own.
LEMMA HandleEffect ==
  ASSUME NEW e, Handle(e)
  PROVE  /\ UNCHANGED <<pendingReplacement, pendingRun, run>>
         /\ \A r \in Run : told'[r] # told[r] => e.type \in Terminal /\ r = e.turn /\ Waiting(r)
         /\ activeForegroundTurnId' \in {activeForegroundTurnId, 0}
         /\ finalized' \subseteq finalized \cup ({activeForegroundTurnId} \ {0})
         /\ activeForegroundTurnId' = activeForegroundTurnId => finalized' = finalized
<1>1. CASE Stale(e)
  BY <1>1 DEF Handle, manager
<1>2. CASE ~Stale(e)
  <2>1. /\ UNCHANGED <<pendingReplacement, pendingRun, run>>
        /\ told' = [r \in Run |-> IF Ends(e) /\ r = e.turn /\ Waiting(r) THEN e.type ELSE told[r]]
        /\ finalized' = IF Remember(e) THEN finalized \cup {e.turn} ELSE finalized
        /\ IF OfActiveTurn(e) /\ e.type \in Terminal
           THEN activeForegroundTurnId' = 0
           ELSE UNCHANGED activeForegroundTurnId
    BY <1>2 DEF Handle
  <2>2. QED BY <2>1 DEF Ends, Remember, OfActiveTurn
<1>3. QED BY <1>1, <1>2

\* streamAgent sends one or two events.
LEMMA StreamAgentSends ==
  ASSUME RunAssumption, RunTypesInv, NEW r \in Run, StreamAgent(r)
  PROVE  \E t \in Seq(Event) :
           /\ t = IF autonomous THEN Append(tail, [type |-> "completed", turn |-> Autonomous]) ELSE tail
           /\ tail' = Append(t, [type |-> "started", turn |-> r])
           /\ [type |-> "started", turn |-> r] \in Event
           /\ [type |-> "completed", turn |-> Autonomous] \in Event
<1> DEFINE over == [type |-> "completed", turn |-> Autonomous]
           start == [type |-> "started", turn |-> r]
           t == IF autonomous THEN Append(tail, over) ELSE tail
<1>1. over \in Event /\ start \in Event
  <2>1. r \in 0..Autonomous /\ Autonomous \in 0..Autonomous
    BY Numbers
  <2>2. QED BY <2>1 DEF Event, Terminal
<1>2. tail \in Seq(Event) /\ autonomous \in BOOLEAN
  BY DEF RunTypesInv, SessionTyped
<1>3. tail' = tail \o (IF autonomous THEN <<over>> ELSE <<>>) \o <<start>>
  BY DEF StreamAgent
<1> HIDE DEF over, start
<1>4. t \in Seq(Event)
  BY <1>1, <1>2
<1>5. tail' = Append(t, start)
  <2>1. CASE autonomous
    <3>1. tail' = tail \o <<over>> \o <<start>>
      BY <1>3, <2>1
    <3>2. tail \o <<over>> = Append(tail, over)
      BY <1>1, <1>2
    <3>3. Append(tail, over) \o <<start>> = Append(Append(tail, over), start)
      BY <1>1, <1>2
    <3>4. QED BY <2>1, <3>1, <3>2, <3>3
  <2>2. CASE ~autonomous
    <3>1. tail' = tail \o <<>> \o <<start>>
      BY <1>3, <2>2
    <3>2. tail \o <<>> = tail
      BY <1>2
    <3>3. tail \o <<start>> = Append(tail, start)
      BY <1>1, <1>2
    <3>4. QED BY <2>2, <3>1, <3>2, <3>3
  <2>3. QED BY <2>1, <2>2
<1>6. QED BY <1>1, <1>4, <1>5 DEF over, start

------------------------------------------------------------------------------

\* The pending run stays live, and what is finalized was accepted.
LEMMA NextPending ==
  ASSUME RunAssumption, RunInv, PendingIsLive, [Next]_vars PROVE PendingIsLive'
<1>0. /\ run \in [Run -> {"new", "replacing", "starting", "streaming", "done", "failed", "rejected"}]
      /\ \A r \in Run : Live(r) => pendingRun = r
      /\ \A r \in Run : Waiting(r) <=> activeForegroundTurnId = r
      /\ activeForegroundTurnId # 0 => activeForegroundTurnId \in Run
      /\ pendingRun # 0 => pendingRun \in Run
      /\ 0 \notin Run /\ Accepted \subseteq Run
  BY Runs0 DEF RunInv, ManagerTyped, OneRun, Accepted
<1>1. ASSUME NEW e, Handle(e) PROVE PendingIsLive'
  <2>1. activeForegroundTurnId # 0 => activeForegroundTurnId \in Accepted
    BY <1>0 DEF Accepted, Waiting
  <2>2. finalized' \subseteq Accepted /\ activeForegroundTurnId' \notin finalized'
    BY <1>0, <1>1, <2>1, HandleEffect DEF PendingIsLive
  <2>3. QED BY <1>1, <2>2, HandleEffect DEF PendingIsLive, Accepted, Live
<1>2. ASSUME NEW r \in Run, Drain(r) PROVE PendingIsLive'
  <2>1. pendingRun = r /\ pendingRun' = 0 /\ run' = [run EXCEPT ![r] = "done"] /\ UNCHANGED <<finalized, activeForegroundTurnId>>
    BY <1>0, <1>2 DEF Drain, AfterRun, Live
  <2>2. Accepted \subseteq Accepted'
    BY <1>0, <2>1 DEF Accepted
  <2>3. QED BY <2>1, <2>2 DEF PendingIsLive
<1>3. ASSUME NEW r \in Run, run[r] \in {"new", "replacing"}, StreamAgent(r) PROVE PendingIsLive'
  <2>1. pendingRun' = r /\ run' = [run EXCEPT ![r] = "starting"] /\ UNCHANGED <<finalized, activeForegroundTurnId>>
    BY <1>3 DEF StreamAgent
  <2>2. Live(r)' /\ Accepted' = Accepted
    BY <1>0, <1>3, <2>1 DEF Live, Accepted
  <2>3. QED BY <2>1, <2>2 DEF PendingIsLive, Live
<1>4. ASSUME NEW r \in Run, Started(r) PROVE PendingIsLive'
  <2>1. /\ run[r] = "starting" /\ run' = [run EXCEPT ![r] = "streaming"]
        /\ activeForegroundTurnId' = r /\ UNCHANGED <<finalized, pendingRun>>
    BY <1>4 DEF Started
  <2>2. r \notin finalized /\ Accepted \subseteq Accepted' /\ pendingRun = r
    BY <1>0, <2>1 DEF Accepted, PendingIsLive, Live
  <2>3. QED BY <1>0, <2>1, <2>2 DEF PendingIsLive, Live
<1>5. ASSUME NEW r \in Run, StartTurnThrows(r) PROVE PendingIsLive'
  <2>1. /\ run[r] = "starting" /\ run' = [run EXCEPT ![r] = "failed"] /\ pendingRun = r /\ pendingRun' = 0
        /\ activeForegroundTurnId' = 0 /\ UNCHANGED finalized
    BY <1>0, <1>5 DEF StartTurnThrows, AfterRun, Live
  <2>2. Accepted' = Accepted
    BY <1>0, <2>1 DEF Accepted
  <2>3. QED BY <1>0, <2>1, <2>2 DEF PendingIsLive
<1>6. ASSUME NEW r \in Run, NEW next \in {"replacing", "rejected"}, run[r] \in {"new", "replacing"},
             run' = [run EXCEPT ![r] = next], UNCHANGED <<finalized, activeForegroundTurnId, pendingRun>>
      PROVE  PendingIsLive'
  <2>1. Accepted' = Accepted
    BY <1>0, <1>6 DEF Accepted
  <2>2. \A s \in Run : Live(s) => Live(s)'
    BY <1>0, <1>6 DEF Live
  <2>3. QED BY <1>0, <1>6, <2>1, <2>2 DEF PendingIsLive
<1>7. ASSUME UNCHANGED <<finalized, activeForegroundTurnId, pendingRun, run>> PROVE PendingIsLive'
  BY <1>7 DEF PendingIsLive, Live, Accepted
<1>8. ASSUME NEW c \in Canceller, EndCancel(c), Cancels(c) PROVE PendingIsLive'
  <2>1. c \in Run => run[c] = "replacing"
    BY <1>8 DEF RunInv, CancelersWait, Cancels
  <2>2. QED BY <1>3, <1>6, <1>7, <1>8, <2>1 DEF EndCancel, manager
<1>9. ASSUME NEW c \in Canceller, TimedOut(c) PROVE PendingIsLive'
  BY <1>1, <1>8, <1>9 DEF TimedOut, Cancels
<1>10. ASSUME NEW r \in Run, Prompt(r) \/ Replace(r) PROVE PendingIsLive'
  BY <1>3, <1>6, <1>10 DEF Prompt, Replace, NextPrompt
<1>11. ASSUME NEW c \in Canceller, StopRun(c) \/ Interrupted(c) \/ Canceled(c) PROVE PendingIsLive'
  BY <1>7, <1>8, <1>11 DEF StopRun, Interrupted, Canceled, Cancels, manager
<1>12. CASE Reads \/ Speaks \/ Answers \/ Wakes \/ Pump \/ Dies \/ UNCHANGED vars
  BY <1>7, <1>12 DEF Reads, Speaks, Answers, Wakes, Pump, Dies, elsewhere, vars, manager
<1>13. ASSUME NEW r \in Run, StartTurn(r) \/ StartTurnFails(r) PROVE PendingIsLive'
  BY <1>4, <1>13 DEF StartTurn, StartTurnFails
<1>14. CASE Dispatch
  BY <1>1, <1>14 DEF Dispatch
<1>15. QED
  BY <1>2, <1>5, <1>9, <1>10, <1>11, <1>12, <1>13, <1>14, Runs0 DEF Next, Microtask, Macrotask

------------------------------------------------------------------------------

\* What is known of the runs and the session, in short.
LEMMA RunFacts ==
  ASSUME RunAssumption, RunInv, RunTypesInv
  PROVE  /\ run \in [Run -> {"new", "replacing", "starting", "streaming", "done", "failed", "rejected"}]
         /\ told \in [Run -> Terminal \cup {"nothing"}]
         /\ \A r \in Run : Live(r) => pendingRun = r
         /\ \A r \in Run : Waiting(r) <=> activeForegroundTurnId = r
         /\ activeForegroundTurnId # 0 => activeForegroundTurnId \in Run
         /\ foreground # 0 => foreground \in Run
         /\ 0 \notin Run /\ Run \subseteq Canceller
         /\ tail \in Seq(Event) /\ autonomous \in BOOLEAN
BY Runs0 DEF RunInv, ManagerTyped, OneRun, RunTypesInv, SessionTyped

\* What is said of the turns stays true while none becomes the session's anew and
\* no run is undone.
LEMMA EndsKept ==
  ASSUME EndsElsewhere, foreground' \in {foreground, 0}, tail' \in {tail, <<>>} \/ (tail # <<>> /\ tail' = Tail(tail)),
         RunAssumption, RunInv, RunTypesInv,
         \A r \in Run : run[r] \notin {"new", "replacing"} => run'[r] \notin {"new", "replacing"}
  PROVE  EndsElsewhere'
<1>1. \A i \in DOMAIN tail : EndsOf(tail[i], foreground', run')
  BY DEF EndsElsewhere, EndsOf
<1>2. tail \in Seq(Event)
  BY RunFacts
<1>3. CASE tail' \in {tail, <<>>}
  BY <1>1, <1>3 DEF EndsElsewhere, EndsOf
<1>4. CASE tail # <<>> /\ tail' = Tail(tail)
  <2>1. \A i \in DOMAIN Tail(tail) : i + 1 \in DOMAIN tail /\ Tail(tail)[i] = tail[i + 1]
    BY <1>2, <1>4, Behead
  <2>2. \A i \in DOMAIN tail' : EndsOf(tail'[i], foreground', run')
    BY <1>1, <1>4, <2>1 DEF EndsOf
  <2>3. QED BY <2>2 DEF EndsElsewhere, EndsOf
<1>5. QED BY <1>3, <1>4

\* The same when an event is sent that ends no turn anew.
LEMMA EndSent ==
  ASSUME EndsElsewhere, foreground' \in {foreground, 0}, NEW e \in Event, tail' = Append(tail, e),
         RunAssumption, RunInv, RunTypesInv,
         \A r \in Run : run[r] \notin {"new", "replacing"} => run'[r] \notin {"new", "replacing"},
         EndsOf(e, foreground', run')
  PROVE  EndsElsewhere'
<1>1. \A i \in DOMAIN tail : EndsOf(tail[i], foreground', run')
  BY DEF EndsElsewhere, EndsOf
<1>2. tail \in Seq(Event)
  BY RunFacts
<1>3. /\ \A i \in DOMAIN tail' : i \in DOMAIN tail \/ i = Len(tail) + 1
      /\ \A i \in DOMAIN tail : tail'[i] = tail[i]
      /\ tail'[Len(tail) + 1] = e
  BY <1>2, Appended
<1>4. \A i \in DOMAIN tail' : EndsOf(tail'[i], foreground', run')
  BY <1>1, <1>3 DEF EndsOf
<1>5. QED BY <1>4 DEF EndsElsewhere, EndsOf

\* The turns that cancellations look for stay behind the session's.
LEMMA LeavesKept ==
  ASSUME TurnsAreLeft, RunAssumption, foreground' \in {foreground, 0}, Accepted \subseteq Accepted',
         \A c \in Canceller : cancel'[c] = cancel[c] \/ cancel'[c].stage \in {"over", "forced"}
                              \/ (cancel'[c].turn = cancel[c].turn /\ cancel[c].stage = "interrupting")
  PROVE  TurnsAreLeft'
<1>1. ASSUME NEW c \in Canceller PROVE Leaves(c)'
  <2>1. Leaves(c) /\ 0 \notin Accepted
    BY Runs0 DEF TurnsAreLeft, Accepted
  <2>2. QED BY <2>1 DEF Leaves
<1>2. QED BY <1>1 DEF TurnsAreLeft

\* A new run takes the session.
LEMMA StreamAgentForeground ==
  ASSUME RunAssumption, RunInv, RunTypesInv, ForegroundInv, NEW r \in Run, Free, StreamAgent(r),
         run[r] \in {"new", "replacing"},
         \A c \in Canceller : cancel'[c] = cancel[c] \/ cancel'[c].stage \in {"over", "forced"}
  PROVE  ForegroundInv'
<1>1. /\ run' = [run EXCEPT ![r] = "starting"] /\ foreground' = r /\ autonomous' = FALSE /\ UNCHANGED told
  BY DEF StreamAgent
<1>2. foreground = 0
  BY RunFacts DEF ForegroundInv, ForegroundIsLive, Free
<1>3. ForegroundIsLive'
  <2>1. told[r] = "nothing"
    BY DEF RunInv, ToldRuns
  <2>2. QED BY <1>1, <2>1, RunFacts DEF ForegroundIsLive, Live
<1>4. \A s \in Run : run[s] \notin {"new", "replacing"} => s # r /\ run'[s] \notin {"new", "replacing"}
  BY <1>1, RunFacts
<1>5. \A i \in DOMAIN tail : EndsOf(tail[i], foreground', run')
  <2>1. \A i \in DOMAIN tail : EndsOf(tail[i], foreground, run)
    BY DEF ForegroundInv, EndsElsewhere
  <2>2. QED BY <1>1, <1>4, <2>1 DEF EndsOf
<1>6. EndsElsewhere'
  <2> DEFINE over == [type |-> "completed", turn |-> Autonomous]
             start == [type |-> "started", turn |-> r]
  <2>1. PICK t \in Seq(Event) :
           /\ t = IF autonomous THEN Append(tail, over) ELSE tail
           /\ tail' = Append(t, start)
           /\ start \in Event /\ over \in Event
    BY StreamAgentSends
  <2>2. EndsOf(over, foreground', run')
    BY <1>1, AutonomousApart DEF EndsOf
  <2>3. EndsOf(start, foreground', run')
    BY DEF EndsOf, Terminal
  <2> HIDE DEF over, start
  <2>4. tail \in Seq(Event)
    BY RunFacts
  <2>5. \A i \in DOMAIN t : EndsOf(t[i], foreground', run')
    <3>1. CASE autonomous
      <4>1. /\ \A i \in DOMAIN t : i \in DOMAIN tail \/ i = Len(tail) + 1
            /\ \A i \in DOMAIN tail : t[i] = tail[i]
            /\ t[Len(tail) + 1] = over
        BY <2>1, <2>4, <3>1, Appended
      <4>2. QED BY <1>5, <2>2, <4>1 DEF EndsOf
    <3>2. CASE ~autonomous
      BY <1>5, <2>1, <3>2 DEF EndsOf
    <3>3. QED BY <3>1, <3>2
  <2>6. /\ \A i \in DOMAIN tail' : i \in DOMAIN t \/ i = Len(t) + 1
        /\ \A i \in DOMAIN t : tail'[i] = t[i]
        /\ tail'[Len(t) + 1] = start
    BY <2>1, Appended
  <2>7. \A i \in DOMAIN tail' : EndsOf(tail'[i], foreground', run')
    BY <2>3, <2>5, <2>6 DEF EndsOf
  <2>8. QED BY <2>7 DEF EndsElsewhere, EndsOf
<1>7. TurnsAreLeft'
  <2>1. Accepted' = Accepted
    BY <1>1, RunFacts DEF Accepted
  <2>2. ASSUME NEW c \in Canceller PROVE Leaves(c)'
    <3>1. Leaves(c) /\ r \notin Accepted
      BY DEF ForegroundInv, TurnsAreLeft, Accepted
    <3>2. QED BY <1>1, <2>1, <3>1 DEF Leaves
  <2>3. QED BY <2>2 DEF TurnsAreLeft
<1>8. QED BY <1>3, <1>6, <1>7 DEF ForegroundInv

\* An interrupt ends the session's turn.
LEMMA BeginForeground ==
  ASSUME RunAssumption, RunInv, RunTypesInv, ForegroundInv, NEW c \in Canceller, BeginCancel(c),
         UNCHANGED told, \A r \in Run : run[r] # "new" => run'[r] = run[r]
  PROVE  ForegroundInv'
<1>1. foreground' = 0
  BY DEF BeginCancel, InterruptSession
<1>2. \A r \in Run : run[r] \notin {"new", "replacing"} => run'[r] \notin {"new", "replacing"}
  OBVIOUS
<1>3. EndsElsewhere'
  <2>1. CASE foreground # 0
    <3> DEFINE e == [type |-> "canceled", turn |-> foreground]
    <3>1. e \in Event /\ tail' = Append(tail, e)
      BY <2>1, EventsTyped DEF BeginCancel, InterruptSession, RunTypesInv, Terminal
    <3>2. EndsOf(e, foreground', run')
      BY <1>1, <1>2, <2>1, RunFacts DEF EndsOf, ForegroundInv, ForegroundIsLive, Live
    <3>3. QED BY <1>1, <1>2, <3>1, <3>2, EndSent DEF ForegroundInv
  <2>2. CASE foreground = 0 /\ autonomous
    <3> DEFINE e == [type |-> "completed", turn |-> Autonomous]
    <3>1. e \in Event /\ tail' = Append(tail, e)
      BY <2>2, EventsTyped DEF BeginCancel, InterruptSession, RunTypesInv, Terminal
    <3>2. EndsOf(e, foreground', run')
      BY <1>1, AutonomousApart DEF EndsOf
    <3>3. QED BY <1>1, <1>2, <3>1, <3>2, EndSent DEF ForegroundInv
  <2>3. CASE foreground = 0 /\ ~autonomous
    <3>1. tail' = tail
      BY <2>3 DEF BeginCancel, InterruptSession
    <3>2. QED BY <1>1, <1>2, <3>1, EndsKept DEF ForegroundInv
  <2>4. QED BY <2>1, <2>2, <2>3
<1>4. TurnsAreLeft'
  <2>1. Accepted \subseteq Accepted'
    BY DEF Accepted
  <2>2. cancel' = [cancel EXCEPT ![c] = [stage |-> IF foreground = 0 /\ query THEN "interrupting" ELSE "waiting",
                                         turn |-> activeForegroundTurnId, pend |-> pendingRun]]
    BY DEF BeginCancel
  <2>3. activeForegroundTurnId # 0 => activeForegroundTurnId \in Accepted
    BY RunFacts DEF Accepted, Waiting
  <2>4. ASSUME NEW d \in Canceller PROVE Leaves(d)'
    <3>1. Leaves(d) /\ cancel \in [Canceller -> [stage : Stages, turn : 0..MaxRuns, pend : 0..MaxRuns]]
      BY DEF ForegroundInv, TurnsAreLeft, RunInv, ManagerTyped, CancelTyped
    <3>2. CASE d = c
      BY <1>1, <2>1, <2>2, <2>3, <3>1, <3>2 DEF Leaves
    <3>3. CASE d # c
      BY <1>1, <2>1, <2>2, <3>1, <3>3, Runs0 DEF Leaves
    <3>4. QED BY <3>2, <3>3
  <2>5. QED BY <2>4 DEF TurnsAreLeft
<1>5. QED BY <1>1, <1>3, <1>4 DEF ForegroundInv, ForegroundIsLive

\* The session's turn ends, and the end is sent.
LEMMA TurnEndsForeground ==
  ASSUME RunAssumption, RunInv, RunTypesInv, ForegroundInv,
         NEW type \in Terminal, foreground' = 0, tail' = Append(tail, [type |-> type, turn |-> TurnId]),
         \A r \in Run : run[r] \notin {"new", "replacing"} => run'[r] \notin {"new", "replacing"},
         Accepted \subseteq Accepted', UNCHANGED cancel
  PROVE  ForegroundInv'
<1> DEFINE e == [type |-> type, turn |-> TurnId]
<1>1. e \in Event
  BY EventsTyped DEF RunTypesInv
<1>2. EndsOf(e, foreground', run')
  BY RunFacts, AutonomousApart DEF EndsOf, TurnId, ForegroundInv, ForegroundIsLive, Live
<1>3. EndsElsewhere'
  <2> HIDE DEF e
  <2>1. tail' = Append(tail, e)
    BY DEF e
  <2>2. QED BY <1>1, <1>2, <2>1, EndSent DEF ForegroundInv
<1>4. TurnsAreLeft'
  BY LeavesKept DEF ForegroundInv
<1>5. QED BY <1>3, <1>4 DEF ForegroundInv, ForegroundIsLive

\* The session's turn belongs to a live run, whatever happens.
LEMMA NextForeground ==
  ASSUME RunAssumption, RunInv, RunTypesInv, ForegroundInv, [Next]_vars PROVE ForegroundInv'
<1>0. ForegroundIsLive /\ EndsElsewhere /\ TurnsAreLeft /\ tail \in Seq(Event)
  BY RunFacts DEF ForegroundInv
<1>1. CASE Dispatch
  <2>1. tail # <<>> /\ tail' = Tail(tail) /\ Handle(Head(tail)) /\ UNCHANGED <<cancel, foreground, autonomous>>
    BY <1>1 DEF Dispatch, session
  <2>2. Head(tail) = tail[1] /\ 1 \in DOMAIN tail
    BY <1>0, <2>1, Behead
  <2>3. EndsOf(Head(tail), foreground, run) /\ UNCHANGED run
    BY <1>0, <2>1, <2>2, HandleEffect DEF EndsElsewhere
  <2>4. foreground # 0 => told'[foreground] = told[foreground]
    BY <2>1, <2>3, HandleEffect, RunFacts DEF EndsOf
  <2>5. ForegroundIsLive'
    BY <1>0, <2>1, <2>3, <2>4 DEF ForegroundIsLive, Live
  <2>6. EndsElsewhere'
    BY <1>0, <2>1, <2>3, EndsKept
  <2>7. TurnsAreLeft'
    BY <1>0, <2>1, <2>3, LeavesKept DEF Accepted
  <2>8. QED BY <2>5, <2>6, <2>7 DEF ForegroundInv
<1>2. ASSUME NEW r \in Run, NEW next \in {"done", "streaming", "rejected"}, run' = [run EXCEPT ![r] = next],
             run[r] \notin {"streaming", "done"} \/ next = "done",
             r = foreground => next = "streaming" \/ run[r] \notin {"starting", "streaming"},
             UNCHANGED <<told, foreground, autonomous, tail>>,
             \A c \in Canceller : cancel'[c] = cancel[c] \/ cancel'[c].stage \in {"over", "forced"}
      PROVE  ForegroundInv'
  <2>1. ForegroundIsLive'
    BY <1>0, <1>2, RunFacts DEF ForegroundIsLive, Live
  <2>2. EndsElsewhere'
    BY <1>0, <1>2, EndsKept, RunFacts
  <2>3. Accepted \subseteq Accepted'
    BY <1>2, RunFacts DEF Accepted
  <2>4. TurnsAreLeft'
    BY <1>0, <1>2, <2>3, LeavesKept
  <2>5. QED BY <2>1, <2>2, <2>4 DEF ForegroundInv
<1>3. ASSUME NEW r \in Run, Drain(r) PROVE ForegroundInv'
  <2>1. r # foreground
    BY <1>0, <1>3, RunFacts DEF Drain, ForegroundIsLive
  <2>2. QED BY <1>2, <1>3, <2>1 DEF Drain, session
<1>4. ASSUME NEW r \in Run, StartTurn(r) PROVE ForegroundInv'
  BY <1>2, <1>4 DEF StartTurn, Started, session
<1>5. ASSUME NEW r \in Run, StartTurnFails(r) PROVE ForegroundInv'
  <2>1. /\ run' = [run EXCEPT ![r] = "streaming"] /\ tail = <<>> /\ foreground' = 0 /\ UNCHANGED cancel
        /\ tail' = <<[type |-> "failed", turn |-> TurnId]>>
    BY <1>5 DEF StartTurnFails, Started
  <2>2. tail' = Append(tail, [type |-> "failed", turn |-> TurnId])
    BY <2>1
  <2>3. /\ \A s \in Run : run[s] \notin {"new", "replacing"} => run'[s] \notin {"new", "replacing"}
        /\ Accepted \subseteq Accepted'
    BY <2>1, RunFacts DEF Accepted
  <2>4. QED BY <2>1, <2>2, <2>3, TurnEndsForeground DEF Terminal
<1>6. ASSUME NEW r \in Run, StartTurnThrows(r) PROVE ForegroundInv'
  <2>1. /\ run[r] = "starting" /\ run' = [run EXCEPT ![r] = "failed"] /\ foreground' = 0 /\ UNCHANGED <<cancel, tail>>
    BY <1>6 DEF StartTurnThrows
  <2>2. Accepted \subseteq Accepted' /\ EndsElsewhere'
    BY <1>0, <2>1, EndsKept, RunFacts DEF Accepted
  <2>3. QED BY <1>0, <2>1, <2>2, LeavesKept DEF ForegroundInv, ForegroundIsLive
<1>7. ASSUME UNCHANGED <<told, run, foreground, autonomous, tail>>,
             \A c \in Canceller : cancel'[c] = cancel[c] \/ cancel'[c].stage \in {"over", "forced"}
                              \/ (cancel'[c].turn = cancel[c].turn /\ cancel[c].stage = "interrupting")
      PROVE  ForegroundInv'
  <2>1. EndsElsewhere'
    BY <1>0, <1>7, EndsKept
  <2>2. TurnsAreLeft'
    BY <1>0, <1>7, LeavesKept DEF Accepted
  <2>3. QED BY <1>0, <1>7, <2>1, <2>2 DEF ForegroundInv, ForegroundIsLive, Live
<1>9. ASSUME NEW c \in Canceller, EndCancel(c), Cancels(c) PROVE ForegroundInv'
  <2>1. c \in Run => run[c] = "replacing"
    BY <1>9 DEF RunInv, CancelersWait, Cancels
  <2>2. \A d \in Canceller : cancel'[d] = cancel[d] \/ cancel'[d].stage \in {"over", "forced"}
    <3> DEFINE k == [NoCancel EXCEPT !.stage = "over"]
    <3>1. k \in [stage : Stages, turn : 0..MaxRuns, pend : 0..MaxRuns] /\ k.stage = "over"
      BY Runs0 DEF NoCancel, Stages
    <3>2. cancel' = [cancel EXCEPT ![c] = k]
      BY <1>9 DEF EndCancel
    <3> HIDE DEF k
    <3>3. QED BY <3>1, <3>2 DEF RunInv, ManagerTyped, CancelTyped
  <2>3. CASE UNCHANGED <<manager, tail, session, process>>
    BY <1>7, <2>2, <2>3 DEF manager, session
  <2>4. CASE c \in Run /\ Free /\ StreamAgent(c)
    BY <2>1, <2>2, <2>4, StreamAgentForeground
  <2>5. CASE /\ c \in Run /\ run' = [run EXCEPT ![c] = "rejected"] /\ UNCHANGED told /\ UNCHANGED <<tail, session, process>>
    BY <1>2, <2>1, <2>2, <2>5 DEF session
  <2>6. QED BY <1>9, <2>3, <2>4, <2>5 DEF EndCancel
<1>10. ASSUME NEW c \in Canceller, TimedOut(c) PROVE ForegroundInv'
  <2>1. CASE ~MustForce(c)
    BY <1>9, <1>10, <2>1 DEF TimedOut, Cancels
  <2>2. CASE MustForce(c)
    <3> DEFINE e == [type |-> "canceled", turn |-> cancel[c].turn]
               k == [stage |-> "forced", turn |-> 0, pend |-> pendingRun]
    <3>1. Handle(e) /\ cancel' = [cancel EXCEPT ![c] = k] /\ UNCHANGED <<tail, foreground, autonomous>>
      BY <1>10, <2>2 DEF TimedOut, session
    <3>2. k \in [stage : Stages, turn : 0..MaxRuns, pend : 0..MaxRuns] /\ k.stage = "forced"
      BY Runs0 DEF RunInv, ManagerTyped, CancelTyped, Stages
    <3>3. e.turn # foreground
      BY <1>0, <1>10, <2>2 DEF TimedOut, MustForce, TurnsAreLeft, Leaves
    <3> HIDE DEF e, k
    <3>4. foreground # 0 => told'[foreground] = told[foreground]
      BY <3>1, <3>3, HandleEffect, RunFacts
    <3>5. UNCHANGED run
      BY <3>1, HandleEffect
    <3>6. \A d \in Canceller : cancel'[d] = cancel[d] \/ cancel'[d].stage \in {"over", "forced"}
      BY <3>1, <3>2 DEF RunInv, ManagerTyped, CancelTyped
    <3>7. ForegroundIsLive'
      BY <1>0, <3>1, <3>4, <3>5 DEF ForegroundIsLive, Live
    <3>8. EndsElsewhere'
      BY <1>0, <3>1, <3>5, EndsKept
    <3>9. TurnsAreLeft'
      BY <1>0, <3>1, <3>5, <3>6, LeavesKept DEF Accepted
    <3>10. QED BY <3>7, <3>8, <3>9 DEF ForegroundInv
  <2>3. QED BY <2>1, <2>2
<1>11. ASSUME NEW c \in Canceller, Interrupted(c) PROVE ForegroundInv'
  <2> DEFINE k == [cancel[c] EXCEPT !.stage = "waiting"]
  <2>1. cancel' = [cancel EXCEPT ![c] = k] BY <1>11 DEF Interrupted
  <2>2. k \in [stage : Stages, turn : 0..MaxRuns, pend : 0..MaxRuns] /\ k.turn = cancel[c].turn
    BY DEF RunInv, ManagerTyped, CancelTyped, Stages
  <2>3. cancel[c].stage = "interrupting" /\ UNCHANGED <<manager, tail, session>> BY <1>11 DEF Interrupted
  <2> HIDE DEF k
  <2>4. \A d \in Canceller : cancel'[d] = cancel[d] \/ cancel'[d].stage \in {"over", "forced"}
                              \/ (cancel'[d].turn = cancel[d].turn /\ cancel[d].stage = "interrupting")
    BY <2>1, <2>2, <2>3 DEF RunInv, ManagerTyped, CancelTyped
  <2>5. UNCHANGED <<told, run, foreground, autonomous, tail>>
    BY <2>3 DEF manager, session
  <2>6. QED BY <1>7, <2>4, <2>5
<1>12. ASSUME NEW r \in Run, Prompt(r) PROVE ForegroundInv'
  BY <1>12, StreamAgentForeground DEF Prompt, NextPrompt
<1>13. ASSUME NEW r \in Run, Replace(r) PROVE ForegroundInv'
  <2>1. BeginCancel(r) /\ UNCHANGED told /\ r \in Canceller /\ run[r] = "new" /\ run' = [run EXCEPT ![r] = "replacing"]
    BY <1>13, RunFacts DEF Replace, NextPrompt
  <2>2. \A s \in Run : run[s] # "new" => run'[s] = run[s]
    BY <2>1, RunFacts
  <2>3. QED BY <2>1, <2>2, BeginForeground
<1>14. ASSUME NEW c \in Stop, StopRun(c) PROVE ForegroundInv'
  BY <1>14, BeginForeground, Runs0 DEF StopRun, manager
<1>15. CASE Pump
  <2> DEFINE m == Head(pipe)
             ends == m.type # "assistant" /\ ~Suppressed(m.type) /\ TurnId # 0
  <2>1. UNCHANGED <<run, told, cancel>> /\ Accepted' = Accepted
    BY <1>15 DEF Pump, manager, Accepted
  <2>2. CASE ends
    <3>1. foreground' = 0 /\ \E type \in {"completed", "failed"} : tail' = Append(tail, [type |-> type, turn |-> TurnId])
      BY <1>15, <2>2 DEF Pump
    <3>2. QED BY <2>1, <3>1, TurnEndsForeground DEF Terminal
  <2>3. CASE ~ends
    <3>1. foreground' = foreground /\ autonomous' = IF m.type = "assistant" THEN autonomous \/ foreground = 0 ELSE autonomous
      BY <1>0, <1>15, <2>3, RunFacts DEF Pump
    <3>2. ForegroundIsLive'
      BY <1>0, <2>1, <3>1 DEF ForegroundIsLive, Live
    <3>3. EndsElsewhere'
      <4>1. CASE UNCHANGED tail
        BY <1>0, <2>1, <3>1, <4>1, EndsKept
      <4>2. CASE ~ UNCHANGED tail
        <5> DEFINE e == [type |-> "started", turn |-> Autonomous]
        <5>1. tail' = Append(tail, e)
          BY <1>15, <2>3, <4>2 DEF Pump
        <5>2. e \in Event
          BY EventsTyped DEF RunTypesInv
        <5>3. EndsOf(e, foreground', run')
          BY DEF EndsOf, Terminal
        <5> HIDE DEF e
        <5>4. QED BY <1>0, <2>1, <3>1, <5>1, <5>2, <5>3, EndSent
      <4>3. QED BY <4>1, <4>2
    <3>4. TurnsAreLeft'
      BY <1>0, <2>1, <3>1, LeavesKept
    <3>5. QED BY <3>2, <3>3, <3>4 DEF ForegroundInv
  <2>4. QED BY <2>2, <2>3
<1>16. CASE Dies
  <2>1. UNCHANGED <<run, told, cancel>> /\ Accepted' = Accepted /\ foreground' = 0
    BY <1>16 DEF Dies, manager, Accepted
  <2>2. CASE TurnId = 0
    <3>1. UNCHANGED tail
      BY <1>16, <2>2 DEF Dies
    <3>2. EndsElsewhere' /\ TurnsAreLeft'
      BY <1>0, <2>1, <3>1, EndsKept, LeavesKept
    <3>3. QED BY <2>1, <3>2 DEF ForegroundInv, ForegroundIsLive
  <2>3. CASE TurnId # 0
    <3>1. tail' = Append(tail, [type |-> "failed", turn |-> TurnId])
      BY <1>16, <2>3 DEF Dies
    <3>2. QED BY <2>1, <3>1, TurnEndsForeground DEF Terminal
  <2>4. QED BY <2>2, <2>3
<1>17. CASE Reads \/ Speaks \/ Answers \/ Wakes \/ UNCHANGED vars
  BY <1>7, <1>17 DEF Reads, Speaks, Answers, Wakes, elsewhere, vars, manager, session
<1>18. ASSUME NEW c \in Canceller, Canceled(c) PROVE ForegroundInv'
  BY <1>9, <1>18 DEF Canceled, Cancels
<1>19. QED
  BY <1>1, <1>3, <1>4, <1>5, <1>6, <1>10, <1>11, <1>12, <1>13, <1>14, <1>15, <1>16, <1>17, <1>18
  DEF Next, Microtask, Macrotask

------------------------------------------------------------------------------

\* An event that is sent: no turn that is said to have started ends unsaid.
LEMMA StartsSent ==
  ASSUME RunAssumption, RunInv, RunTypesInv, StartedRuns, StartedAutonomous,
         NEW e \in Event, tail' = Append(tail, e),
         \A r \in Run : run[r] = "starting" => run'[r] = "starting",
         autonomous => autonomous' \/ EndsAutonomous(e),
         e.type = "started" => \/ e.turn = Autonomous /\ autonomous'
                               \/ e.turn \in Run /\ run'[e.turn] = "starting"
  PROVE  /\ StartedRuns' /\ StartedAutonomous'
         /\ \A i \in DOMAIN tail : i \in DOMAIN tail' /\ tail'[i] = tail[i]
         /\ \E i \in DOMAIN tail' : tail'[i] = e
<1>1. tail \in Seq(Event)
  BY RunFacts
<1>2. /\ \A i \in DOMAIN tail : i \in DOMAIN tail' /\ tail'[i] = tail[i] /\ i < Len(tail) + 1
      /\ \A i \in DOMAIN tail' : i \in DOMAIN tail \/ i = Len(tail) + 1
      /\ tail'[Len(tail) + 1] = e /\ Len(tail) + 1 \in DOMAIN tail'
  BY <1>1, Appended
<1>3. StartedRuns'
  BY <1>2 DEF StartedRuns
<1>4. StartedAutonomous'
  <2>1. ASSUME NEW i \in DOMAIN tail, tail[i].type = "started", tail[i].turn = Autonomous
        PROVE  autonomous' \/ \E j \in DOMAIN tail' : i < j /\ EndsAutonomous(tail'[j])
    <3>1. autonomous \/ \E j \in DOMAIN tail : i < j /\ EndsAutonomous(tail[j])
      BY <2>1 DEF StartedAutonomous
    <3>2. QED BY <1>2, <3>1
  <2>2. e.type = "started" /\ e.turn = Autonomous => autonomous'
    BY AutonomousApart
  <2>3. QED BY <1>2, <2>1, <2>2 DEF StartedAutonomous
<1>5. QED BY <1>2, <1>3, <1>4

\* Nothing is sent.
LEMMA StartsKept ==
  ASSUME StartedRuns, StartedAutonomous, UNCHANGED tail, autonomous => autonomous',
         \A r \in Run : run[r] = "starting" => run'[r] = "starting"
  PROVE  StartedRuns' /\ StartedAutonomous'
BY DEF StartedRuns, StartedAutonomous

\* A new run is announced, after the end of the autonomous turn.
LEMMA StreamAgentShown ==
  ASSUME RunAssumption, RunInv, RunTypesInv, ShownInv, NEW r \in Run, StreamAgent(r),
         run[r] \in {"new", "replacing"}
  PROVE  ShownInv'
<1> DEFINE over == [type |-> "completed", turn |-> Autonomous]
           start == [type |-> "started", turn |-> r]
<1>1. run' = [run EXCEPT ![r] = "starting"] /\ autonomous' = FALSE /\ pendingReplacement' = FALSE
  BY DEF StreamAgent, Held
<1>2. run'[r] = "starting" /\ \A s \in Run : run[s] = "starting" => run'[s] = "starting"
  BY <1>1, RunFacts
<1>3. HoldIsReal' /\ ShownIsReal'
  BY <1>1, <1>2 DEF HoldIsReal, ShownIsReal, Real, Starting
<1>4. PICK t \in Seq(Event) :
         /\ t = IF autonomous THEN Append(tail, over) ELSE tail
         /\ tail' = Append(t, start)
         /\ start \in Event /\ over \in Event
  BY StreamAgentSends
<1>5. tail \in Seq(Event) /\ EndsAutonomous(over) /\ over.type # "started"
  BY RunFacts DEF EndsAutonomous, Terminal
<1>6. start.type = "started" /\ start.turn = r /\ r # Autonomous
  BY AutonomousApart
<1> HIDE DEF over, start
<1>7. /\ \A i \in DOMAIN tail' : i \in DOMAIN t \/ i = Len(t) + 1
      /\ \A i \in DOMAIN t : i \in DOMAIN tail' /\ tail'[i] = t[i]
      /\ tail'[Len(t) + 1] = start
  BY <1>4, Appended
<1>8. CASE ~autonomous
  <2>1. t = tail
    BY <1>4, <1>8
  <2>2. StartedRuns'
    BY <1>2, <1>6, <1>7, <2>1 DEF ShownInv, StartedRuns
  <2>3. StartedAutonomous'
    <3>1. \A i \in DOMAIN tail : tail[i].type = "started" /\ tail[i].turn = Autonomous =>
            \E j \in DOMAIN tail : i < j /\ EndsAutonomous(tail[j])
      BY <1>8 DEF ShownInv, StartedAutonomous
    <3>2. QED BY <1>6, <1>7, <2>1, <3>1 DEF StartedAutonomous
  <2>4. QED BY <1>3, <2>2, <2>3 DEF ShownInv
<1>9. CASE autonomous
  <2>1. /\ \A i \in DOMAIN t : i \in DOMAIN tail \/ i = Len(tail) + 1
        /\ \A i \in DOMAIN tail : i \in DOMAIN t /\ t[i] = tail[i] /\ i < Len(tail) + 1
        /\ t[Len(tail) + 1] = over /\ Len(tail) + 1 \in DOMAIN t
    BY <1>4, <1>5, <1>9, Appended
  <2>2. StartedRuns'
    <3>1. \A i \in DOMAIN tail' : tail'[i].type = "started" => (i \in DOMAIN tail /\ tail'[i] = tail[i]) \/ tail'[i] = start
      BY <1>5, <1>7, <2>1
    <3>2. QED BY <1>2, <1>6, <3>1 DEF ShownInv, StartedRuns
  <2>3. StartedAutonomous'
    <3>1. \A i \in DOMAIN tail' : tail'[i].type = "started" /\ tail'[i].turn = Autonomous => i < Len(tail) + 1
      BY <1>5, <1>6, <1>7, <2>1
    <3>2. Len(tail) + 1 \in DOMAIN tail' /\ EndsAutonomous(tail'[Len(tail) + 1])
      BY <1>5, <1>7, <2>1
    <3>3. QED BY <3>1, <3>2 DEF StartedAutonomous
  <2>4. QED BY <1>3, <2>2, <2>3 DEF ShownInv
<1>10. QED BY <1>8, <1>9, RunFacts

\* The session is interrupted.
LEMMA BeginShown ==
  ASSUME RunAssumption, RunInv, RunTypesInv, ShownInv, NEW c \in Canceller, BeginCancel(c),
         \/ UNCHANGED manager
         \/ c \in Run /\ run[c] = "new" /\ run' = [run EXCEPT ![c] = "replacing"]
  PROVE  ShownInv'
<1>1. \A r \in Run : run[r] = "starting" => run'[r] = "starting"
  BY RunFacts DEF manager
<1>2. /\ StartedRuns' /\ StartedAutonomous'
      /\ autonomous => autonomous' \/ \E i \in DOMAIN tail' : EndsAutonomous(tail'[i])
      /\ \A i \in DOMAIN tail : i \in DOMAIN tail' /\ tail'[i] = tail[i]
  <2>1. CASE foreground # 0
    <3> DEFINE e == [type |-> "canceled", turn |-> foreground]
    <3>1. e \in Event /\ tail' = Append(tail, e) /\ autonomous' = autonomous /\ e.type # "started"
      BY <2>1, EventsTyped, RunFacts DEF BeginCancel, InterruptSession, RunTypesInv, Terminal
    <3> HIDE DEF e
    <3>2. QED BY <1>1, <3>1, StartsSent DEF ShownInv
  <2>2. CASE foreground = 0 /\ autonomous
    <3> DEFINE e == [type |-> "completed", turn |-> Autonomous]
    <3>1. e \in Event /\ tail' = Append(tail, e)
      BY <2>2, EventsTyped DEF BeginCancel, InterruptSession, RunTypesInv, Terminal
    <3>2. EndsAutonomous(e) /\ e.type # "started"
      BY DEF EndsAutonomous, Terminal
    <3> HIDE DEF e
    <3>3. /\ StartedRuns' /\ StartedAutonomous'
          /\ \A i \in DOMAIN tail : i \in DOMAIN tail' /\ tail'[i] = tail[i]
          /\ \E i \in DOMAIN tail' : tail'[i] = e
      BY <1>1, <3>1, <3>2, StartsSent DEF ShownInv
    <3>4. QED BY <3>2, <3>3
  <2>3. CASE foreground = 0 /\ ~autonomous
    <3>1. tail' = tail
      BY <2>3 DEF BeginCancel, InterruptSession
    <3>2. QED BY <1>1, <2>3, <3>1, StartsKept DEF ShownInv
  <2>4. QED BY <2>1, <2>2, <2>3
<1>3. CASE UNCHANGED manager
  <2>1. UNCHANGED <<activeForegroundTurnId, run, lifecycle, pendingReplacement>>
    BY <1>3 DEF manager
  <2>2. HoldIsReal' /\ ShownIsReal'
    BY <1>2, <2>1 DEF ShownInv, HoldIsReal, ShownIsReal, Real, Starting, Replacing
  <2>3. QED BY <1>2, <2>2 DEF ShownInv
<1>4. CASE c \in Run /\ run' = [run EXCEPT ![c] = "replacing"]
  <2>1. Replacing'
    BY <1>4, RunFacts DEF Replacing
  <2>2. QED BY <1>2, <2>1 DEF ShownInv, HoldIsReal, ShownIsReal, Real
<1>5. QED BY <1>3, <1>4

\* What an event leaves the agent running as.
LEMMA HandleShown ==
  ASSUME HoldIsReal, NEW e, Handle(e), lifecycle' = "running"
  PROVE  \/ Replacing' \/ activeForegroundTurnId' # 0
         \/ e.type = "started"
         \/ Stale(e) /\ UNCHANGED manager
<1>1. CASE Stale(e)
  BY <1>1 DEF Handle
<1>2. CASE ~Stale(e) /\ OfActiveTurn(e) /\ e.type \in Terminal
  <2>1. UNCHANGED <<run, pendingReplacement>> /\ \E error : lifecycle' = AfterTurn(error)
    BY <1>2 DEF Handle
  <2>2. pendingReplacement
    BY <2>1 DEF AfterTurn
  <2>3. QED BY <2>1, <2>2 DEF HoldIsReal, Replacing
<1>3. CASE ~Stale(e) /\ ~(OfActiveTurn(e) /\ e.type \in Terminal)
  <2>1. /\ UNCHANGED <<run, pendingReplacement, activeForegroundTurnId>>
        /\ lifecycle' = IF OfActiveTurn(e) THEN lifecycle ELSE AfterOthers(e.type)
    BY <1>3 DEF Handle
  <2>2. OfActiveTurn(e) => activeForegroundTurnId' # 0
    BY <2>1 DEF OfActiveTurn
  <2>3. ~OfActiveTurn(e) => e.type = "started" \/ Replacing'
    BY <2>1 DEF AfterOthers, HoldIsReal, Replacing
  <2>4. QED BY <2>2, <2>3
<1>4. QED BY <1>1, <1>2, <1>3

\* The process or the session says something, and the manager has yet to hear it.
LEMMA SentShown ==
  ASSUME RunAssumption, RunInv, RunTypesInv, ShownInv, UNCHANGED manager,
         NEW e \in Event, tail' = Append(tail, e),
         autonomous => autonomous' \/ EndsAutonomous(e),
         e.type = "started" => e.turn = Autonomous /\ autonomous'
  PROVE  ShownInv'
<1>1. UNCHANGED <<lifecycle, activeForegroundTurnId, pendingReplacement, run>>
  BY DEF manager
<1>2. /\ StartedRuns' /\ StartedAutonomous'
      /\ \A i \in DOMAIN tail : i \in DOMAIN tail' /\ tail'[i] = tail[i]
      /\ \E i \in DOMAIN tail' : tail'[i] = e
  BY <1>1, StartsSent DEF ShownInv
<1>3. HoldIsReal'
  BY <1>1 DEF ShownInv, HoldIsReal, Replacing
<1>4. ASSUME lifecycle = "running" PROVE Real' \/ \E i \in DOMAIN tail' : EndsAutonomous(tail'[i])
  <2>1. Real \/ \E i \in DOMAIN tail : EndsAutonomous(tail[i])
    BY <1>4 DEF ShownInv, ShownIsReal
  <2>2. CASE Real
    BY <1>1, <1>2, <2>2 DEF Real, Starting, Replacing
  <2>3. QED BY <1>2, <2>1, <2>2
<1>5. QED BY <1>1, <1>2, <1>3, <1>4 DEF ShownInv, ShownIsReal

\* The manager hears an event.
LEMMA DispatchShown ==
  ASSUME RunAssumption, RunInv, RunTypesInv, PendingIsLive, ShownInv, Dispatch PROVE ShownInv'
<1> DEFINE e == Head(tail)
<1>1. /\ tail # <<>> /\ tail' = Tail(tail) /\ Handle(e) /\ UNCHANGED autonomous
  BY DEF Dispatch, session
<1>2. UNCHANGED <<pendingReplacement, run>>
  BY <1>1, HandleEffect
<1>3. /\ e = tail[1] /\ 1 \in DOMAIN tail /\ DOMAIN tail = 1..Len(tail) /\ Len(tail) \in Nat
      /\ \A i \in DOMAIN tail' : i + 1 \in DOMAIN tail /\ tail'[i] = tail[i + 1]
      /\ \A i \in DOMAIN tail : i # 1 => i - 1 \in DOMAIN tail' /\ tail'[i - 1] = tail[i]
      /\ tail' \in Seq(Event)
  BY <1>1, Behead, RunFacts
<1> HIDE DEF e
<1>4. HoldIsReal' /\ StartedRuns'
  BY <1>2, <1>3 DEF ShownInv, HoldIsReal, Replacing, StartedRuns
<1>5. StartedAutonomous'
  <2>1. ASSUME NEW i \in DOMAIN tail', tail'[i].type = "started", tail'[i].turn = Autonomous, ~autonomous
        PROVE  \E j \in DOMAIN tail' : i < j /\ EndsAutonomous(tail'[j])
    <3>1. PICK j \in DOMAIN tail : i + 1 < j /\ EndsAutonomous(tail[j])
      BY <1>3, <2>1 DEF ShownInv, StartedAutonomous
    <3>2. j - 1 \in DOMAIN tail' /\ i < j - 1 /\ tail'[j - 1] = tail[j]
      BY <1>3, <3>1
    <3>3. QED BY <3>1, <3>2
  <2>2. QED BY <1>1, <2>1 DEF StartedAutonomous
<1>6. ASSUME lifecycle' = "running" PROVE Real' \/ \E i \in DOMAIN tail' : EndsAutonomous(tail'[i])
  <2>1. CASE Replacing' \/ activeForegroundTurnId' # 0
    BY <2>1 DEF Real
  <2>2. CASE e.type = "started"
    <3>1. CASE e.turn \in Run /\ run[e.turn] = "starting"
      BY <1>2, <3>1 DEF Real, Starting
    <3>2. CASE e.turn = Autonomous
      <4>1. autonomous \/ \E j \in DOMAIN tail : 1 < j /\ EndsAutonomous(tail[j])
        BY <1>3, <2>2, <3>2 DEF ShownInv, StartedAutonomous
      <4>2. \A j \in DOMAIN tail : 1 < j => j # 1
        OBVIOUS
      <4>3. QED BY <1>1, <1>3, <4>1, <4>2 DEF Real
    <3>3. QED BY <1>3, <2>2, <3>1, <3>2 DEF ShownInv, StartedRuns
  <2>3. CASE Stale(e) /\ UNCHANGED manager
    <3>1. Real \/ \E i \in DOMAIN tail : EndsAutonomous(tail[i])
      BY <1>6, <2>3 DEF manager, ShownInv, ShownIsReal
    <3>2. ~EndsAutonomous(e)
      BY <2>3, AutonomousApart DEF Stale, EndsAutonomous, PendingIsLive, Accepted
    <3>3. Real => Real'
      BY <1>1, <2>3 DEF manager, Real, Starting, Replacing
    <3>4. QED BY <1>3, <3>1, <3>2, <3>3
  <2>4. QED BY <1>1, <1>6, <2>1, <2>2, <2>3, HandleShown DEF ShownInv
<1>7. QED BY <1>4, <1>5, <1>6 DEF ShownInv, ShownIsReal

\* An agent that is shown as running has something that runs.
LEMMA NextShown ==
  ASSUME RunAssumption, RunInv, RunTypesInv, PendingIsLive, ShownInv, [Next]_vars PROVE ShownInv'
<1>0. ShownInv /\ HoldIsReal /\ StartedRuns /\ StartedAutonomous /\ ShownIsReal
  BY DEF ShownInv
<1>1. ASSUME UNCHANGED <<lifecycle, activeForegroundTurnId, pendingReplacement, tail, autonomous>>,
             \A r \in Run : run[r] \in {"starting", "replacing"} => run'[r] = run[r]
      PROVE  ShownInv'
  <2>1. StartedRuns' /\ StartedAutonomous'
    BY <1>0, <1>1, StartsKept
  <2>2. HoldIsReal' /\ ShownIsReal'
    BY <1>0, <1>1 DEF HoldIsReal, ShownIsReal, Real, Starting, Replacing
  <2>3. QED BY <2>1, <2>2 DEF ShownInv
<1>2. ASSUME NEW r \in Run, Drain(r) PROVE ShownInv'
  BY <1>1, <1>2, RunFacts DEF Drain, session
<1>3. ASSUME NEW r \in Run, StartTurn(r) \/ StartTurnFails(r) \/ StartTurnThrows(r) PROVE ShownInv'
  <2>1. /\ run[r] = "starting" /\ run'[r] # "starting" /\ \A s \in Run : s # r => run'[s] = run[s]
        /\ pendingReplacement' => pendingReplacement
        /\ lifecycle' = "running" => activeForegroundTurnId' # 0
    <3>1. CASE Started(r)
      BY <3>1, RunFacts DEF Started
    <3>2. CASE StartTurnThrows(r)
      BY <3>2, RunFacts DEF StartTurnThrows
    <3>3. QED BY <1>3, <3>1, <3>2 DEF StartTurn, StartTurnFails
  <2>2. \A i \in DOMAIN tail' : tail'[i].type # "started"
    BY <1>3 DEF StartTurn, StartTurnFails, StartTurnThrows, Started
  <2>3. HoldIsReal'
    BY <1>0, <2>1 DEF HoldIsReal, Replacing
  <2>4. QED BY <2>1, <2>2, <2>3 DEF ShownInv, StartedRuns, StartedAutonomous, ShownIsReal, Real
<1>4. ASSUME NEW c \in Canceller, EndCancel(c), Cancels(c) PROVE ShownInv'
  <2>1. c \in Run => run[c] = "replacing"
    BY <1>4 DEF RunInv, CancelersWait, Cancels
  <2>2. CASE UNCHANGED <<manager, tail, session, process>>
    BY <1>1, <2>2 DEF manager, session
  <2>3. CASE c \in Run /\ StreamAgent(c)
    BY <2>1, <2>3, StreamAgentShown
  <2>4. CASE /\ c \in Run /\ run' = [run EXCEPT ![c] = "rejected"] /\ pendingReplacement' = FALSE
             /\ lifecycle' = GiveUp /\ UNCHANGED activeForegroundTurnId /\ UNCHANGED <<tail, session>>
    <3>1. \A r \in Run : run[r] = "starting" => run'[r] = "starting"
      BY <2>1, <2>4, RunFacts
    <3>2. StartedRuns' /\ StartedAutonomous'
      BY <1>0, <2>4, <3>1, StartsKept DEF session
    <3>3. lifecycle' = "running" => activeForegroundTurnId' # 0
      BY <2>4 DEF GiveUp
    <3>4. QED BY <2>4, <3>2, <3>3 DEF ShownInv, HoldIsReal, ShownIsReal, Real
  <2>5. QED BY <1>4, <2>2, <2>3, <2>4 DEF EndCancel
<1>5. ASSUME NEW c \in Canceller, Quiet, TimedOut(c) PROVE ShownInv'
  <2>1. CASE ~MustForce(c)
    BY <1>4, <1>5, <2>1 DEF TimedOut, Cancels
  <2>2. CASE MustForce(c)
    <3> DEFINE e == [type |-> "canceled", turn |-> cancel[c].turn]
    <3>1. Handle(e) /\ UNCHANGED <<tail, autonomous>> /\ tail = <<>> /\ e.type # "started"
      BY <1>5, <2>2 DEF TimedOut, session, Quiet
    <3> HIDE DEF e
    <3>2. UNCHANGED <<pendingReplacement, run>>
      BY <3>1, HandleEffect
    <3>3. StartedRuns' /\ StartedAutonomous'
      BY <1>0, <3>1, <3>2, StartsKept
    <3>4. lifecycle' = "running" => Real'
      <4>1. Stale(e) /\ UNCHANGED manager => (lifecycle = "running" => Real) /\ (Real => Real')
        BY <1>0, <3>1 DEF manager, ShownIsReal, Real, Starting, Replacing
      <4>2. QED BY <1>0, <3>1, <4>1, HandleShown DEF manager, Real
    <3>5. QED BY <1>0, <3>2, <3>3, <3>4 DEF ShownInv, ShownIsReal, HoldIsReal, Replacing
  <2>3. QED BY <2>1, <2>2
<1>6. ASSUME NEW r \in Run, Prompt(r) PROVE ShownInv'
  BY <1>6, StreamAgentShown DEF Prompt, NextPrompt
<1>7. ASSUME NEW r \in Run, Replace(r) PROVE ShownInv'
  BY <1>7, BeginShown, Runs0 DEF Replace, NextPrompt
<1>8. ASSUME NEW c \in Stop, StopRun(c) PROVE ShownInv'
  BY <1>8, BeginShown, Runs0 DEF StopRun
<1>9. CASE Pump
  <2> DEFINE m == Head(pipe)
             ends == m.type # "assistant" /\ ~Suppressed(m.type) /\ TurnId # 0
             e == IF ends THEN [type |-> IF m.type = "success" THEN "completed" ELSE "failed", turn |-> TurnId]
                  ELSE [type |-> "started", turn |-> Autonomous]
  <2>1. /\ UNCHANGED manager
        /\ autonomous' = IF m.type = "assistant" THEN autonomous \/ foreground = 0
                         ELSE autonomous /\ ~(ends /\ foreground = 0)
        /\ tail' = IF ends \/ (m.type = "assistant" /\ TurnId = 0) THEN Append(tail, e) ELSE tail
    BY <1>9 DEF Pump
  <2>2. e \in Event
    BY EventsTyped DEF RunTypesInv, Terminal
  <2>3. ends /\ foreground = 0 => e.turn = Autonomous
    BY DEF TurnId
  <2>4. /\ ends => e.type \in Terminal /\ e.type # "started"
        /\ ~ends => e.type = "started" /\ e.turn = Autonomous
    BY DEF Terminal
  <2>5. TurnId = 0 => foreground = 0
    BY DEF TurnId
  <2>6. autonomous => autonomous' \/ EndsAutonomous(e)
    BY <2>1, <2>3, <2>4 DEF EndsAutonomous
  <2> HIDE DEF e
  <2>7. CASE tail' = Append(tail, e) /\ (ends \/ (m.type = "assistant" /\ TurnId = 0))
    <3>1. e.type = "started" => e.turn = Autonomous /\ autonomous'
      BY <2>1, <2>4, <2>5, <2>7
    <3>2. QED BY <2>1, <2>2, <2>6, <2>7, <3>1, SentShown
  <2>8. CASE tail' = tail /\ ~ends
    <3>1. autonomous => autonomous'
      BY <2>1, <2>8
    <3>2. StartedRuns' /\ StartedAutonomous'
      BY <1>0, <2>1, <2>8, <3>1, StartsKept DEF manager
    <3>3. HoldIsReal' /\ ShownIsReal'
      BY <1>0, <2>1, <2>8, <3>1 DEF manager, HoldIsReal, ShownIsReal, Real, Starting, Replacing
    <3>4. QED BY <3>2, <3>3 DEF ShownInv
  <2>9. QED BY <2>1, <2>7, <2>8
<1>10. CASE Dies
  <2> DEFINE e == [type |-> "failed", turn |-> TurnId]
  <2>1. /\ UNCHANGED manager /\ autonomous' = (autonomous /\ foreground # 0)
        /\ tail' = IF TurnId = 0 THEN tail ELSE Append(tail, e)
    BY <1>10 DEF Dies
  <2>2. CASE TurnId = 0
    <3>1. tail' = tail /\ autonomous' = autonomous
      BY <2>1, <2>2, RunFacts, AutonomousApart DEF TurnId
    <3>2. QED BY <1>1, <2>1, <3>1 DEF manager
  <2>3. CASE TurnId # 0
    <3>1. e \in Event /\ e.type # "started"
      BY EventsTyped DEF RunTypesInv, Terminal
    <3>2. autonomous => autonomous' \/ EndsAutonomous(e)
      BY <2>1 DEF EndsAutonomous, TurnId, Terminal
    <3> HIDE DEF e
    <3>3. QED BY <2>1, <2>3, <3>1, <3>2, SentShown
  <2>4. QED BY <2>2, <2>3
<1>11. ASSUME NEW c \in Canceller, Interrupted(c) PROVE ShownInv'
  BY <1>1, <1>11 DEF Interrupted, manager, session
<1>12. CASE Reads \/ Speaks \/ Answers \/ Wakes \/ UNCHANGED vars
  BY <1>1, <1>12 DEF Reads, Speaks, Answers, Wakes, elsewhere, vars, manager, session
<1>13. ASSUME NEW c \in Canceller, Canceled(c) PROVE ShownInv'
  BY <1>4, <1>13 DEF Canceled, Cancels
<1>14. CASE Dispatch
  BY <1>14, DispatchShown
<1>15. QED
  BY <1>2, <1>3, <1>5, <1>6, <1>7, <1>8, <1>9, <1>10, <1>11, <1>12, <1>13, <1>14
  DEF Next, Microtask, Macrotask

------------------------------------------------------------------------------

\* A behaviour stays in its situation.
LEMMA SituationStays == ASSUME [Next]_vars PROVE UNCHANGED may
BY DEF Next, Microtask, Macrotask, Dispatch, Drain, Prompt, StreamAgent, StartTurn, StartTurnFails,
   StartTurnThrows, Fault, Replace, StopRun, BeginCancel, InterruptSession, Interrupted, Canceled, TimedOut,
   EndCancel, Reads, Speaks, Answers, Wakes, Pump, Dies, process, failures, vars

\* Whoever is pending when all is quiet has its turn.
LEMMA QuietTurn ==
  ASSUME RunAssumption, RunInv, RunTypesInv, PendingIsLive, Quiet, ~Starting
  PROVE  pendingRun = activeForegroundTurnId
<1>1. activeForegroundTurnId # 0 => pendingRun = activeForegroundTurnId
  BY RunFacts DEF Live, Waiting
<1>2. pendingRun # 0 => pendingRun \in Run /\ Waiting(pendingRun)
  BY Runs0 DEF RunInv, ManagerTyped, PendingIsLive, Live, Quiet, Starting, Waiting
<1>3. QED BY <1>1, <1>2, RunFacts

\* A replacing prompt finds the agent free when its cancellation is over.
LEMMA FreeInTheEnd ==
  ASSUME RunAssumption, RunInv, RunTypesInv, PendingIsLive, ReplacesAlone, Exclusive,
         NEW r \in Run, run[r] = "replacing",
         \/ Settled(r)
         \/ Quiet /\ cancel[r].stage = "waiting" /\ ~MustForce(r)
  PROVE  Free
<1>1. /\ pendingRun \in {0, cancel[r].pend}
      /\ cancel[r].stage = "waiting" => cancel[r].turn = cancel[r].pend
      /\ ~Starting
  BY DEF ReplacesAlone, Starting
<1>2. activeForegroundTurnId # 0 => pendingRun = activeForegroundTurnId
  BY RunFacts DEF Live, Waiting
<1>3. CASE Settled(r)
  BY <1>1, <1>2, <1>3 DEF Settled, Free
<1>4. CASE Quiet /\ cancel[r].stage = "waiting" /\ ~MustForce(r)
  <2>1. pendingRun = activeForegroundTurnId
    BY <1>1, <1>4, QuietTurn
  <2>2. QED BY <1>1, <1>4, <2>1 DEF MustForce, Free
<1>5. QED BY <1>3, <1>4

\* A cancellation goes on, or is over without a new run.
LEMMA ReplacesKept ==
  ASSUME RunAssumption, RunInv, RunTypesInv, ReplacesAlone,
         UNCHANGED run, UNCHANGED pendingReplacement, UNCHANGED may, UNCHANGED pendingRun,
         \A r \in Run : cancel'[r] = cancel[r]
                          \/ /\ cancel'[r].stage = "waiting" /\ cancel[r].stage = "interrupting"
                             /\ cancel'[r].turn = cancel[r].turn /\ cancel'[r].pend = cancel[r].pend
                          \/ (cancel'[r].stage = "forced" /\ cancel'[r].pend = pendingRun)
  PROVE  ReplacesAlone'
<1>1. SUFFICES ASSUME Exclusive, NEW r \in Run, run[r] = "replacing"
               PROVE  /\ Cancels(r)' /\ pendingRun' \in {0, cancel'[r].pend}
                      /\ cancel'[r].stage \in {"interrupting", "waiting"} => cancel'[r].turn = cancel'[r].pend
  BY DEF ReplacesAlone, Exclusive
<1>2. /\ Cancels(r) /\ pendingRun \in {0, cancel[r].pend}
      /\ cancel[r].stage \in {"interrupting", "waiting"} => cancel[r].turn = cancel[r].pend
  BY <1>1 DEF ReplacesAlone
<1>3. QED BY <1>2 DEF Cancels

\* Nobody replaces.
LEMMA ReplacesNot ==
  ASSUME \A r \in Run : run'[r] \notin {"replacing", "rejected"}
  PROVE  ReplacesAlone'
BY DEF ReplacesAlone

\* There is one replacement at a time, and it finds the agent free.
LEMMA NextReplaces ==
  ASSUME RunAssumption, RunInv, RunTypesInv, PendingIsLive, ReplacesAlone, [Next]_vars
  PROVE  ReplacesAlone'
<1>0. /\ UNCHANGED may
      /\ \A r \in Run : Cancels(r) => run[r] = "replacing"
      /\ CancelTyped
  BY SituationStays DEF RunInv, ManagerTyped, CancelersWait, Cancels
<1>1. CASE ~Exclusive
  BY <1>0, <1>1 DEF ReplacesAlone, Exclusive
<1>2. CASE Exclusive
  <2>0. \A r \in Run : run[r] # "rejected"
    BY <1>2 DEF ReplacesAlone
  <2>1. ASSUME UNCHANGED <<run, pendingReplacement, pendingRun, cancel>> PROVE ReplacesAlone'
    BY <1>0, <2>1, ReplacesKept
  <2>2. ASSUME NEW r \in Run, Drain(r) PROVE ReplacesAlone'
    <3>1. /\ run' = [run EXCEPT ![r] = "done"] /\ run[r] = "streaming" /\ pendingRun' \in {pendingRun, 0}
          /\ UNCHANGED <<pendingReplacement, cancel>>
      BY <2>2 DEF Drain, AfterRun
    <3>2. \A s \in Run : run'[s] # run[s] => run[s] = "streaming" /\ run'[s] = "done"
      BY <3>1, RunFacts
    <3>3. ASSUME NEW s \in Run, run'[s] = "replacing"
          PROVE  /\ pendingReplacement' /\ Cancels(s)' /\ pendingRun' \in {0, cancel'[s].pend}
                 /\ cancel'[s].stage \in {"interrupting", "waiting"} => cancel'[s].turn = cancel'[s].pend
      BY <1>2, <3>1, <3>2, <3>3 DEF ReplacesAlone, Cancels
    <3>4. ASSUME NEW s \in Run, run'[s] = "replacing"
          PROVE  \A t \in Run : run'[t] # "starting" /\ (run'[t] = "replacing" => t = s)
      BY <1>2, <3>2, <3>4 DEF ReplacesAlone
    <3>5. \A s \in Run : run'[s] # "rejected"
      BY <2>0, <3>2
    <3>6. QED BY <3>3, <3>4, <3>5 DEF ReplacesAlone
  <2>3. ASSUME NEW r \in Run, StartTurn(r) \/ StartTurnFails(r) \/ StartTurnThrows(r) PROVE ReplacesAlone'
    <3>1. run[r] = "starting" /\ \E next \in {"streaming", "failed"} : run' = [run EXCEPT ![r] = next]
      BY <2>3 DEF StartTurn, StartTurnFails, StartTurnThrows, Started
    <3>2. \A s \in Run : run[s] # "replacing"
      BY <1>2, <3>1 DEF ReplacesAlone
    <3>3. QED BY <2>0, <3>1, <3>2, ReplacesNot, RunFacts
  <2>4. ASSUME NEW r \in Run, run[r] # "rejected", StreamAgent(r),
               \A s \in Run : s # r => run[s] # "replacing"
        PROVE  ReplacesAlone'
    <3>1. run' = [run EXCEPT ![r] = "starting"]
      BY <2>4 DEF StreamAgent
    <3>2. QED BY <2>0, <2>4, <3>1, ReplacesNot, RunFacts
  <2>5. ASSUME NEW c \in Canceller, EndCancel(c), Cancels(c),
               Settled(c) \/ (Quiet /\ cancel[c].stage = "waiting" /\ ~MustForce(c))
        PROVE  ReplacesAlone'
    <3>1. CASE c \in Run
      <4>1. run[c] = "replacing" /\ \A s \in Run : s # c => run[s] # "replacing"
        BY <1>0, <1>2, <2>5, <3>1 DEF ReplacesAlone
      <4>2. Free
        BY <1>2, <2>5, <3>1, <4>1, FreeInTheEnd
      <4>3. QED BY <2>4, <2>5, <3>1, <4>1, <4>2, Runs0 DEF EndCancel
    <3>2. CASE c \notin Run
      <4>1. /\ UNCHANGED <<run, pendingReplacement, pendingRun>>
            /\ cancel' = [cancel EXCEPT ![c] = [NoCancel EXCEPT !.stage = "over"]]
        BY <2>5, <3>2 DEF EndCancel, manager
      <4>2. \A r \in Run : cancel'[r] = cancel[r]
        BY <1>0, <3>2, <4>1, Runs0 DEF CancelTyped
      <4>3. QED BY <1>0, <4>1, <4>2, ReplacesKept
    <3>3. QED BY <3>1, <3>2
  <2>6. ASSUME NEW c \in Canceller, Quiet, TimedOut(c) PROVE ReplacesAlone'
    <3>1. CASE ~MustForce(c)
      BY <2>5, <2>6, <3>1 DEF TimedOut, Cancels
    <3>2. CASE MustForce(c)
      <4> DEFINE k == [stage |-> "forced", turn |-> 0, pend |-> pendingRun]
      <4>1. /\ UNCHANGED <<run, pendingReplacement, pendingRun>>
            /\ cancel' = [cancel EXCEPT ![c] = k]
        BY <2>6, <3>2, HandleEffect DEF TimedOut
      <4>2. k.stage = "forced" /\ k.pend = pendingRun
        OBVIOUS
      <4> HIDE DEF k
      <4>3. \A r \in Run : cancel'[r] = cancel[r] \/ (cancel'[r].stage = "forced" /\ cancel'[r].pend = pendingRun)
        BY <1>0, <4>1, <4>2, Runs0 DEF CancelTyped
      <4>4. QED BY <1>0, <4>1, <4>3, ReplacesKept
    <3>3. QED BY <3>1, <3>2
  <2>7. ASSUME NEW c \in Canceller, Canceled(c) PROVE ReplacesAlone'
    BY <2>5, <2>7 DEF Canceled, Cancels
  <2>8. ASSUME NEW c \in Canceller, Interrupted(c) PROVE ReplacesAlone'
    <3> DEFINE k == [cancel[c] EXCEPT !.stage = "waiting"]
    <3>1. /\ cancel' = [cancel EXCEPT ![c] = k] /\ cancel[c].stage = "interrupting"
          /\ UNCHANGED <<run, pendingReplacement, pendingRun>>
      BY <2>8 DEF Interrupted, manager
    <3>2. k.stage = "waiting" /\ k.turn = cancel[c].turn /\ k.pend = cancel[c].pend
      BY <1>0 DEF CancelTyped
    <3> HIDE DEF k
    <3>3. \A r \in Run : cancel'[r] = cancel[r]
                          \/ /\ cancel'[r].stage = "waiting" /\ cancel[r].stage = "interrupting"
                             /\ cancel'[r].turn = cancel[r].turn /\ cancel'[r].pend = cancel[r].pend
      BY <1>0, <3>1, <3>2, Runs0 DEF CancelTyped
    <3>4. QED BY <1>0, <3>1, <3>3, ReplacesKept
  <2>9. ASSUME NEW r \in Run, Prompt(r) PROVE ReplacesAlone'
    BY <1>2, <2>4, <2>9 DEF Prompt, NextPrompt, Exclusive, Replacing
  <2>10. ASSUME NEW r \in Run, Replace(r) PROVE ReplacesAlone'
    <3> DEFINE k == [stage |-> IF foreground = 0 /\ query THEN "interrupting" ELSE "waiting",
                     turn |-> activeForegroundTurnId, pend |-> pendingRun]
    <3>1. /\ run' = [run EXCEPT ![r] = "replacing"] /\ pendingReplacement' = TRUE /\ UNCHANGED pendingRun
          /\ cancel' = [cancel EXCEPT ![r] = k]
      BY <2>10 DEF Replace, BeginCancel
    <3>2. ~Replacing /\ ~Starting /\ Quiet
      BY <1>2, <2>10 DEF Replace, MayCancel, Exclusive
    <3>3. pendingRun = activeForegroundTurnId
      BY <3>2, QuietTurn
    <3>4. k.stage \in {"interrupting", "waiting"} /\ k.turn = k.pend /\ k.pend = pendingRun
      BY <3>3
    <3> HIDE DEF k
    <3>5. cancel'[r] = k
      BY <1>0, <3>1, Runs0 DEF CancelTyped
    <3>6. \A s \in Run : IF s = r THEN run'[s] = "replacing" ELSE run'[s] = run[s]
      BY <3>1, RunFacts
    <3>7. \A s \in Run : run'[s] \notin {"starting", "rejected"} /\ (run'[s] = "replacing" => s = r)
      BY <2>0, <3>2, <3>6 DEF Starting, Replacing
    <3>8. QED BY <3>1, <3>4, <3>5, <3>7 DEF ReplacesAlone, Cancels
  <2>11. ASSUME NEW c \in Stop, StopRun(c) PROVE ReplacesAlone'
    BY <1>2, <2>0, <2>11, ReplacesNot DEF StopRun, Exclusive, Replacing, manager
  <2>12. CASE Dispatch
    BY <2>1, <2>12, HandleEffect DEF Dispatch
  <2>13. CASE Reads \/ Speaks \/ Answers \/ Wakes \/ Pump \/ Dies \/ UNCHANGED vars
    BY <2>1, <2>13 DEF Reads, Speaks, Answers, Wakes, Pump, Dies, elsewhere, vars, manager
  <2>14. QED
    BY <2>2, <2>3, <2>6, <2>7, <2>8, <2>9, <2>10, <2>11, <2>12, <2>13 DEF Next, Microtask, Macrotask
<1>3. QED BY <1>1, <1>2

------------------------------------------------------------------------------

\* Manager and session agree, at first and after every step.
LEMMA InitBusy == ASSUME RunAssumption, Init PROVE BusyInv
<1>1. RunInv /\ RunTypesInv
  BY InitRun, InitRunTypes
<1>2. ForegroundInv /\ PendingIsLive /\ ShownInv /\ ReplacesAlone
  <2>1. /\ foreground = 0 /\ tail = <<>> /\ pendingRun = 0 /\ activeForegroundTurnId = 0 /\ finalized = {}
        /\ lifecycle = "idle" /\ pendingReplacement = FALSE /\ \A r \in Run : run[r] = "new"
        /\ \A c \in Canceller : cancel[c].stage = "none"
    BY DEF Init, NoCancel
  <2>2. DOMAIN tail = {}
    BY <2>1
  <2>3. QED
    BY <2>1, <2>2 DEF ForegroundInv, ForegroundIsLive, EndsElsewhere, TurnsAreLeft, Leaves, PendingIsLive, ShownInv,
       HoldIsReal, StartedRuns, StartedAutonomous, ShownIsReal, ReplacesAlone
<1>3. QED BY <1>1, <1>2 DEF BusyInv

LEMMA NextBusy == ASSUME RunAssumption, BusyInv, [Next]_vars PROVE BusyInv'
BY NextRun, NextRunTypes, NextForeground, NextPending, NextShown, NextReplaces DEF BusyInv

\* A run that is accepted finds the session free, a prompt that replaced a run is
\* accepted, and an agent that is shown as running has something that runs, for
\* any number of prompts, stops, background tasks and failures
\* (claude/agent.ts:1730, agent-manager.ts:1678).
THEOREM PromptsAreAdmitted == RunAssumption /\ Spec => []Admits
<1>1. RunAssumption /\ Init => BusyInv
  BY InitBusy
<1>2. RunAssumption /\ BusyInv /\ [Next]_vars => BusyInv'
  BY NextBusy
<1>3. ASSUME RunAssumption, BusyInv PROVE Admits
  <2>1. SessionFree
    BY <1>3, RunFacts DEF BusyInv, ForegroundInv, ForegroundIsLive, Free, SessionFree
  <2>2. NotRejected
    BY <1>3 DEF BusyInv, ReplacesAlone, Exclusive, NotRejected
  <2>3. ASSUME Quiet, lifecycle = "running" PROVE ~Free \/ autonomous \/ Replacing
    <3>1. DOMAIN tail = {}
      BY <2>3 DEF Quiet
    <3>2. Real
      BY <1>3, <2>3, <3>1 DEF BusyInv, ShownInv, ShownIsReal
    <3>3. Starting => pendingRun # 0
      BY <1>3, RunFacts DEF BusyInv, Starting, Live
    <3>4. QED BY <3>2, <3>3 DEF Real, Free
  <2>4. QED BY <2>1, <2>2, <2>3 DEF Admits, BusyIsReal
<1>4. QED BY <1>1, <1>2, <1>3, RunAssumption, PTL DEF Spec

------------------------------------------------------------------------------
(* What is shown while a run is replaced. *)

\* Only a process that is up has anything to read or to say.
LEMMA NextQuery == ASSUME NoQuery, RunTypesInv, [Next]_vars PROVE NoQuery'
<1>1. ASSUME UNCHANGED <<query, stdin, job, pipe>> PROVE NoQuery'
  BY <1>1 DEF NoQuery
<1>2. ASSUME InterruptSession PROVE NoQuery'
  BY <1>2 DEF InterruptSession, NoQuery
<1>3. ASSUME NEW r, StreamAgent(r) PROVE NoQuery'
  BY <1>1, <1>3 DEF StreamAgent, process
<1>4. ASSUME NEW c, EndCancel(c) PROVE NoQuery'
  BY <1>1, <1>3, <1>4 DEF EndCancel, process
<1>5. CASE Reads \/ Speaks \/ Answers \/ Wakes
  <2>1. query /\ query' = query
    BY <1>5 DEF Reads, Speaks, Answers, Wakes, NoQuery
  <2>2. QED BY <2>1 DEF NoQuery
<1>6. CASE Pump
  BY <1>6 DEF Pump, NoQuery
<1>7. CASE Dies
  BY <1>7 DEF Dies, NoQuery
<1>8. CASE Dispatch \/ \E r \in Run : Drain(r)
  BY <1>1, <1>8 DEF Dispatch, Drain, process
<1>9. ASSUME NEW r \in Run, StartTurn(r) \/ StartTurnFails(r) \/ StartTurnThrows(r) PROVE NoQuery'
  BY <1>1, <1>9 DEF StartTurn, StartTurnFails, StartTurnThrows, NoQuery
<1>10. ASSUME NEW c \in Canceller, Canceled(c) \/ Interrupted(c) \/ TimedOut(c) PROVE NoQuery'
  BY <1>1, <1>4, <1>10 DEF Canceled, Interrupted, TimedOut, process
<1>11. ASSUME NEW r \in Run, Prompt(r) \/ Replace(r) PROVE NoQuery'
  BY <1>2, <1>3, <1>11 DEF Prompt, Replace, BeginCancel
<1>12. ASSUME NEW c \in Stop, StopRun(c) PROVE NoQuery'
  BY <1>2, <1>12 DEF StopRun, BeginCancel
<1>13. CASE UNCHANGED vars
  BY <1>1, <1>13 DEF vars, process
<1>14. QED
  BY <1>5, <1>6, <1>7, <1>8, <1>9, <1>10, <1>11, <1>12, <1>13 DEF Next, Microtask, Macrotask

\* The session has no turn but the active one when all is quiet.
LEMMA QuietSession ==
  ASSUME RunAssumption, BusyInv, ~may.early, TurnsMatch, Quiet
  PROVE  /\ tail = <<>>
         /\ ~Starting => foreground = activeForegroundTurnId
<1>1. tail = <<>> /\ DOMAIN tail = {} /\ Len(tail) = 0
  BY DEF Quiet
<1>2. activeForegroundTurnId # 0 => foreground = activeForegroundTurnId
  BY <1>1 DEF TurnsMatch
<1>3. ASSUME ~Starting, foreground # 0 PROVE activeForegroundTurnId = foreground
  BY <1>3, RunFacts DEF BusyInv, ForegroundInv, ForegroundIsLive, Live, Waiting, Starting
<1>4. QED BY <1>1, <1>2, <1>3

\* An event follows an empty tail.
LEMMA OneEvent ==
  ASSUME NEW e, tail = <<>>, tail' = Append(tail, e)
  PROVE  Len(tail') = 1 /\ tail'[1] = e /\ DOMAIN tail' = {1}
<1>1. tail' = <<e>>
  OBVIOUS
<1>2. QED BY <1>1

\* The session's turn is over and its end is sent: or there was none.
LEMMA TurnGoes ==
  ASSUME RunAssumption, BusyInv, ~Starting', UNCHANGED activeForegroundTurnId, tail = <<>>, foreground = activeForegroundTurnId, foreground' = 0,
         NEW type \in Terminal,
         tail' = IF TurnId = 0 THEN tail ELSE Append(tail, [type |-> type, turn |-> TurnId])
  PROVE  TurnsMatch'
<1>1. CASE TurnId = 0
  BY <1>1 DEF TurnId, TurnsMatch, Starting
<1>2. CASE TurnId # 0
  <2> DEFINE e == [type |-> type, turn |-> TurnId]
  <2>1. Len(tail') = 1 /\ tail'[1] = e /\ DOMAIN tail' = {1}
    BY <1>2, OneEvent
  <2>2. e.type \in Terminal /\ e.turn = TurnId
    OBVIOUS
  <2> HIDE DEF e
  <2>3. QED BY <1>2, <2>1, <2>2 DEF TurnId, TurnsMatch, Starting
<1>3. QED BY <1>1, <1>2

\* A free session takes a new run.
LEMMA StreamAgentTurns ==
  ASSUME RunAssumption, BusyInv, ~may.early, TurnsMatch, NEW r \in Run, Free, StreamAgent(r) PROVE TurnsMatch'
<1> DEFINE over == [type |-> "completed", turn |-> Autonomous]
           start == [type |-> "started", turn |-> r]
<1>1. /\ run' = [run EXCEPT ![r] = "starting"] /\ foreground' = r /\ activeForegroundTurnId' = 0
      /\ activeForegroundTurnId = 0
  BY DEF StreamAgent, Free
<1>2. \A s \in Run : run'[s] = "starting" => s = r
  BY <1>1, RunFacts DEF BusyInv, Free, Live
<1>3. PICK t \in Seq(Event) :
         /\ t = IF autonomous THEN Append(tail, over) ELSE tail
         /\ tail' = Append(t, start)
         /\ start \in Event /\ over \in Event
  BY StreamAgentSends DEF BusyInv
<1>4. tail \in Seq(Event) /\ over.turn = Autonomous /\ start.type \notin Terminal
  BY RunFacts DEF BusyInv, Terminal
<1> HIDE DEF over, start
<1>5. \A i \in DOMAIN tail : tail[i].type \in Terminal => tail[i].turn = Autonomous
  BY <1>1 DEF TurnsMatch
<1>6. \A i \in DOMAIN t : t[i] = over \/ (i \in DOMAIN tail /\ t[i] = tail[i])
  BY <1>3, <1>4, Appended
<1>7. \A i \in DOMAIN tail' : tail'[i] = start \/ (i \in DOMAIN t /\ tail'[i] = t[i])
  BY <1>3, Appended
<1>8. \A i \in DOMAIN tail' : tail'[i].type \in Terminal => tail'[i].turn = Autonomous
  BY <1>4, <1>5, <1>6, <1>7
<1>9. QED BY <1>1, <1>2, <1>8 DEF TurnsMatch

\* If nobody cancels a run that starts, the manager and the session go together.
LEMMA NextTurns ==
  ASSUME RunAssumption, BusyInv, NoQuery, TurnsMatch, [Next]_vars PROVE TurnsMatch'
<1>0. /\ UNCHANGED may /\ RunInv /\ RunTypesInv /\ tail \in Seq(Event)
      /\ \A r \in Run : Cancels(r) => run[r] = "replacing"
  BY SituationStays, RunFacts DEF BusyInv, RunInv, CancelersWait, Cancels
<1>1. CASE may.early
  BY <1>0, <1>1 DEF TurnsMatch
<1>2. CASE ~may.early
  <2>1. ASSUME UNCHANGED <<activeForegroundTurnId, foreground, tail>>,
               \A r \in Run : run'[r] = "starting" => run[r] = "starting"
        PROVE  TurnsMatch'
    BY <1>2, <2>1 DEF TurnsMatch
  <2>2. CASE Dispatch
    <3> DEFINE e == Head(tail)
    <3>1. tail # <<>> /\ tail' = Tail(tail) /\ Handle(e) /\ UNCHANGED foreground
      BY <2>2 DEF Dispatch, session
    <3>2. UNCHANGED run
      BY <3>1, HandleEffect
    <3>3. /\ e = tail[1] /\ Len(tail') = Len(tail) - 1
          /\ \A i \in DOMAIN tail' : i + 1 \in DOMAIN tail /\ tail'[i] = tail[i + 1]
          /\ DOMAIN tail' = 1..Len(tail')
      BY <1>0, <3>1, Behead
    <3> HIDE DEF e
    <3>4. CASE activeForegroundTurnId # 0
      <4>1. Len(tail) = 1 /\ e.type \in Terminal /\ e.turn = activeForegroundTurnId
        BY <1>2, <3>1, <3>3, <3>4 DEF TurnsMatch
      <4>2. activeForegroundTurnId' = 0
        BY <3>1, <3>4, <4>1 DEF Handle, Stale, OfActiveTurn, BusyInv, PendingIsLive
      <4>3. DOMAIN tail' = {}
        BY <3>3, <4>1
      <4>4. QED BY <1>2, <3>1, <3>2, <4>2, <4>3 DEF TurnsMatch
    <3>5. CASE activeForegroundTurnId = 0
      <4>1. activeForegroundTurnId' = 0
        BY <3>1, <3>5, HandleEffect
      <4>2. QED BY <1>2, <3>1, <3>2, <3>3, <3>5, <4>1 DEF TurnsMatch
    <3>6. QED BY <3>4, <3>5
  <2>3. ASSUME NEW r \in Run, Drain(r) PROVE TurnsMatch'
    BY <1>0, <2>1, <2>3, RunFacts DEF Drain, session
  <2>4. ASSUME NEW r \in Run, StartTurn(r) \/ StartTurnFails(r) \/ StartTurnThrows(r) PROVE TurnsMatch'
    <3>1. /\ run[r] = "starting" /\ run'[r] # "starting" /\ \A s \in Run : s # r => run'[s] = run[s]
          /\ tail = <<>> /\ \A s \in Run : run[s] = "starting" => s = r
      <4>1. run[r] = "starting" /\ tail = <<>> /\ \E next \in {"streaming", "failed"} : run' = [run EXCEPT ![r] = next]
        BY <2>4 DEF StartTurn, StartTurnFails, StartTurnThrows, Started
      <4>2. QED BY <1>0, <4>1, RunFacts, Alone DEF Live
    <3>2. foreground = r /\ r # 0 /\ ~Starting'
      BY <1>0, <1>2, <3>1, RunFacts DEF TurnsMatch, Starting
    <3>3. CASE StartTurn(r)
      BY <3>1, <3>2, <3>3 DEF StartTurn, Started, session, TurnsMatch, Starting
    <3>4. CASE StartTurnFails(r)
      <4>1. activeForegroundTurnId' = r /\ foreground' = 0 /\ tail' = <<[type |-> "failed", turn |-> r]>>
        BY <3>2, <3>4 DEF StartTurnFails, Started, TurnId
      <4>2. Len(tail') = 1 /\ tail'[1].type \in Terminal /\ tail'[1].turn = r
        BY <4>1 DEF Terminal
      <4>3. QED BY <3>2, <4>1, <4>2 DEF TurnsMatch, Starting
    <3>5. CASE StartTurnThrows(r)
      <4>1. activeForegroundTurnId' = 0 /\ tail' = <<>>
        BY <3>1, <3>5 DEF StartTurnThrows
      <4>2. QED BY <3>2, <4>1 DEF TurnsMatch, Starting
    <3>6. QED BY <2>4, <3>3, <3>4, <3>5
  <2>5. ASSUME NEW c \in Canceller, EndCancel(c), Cancels(c) PROVE TurnsMatch'
    <3>1. CASE UNCHANGED <<manager, tail, session, process>>
      BY <2>1, <3>1 DEF manager, session
    <3>2. CASE c \in Run /\ Free /\ StreamAgent(c)
      BY <1>2, <3>2, StreamAgentTurns
    <3>3. CASE /\ c \in Run /\ run' = [run EXCEPT ![c] = "rejected"]
               /\ UNCHANGED activeForegroundTurnId /\ UNCHANGED <<tail, session, process>>
      BY <1>0, <2>1, <3>3, RunFacts DEF session
    <3>4. QED BY <2>5, <3>1, <3>2, <3>3 DEF EndCancel
  <2>6. ASSUME NEW c \in Canceller, Quiet, TimedOut(c) PROVE TurnsMatch'
    <3>1. ~MustForce(c)
      <4>1. cancel[c].turn # 0 => cancel[c].turn # foreground
        BY <2>6 DEF TimedOut, BusyInv, ForegroundInv, TurnsAreLeft, Leaves
      <4>2. activeForegroundTurnId # 0 => foreground = activeForegroundTurnId
        BY <1>2, <2>6 DEF TurnsMatch, Quiet
      <4>3. QED BY <4>1, <4>2 DEF MustForce
    <3>2. QED BY <2>5, <2>6, <3>1 DEF TimedOut, Cancels
  <2>7. ASSUME NEW c \in Canceller, Canceled(c) \/ Interrupted(c) PROVE TurnsMatch'
    BY <2>1, <2>5, <2>7 DEF Canceled, Interrupted, Cancels, manager, session
  <2>8. ASSUME NEW r \in Run, Prompt(r) PROVE TurnsMatch'
    BY <1>2, <2>8, StreamAgentTurns DEF Prompt
  <2>9. ASSUME Quiet, ~Starting, ~Starting', UNCHANGED activeForegroundTurnId, InterruptSession PROVE TurnsMatch'
    <3>1. tail = <<>> /\ foreground = activeForegroundTurnId
      BY <1>2, <2>9, QuietSession
    <3>2. foreground' = 0 /\ \E type \in Terminal :
            tail' = IF TurnId = 0 THEN tail ELSE Append(tail, [type |-> type, turn |-> TurnId])
      BY <2>9, AutonomousApart DEF InterruptSession, TurnId, Terminal
    <3>3. QED BY <2>9, <3>1, <3>2, TurnGoes
  <2>10. ASSUME NEW r \in Run, Replace(r) PROVE TurnsMatch'
    <3>1. Quiet /\ ~Starting /\ run' = [run EXCEPT ![r] = "replacing"] /\ UNCHANGED activeForegroundTurnId
          /\ InterruptSession
      BY <1>2, <2>10 DEF Replace, MayCancel, BeginCancel
    <3>2. ~Starting'
      BY <1>0, <3>1, RunFacts DEF Starting
    <3>3. QED BY <2>9, <3>1, <3>2
  <2>11. ASSUME NEW c \in Stop, StopRun(c) PROVE TurnsMatch'
    BY <1>2, <2>9, <2>11 DEF StopRun, MayCancel, BeginCancel, manager, Starting
  <2>12. CASE Quiet /\ Pump
    <3> DEFINE m == Head(pipe)
               ends == m.type # "assistant" /\ ~Suppressed(m.type) /\ TurnId # 0
    <3>1. ~Starting /\ ~Starting' /\ UNCHANGED <<activeForegroundTurnId, run>>
      BY <2>12 DEF Pump, NoQuery, Quiet, Starting, manager
    <3>2. tail = <<>> /\ foreground = activeForegroundTurnId
      BY <1>2, <2>12, <3>1, QuietSession
    <3>3. CASE ends
      <4>1. foreground' = 0 /\ \E type \in {"completed", "failed"} : tail' = Append(tail, [type |-> type, turn |-> TurnId])
        BY <2>12, <3>3 DEF Pump
      <4>2. TurnId # 0
        BY <3>3
      <4>3. QED BY <3>1, <3>2, <4>1, <4>2, TurnGoes DEF Terminal
    <3>4. CASE ~ends /\ tail' = tail
      BY <2>1, <2>12, <3>1, <3>4 DEF Pump
    <3>5. CASE ~ends /\ tail' # tail
      <4> DEFINE e == [type |-> "started", turn |-> Autonomous]
      <4>1. TurnId = 0 /\ tail' = Append(tail, e)
        BY <2>12, <3>5 DEF Pump
      <4>2. Len(tail') = 1 /\ tail'[1] = e /\ DOMAIN tail' = {1}
        BY <3>2, <4>1, OneEvent
      <4>3. e.type \notin Terminal
        BY DEF Terminal
      <4> HIDE DEF e
      <4>4. QED BY <3>1, <3>2, <4>1, <4>2, <4>3 DEF TurnsMatch, TurnId, Starting
    <3>6. QED BY <3>3, <3>4, <3>5
  <2>13. CASE Quiet /\ Dies
    <3>1. ~Starting /\ ~Starting' /\ UNCHANGED <<activeForegroundTurnId, run>>
      BY <2>13 DEF Dies, Quiet, Starting, manager
    <3>2. tail = <<>> /\ foreground = activeForegroundTurnId
      BY <1>2, <2>13, <3>1, QuietSession
    <3>3. foreground' = 0 /\ tail' = IF TurnId = 0 THEN tail ELSE Append(tail, [type |-> "failed", turn |-> TurnId])
      BY <2>13 DEF Dies
    <3>4. QED BY <3>1, <3>2, <3>3, TurnGoes DEF Terminal
  <2>14. CASE Reads \/ Speaks \/ Answers \/ Wakes \/ UNCHANGED vars
    BY <2>1, <2>14 DEF Reads, Speaks, Answers, Wakes, elsewhere, vars, manager, session
  <2>15. QED
    BY <2>2, <2>3, <2>4, <2>6, <2>7, <2>8, <2>10, <2>11, <2>12, <2>13, <2>14 DEF Next, Microtask, Macrotask
<1>3. QED BY <1>1, <1>2

\* When the turn of a replaced run ends, the agent goes on running; another turn
\* that ends is autonomous.
LEMMA HandleShowsNoIdle ==
  ASSUME RunAssumption, BusyInv, Exclusive, NEW e \in Event, Handle(e), lifecycle = "running", lifecycle' = "idle"
  PROVE  /\ \A r \in Run : run'[r] # "replacing" /\ UNCHANGED run
         /\ OfActiveTurn(e) => \A r \in Run : run'[r] # "starting" /\ ~Waiting(r)'
         /\ ~OfActiveTurn(e) => e.type \in Terminal
<1>1. ~Stale(e)
  BY DEF Handle, manager
<1>2. /\ UNCHANGED <<pendingReplacement, run>>
      /\ told' = [r \in Run |-> IF Ends(e) /\ r = e.turn /\ Waiting(r) THEN e.type ELSE told[r]]
      /\ \E error : lifecycle' = IF OfActiveTurn(e) /\ e.type \in Terminal THEN AfterTurn(error)
                                 ELSE IF OfActiveTurn(e) THEN lifecycle ELSE AfterOthers(e.type)
  BY <1>1 DEF Handle
<1>3. ~pendingReplacement /\ (OfActiveTurn(e) => e.type \in Terminal) /\ e.type # "started"
  <2>1. CASE OfActiveTurn(e)
    BY <1>2, <2>1 DEF AfterTurn, Terminal
  <2>2. CASE ~OfActiveTurn(e)
    <3>1. AfterOthers(e.type) = "idle"
      BY <1>2, <2>2
    <3>2. QED BY <2>2, <3>1 DEF AfterOthers
  <2>3. QED BY <2>1, <2>2
<1>4. \A r \in Run : run'[r] # "replacing" /\ UNCHANGED run
  BY <1>2, <1>3 DEF BusyInv, ReplacesAlone
<1>5. ASSUME OfActiveTurn(e), NEW r \in Run PROVE run'[r] # "starting" /\ ~Waiting(r)'
  <2>1. activeForegroundTurnId = e.turn /\ e.turn # 0 /\ (Waiting(r) <=> r = e.turn)
    BY <1>5, RunFacts DEF OfActiveTurn, BusyInv
  <2>2. ~Waiting(r)'
    BY <1>2, <1>3, <1>5, <2>1, RunFacts DEF Ends, Waiting, Terminal
  <2>3. QED BY <1>2, <2>1, <2>2, Alone DEF BusyInv
<1>6. QED BY <1>2, <1>3, <1>4, <1>5 DEF Event

\* The inductive invariant of ReplacingShowsNoIdle.
TurnsInv == BusyInv /\ NoQuery /\ TurnsMatch

\* Their turns match, at first and after every step.
LEMMA InitTurns == ASSUME RunAssumption, Init PROVE TurnsInv
<1>1. /\ foreground = 0 /\ tail = <<>> /\ activeForegroundTurnId = 0 /\ \A r \in Run : run[r] = "new"
      /\ pipe = <<>> /\ stdin = <<>> /\ job = 0
  BY DEF Init
<1>2. DOMAIN tail = {}
  BY <1>1
<1>3. QED BY <1>1, <1>2, InitBusy DEF TurnsInv, NoQuery, TurnsMatch

LEMMA NextTurnsInv == ASSUME RunAssumption, TurnsInv, [Next]_vars PROVE TurnsInv'
BY NextBusy, NextQuery, NextTurns DEF TurnsInv, BusyInv

\* Whoever watches an agent does not see it idle between the run that was cancelled
\* and the one that replaces it, nor while the new one runs, but for a turn the
\* process has begun by itself and that startTurn completes (agent-manager.ts:1678,
\* agent-manager.test.ts:2901).
THEOREM ReplacingShowsNoIdle == RunAssumption /\ Spec => NoIdleGap
<1> DEFINE Gap(r) == Replaced(r) =>
                       /\ run'[r] # "replacing" /\ ~Waiting(r)'
                       /\ run'[r] = "starting" => CompletesAutonomous
           Shown == ~may.early /\ ~may.overlap /\ lifecycle = "running" /\ lifecycle' = "idle" => \A r \in Run : Gap(r)
<1>1. RunAssumption /\ Init => TurnsInv
  BY InitTurns
<1>2. RunAssumption /\ TurnsInv /\ [Next]_vars => TurnsInv'
  BY NextTurnsInv
<1>3. ASSUME RunAssumption, TurnsInv, [Next]_vars PROVE Shown
  <2>1. SUFFICES ASSUME ~may.early, Exclusive, lifecycle = "running", lifecycle' = "idle", NEW r \in Run
                 PROVE  Gap(r)
    BY DEF Exclusive
  <2>0. BusyInv /\ TurnsMatch
    BY <1>3 DEF TurnsInv
  <2>2. ASSUME NEW e \in Event, Handle(e), OfActiveTurn(e) PROVE Gap(r)
    BY <2>0, <1>3, <2>1, <2>2, HandleShowsNoIdle
  <2>3. CASE Dispatch
    <3>1. /\ Handle(Head(tail)) /\ tail # <<>> /\ Head(tail) = tail[1] /\ Head(tail) \in Event
          /\ 1 \in DOMAIN tail /\ Len(tail) # 0
      BY <2>0, <1>3, <2>3, RunFacts, Behead DEF Dispatch, BusyInv
    <3>2. CASE OfActiveTurn(Head(tail))
      BY <2>2, <3>1, <3>2
    <3>3. CASE ~OfActiveTurn(Head(tail))
      <4>1. /\ run'[r] # "replacing" /\ UNCHANGED run /\ Head(tail).type \in Terminal
        BY <2>0, <1>3, <2>1, <3>1, <3>3, HandleShowsNoIdle
      <4>2. activeForegroundTurnId = 0 /\ Head(tail).turn = Autonomous
        BY <2>0, <1>3, <2>1, <3>1, <3>3, <4>1 DEF TurnsMatch, OfActiveTurn
      <4>3. ~Waiting(r)'
        BY <2>0, <1>3, <3>1, <4>2, HandleEffect, RunFacts DEF BusyInv, Waiting
      <4>4. QED BY <3>1, <4>1, <4>2, <4>3 DEF CompletesAutonomous
    <3>4. QED BY <3>2, <3>3
  <2>4. ASSUME NEW c \in Canceller, EndCancel(c), Cancels(c),
               Settled(c) \/ (Quiet /\ cancel[c].stage = "waiting" /\ ~MustForce(c))
        PROVE  FALSE
    <3>1. c \in Run => run[c] = "replacing"
      BY <2>0, <1>3, <2>4 DEF BusyInv, RunInv, CancelersWait, Cancels
    <3>2. c \in Run => Free
      BY <2>0, <1>3, <2>1, <2>4, <3>1, FreeInTheEnd DEF BusyInv
    <3>3. QED BY <2>1, <2>4, <3>2, Runs0 DEF EndCancel, StreamAgent, manager
  <2>5. ASSUME NEW c \in Canceller, Quiet, TimedOut(c) PROVE Gap(r)
    <3>1. CASE ~MustForce(c)
      BY <2>4, <2>5, <3>1 DEF TimedOut, Cancels
    <3>2. CASE MustForce(c)
      <4> DEFINE e == [type |-> "canceled", turn |-> cancel[c].turn]
      <4>1. Handle(e) /\ OfActiveTurn(e)
        BY <2>5, <3>2 DEF TimedOut, MustForce, OfActiveTurn
      <4>2. e \in Event
        BY <2>0, <1>3, Numbers DEF BusyInv, RunInv, ManagerTyped, CancelTyped, Event, Terminal
      <4> HIDE DEF e
      <4>3. QED BY <2>2, <4>1, <4>2
    <3>3. QED BY <3>1, <3>2
  <2>6. ASSUME NEW s \in Run, Drain(s) \/ Prompt(s) \/ Replace(s) \/ StartTurn(s) \/ StartTurnFails(s) \/ StartTurnThrows(s)
        PROVE  FALSE
    BY <2>1, <2>6 DEF Drain, Prompt, StreamAgent, Replace, StartTurn, StartTurnFails, StartTurnThrows, Started
  <2>7. ASSUME NEW c \in Canceller, StopRun(c) \/ Interrupted(c) PROVE FALSE
    BY <2>1, <2>7 DEF StopRun, Interrupted, manager
  <2>8. CASE Reads \/ Speaks \/ Answers \/ Wakes \/ Pump \/ Dies \/ UNCHANGED vars
    BY <2>1, <2>8 DEF Reads, Speaks, Answers, Wakes, Pump, Dies, elsewhere, vars, manager
  <2>9. ASSUME NEW c \in Canceller, Canceled(c) PROVE FALSE
    BY <2>4, <2>9 DEF Canceled, Cancels
  <2>10. QED
    BY <2>0, <1>3, <2>3, <2>5, <2>6, <2>7, <2>8, <2>9, Runs0 DEF Next, Microtask, Macrotask
<1>4. QED BY <1>1, <1>2, <1>3, RunAssumption, PTL DEF Spec, NoIdleGap

------------------------------------------------------------------------------
(* A turn ends, and by the answer to its own prompt. *)

\* What the process is told and says, in short.
LEMMA LineFacts ==
  ASSUME RunAssumption, TurnsInv
  PROVE  /\ stdin \in Seq(1..Interrupt) /\ pipe \in Seq(Message) /\ tail \in Seq(Event)
         /\ Accepted \subseteq Run /\ 0 \notin Run /\ Interrupt \notin Run
         /\ \A i \in DOMAIN stdin : stdin[i] # 0
         /\ \A i \in DOMAIN pipe : pipe[i].of # 0 /\ pipe[i].type \in {"assistant", "success", "error", "abort"}
         /\ tasks \in Nat /\ faults \in Nat /\ answered \subseteq Run
         /\ Interrupt # 0 /\ Interrupt \in 1..Interrupt
<1>1. /\ stdin \in Seq(1..Interrupt) /\ pipe \in Seq(Message) /\ tail \in Seq(Event)
      /\ tasks \in Nat /\ faults \in Nat /\ answered \subseteq Run
  BY RunFacts DEF TurnsInv, BusyInv, RunTypesInv, ProcessTyped
<1>2. /\ \A i \in DOMAIN stdin : stdin[i] # 0
      /\ \A i \in DOMAIN pipe : pipe[i] \in Message
  <2>1. 0 \notin 1..Interrupt
    BY DEF RunAssumption, Interrupt
  <2>2. \A i \in DOMAIN stdin : stdin[i] \in 1..Interrupt
    BY <1>1, StdinTyped
  <2>3. \A i \in DOMAIN pipe : pipe[i] \in Message
    BY <1>1
  <2>4. QED BY <2>1, <2>2, <2>3
<1>3. \A i \in DOMAIN pipe : pipe[i].of # 0 /\ pipe[i].type \in {"assistant", "success", "error", "abort"}
  BY <1>2 DEF Message
<1>4. QED BY <1>1, <1>2, <1>3, AutonomousApart, Runs0, Numbers DEF Accepted

\* The tasks and failures there are only become more.
LEMMA Peace ==
  ASSUME RunAssumption, TurnsInv, [Next]_vars
  PROVE  /\ UNCHANGED may /\ tasks' \in {tasks, tasks + 1} /\ faults' \in {faults, faults + 1}
         /\ Peaceful' => Peaceful
         /\ faults' <= 1 => faults <= 1 /\ (faults' # faults => faults = 0 /\ faults' = 1)
<1>1. UNCHANGED may
  BY SituationStays
<1>2. tasks' \in {tasks, tasks + 1} /\ faults' \in {faults, faults + 1}
  BY DEF Next, Microtask, Macrotask, Dispatch, Drain, Prompt, StreamAgent, StartTurn, StartTurnFails,
     StartTurnThrows, Fault, Replace, StopRun, BeginCancel, InterruptSession, Interrupted, Canceled, TimedOut,
     EndCancel, Reads, Speaks, Answers, Wakes, Pump, Dies, process, failures, vars
<1>3. QED BY <1>1, <1>2, LineFacts DEF Peaceful, Calm

\* The manager goes on, the session and the process do nothing.
LEMMA ManagerOrder ==
  ASSUME RunAssumption, TurnsInv, OrderInv,
         UNCHANGED <<foreground, autonomous, pendingInterruptAbort, stdin, job, pipe, answered, tasks, faults, may>>,
         Accepted \subseteq Accepted', activeForegroundTurnId' \in {activeForegroundTurnId, 0},
         Lines => CompleteInLine'
  PROVE  OrderInv'
<1>1. Lines => Lines'
  BY DEF Lines, PromptsInLine, JobInLine, PipeInLine, InLine, Uninterrupted
<1>2. Aborts => Aborts'
  BY DEF Aborts, InterruptsAbort, AbortExpected, Uninterrupted, Says, Prompted
<1>3. QED BY <1>1, <1>2 DEF OrderInv, Peaceful, Calm

\* Events that are sent, of turns that were answered.
LEMMA CompleteKept ==
  ASSUME RunAssumption, TurnsInv, CompleteInLine, UNCHANGED told, answered \subseteq answered',
         \/ UNCHANGED tail
         \/ \E e \in Event : tail' = Append(tail, e) /\ (e.type = "completed" => e.turn \in answered')
  PROVE  CompleteInLine'
<1>1. CASE UNCHANGED tail
  BY <1>1 DEF CompleteInLine
<1>2. CASE ~UNCHANGED tail
  <2>1. PICK e \in Event : tail' = Append(tail, e) /\ (e.type = "completed" => e.turn \in answered')
    BY <1>2
  <2>2. \A i \in DOMAIN tail' : tail'[i] = e \/ (i \in DOMAIN tail /\ tail'[i] = tail[i])
    BY <2>1, LineFacts, Appended
  <2>3. QED BY <2>1, <2>2 DEF CompleteInLine
<1>3. QED BY <1>1, <1>2

\* A run takes the session.
LEMMA StreamAgentOrder ==
  ASSUME RunAssumption, TurnsInv, OrderInv, NEW r \in Run, Free, run[r] \in {"new", "replacing"}, StreamAgent(r)
  PROVE  OrderInv'
<1>1. /\ run' = [run EXCEPT ![r] = "starting"] /\ foreground' = r /\ autonomous' = FALSE /\ UNCHANGED told
      /\ activeForegroundTurnId' = 0 /\ foreground = 0
      /\ UNCHANGED <<pendingInterruptAbort, query, stdin, job, pipe, answered, tasks, faults, may>>
  BY RunFacts DEF StreamAgent, process, failures, Free, TurnsInv, BusyInv, ForegroundInv, ForegroundIsLive
<1>2. Accepted' = Accepted /\ r \notin Accepted
  BY <1>1, RunFacts DEF Accepted, TurnsInv, BusyInv
<1>3. ASSUME Lines PROVE Lines'
  <2>1. ~autonomous /\ PromptsInLine /\ JobInLine /\ PipeInLine /\ CompleteInLine
    BY <1>3 DEF Lines
  <2>2. CompleteInLine'
    <3> DEFINE e == [type |-> "started", turn |-> r]
    <3>1. e \in Event /\ tail' = Append(tail, e) /\ e.type # "completed"
      BY <2>1, StreamAgentSends DEF TurnsInv, BusyInv
    <3> HIDE DEF e
    <3>2. QED BY <1>1, <2>1, <3>1, CompleteKept
  <2>3. PromptsInLine' /\ JobInLine' /\ PipeInLine'
    BY <1>1, <1>2, <2>1, LineFacts DEF PromptsInLine, JobInLine, PipeInLine, InLine, Uninterrupted
  <2>4. QED BY <1>1, <2>2, <2>3 DEF Lines
<1>4. Aborts => Aborts'
  BY <1>1 DEF Aborts, InterruptsAbort, AbortExpected, Uninterrupted, Says, Prompted
<1>5. QED BY <1>1, <1>3, <1>4 DEF OrderInv, Peaceful, Calm

\* A turn starts, or does not.
LEMMA StartOrder ==
  ASSUME RunAssumption, TurnsInv, OrderInv, NEW r \in Run, [Next]_vars,
         StartTurn(r) \/ StartTurnFails(r) \/ StartTurnThrows(r)
  PROVE  OrderInv'
<1>1. /\ run[r] = "starting" /\ \E next \in {"streaming", "failed"} : run' = [run EXCEPT ![r] = next]
      /\ tail = <<>> /\ UNCHANGED <<told, autonomous, pendingInterruptAbort, job, pipe, answered, tasks>>
  BY DEF StartTurn, StartTurnFails, StartTurnThrows, Started, session, failures
<1>2. Accepted \subseteq Accepted' /\ r \notin Accepted
  BY <1>1, RunFacts DEF Accepted, TurnsInv, BusyInv
<1>3. Calm => foreground = r
  BY <1>1 DEF TurnsInv, TurnsMatch, Calm
<1>4. Peaceful' => Peaceful
  BY Peace
<1>5. CASE StartTurn(r)
  <2>1. stdin' = Append(stdin, r) /\ UNCHANGED <<tail, foreground, faults>> /\ r \in Accepted'
    BY <1>1, <1>5, RunFacts DEF StartTurn, Started, session, failures, Accepted, TurnsInv, BusyInv
  <2>2. r \in 1..Interrupt /\ r # Interrupt
    BY Numbers, AutonomousApart
  <2>3. /\ \A i \in DOMAIN stdin : i \in DOMAIN stdin' /\ stdin'[i] = stdin[i] /\ i < Len(stdin) + 1
        /\ \A i \in DOMAIN stdin' : i \in DOMAIN stdin \/ i = Len(stdin) + 1
        /\ stdin'[Len(stdin) + 1] = r /\ Len(stdin) + 1 \in DOMAIN stdin' /\ Len(stdin') = Len(stdin) + 1
        /\ DOMAIN stdin = 1..Len(stdin) /\ Len(stdin) \in Nat
    BY <2>1, <2>2, LineFacts, Appended
  <2>4. ASSUME Peaceful, Lines PROVE Lines'
    <3>1. foreground = r /\ ~autonomous /\ PromptsInLine /\ JobInLine /\ PipeInLine /\ CompleteInLine
      BY <1>3, <2>4 DEF Lines, Peaceful
    <3>2. CompleteInLine'
      BY <1>1, <2>1, <3>1, CompleteKept
    <3>3. PromptsInLine'
      BY <1>2, <2>1, <2>3, <3>1 DEF PromptsInLine
    <3>4. JobInLine'
      <4>1. job # 0 => job # foreground /\ stdin # <<>> /\ stdin[1] = Interrupt
        BY <1>2, <3>1 DEF JobInLine
      <4>2. job # 0 => 1 \in DOMAIN stdin
        BY <4>1, <2>3, LineFacts
      <4>3. stdin' # <<>>
        BY <2>1
      <4>4. QED BY <1>1, <1>2, <2>1, <2>3, <3>1, <4>1, <4>2, <4>3 DEF JobInLine
    <3>5. PipeInLine'
      <4>1. \A i \in DOMAIN pipe : pipe[i].type = "abort"
        BY <1>2, <3>1 DEF PipeInLine, InLine
      <4>2. QED BY <1>1, <4>1 DEF PipeInLine, InLine, IsResult
    <3>6. QED BY <1>1, <3>1, <3>2, <3>3, <3>4, <3>5 DEF Lines
  <2>5. ASSUME Peaceful, Aborts PROVE Aborts'
    <3>1. foreground = r /\ InterruptsAbort /\ AbortExpected
      BY <1>3, <2>5 DEF Aborts, Peaceful
    <3>2. InterruptsAbort'
      BY <1>1, <2>2, <2>3, <3>1, 1 \in Nat DEF InterruptsAbort
    <3>3. AbortExpected'
      BY <1>1, <2>1, <2>3, <3>1 DEF AbortExpected, Uninterrupted, Says
    <3>4. Prompted'
      BY <2>1, <2>3, <3>1 DEF Prompted
    <3>5. QED BY <3>2, <3>3, <3>4 DEF Aborts
  <2>6. QED BY <1>4, <2>1, <2>4, <2>5 DEF OrderInv
<1>6. CASE StartTurnFails(r) \/ StartTurnThrows(r)
  <2>1. /\ foreground' = 0 /\ stdin' = stdin /\ ~query /\ faults' = faults + 1
        /\ tail' \in {tail, <<[type |-> "failed", turn |-> TurnId]>>}
        /\ activeForegroundTurnId' = 0 \/ foreground' # activeForegroundTurnId'
    BY <1>1, <1>6, LineFacts DEF StartTurnFails, StartTurnThrows, Started, Fault
  <2>2. pipe = <<>> /\ stdin = <<>> /\ job = 0
    BY <2>1 DEF TurnsInv, NoQuery
  <2>3. DOMAIN pipe' = {} /\ DOMAIN stdin' = {}
    BY <1>1, <2>1, <2>2
  <2>4. ASSUME Peaceful, Lines PROVE Lines'
    <3>1. CompleteInLine'
      <4>1. \A i \in DOMAIN tail' : tail'[i].type # "completed"
        BY <1>1, <2>1
      <4>2. QED BY <1>1, <2>4, <4>1 DEF Lines, CompleteInLine
    <3>2. QED BY <1>1, <2>2, <2>3, <2>4, <3>1 DEF Lines, PromptsInLine, JobInLine, PipeInLine
  <2>5. ASSUME faults' <= 1 PROVE Aborts'
    <3>1. faults' = 1
      BY <2>1, <2>5, LineFacts
    <3>2. QED BY <2>1, <2>3, <3>1 DEF Aborts, InterruptsAbort, AbortExpected, Says, Prompted
  <2>6. QED BY <1>4, <2>4, <2>5 DEF OrderInv
<1>7. QED BY <1>5, <1>6

\* The session is interrupted: the prompt of its turn is the last there is.
LEMMA BeginOrder ==
  ASSUME RunAssumption, TurnsInv, OrderInv, NEW c \in Canceller, BeginCancel(c),
         Quiet, InFlight, MayCancel, may.overlap \/ ~Replacing,
         UNCHANGED <<told, activeForegroundTurnId>>, Accepted' = Accepted
  PROVE  OrderInv'
<1>1. /\ foreground' = 0 /\ autonomous' = (autonomous /\ foreground # 0)
      /\ pendingInterruptAbort' = (query \/ pendingInterruptAbort)
      /\ stdin' = IF query THEN Append(stdin, Interrupt) ELSE stdin
      /\ UNCHANGED <<query, job, pipe, answered, tasks, faults, may>>
  BY DEF BeginCancel, InterruptSession, failures
<1>2. SUFFICES ASSUME Peaceful PROVE (Lines => Lines') /\ (Lines /\ Aborts => Aborts')
  BY <1>1 DEF OrderInv, Peaceful, Calm
<1>3. /\ pipe = <<>> /\ DOMAIN pipe = {} /\ ~Starting /\ ~Replacing
  BY <1>2 DEF Peaceful, Calm, MayCancel
<1>4. stdin \in Seq(1..Interrupt) /\ DOMAIN stdin = 1..Len(stdin) /\ Len(stdin) \in Nat
      /\ (stdin # <<>> => 1 \in DOMAIN stdin /\ Len(stdin) \in DOMAIN stdin)
  BY LineFacts
<1>5. query =>
        /\ \A i \in DOMAIN stdin : i \in DOMAIN stdin' /\ stdin'[i] = stdin[i] /\ i < Len(stdin) + 1
        /\ \A i \in DOMAIN stdin' : i \in DOMAIN stdin \/ i = Len(stdin) + 1
        /\ stdin'[Len(stdin) + 1] = Interrupt /\ Len(stdin) + 1 \in DOMAIN stdin' /\ Len(stdin') = Len(stdin) + 1
        /\ stdin' # <<>>
  BY <1>1, LineFacts, Appended
<1>6. ~query => stdin = <<>> /\ stdin' = <<>> /\ job = 0 /\ DOMAIN stdin = {} /\ DOMAIN stdin' = {}
  BY <1>1 DEF TurnsInv, NoQuery
<1>7. ASSUME Lines PROVE Lines'
  <2>1. ~autonomous /\ PromptsInLine /\ JobInLine /\ PipeInLine /\ CompleteInLine
    BY <1>7 DEF Lines
  <2>2. CompleteInLine'
    <3>1. CASE foreground # 0
      <4> DEFINE e == [type |-> "canceled", turn |-> foreground]
      <4>1. tail' = Append(tail, e) /\ e.type # "completed"
        BY <3>1 DEF BeginCancel, InterruptSession
      <4>2. e \in Event
        BY EventsTyped DEF TurnsInv, BusyInv, RunTypesInv, Terminal
      <4> HIDE DEF e
      <4>3. QED BY <1>1, <2>1, <4>1, <4>2, CompleteKept
    <3>2. CASE foreground = 0
      <4>1. tail' = tail
        BY <2>1, <3>2 DEF BeginCancel, InterruptSession
      <4>2. QED BY <1>1, <2>1, <4>1, CompleteKept
    <3>3. QED BY <3>1, <3>2
  <2>3. CASE query
    <3>1. PromptsInLine'
      BY <1>1, <1>4, <1>5, <2>1, <2>3, LineFacts DEF PromptsInLine
    <3>2. JobInLine'
      <4>1. stdin = <<>> => stdin'[1] = Interrupt
        BY <1>1, <1>4, <2>3
      <4>2. stdin # <<>> => stdin'[1] = stdin[1]
        BY <1>4, <1>5, <2>3
      <4>3. QED BY <1>1, <1>5, <2>1, <2>3, <4>1, <4>2 DEF JobInLine
    <3>3. PipeInLine'
      BY <1>1, <1>3 DEF PipeInLine
    <3>4. QED BY <1>1, <2>1, <2>2, <3>1, <3>2, <3>3 DEF Lines
  <2>4. CASE ~query
    BY <1>1, <1>3, <1>6, <2>1, <2>2, <2>4 DEF Lines, PromptsInLine, JobInLine, PipeInLine
  <2>5. QED BY <2>3, <2>4
<1>8. ASSUME Lines, Aborts PROVE Aborts'
  <2>1. /\ ~autonomous /\ PromptsInLine /\ JobInLine
        /\ InterruptsAbort /\ AbortExpected /\ Prompted
    BY <1>8 DEF Lines, Aborts
  <2>2. Prompted'
    BY <1>1 DEF Prompted
  <2>3. CASE ~query
    <3>1. UNCHANGED <<stdin, pendingInterruptAbort>>
      BY <1>1, <1>6, <2>3 DEF TurnsInv, BusyInv, RunTypesInv, SessionTyped
    <3>2. QED BY <1>1, <2>1, <2>2, <3>1 DEF Aborts, InterruptsAbort, AbortExpected, Uninterrupted, Says
  <2>4. CASE query
    <3>1. activeForegroundTurnId # 0
      <4>1. pendingRun = activeForegroundTurnId
        BY <1>3, QuietTurn DEF TurnsInv, BusyInv
      <4>2. lifecycle = "running" => activeForegroundTurnId # 0
        <5>1. DOMAIN tail = {}
          BY DEF Quiet
        <5>2. QED BY <1>3, <2>1, <5>1 DEF TurnsInv, BusyInv, ShownInv, ShownIsReal, Real
      <4>3. QED BY <4>1, <4>2 DEF InFlight, Free
    <3>2. foreground = activeForegroundTurnId
      BY <1>2, <1>3, QuietSession DEF TurnsInv, Peaceful, Calm
    <3>3. IF stdin = <<>> THEN job # 0 ELSE stdin[Len(stdin)] # Interrupt
      <4>1. foreground = job \/ \E i \in DOMAIN stdin : stdin[i] = foreground
        BY <1>3, <2>1, <3>1, <3>2 DEF Prompted
      <4>2. ASSUME NEW i \in DOMAIN stdin, stdin[i] = foreground PROVE stdin[Len(stdin)] # Interrupt /\ stdin # <<>>
        <5>1. foreground \in Run
          BY <3>1, <3>2, RunFacts DEF TurnsInv, BusyInv
        <5>2. stdin[i] # Interrupt
          BY <4>2, <5>1, LineFacts
        <5>3. i = Len(stdin)
          BY <2>1, <4>2, <5>2 DEF PromptsInLine
        <5>4. QED BY <1>4, <5>2, <5>3
      <4>3. CASE foreground = job
        BY <2>1, <3>1, <3>2, <4>3 DEF JobInLine
      <4>4. QED BY <4>1, <4>2, <4>3
    <3>4. InterruptsAbort'
      <4>1. ASSUME NEW i \in DOMAIN stdin', stdin'[i] = Interrupt
            PROVE  IF i = 1 THEN job # 0 ELSE stdin'[i - 1] # Interrupt
        <5>1. CASE i \in DOMAIN stdin
          <6>1. i # 1 => i - 1 \in DOMAIN stdin
            BY <1>4, <5>1
          <6>2. QED BY <1>5, <2>1, <2>4, <4>1, <5>1, <6>1 DEF InterruptsAbort
        <5>2. CASE i = Len(stdin) + 1
          <6>1. stdin = <<>> => i = 1
            BY <1>4, <5>2
          <6>2. stdin # <<>> => i # 1 /\ i - 1 = Len(stdin) /\ stdin'[i - 1] = stdin[i - 1]
            BY <1>4, <1>5, <2>4, <5>2
          <6>3. QED BY <3>3, <6>1, <6>2
        <5>3. QED BY <1>5, <2>4, <4>1, <5>1, <5>2
      <4>2. QED BY <1>1, <4>1 DEF InterruptsAbort
    <3>5. AbortExpected'
      BY <1>1, <1>5, <2>1, <2>4 DEF AbortExpected, Uninterrupted, Says
    <3>6. QED BY <2>2, <3>4, <3>5 DEF Aborts
  <2>5. QED BY <2>3, <2>4
<1>9. QED BY <1>7, <1>8

\* The process reads on: a prompt, or that it is interrupted.
LEMMA ReadsOrder ==
  ASSUME RunAssumption, TurnsInv, OrderInv, Reads PROVE OrderInv'
<1>1. /\ stdin # <<>> /\ stdin' = Tail(stdin)
      /\ UNCHANGED <<activeForegroundTurnId, told, run, tail, foreground, autonomous, pendingInterruptAbort, answered,
                     tasks, faults, may>>
      /\ Accepted' = Accepted
  BY DEF Reads, elsewhere, manager, session, failures, Accepted
<1>2. /\ Head(stdin) = stdin[1] /\ 1 \in DOMAIN stdin
      /\ \A i \in DOMAIN stdin' : i \in Nat /\ i # 0 /\ i + 1 \in DOMAIN stdin /\ i + 1 # 1 /\ stdin'[i] = stdin[i + 1]
      /\ \A i \in DOMAIN stdin : i # 1 => i - 1 \in DOMAIN stdin' /\ stdin'[i - 1] = stdin[i]
      /\ Len(stdin') = Len(stdin) - 1 /\ DOMAIN stdin = 1..Len(stdin) /\ Len(stdin) \in Nat
      /\ Len(stdin) = 1 => stdin' = <<>>
      /\ 2 \in DOMAIN stdin => stdin' # <<>> /\ stdin'[1] = stdin[2]
  <2>1. stdin \in Seq(1..Interrupt)
    BY LineFacts
  <2>2. /\ Head(stdin) = stdin[1] /\ 1 \in DOMAIN stdin
        /\ \A i \in DOMAIN stdin' : i + 1 \in DOMAIN stdin /\ stdin'[i] = stdin[i + 1]
        /\ \A i \in DOMAIN stdin : i # 1 => i - 1 \in DOMAIN stdin' /\ stdin'[i - 1] = stdin[i]
        /\ Len(stdin') = Len(stdin) - 1 /\ DOMAIN stdin = 1..Len(stdin) /\ Len(stdin) \in Nat
        /\ stdin' \in Seq(1..Interrupt)
    BY <1>1, <2>1, Behead
  <2>3. DOMAIN stdin' = 1..(Len(stdin) - 1)
    BY <2>2
  <2>4. Len(stdin) = 1 => stdin' = <<>>
    BY <2>2
  <2>5. 2 \in DOMAIN stdin => stdin' # <<>> /\ stdin'[1] = stdin[2]
    BY <2>2, <2>3
  <2>6. QED BY <2>2, <2>3, <2>4, <2>5
<1>3. PromptsInLine => PromptsInLine'
  <2>1. ASSUME PromptsInLine, NEW i \in DOMAIN stdin', stdin'[i] # Interrupt
        PROVE  /\ stdin'[i] \in Accepted
               /\ IF stdin'[i] = foreground THEN i = Len(stdin')
                  ELSE i + 1 \in DOMAIN stdin' /\ stdin'[i + 1] = Interrupt
    <3>1. i + 1 \in DOMAIN stdin /\ stdin'[i] = stdin[i + 1] /\ i \in Nat /\ i # 0
      BY <1>2
    <3>2. /\ stdin[i + 1] \in Accepted
          /\ IF stdin[i + 1] = foreground THEN i + 1 = Len(stdin)
             ELSE (i + 1) + 1 \in DOMAIN stdin /\ stdin[(i + 1) + 1] = Interrupt
      BY <2>1, <3>1 DEF PromptsInLine
    <3>3. (i + 1) + 1 \in DOMAIN stdin => i + 1 \in DOMAIN stdin' /\ stdin'[i + 1] = stdin[(i + 1) + 1]
      <4>1. (i + 1) + 1 # 1 /\ ((i + 1) + 1) - 1 = i + 1
        BY <3>1
      <4>2. QED BY <1>2, <4>1
    <3>4. i + 1 = Len(stdin) => i = Len(stdin')
      BY <1>2, <3>1
    <3>5. QED BY <3>1, <3>2, <3>3, <3>4
  <2>2. QED BY <1>1, <2>1 DEF PromptsInLine
<1>4. CASE Head(stdin) # Interrupt
  <2>1. job = 0 /\ job' = stdin[1] /\ UNCHANGED pipe /\ stdin[1] # Interrupt
    BY <1>2, <1>4 DEF Reads
  <2>2. ASSUME Lines PROVE Lines'
    <3>1. ~autonomous /\ PromptsInLine /\ JobInLine /\ PipeInLine /\ CompleteInLine
      BY <2>2 DEF Lines
    <3>2. CompleteInLine'
      BY <1>1, <3>1 DEF CompleteInLine
    <3>3. JobInLine'
      <4>1. /\ job' \in Accepted
            /\ IF job' = foreground THEN 1 = Len(stdin) ELSE 2 \in DOMAIN stdin /\ stdin[2] = Interrupt
        BY <1>2, <2>1, <3>1 DEF PromptsInLine
      <4>2. QED BY <1>1, <1>2, <4>1 DEF JobInLine
    <3>4. Uninterrupted => Uninterrupted'
      BY <1>2 DEF Uninterrupted
    <3>5. PipeInLine'
      BY <1>1, <2>1, <3>1, <3>4 DEF PipeInLine, InLine
    <3>6. QED BY <1>1, <1>3, <3>1, <3>2, <3>3, <3>5 DEF Lines
  <2>3. ASSUME Lines, Aborts PROVE Aborts'
    <3>1. InterruptsAbort /\ AbortExpected /\ Prompted
      BY <2>3 DEF Aborts
    <3>2. InterruptsAbort'
      <4>1. ASSUME NEW i \in DOMAIN stdin', stdin'[i] = Interrupt, i # 1 PROVE stdin'[i - 1] # Interrupt
        <5>1. i + 1 # 1 /\ stdin[i + 1] = Interrupt /\ i + 1 \in DOMAIN stdin /\ (i + 1) - 1 = i
          BY <1>2, <4>1
        <5>2. stdin[i] # Interrupt
          BY <3>1, <5>1 DEF InterruptsAbort
        <5>3. i \in DOMAIN stdin /\ stdin'[i - 1] = stdin[i]
          BY <1>2, <4>1
        <5>4. QED BY <5>2, <5>3
      <4>2. job' # 0
        BY <1>2, <2>1, LineFacts
      <4>3. QED BY <4>1, <4>2 DEF InterruptsAbort
    <3>3. AbortExpected'
      <4>1. ~Uninterrupted => ~Uninterrupted'
        BY <1>2, <2>1 DEF Uninterrupted
      <4>2. QED BY <1>1, <2>1, <3>1, <4>1 DEF AbortExpected, Says
    <3>4. Prompted'
      <4>1. \A i \in DOMAIN stdin : stdin[i] = foreground => job' = foreground \/ \E k \in DOMAIN stdin' : stdin'[k] = foreground
        BY <1>2, <2>1
      <4>2. QED BY <1>1, <2>1, <3>1, <4>1 DEF Prompted
    <3>5. QED BY <3>2, <3>3, <3>4 DEF Aborts
  <2>4. QED BY <1>1, <2>2, <2>3 DEF OrderInv, Peaceful, Calm
<1>5. CASE Head(stdin) = Interrupt
  <2> DEFINE m == [type |-> "abort", of |-> job]
  <2>1. /\ job' = 0 /\ pipe' = IF job = 0 THEN pipe ELSE Append(pipe, m)
        /\ stdin[1] = Interrupt /\ ~Uninterrupted
    BY <1>2, <1>5 DEF Reads, Uninterrupted
  <2>2. job # 0 => m \in Message
    <3>1. job \in 0..Autonomous
      BY DEF TurnsInv, BusyInv, RunTypesInv, ProcessTyped
    <3>2. QED BY <3>1, Numbers DEF Message
  <2>3. m.type = "abort"
    OBVIOUS
  <2> HIDE DEF m
  <2>4. /\ \A i \in DOMAIN pipe : i \in DOMAIN pipe' /\ pipe'[i] = pipe[i]
        /\ \A i \in DOMAIN pipe' : pipe'[i].type = "abort" \/ (i \in DOMAIN pipe /\ pipe'[i] = pipe[i])
        /\ job # 0 => Len(pipe) + 1 \in DOMAIN pipe' /\ pipe'[Len(pipe) + 1] = m
    BY <2>1, <2>2, <2>3, LineFacts, Appended
  <2>5. ASSUME Lines PROVE Lines'
    <3>1. ~autonomous /\ PromptsInLine /\ JobInLine /\ PipeInLine /\ CompleteInLine
      BY <2>5 DEF Lines
    <3>2. CompleteInLine'
      BY <1>1, <3>1 DEF CompleteInLine
    <3>3. JobInLine'
      BY <2>1 DEF JobInLine
    <3>4. \A i \in DOMAIN pipe' : pipe'[i].type = "abort"
      BY <2>1, <2>4, <3>1 DEF PipeInLine
    <3>5. PipeInLine'
      BY <3>4 DEF PipeInLine, InLine, IsResult
    <3>6. QED BY <1>1, <1>3, <3>1, <3>2, <3>3, <3>5 DEF Lines
  <2>6. ASSUME Lines, Aborts PROVE Aborts'
    <3>1. InterruptsAbort /\ AbortExpected /\ Prompted /\ JobInLine
      BY <2>6 DEF Aborts, Lines
    <3>2. job # 0 /\ job # foreground
      BY <1>1, <1>2, <2>1, <3>1 DEF InterruptsAbort, JobInLine
    <3>3. InterruptsAbort'
      <4>1. ASSUME NEW i \in DOMAIN stdin', stdin'[i] = Interrupt PROVE i # 1 /\ stdin'[i - 1] # Interrupt
        <5>1. i + 1 # 1 /\ stdin[i + 1] = Interrupt /\ i + 1 \in DOMAIN stdin /\ (i + 1) - 1 = i
          BY <1>2, <4>1
        <5>2. stdin[i] # Interrupt
          BY <3>1, <5>1 DEF InterruptsAbort
        <5>3. i # 1
          BY <2>1, <5>2
        <5>4. i \in DOMAIN stdin /\ stdin'[i - 1] = stdin[i]
          BY <1>2, <4>1, <5>3
        <5>5. QED BY <5>2, <5>3, <5>4
      <4>2. QED BY <4>1 DEF InterruptsAbort
    <3>4. AbortExpected'
      <4>1. Says("abort")'
        BY <2>3, <2>4, <3>2 DEF Says
      <4>2. Says("error")' => Says("error")
        BY <2>4 DEF Says
      <4>3. QED BY <1>1, <3>1, <4>1, <4>2 DEF AbortExpected
    <3>5. Prompted'
      <4>1. \A i \in DOMAIN stdin : stdin[i] = foreground /\ foreground # Interrupt =>
              \E k \in DOMAIN stdin' : stdin'[k] = foreground
        BY <1>2, <2>1
      <4>2. foreground # Interrupt
        BY RunFacts, LineFacts DEF TurnsInv, BusyInv
      <4>3. QED BY <1>1, <2>4, <3>1, <3>2, <4>1, <4>2 DEF Prompted
    <3>6. QED BY <3>3, <3>4, <3>5 DEF Aborts
  <2>7. QED BY <1>1, <2>5, <2>6 DEF OrderInv, Peaceful, Calm
<1>6. QED BY <1>4, <1>5

\* The process speaks or answers: of the session's turn, which nothing follows.
LEMMA SaysOrder ==
  ASSUME RunAssumption, TurnsInv, OrderInv, [Next]_vars, Speaks \/ Answers PROVE OrderInv'
<1>1. /\ job # 0 /\ Undisturbed
      /\ UNCHANGED <<activeForegroundTurnId, told, run, tail, foreground, autonomous, pendingInterruptAbort, stdin,
                     tasks, may>>
      /\ Accepted' = Accepted
  BY DEF Speaks, Answers, elsewhere, manager, session, failures, Fault, Accepted
<1>2. Peaceful' => Peaceful /\ Uninterrupted
  BY <1>1 DEF Peaceful, Calm, Undisturbed, Uninterrupted
<1>3. PICK type \in {"assistant", "success", "error"} :
        /\ pipe' = Append(pipe, [type |-> type, of |-> job])
        /\ job' = IF type = "assistant" THEN job ELSE 0
        /\ answered' = IF type = "success" THEN answered \cup ({job} \cap Run) ELSE answered
        /\ faults' = IF type = "error" THEN faults + 1 ELSE faults
  BY DEF Speaks, Answers, failures, Fault
<1> DEFINE m == [type |-> type, of |-> job]
<1>4. m \in Message
  <2>1. job \in 0..Autonomous
    BY DEF TurnsInv, BusyInv, RunTypesInv, ProcessTyped
  <2>2. QED BY <1>1, <2>1, Numbers DEF Message
<1>5. pipe' = Append(pipe, m) /\ m.type = type /\ m.of = job
  BY <1>3
<1> HIDE DEF m
<1>6. /\ \A i \in DOMAIN pipe : i \in DOMAIN pipe' /\ pipe'[i] = pipe[i]
      /\ \A i \in DOMAIN pipe' : i \in DOMAIN pipe \/ i = Len(pipe) + 1
      /\ pipe'[Len(pipe) + 1] = m /\ Len(pipe) + 1 \in DOMAIN pipe' /\ Len(pipe') = Len(pipe) + 1
  BY <1>4, <1>5, LineFacts, Appended
<1>7. ASSUME Lines, Uninterrupted PROVE job = foreground /\ stdin = <<>>
  <2>1. stdin # <<>> => 1 \in DOMAIN stdin
    BY LineFacts
  <2>2. QED BY <1>1, <1>7, <2>1 DEF Lines, JobInLine, Uninterrupted
<1>8. ASSUME Lines, Uninterrupted PROVE Lines'
  <2>1. ~autonomous /\ PromptsInLine /\ JobInLine /\ PipeInLine /\ CompleteInLine
    BY <1>8 DEF Lines
  <2>2. job = foreground /\ stdin = <<>> /\ job \in Accepted /\ DOMAIN stdin = {}
    BY <1>1, <1>7, <1>8, <2>1 DEF JobInLine
  <2>3. answered \subseteq answered' /\ (type = "success" => job \in answered')
    BY <1>3, <2>2, LineFacts
  <2>4. CompleteInLine'
    BY <1>1, <2>1, <2>3, CompleteKept
  <2>5. PromptsInLine' /\ JobInLine'
    BY <1>1, <1>3, <2>1, <2>2 DEF PromptsInLine, JobInLine
  <2>6. PipeInLine'
    <3> DEFINE Kept(x) == x.type # "abort" => /\ x.of = foreground /\ x.of \in Accepted
                                              /\ x.type = "success" => x.of \in answered'
    <3>1. \A i \in DOMAIN pipe : ~IsResult(pipe[i]) /\ Kept(pipe[i])
      BY <1>1, <2>1, <2>3 DEF PipeInLine, InLine
    <3>2. Kept(m)
      BY <1>5, <2>2, <2>3
    <3>3. Uninterrupted'
      BY <1>1, <1>8 DEF Uninterrupted
    <3>4. IsResult(m) => job' = 0 /\ stdin' = <<>>
      BY <1>1, <1>3, <1>5, <2>2 DEF IsResult
    <3>5. \A i \in DOMAIN pipe' :
            Kept(pipe'[i]) /\ (IsResult(pipe'[i]) => i = Len(pipe') /\ job' = 0 /\ stdin' = <<>>)
      BY <1>6, <3>1, <3>2, <3>4
    <3>6. QED BY <1>1, <3>3, <3>5 DEF PipeInLine, InLine
  <2>7. QED BY <1>1, <2>1, <2>4, <2>5, <2>6 DEF Lines
<1>9. ASSUME Lines, Uninterrupted, Aborts, faults' <= 1 PROVE Aborts'
  <2>1. InterruptsAbort /\ AbortExpected /\ Prompted /\ JobInLine
    BY <1>9 DEF Aborts, Lines
  <2>2. faults \in Nat /\ (type = "error" => faults = 0 /\ faults' = 1)
    BY <1>3, <1>9, LineFacts
  <2>3. InterruptsAbort'
    BY <1>1, <1>9 DEF InterruptsAbort, Uninterrupted
  <2>4. AbortExpected'
    <3>1. Says("abort") => Says("abort")'
      BY <1>6 DEF Says
    <3>2. Says("error")' => Says("error") \/ type = "error"
      BY <1>5, <1>6 DEF Says
    <3>3. type # "error" => faults' = faults
      BY <1>3
    <3>4. QED BY <1>1, <1>9, <2>1, <2>2, <3>1, <3>2, <3>3 DEF AbortExpected
  <2>5. Prompted'
    <3>1. type # "assistant" => pipe'[Len(pipe) + 1].of = job /\ IsResult(pipe'[Len(pipe) + 1])
      BY <1>5, <1>6 DEF IsResult
    <3>2. foreground = job => foreground = job' \/ \E i \in DOMAIN pipe' : pipe'[i].of = foreground /\ IsResult(pipe'[i])
      BY <1>3, <1>6, <3>1
    <3>3. QED BY <1>1, <1>6, <2>1, <3>2 DEF Prompted
  <2>6. QED BY <2>3, <2>4, <2>5 DEF Aborts
<1>10. QED BY <1>2, <1>8, <1>9, Peace DEF OrderInv

\* The session hears the process: a result ends its turn.
LEMMA PumpOrder ==
  ASSUME RunAssumption, TurnsInv, OrderInv, Pump PROVE OrderInv'
<1> DEFINE m == Head(pipe)
           ends == m.type # "assistant" /\ ~Suppressed(m.type) /\ TurnId # 0
<1>1. /\ pipe # <<>> /\ pipe' = Tail(pipe)
      /\ UNCHANGED <<activeForegroundTurnId, told, run, query, stdin, job, answered, tasks, faults, may>>
      /\ Accepted' = Accepted
      /\ pendingInterruptAbort' = (pendingInterruptAbort /\ m.type = "assistant")
      /\ foreground' = IF ends THEN 0 ELSE foreground
      /\ autonomous' = IF m.type = "assistant" THEN autonomous \/ foreground = 0
                       ELSE autonomous /\ ~(ends /\ foreground = 0)
      /\ tail' = IF ends
                 THEN Append(tail, [type |-> IF m.type = "success" THEN "completed" ELSE "failed", turn |-> TurnId])
                 ELSE IF m.type = "assistant" /\ TurnId = 0
                 THEN Append(tail, [type |-> "started", turn |-> Autonomous])
                 ELSE tail
  BY DEF Pump, manager, failures, Accepted
<1>2. /\ m = pipe[1] /\ 1 \in DOMAIN pipe
      /\ \A i \in DOMAIN pipe' : i + 1 \in DOMAIN pipe /\ i + 1 # 1 /\ i \in Nat /\ pipe'[i] = pipe[i + 1]
      /\ \A i \in DOMAIN pipe : i # 1 => i - 1 \in DOMAIN pipe' /\ pipe'[i - 1] = pipe[i]
      /\ Len(pipe') = Len(pipe) - 1 /\ DOMAIN pipe = 1..Len(pipe) /\ Len(pipe) \in Nat
      /\ m.type \in {"assistant", "success", "error", "abort"} /\ m.of # 0
  BY <1>1, LineFacts, Behead
<1> HIDE DEF m
<1>3. ASSUME Lines
      PROVE  /\ ~autonomous /\ PromptsInLine /\ JobInLine /\ PipeInLine /\ CompleteInLine
             /\ m.type # "abort" => m.of = foreground /\ TurnId = foreground /\ foreground # 0
             /\ IsResult(m) => Len(pipe) = 1 /\ job = 0 /\ stdin = <<>> /\ DOMAIN pipe' = {} /\ DOMAIN stdin = {}
             /\ m.type = "success" => m.of \in answered
  <2>1. ~autonomous /\ PromptsInLine /\ JobInLine /\ PipeInLine /\ CompleteInLine
    BY <1>3 DEF Lines
  <2>2. m.type # "abort" => m.of = foreground /\ TurnId = foreground /\ foreground # 0
    BY <1>2, <2>1 DEF PipeInLine, InLine, TurnId
  <2>3. IsResult(m) => Len(pipe) = 1 /\ job = 0 /\ stdin = <<>>
    BY <1>2, <2>1 DEF PipeInLine
  <2>4. Len(pipe) = 1 => DOMAIN pipe' = {}
    BY <1>2
  <2>5. m.type = "success" => m.of \in answered
    BY <1>2, <2>1 DEF PipeInLine, InLine
  <2>6. stdin = <<>> => DOMAIN stdin = {}
    OBVIOUS
  <2>7. QED BY <2>1, <2>2, <2>3, <2>4, <2>5, <2>6
<1>4. ASSUME Lines PROVE ends => IsResult(m)
  BY <1>2, <1>4 DEF Suppressed, IsResult
<1>5. ASSUME Lines PROVE Lines'
  <2>1. /\ ~autonomous /\ PromptsInLine /\ JobInLine /\ PipeInLine /\ CompleteInLine
        /\ m.type # "abort" => m.of = foreground /\ TurnId = foreground /\ foreground # 0
        /\ IsResult(m) => Len(pipe) = 1 /\ job = 0 /\ stdin = <<>> /\ DOMAIN pipe' = {} /\ DOMAIN stdin = {}
        /\ m.type = "success" => m.of \in answered
    BY <1>3, <1>5
  <2>2. ~autonomous'
    BY <1>1, <1>2, <2>1
  <2>3. CompleteInLine'
    <3>1. CASE ends
      <4> DEFINE e == [type |-> IF m.type = "success" THEN "completed" ELSE "failed", turn |-> TurnId]
      <4>1. tail' = Append(tail, e)
        BY <1>1, <3>1
      <4>2. e \in Event
        BY EventsTyped DEF TurnsInv, BusyInv, RunTypesInv, Terminal
      <4>3. e.type = "completed" => e.turn \in answered
        BY <2>1
      <4> HIDE DEF e
      <4>4. QED BY <1>1, <2>1, <4>1, <4>2, <4>3, CompleteKept
    <3>2. CASE ~ends
      <4>1. tail' = tail
        BY <1>1, <2>1, <3>2
      <4>2. QED BY <1>1, <2>1, <4>1, CompleteKept
    <3>3. QED BY <3>1, <3>2
  <2>4. CASE IsResult(m)
    BY <1>1, <2>1, <2>2, <2>3, <2>4 DEF Lines, PromptsInLine, JobInLine, PipeInLine
  <2>5. CASE ~IsResult(m)
    <3>1. foreground' = foreground
      BY <1>1, <1>4, <1>5, <2>5
    <3>2. PromptsInLine' /\ JobInLine'
      BY <1>1, <2>1, <3>1 DEF PromptsInLine, JobInLine
    <3>3. PipeInLine'
      <4>1. ASSUME NEW i \in DOMAIN pipe'
            PROVE  /\ InLine(pipe[i + 1])
                   /\ pipe[i + 1].type # "abort" => Uninterrupted
                   /\ IsResult(pipe[i + 1]) => i = Len(pipe') /\ job = 0 /\ stdin = <<>>
        BY <1>2, <2>1 DEF PipeInLine
      <4>2. \A i \in DOMAIN pipe' : pipe'[i] = pipe[i + 1]
        BY <1>2
      <4>3. QED BY <1>1, <3>1, <4>1, <4>2 DEF PipeInLine, InLine, Uninterrupted
    <3>4. QED BY <2>2, <2>3, <3>2, <3>3 DEF Lines
  <2>6. QED BY <2>4, <2>5
<1>6. ASSUME Lines, Aborts PROVE Aborts'
  <2>1. InterruptsAbort /\ AbortExpected /\ Prompted
    BY <1>6 DEF Aborts
  <2>2. /\ m.type # "abort" => m.of = foreground /\ TurnId = foreground /\ foreground # 0
        /\ IsResult(m) => Len(pipe) = 1 /\ job = 0 /\ stdin = <<>> /\ DOMAIN pipe' = {} /\ DOMAIN stdin = {}
    BY <1>3, <1>6
  <2>3. InterruptsAbort'
    BY <1>1, <2>1 DEF InterruptsAbort
  <2>4. Says("error")' => Says("error")
    BY <1>2 DEF Says
  <2>5. AbortExpected'
    <3>1. m.type = "assistant" /\ Says("abort") => Says("abort")'
      BY <1>2 DEF Says
    <3>2. QED BY <1>1, <2>1, <2>4, <3>1 DEF AbortExpected, Uninterrupted
  <2>6. Prompted'
    <3>1. CASE IsResult(m)
      <4>1. m.type = "error" => ~pendingInterruptAbort
        <5>1. ASSUME m.type = "error" PROVE Says("error") /\ ~Says("abort") /\ Uninterrupted
          <6>1. \A i \in DOMAIN pipe : i = 1
            BY <1>2, <2>2, <3>1
          <6>2. QED BY <1>2, <2>2, <3>1, <5>1, <6>1 DEF Says, Uninterrupted
        <5>2. QED BY <2>1, <5>1 DEF AbortExpected
      <4>2. ends
        BY <2>2, <3>1, <4>1 DEF IsResult, Suppressed
      <4>3. QED BY <1>1, <4>2 DEF Prompted
    <3>2. CASE ~IsResult(m)
      <4>1. foreground' = foreground
        BY <1>1, <1>4, <1>6, <3>2
      <4>2. \A i \in DOMAIN pipe : IsResult(pipe[i]) => i - 1 \in DOMAIN pipe' /\ pipe'[i - 1] = pipe[i]
        BY <1>2, <3>2
      <4>3. QED BY <1>1, <2>1, <4>1, <4>2 DEF Prompted
    <3>3. QED BY <3>1, <3>2
  <2>7. QED BY <2>3, <2>5, <2>6 DEF Aborts
<1>7. QED BY <1>1, <1>5, <1>6 DEF OrderInv, Peaceful, Calm

\* The process dies.
LEMMA DiesOrder ==
  ASSUME RunAssumption, TurnsInv, OrderInv, [Next]_vars, Dies PROVE OrderInv'
<1>1. /\ pipe = <<>> /\ pipe' = <<>> /\ stdin' = <<>> /\ job' = 0 /\ foreground' = 0
      /\ autonomous' = (autonomous /\ foreground # 0) /\ faults' = faults + 1
      /\ tail' = IF TurnId = 0 THEN tail ELSE Append(tail, [type |-> "failed", turn |-> TurnId])
      /\ UNCHANGED <<told, answered>>
  BY DEF Dies, Fault, manager
<1>2. DOMAIN pipe' = {} /\ DOMAIN stdin' = {}
  BY <1>1
<1>3. ASSUME Lines PROVE Lines'
  <2> DEFINE e == [type |-> "failed", turn |-> TurnId]
  <2>1. e \in Event /\ e.type # "completed"
    BY EventsTyped DEF TurnsInv, BusyInv, RunTypesInv, Terminal
  <2>2. UNCHANGED tail \/ tail' = Append(tail, e)
    BY <1>1
  <2> HIDE DEF e
  <2>3. CompleteInLine'
    BY <1>1, <1>3, <2>1, <2>2, CompleteKept DEF Lines
  <2>4. QED BY <1>1, <1>2, <1>3, <2>3 DEF Lines, PromptsInLine, JobInLine, PipeInLine
<1>4. ASSUME faults' <= 1 PROVE Aborts'
  <2>1. faults' = 1
    BY <1>1, <1>4, LineFacts
  <2>2. QED BY <1>1, <1>2, <2>1 DEF Aborts, InterruptsAbort, AbortExpected, Says, Prompted
<1>5. QED BY <1>3, <1>4, Peace DEF OrderInv

\* Prompts, interrupts and answers stay in line.
LEMMA NextOrder ==
  ASSUME RunAssumption, TurnsInv, OrderInv, [Next]_vars PROVE OrderInv'
<1>0. BusyInv /\ RunInv /\ RunTypesInv /\ \A r \in Run : Cancels(r) => run[r] = "replacing"
  BY DEF TurnsInv, BusyInv, RunInv, CancelersWait, Cancels
<1>1. ASSUME NEW e, Handle(e), UNCHANGED <<session, process>>,
             e.type # "completed" \/ \E i \in DOMAIN tail : e = tail[i],
             \A i \in DOMAIN tail' : \E j \in DOMAIN tail : tail'[i] = tail[j]
      PROVE  OrderInv'
  <2>1. Accepted' = Accepted /\ activeForegroundTurnId' \in {activeForegroundTurnId, 0}
    BY <1>1, HandleEffect DEF Accepted
  <2>2. UNCHANGED <<foreground, autonomous, pendingInterruptAbort, stdin, job, pipe, answered, tasks, faults, may>>
    BY <1>1 DEF session, process, failures
  <2>3. ASSUME Lines PROVE CompleteInLine'
    <3>1. CompleteInLine
      BY <2>3 DEF Lines
    <3>2. ASSUME NEW r \in Run, told'[r] = "completed" PROVE r \in answered
      <4>1. told[r] = "completed" \/ (e.type = "completed" /\ r = e.turn)
        <5>1. CASE Stale(e)
          BY <1>1, <3>2, <5>1 DEF Handle, manager
        <5>2. CASE ~Stale(e)
          BY <1>1, <3>2, <5>2 DEF Handle
        <5>3. QED BY <5>1, <5>2
      <4>2. QED BY <1>1, <3>1, <4>1 DEF CompleteInLine
    <3>3. QED BY <1>1, <2>2, <3>1, <3>2 DEF CompleteInLine
  <2>4. QED BY <2>1, <2>2, <2>3, ManagerOrder
<1>2. ASSUME UNCHANGED <<told, activeForegroundTurnId, tail, session, process>>,
             Accepted \subseteq Accepted'
      PROVE  OrderInv'
  <2>1. UNCHANGED <<foreground, autonomous, pendingInterruptAbort, stdin, job, pipe, answered, tasks, faults, may>>
    BY <1>2 DEF session, process, failures
  <2>2. Lines => CompleteInLine'
    BY <1>2, <2>1 DEF Lines, CompleteInLine
  <2>3. QED BY <1>2, <2>1, <2>2, ManagerOrder
<1>3. CASE Dispatch
  <2>1. /\ Handle(Head(tail)) /\ tail # <<>> /\ tail' = Tail(tail) /\ UNCHANGED <<session, process>>
    BY <1>3 DEF Dispatch
  <2>2. /\ \A i \in DOMAIN tail' : \E j \in DOMAIN tail : tail'[i] = tail[j]
        /\ \E i \in DOMAIN tail : Head(tail) = tail[i]
    BY <2>1, LineFacts, Behead
  <2>3. QED BY <1>1, <2>1, <2>2
<1>4. ASSUME NEW r \in Run, Drain(r) PROVE OrderInv'
  <2>1. Accepted \subseteq Accepted'
    BY <1>0, <1>4, RunFacts DEF Drain, Accepted
  <2>2. QED BY <1>2, <1>4, <2>1 DEF Drain
<1>5. ASSUME NEW r \in Run, StartTurn(r) \/ StartTurnFails(r) \/ StartTurnThrows(r) PROVE OrderInv'
  BY <1>5, StartOrder
<1>6. ASSUME NEW c \in Canceller, EndCancel(c), Cancels(c) PROVE OrderInv'
  <2>1. CASE UNCHANGED <<manager, tail, session, process>>
    BY <1>2, <2>1 DEF manager, Accepted
  <2>2. CASE c \in Run /\ Free /\ StreamAgent(c)
    BY <1>0, <1>6, <2>2, StreamAgentOrder
  <2>3. CASE /\ c \in Run /\ run' = [run EXCEPT ![c] = "rejected"]
             /\ UNCHANGED <<activeForegroundTurnId, told>> /\ UNCHANGED <<tail, session, process>>
    <3>1. Accepted \subseteq Accepted'
      BY <1>0, <1>6, <2>3, RunFacts DEF Accepted
    <3>2. QED BY <1>2, <2>3, <3>1
  <2>4. QED BY <1>6, <2>1, <2>2, <2>3 DEF EndCancel
<1>7. ASSUME NEW c \in Canceller, TimedOut(c) PROVE OrderInv'
  <2>1. CASE ~MustForce(c)
    BY <1>6, <1>7, <2>1 DEF TimedOut, Cancels
  <2>2. CASE MustForce(c)
    <3> DEFINE e == [type |-> "canceled", turn |-> cancel[c].turn]
    <3>1. Handle(e) /\ UNCHANGED <<tail, session, process>> /\ e.type # "completed"
      BY <1>7, <2>2 DEF TimedOut
    <3> HIDE DEF e
    <3>2. \A i \in DOMAIN tail' : \E j \in DOMAIN tail : tail'[i] = tail[j]
      BY <3>1
    <3>3. QED BY <1>1, <3>1, <3>2
  <2>3. QED BY <2>1, <2>2
<1>8. ASSUME NEW c \in Canceller, Canceled(c) \/ Interrupted(c) PROVE OrderInv'
  BY <1>2, <1>6, <1>8 DEF Canceled, Interrupted, Cancels, manager, Accepted
<1>9. ASSUME NEW r \in Run, Prompt(r) PROVE OrderInv'
  BY <1>9, StreamAgentOrder DEF Prompt, NextPrompt
<1>10. ASSUME NEW r \in Run, Replace(r) PROVE OrderInv'
  <2>1. /\ BeginCancel(r) /\ Quiet /\ InFlight /\ MayCancel /\ (may.overlap \/ ~Replacing)
        /\ UNCHANGED <<told, activeForegroundTurnId>>
        /\ run[r] = "new" /\ run' = [run EXCEPT ![r] = "replacing"]
    BY <1>10 DEF Replace, NextPrompt
  <2>2. Accepted' = Accepted
    BY <1>0, <2>1, RunFacts DEF Accepted
  <2>3. QED BY <2>1, <2>2, BeginOrder, Runs0
<1>11. ASSUME NEW c \in Stop, StopRun(c) PROVE OrderInv'
  BY <1>11, BeginOrder, Runs0 DEF StopRun, manager, Accepted
<1>12. CASE Reads
  BY <1>12, ReadsOrder
<1>13. CASE Speaks \/ Answers
  BY <1>13, SaysOrder
<1>14. CASE Wakes
  <2>1. tasks' # 0
    BY <1>14, LineFacts DEF Wakes
  <2>2. QED BY <2>1 DEF OrderInv, Peaceful
<1>15. CASE Pump
  BY <1>15, PumpOrder
<1>16. CASE Dies
  BY <1>16, DiesOrder
<1>17. CASE UNCHANGED vars
  BY <1>2, <1>17 DEF vars, manager, Accepted
<1>18. QED
  BY <1>3, <1>4, <1>5, <1>7, <1>8, <1>9, <1>10, <1>11, <1>12, <1>13, <1>14, <1>15, <1>16, <1>17
  DEF Next, Microtask, Macrotask

\* Unless cancellations are early, overlap or cross a result, or the process goes on
\* by itself, a run is told that it is complete when its own prompt was answered;
\* and its turn always has somebody to end it, as long as the process fails at most
\* once: for any number of prompts and stops (claude/agent.ts, agent-manager.ts).
THEOREM TurnsEndByOwnAnswer == RunAssumption /\ Spec => []EndsByOwnAnswer
<1>1. ASSUME RunAssumption, Init PROVE TurnsInv /\ OrderInv
  <2>1. /\ tail = <<>> /\ stdin = <<>> /\ pipe = <<>> /\ job = 0 /\ autonomous = FALSE /\ pendingInterruptAbort = FALSE
        /\ activeForegroundTurnId = 0 /\ \A r \in Run : told[r] = "nothing"
    BY <1>1 DEF Init
  <2>2. DOMAIN tail = {} /\ DOMAIN stdin = {} /\ DOMAIN pipe = {}
    BY <2>1
  <2>3. Lines /\ Aborts
    BY <2>1, <2>2 DEF Lines, PromptsInLine, JobInLine, PipeInLine, CompleteInLine,
       Aborts, InterruptsAbort, AbortExpected, Says, Prompted
  <2>4. QED BY <1>1, <2>3, InitTurns DEF OrderInv
<1>2. RunAssumption /\ TurnsInv /\ OrderInv /\ [Next]_vars => TurnsInv' /\ OrderInv'
  BY NextTurnsInv, NextOrder
<1>3. ASSUME RunAssumption, TurnsInv, OrderInv PROVE EndsByOwnAnswer
  <2>1. OwnAnswer
    BY <1>3 DEF OrderInv, Peaceful, Lines, CompleteInLine, OwnAnswer, CompletedByOwnAnswer
  <2>2. ASSUME Calm, tasks = 0, faults <= 1, activeForegroundTurnId # 0 PROVE TurnHasAnEnd
    <3>1. Prompted /\ TurnsMatch
      BY <1>3, <2>2 DEF OrderInv, Peaceful, Aborts, TurnsInv
    <3>2. CASE foreground = activeForegroundTurnId
      BY <2>2, <3>1, <3>2 DEF Prompted, TurnHasAnEnd, IsResult
    <3>3. CASE foreground # activeForegroundTurnId
      <4>1. Len(tail) = 1 /\ tail[1].type \in Terminal /\ tail[1].turn = activeForegroundTurnId
        BY <2>2, <3>1, <3>3 DEF TurnsMatch, Calm
      <4>2. 1 \in DOMAIN tail
        BY <1>3, <4>1, LineFacts
      <4>3. QED BY <4>1, <4>2 DEF TurnHasAnEnd
    <3>4. QED BY <3>2, <3>3
  <2>3. QED BY <2>1, <2>2 DEF EndsByOwnAnswer, ActiveTurnEnds, TurnHasAnEnd
<1>4. QED BY <1>1, <1>2, <1>3, RunAssumption, PTL DEF Spec
=============================================================================
