------------------------------ MODULE AgentRun ------------------------------
(***************************************************************************)
(* The turns of one agent: the AgentManager that accepts, replaces and     *)
(* cancels runs, and the ClaudeAgentSession that runs them in a child      *)
(* process.  The manager learns of the session's turns from its events,    *)
(* one at a time and in order (sessionEventTails); a run is over when its  *)
(* generator has yielded the terminal event of its turn.                   *)
(*                                                                         *)
(* Node.js runs every promise continuation before it takes the next input, *)
(* timer or line of the process: what needs no input is a microtask, and   *)
(* an action that does waits until all is Quiet.  (The manager's durable   *)
(* timeline is synchronous SQLite, so handling an event needs no input.)   *)
(*                                                                         *)
(* Turn ids are run numbers.  Text, tool calls, permissions and usage have *)
(* no influence on who runs and are left out.                              *)
(***************************************************************************)
EXTENDS Integers, Sequences, FiniteSets

CONSTANTS
  MaxRuns,    \* bound: prompts
  MaxStops,   \* bound: stop buttons and watchdogs
  Situations  \* what a behaviour may contain, see Situation

\* A behaviour stays in one situation, which bounds its prompts, stops,
\* background tasks and failures, and says whether a run may be cancelled before
\* startTurn has returned (early), other prompts and stops may come while a
\* replacement waits (overlap), and a cancellation may cross a result of the
\* process (late).
Situation == [runs : 0..MaxRuns, stops : 0..MaxStops, tasks : Nat, faults : Nat,
              early : BOOLEAN, overlap : BOOLEAN, late : BOOLEAN]

ASSUME RunAssumption == {MaxRuns, MaxStops} \subseteq Nat /\ Situations \subseteq Situation

VARIABLES
  lifecycle,            \* what clients are told: "idle", "running" or "error"
  activeForegroundTurnId,  \* 0 for none
  pendingReplacement,
  lastError,            \* there is one
  finalized,            \* finalizedForegroundTurnIds
  pendingRun,           \* the run of pendingRuns, 0 for none
  run,                  \* [run -> where its generator is]
  told,                 \* [run -> terminal event its waiter was called with]
  cancel,               \* [canceller -> its cancelAgentRun]
  tail,                 \* sessionEventTails: events of the session to dispatch
  foreground,           \* the session's activeForegroundTurnId, 0 for none
  autonomous,           \* the session has an autonomousTurn
  pendingInterruptAbort,
  query,                \* the session has a query: the process is up
  stdin,                \* what was written to the process and not read yet
  job,                  \* what the process works on, 0 for nothing
  spoken,               \* it has said something about it
  pipe,                 \* messages of the process the pump has not read
  answered,             \* runs whose prompt the process has answered
  tasks, faults,        \* background tasks that have ended, failures
  may                   \* the situation

manager == <<lifecycle, activeForegroundTurnId, pendingReplacement, lastError, finalized,
             pendingRun, run, told>>
session == <<foreground, autonomous, pendingInterruptAbort>>
failures == <<faults, may>>
process == <<query, stdin, job, spoken, pipe, answered, tasks, failures>>
vars == <<manager, cancel, tail, session, process>>

Run == 1..MaxRuns
Stop == MaxRuns + 1 .. MaxRuns + MaxStops
Canceller == Run \cup Stop       \* a replacing run is its own canceller

Autonomous == MaxRuns + 1        \* the id of an autonomous turn, and its job
Interrupt == MaxRuns + 2         \* a control request among the prompts
Terminal == {"completed", "failed", "canceled"}
Event == [type : Terminal \cup {"started"}, turn : 0..Autonomous]

NoCancel == [stage |-> "none", turn |-> 0, pend |-> 0]

Init ==
  /\ lifecycle = "idle" /\ activeForegroundTurnId = 0 /\ pendingReplacement = FALSE
  /\ lastError = FALSE /\ finalized = {} /\ pendingRun = 0
  /\ run = [r \in Run |-> "new"] /\ told = [r \in Run |-> "nothing"]
  /\ cancel = [c \in Canceller |-> NoCancel] /\ tail = <<>>
  /\ foreground = 0 /\ autonomous = FALSE /\ pendingInterruptAbort = FALSE
  /\ query = FALSE /\ stdin = <<>> /\ job = 0 /\ spoken = FALSE /\ pipe = <<>>
  /\ answered = {} /\ tasks = 0 /\ faults = 0
  /\ may \in Situations

Fault == faults < may.faults /\ faults' = faults + 1 /\ UNCHANGED may

------------------------------------------------------------------------------
(* The manager and the session's events.  (An operator named as a slip of    *)
(* the code would read is a mutant of the one after it.)                     *)

Waiting(r) == run[r] = "streaming" /\ told[r] = "nothing"

\* finalizeForegroundTurn: which lifecycle a turn leaves behind.
AfterTurnIdle(error) == IF error THEN "error" ELSE "idle"
AfterTurn(error) ==
  IF pendingReplacement /\ ~error THEN "running" ELSE IF error THEN "error" ELSE "idle"

\* onStreamTurnStarted, -Completed, -Failed and -Canceled, for an event that is
\* not of the active turn.
AfterOthers(type) == CASE type = "started" -> "running"
                       [] type = "failed" -> "error"
                       [] OTHER -> IF pendingReplacement THEN lifecycle ELSE "idle"

Stale(e) == e.type \in Terminal /\ e.turn \in finalized

\* rememberFinalizedTurn: a turn that was the active one.
OfActiveTurn(e) == e.turn # 0 /\ e.turn = activeForegroundTurnId
RememberAny(e) == e.type \in Terminal
Remember(e) == e.type \in Terminal /\ OfActiveTurn(e)

\* isTurnTerminalEvent, which ends a generator.
Ends(e) == e.type \in Terminal

\* dispatchSessionEvent and handleStreamEvent.
Handle(e) ==
  IF Stale(e) THEN UNCHANGED manager
  ELSE LET ends == e.type \in Terminal
           error == IF ends THEN e.type = "failed" ELSE lastError
       IN /\ lastError' = error
          /\ finalized' = IF Remember(e) THEN finalized \cup {e.turn} ELSE finalized
          /\ IF OfActiveTurn(e) /\ ends
             THEN activeForegroundTurnId' = 0 /\ lifecycle' = AfterTurn(error)
             ELSE /\ lifecycle' = IF OfActiveTurn(e) THEN lifecycle ELSE AfterOthers(e.type)
                  /\ UNCHANGED activeForegroundTurnId
          /\ told' = [r \in Run |-> IF Ends(e) /\ r = e.turn /\ Waiting(r) THEN e.type ELSE told[r]]
          /\ UNCHANGED <<pendingReplacement, pendingRun, run>>

Dispatch ==
  /\ tail # <<>> /\ tail' = Tail(tail)
  /\ Handle(Head(tail))
  /\ UNCHANGED <<cancel, session, process>>

\* The generator yields the terminal event, and its finally block runs.
AfterRun(r) == IF pendingRun = r THEN 0 ELSE pendingRun

Drain(r) ==
  /\ run[r] = "streaming" /\ told[r] # "nothing"
  /\ run' = [run EXCEPT ![r] = "done"]
  /\ pendingRun' = AfterRun(r)
  /\ UNCHANGED <<lifecycle, activeForegroundTurnId, pendingReplacement, lastError, finalized, told>>
  /\ UNCHANGED <<cancel, tail, session, process>>

------------------------------------------------------------------------------
(* Starting a run. *)

FreeOfTurn == activeForegroundTurnId = 0
Free == activeForegroundTurnId = 0 /\ pendingRun = 0
InFlight == lifecycle = "running" \/ ~Free

\* streamAgent, and the first part of startTurn: it ends an autonomous turn.
Held == FALSE

StreamAgent(r) ==
  /\ pendingReplacement' = Held /\ lastError' = FALSE
  /\ pendingRun' = r /\ run' = [run EXCEPT ![r] = "starting"]
  /\ foreground' = r /\ autonomous' = FALSE
  /\ tail' = tail \o (IF autonomous THEN <<[type |-> "completed", turn |-> Autonomous]>> ELSE <<>>)
                  \o <<[type |-> "started", turn |-> r]>>
  /\ UNCHANGED <<lifecycle, activeForegroundTurnId, finalized, told, pendingInterruptAbort, process>>

\* startTurn has returned: the turn is active.
Started(r) ==
  /\ run[r] = "starting" /\ tail = <<>>
  /\ activeForegroundTurnId' = r /\ lifecycle' = "running"
  /\ run' = [run EXCEPT ![r] = "streaming"]
  /\ UNCHANGED <<pendingReplacement, lastError, finalized, pendingRun, told, cancel>>

TurnId == IF foreground # 0 THEN foreground ELSE IF autonomous THEN Autonomous ELSE 0

\* ensureQuery has given a process, and the prompt is pushed.
StartTurn(r) ==
  /\ Started(r)
  /\ query' = TRUE /\ stdin' = Append(stdin, r)
  /\ UNCHANGED <<tail, session, job, spoken, pipe, answered, tasks, failures>>

\* ensureQuery has failed: the turn fails, and startTurn returns as well.
StartTurnFails(r) ==
  /\ ~query /\ Fault /\ Started(r)
  /\ tail' = <<[type |-> "failed", turn |-> TurnId]>>
  /\ foreground' = 0
  /\ UNCHANGED <<autonomous, pendingInterruptAbort, query, stdin, job, spoken, pipe, answered, tasks>>

\* startTurn has thrown, as Codex's does.  A replacing run ends its replacement.
StartTurnThrows(r) ==
  /\ run[r] = "starting" /\ tail = <<>> /\ ~query /\ Fault
  /\ run' = [run EXCEPT ![r] = "failed"] /\ pendingRun' = AfterRun(r)
  /\ lastError' = TRUE /\ lifecycle' = "error" /\ activeForegroundTurnId' = 0
  /\ pendingReplacement' = (pendingReplacement /\ cancel[r].stage = "none")
  /\ foreground' = 0
  /\ UNCHANGED <<finalized, told, cancel, tail, autonomous, pendingInterruptAbort>>
  /\ UNCHANGED <<query, stdin, job, spoken, pipe, answered, tasks>>

------------------------------------------------------------------------------
(* Cancelling a run. *)

\* ClaudeAgentSession.interrupt: the turn is over at once.
InterruptSession ==
  /\ tail' = IF foreground # 0 THEN Append(tail, [type |-> "canceled", turn |-> foreground])
             ELSE IF autonomous THEN Append(tail, [type |-> "completed", turn |-> Autonomous])
             ELSE tail
  /\ foreground' = 0
  /\ autonomous' = (autonomous /\ foreground # 0)
  /\ pendingInterruptAbort' = (query \/ pendingInterruptAbort)
  /\ stdin' = IF query THEN Append(stdin, Interrupt) ELSE stdin
  /\ UNCHANGED <<query, job, spoken, pipe, answered, tasks, failures>>

\* cancelAgentRun up to its first await that is not over at once.
BeginCancel(c) ==
  /\ InterruptSession
  /\ cancel' = [cancel EXCEPT ![c] =
       [stage |-> IF foreground = 0 /\ query THEN "interrupting" ELSE "waiting",
        turn |-> activeForegroundTurnId, pend |-> pendingRun]]

\* query.interrupt() has returned, or its time is over.
Interrupted(c) ==
  /\ cancel[c].stage = "interrupting"
  /\ cancel' = [cancel EXCEPT ![c].stage = "waiting"]
  /\ UNCHANGED <<manager, tail, session, process>>

\* cancelAgentRun is over; replaceRunForwarder goes on with streamAgent, or
\* its catch block.
GiveUp == IF activeForegroundTurnId = 0 /\ lifecycle = "running" THEN "idle" ELSE lifecycle

EndCancel(c) ==
  /\ cancel' = [cancel EXCEPT ![c] = [NoCancel EXCEPT !.stage = "over"]]
  /\ \/ c \in Stop /\ UNCHANGED <<manager, tail, session, process>>
     \/ c \in Run /\ Free /\ StreamAgent(c)
     \/ /\ c \in Run /\ ~Free
        /\ run' = [run EXCEPT ![c] = "rejected"]
        /\ pendingReplacement' = FALSE
        /\ lifecycle' = GiveUp
        /\ UNCHANGED <<activeForegroundTurnId, lastError, finalized, pendingRun, told>>
        /\ UNCHANGED <<tail, session, process>>

\* The waiter has settled, and then the pending run.
SettledWaiterOnly(c) == cancel[c].turn \in Run => ~Waiting(cancel[c].turn)
Settled(c) == /\ cancel[c].turn # 0 => ~Waiting(cancel[c].turn)
              /\ cancel[c].pend # 0 => pendingRun # cancel[c].pend

Canceled(c) == cancel[c].stage \in {"waiting", "forced"} /\ Settled(c) /\ EndCancel(c)

\* Two seconds are over: the turn is canceled by force.
NotForced(c) == FALSE
MustForce(c) == cancel[c].turn # 0 /\ activeForegroundTurnId = cancel[c].turn

TimedOut(c) ==
  /\ cancel[c].stage = "waiting" /\ ~Settled(c)
  /\ IF MustForce(c)
     THEN /\ Handle([type |-> "canceled", turn |-> cancel[c].turn])
          /\ cancel' = [cancel EXCEPT ![c] = [stage |-> "forced", turn |-> 0, pend |-> pendingRun]]
          /\ UNCHANGED <<tail, session, process>>
     ELSE EndCancel(c)

------------------------------------------------------------------------------
(* What comes from outside: prompts, cancellations, the process. *)

Microtask ==
  \/ Dispatch
  \/ \E r \in Run : Drain(r) \/ (query /\ StartTurn(r))
  \/ \E c \in Canceller : Canceled(c)

Quiet ==
  /\ tail = <<>>
  /\ \A r \in Run : ~(run[r] = "streaming" /\ told[r] # "nothing")
  /\ \A r \in Run : ~(run[r] = "starting" /\ query)
  /\ \A c \in Canceller : ~(cancel[c].stage \in {"waiting", "forced"} /\ Settled(c))

Starting == \E r \in Run : run[r] = "starting"
Replacing == \E r \in Run : run[r] = "replacing"
MayCancel == (may.early \/ ~Starting) /\ (may.late \/ pipe = <<>>)

NextPrompt(r) == r <= may.runs /\ run[r] = "new" /\ \A s \in Run : s < r => run[s] # "new"

\* MessageRouter.routeToAgent, or startAgentRun for an agent that is not busy.
Prompt(r) ==
  /\ Quiet /\ NextPrompt(r) /\ Free
  /\ may.overlap \/ ~Replacing
  /\ StreamAgent(r) /\ UNCHANGED cancel

\* startAgentRun with replaceRunning: replaceAgentRun.
Replace(r) ==
  /\ Quiet /\ NextPrompt(r) /\ InFlight /\ MayCancel
  /\ may.overlap \/ (~Replacing /\ \A c \in Stop : cancel[c].stage \in {"none", "over"})
  /\ run' = [run EXCEPT ![r] = "replacing"]
  /\ pendingReplacement' = TRUE /\ lifecycle' = "running"
  /\ BeginCancel(r)
  /\ UNCHANGED <<activeForegroundTurnId, lastError, finalized, pendingRun, told>>

\* cancelAgentRunCommand: the stop button, or the watchdog of a summons.
StopRun(c) ==
  /\ Quiet /\ InFlight /\ MayCancel
  /\ may.overlap \/ ~Replacing
  /\ c <= MaxRuns + may.stops
  /\ cancel[c].stage = "none" /\ \A d \in Stop : d < c => cancel[d].stage # "none"
  /\ BeginCancel(c)
  /\ UNCHANGED manager

elsewhere == <<manager, cancel, tail, session>>

\* The process takes the next prompt, aborts what it does, speaks and answers.
Reads ==
  /\ stdin # <<>>
  /\ \/ /\ job = 0 /\ Head(stdin) # Interrupt
        /\ job' = Head(stdin) /\ spoken' = FALSE /\ stdin' = Tail(stdin) /\ UNCHANGED pipe
     \/ /\ Head(stdin) = Interrupt /\ stdin' = Tail(stdin)
        /\ job' = 0 /\ spoken' = FALSE
        /\ pipe' = IF job = 0 THEN pipe ELSE Append(pipe, [type |-> "abort", of |-> job])
  /\ UNCHANGED <<elsewhere, query, answered, tasks, failures>>

Undisturbed == may.late \/ \A i \in DOMAIN stdin : stdin[i] # Interrupt

Speaks ==
  /\ job # 0 /\ Undisturbed /\ ~spoken /\ spoken' = TRUE
  /\ pipe' = Append(pipe, [type |-> "assistant", of |-> job])
  /\ UNCHANGED <<elsewhere, query, stdin, job, answered, tasks, failures>>

Answers ==
  /\ job # 0 /\ Undisturbed
  /\ \/ /\ pipe' = Append(pipe, [type |-> "success", of |-> job])
        /\ answered' = answered \cup ({job} \cap Run) /\ UNCHANGED failures
     \/ /\ pipe' = Append(pipe, [type |-> "error", of |-> job])
        /\ Fault /\ UNCHANGED answered
  /\ job' = 0 /\ spoken' = FALSE
  /\ UNCHANGED <<elsewhere, query, stdin, tasks>>

\* A background task has ended: the process goes on by itself.
Wakes ==
  /\ query /\ tasks < may.tasks /\ tasks' = tasks + 1
  /\ stdin' = Append(stdin, Autonomous)
  /\ UNCHANGED <<elsewhere, query, job, spoken, pipe, answered, failures>>

\* routeSdkMessageFromPump: a message without a turn starts an autonomous one,
\* a result ends the turn there is.
SuppressedNever(type) == FALSE
Suppressed(type) == type = "abort" \/ (type = "error" /\ pendingInterruptAbort)

Pump ==
  /\ pipe # <<>> /\ pipe' = Tail(pipe)
  /\ LET m == Head(pipe)
         ends == m.type # "assistant" /\ ~Suppressed(m.type) /\ TurnId # 0
     IN /\ pendingInterruptAbort' = (pendingInterruptAbort /\ m.type = "assistant")
        /\ foreground' = IF ends THEN 0 ELSE foreground
        /\ autonomous' = IF m.type = "assistant" THEN autonomous \/ foreground = 0
                         ELSE autonomous /\ ~(ends /\ foreground = 0)
        /\ tail' = IF ends
                   THEN Append(tail, [type |-> IF m.type = "success" THEN "completed" ELSE "failed",
                                      turn |-> TurnId])
                   ELSE IF m.type = "assistant" /\ TurnId = 0
                   THEN Append(tail, [type |-> "started", turn |-> Autonomous])
                   ELSE tail
  /\ UNCHANGED <<manager, cancel, query, stdin, job, spoken, answered, tasks, failures>>

\* failActiveTurns: the stream has ended.
Dies ==
  /\ query /\ pipe = <<>> /\ Fault /\ query' = FALSE
  /\ stdin' = <<>> /\ job' = 0 /\ spoken' = FALSE
  /\ foreground' = 0 /\ autonomous' = (autonomous /\ foreground # 0)
  /\ tail' = IF TurnId = 0 THEN tail ELSE Append(tail, [type |-> "failed", turn |-> TurnId])
  /\ UNCHANGED <<manager, cancel, pendingInterruptAbort, pipe, answered, tasks>>

Macrotask ==
  \/ \E r \in Run : Prompt(r) \/ Replace(r)
  \/ \E c \in Stop : StopRun(c)
  \/ \E r \in Run : \/ Quiet /\ StartTurn(r)
                    \/ Quiet /\ StartTurnFails(r)
                    \/ Quiet /\ StartTurnThrows(r)
  \/ \E c \in Canceller : \/ Quiet /\ Interrupted(c)
                          \/ Quiet /\ TimedOut(c)
  \/ Quiet /\ Reads
  \/ Quiet /\ Speaks
  \/ Quiet /\ Answers
  \/ Quiet /\ Wakes
  \/ Quiet /\ Pump
  \/ Quiet /\ Dies

Next == Microtask \/ Macrotask

Spec == Init /\ [][Next]_vars

\* A running program: microtasks run, timers go off and the process is given
\* time; what the process does, and whether anybody calls, is up to them.
Runs ==
  /\ WF_vars(Microtask)
  /\ \A r \in Run : WF_vars(Quiet /\ (StartTurn(r) \/ StartTurnFails(r) \/ StartTurnThrows(r)))
  /\ \A c \in Canceller : WF_vars(Quiet /\ Interrupted(c)) /\ WF_vars(Quiet /\ TimedOut(c))

FairSpec == Spec /\ Runs

------------------------------------------------------------------------------
(* What the two promise. *)

TypeOK ==
  /\ lifecycle \in {"idle", "running", "error"} /\ activeForegroundTurnId \in 0..MaxRuns
  /\ {pendingReplacement, lastError} \subseteq BOOLEAN
  /\ finalized \subseteq Run /\ pendingRun \in 0..MaxRuns
  /\ run \in [Run -> {"new", "replacing", "starting", "streaming", "done", "failed", "rejected"}]
  /\ told \in [Run -> Terminal \cup {"nothing"}]
  /\ cancel \in [Canceller -> [stage : {"none", "interrupting", "waiting", "forced", "over"},
                               turn : 0..MaxRuns, pend : 0..MaxRuns]]
  /\ tail \in Seq(Event)
  /\ foreground \in 0..MaxRuns
  /\ {autonomous, pendingInterruptAbort, query, spoken} \subseteq BOOLEAN
  /\ stdin \in Seq(1..Interrupt) /\ job \in 0..Autonomous
  /\ pipe \in Seq([type : {"assistant", "success", "error", "abort"}, of : 1..Autonomous])
  /\ answered \subseteq Run /\ tasks \in Nat /\ faults \in Nat
  /\ may \in Situations

Live(r) == run[r] \in {"starting", "streaming"}

\* "Agent already has an active run" (agent-manager.ts:1590): one run at a time,
\* the one that is pending, and a turn is active until its run has been told.
OneRun ==
  \A r \in Run :
    /\ Live(r) => pendingRun = r
    /\ Waiting(r) <=> activeForegroundTurnId = r

\* A run that is accepted finds the session free (claude/agent.ts:1730 throws
\* otherwise).
SessionFree == Free => foreground = 0

\* The active turn has somebody to end it: the session has it in the foreground
\* and the process its prompt, or its last event is on its way.
TurnHasAnEnd ==
  activeForegroundTurnId # 0 =>
    \/ \E i \in DOMAIN tail : tail[i].turn = activeForegroundTurnId /\ tail[i].type \in Terminal
    \/ /\ foreground = activeForegroundTurnId
       /\ \/ foreground = job
          \/ \E i \in DOMAIN stdin : stdin[i] = foreground
          \/ \E i \in DOMAIN pipe : pipe[i].of = foreground /\ pipe[i].type # "assistant"

\* A run is told that its turn is complete when its own prompt was answered.
\* (A cancellation that crosses a result breaks it.)
CompletedByOwnAnswer == \A r \in Run : told[r] = "completed" => r \in answered

\* As long as no cancellation is early, overlaps another or crosses a result,
\* and the process does nothing by itself (a continuation's result ends the turn
\* of the prompt that arrived meanwhile), runs get their own answers ...
Calm == ~may.early /\ ~may.overlap /\ ~may.late
OwnAnswer == Calm /\ tasks = 0 => CompletedByOwnAnswer

\* ... and the turn ends, if the process does not fail twice (it may die between
\* an interrupt and its result; pendingInterruptAbort then swallows the failure
\* of the next one).
ActiveTurnEnds == Calm /\ tasks = 0 /\ faults <= 1 => TurnHasAnEnd

\* A turn ends, and by the answer to its own prompt.
EndsByOwnAnswer == OwnAnswer /\ ActiveTurnEnds

\* A prompt that replaced a run is not turned away because of a run the
\* cancellation has left behind, unless that run had not started or another
\* prompt slipped in.
NotRejected == ~may.early /\ ~may.overlap => \A r \in Run : run[r] # "rejected"

\* An agent that is shown as running has a turn, a run or a replacement.
BusyIsReal == Quiet /\ lifecycle = "running" => ~Free \/ autonomous \/ Replacing

\* The manager and the session agree on who is busy: neither a run that is over nor
\* one that was replaced keeps a prompt out.
Admits == SessionFree /\ NotRejected /\ BusyIsReal

\* "replaceAgentRun does not emit idle [...] between interrupted and replacement
\* runs" (agent-manager.test.ts:2901), if no other prompt slips in (streamAgent
\* ends the hold) and the replacement is not cancelled while it starts.  But a
\* background task may end while the process is being interrupted: the turn it
\* begins is completed by startTurn, when the hold has ended.
Replaced(r) == cancel[r].stage # "none"
CompletesAutonomous == tail # <<>> /\ Head(tail).turn = Autonomous

NoIdleGap ==
  [][~may.early /\ ~may.overlap /\ lifecycle = "running" /\ lifecycle' = "idle"
       => \A r \in Run : Replaced(r) =>
            /\ run'[r] # "replacing" /\ ~Waiting(r)'
            /\ run'[r] = "starting" => CompletesAutonomous]_vars

\* "Cancel the run after a bound so a terminal event fires and the drain unwinds"
\* (message-router.ts:1505): the run that is pending when it is cancelled ends,
\* whatever the process does.
Unwinds(c, r) == (cancel[c].stage = "waiting" /\ Live(r) /\ cancel[c].pend = r) ~> ~Live(r)
EveryCancelUnwinds == \A c \in Canceller, r \in Run : Unwinds(c, r)

\* It does if startTurn had returned.
CancelUnwinds == may.early \/ EveryCancelUnwinds

\* The turn that was active when it was cancelled is over at the latest after
\* two seconds, in every situation: "force-dispatch a synthetic turn_canceled"
\* (agent-manager.ts:1937).
TurnUnwinds ==
  \A c \in Canceller, r \in Run :
    (cancel[c].stage = "waiting" /\ cancel[c].turn = r) ~> activeForegroundTurnId # r

\* Stopping works: the pending run ends, the active turn is over.
StopsUnwind == CancelUnwinds /\ TurnUnwinds

\* A replacing prompt gets its turn, if it cancels a run that had started.
Replaces ==
  may.early \/ may.overlap
    \/ \A r \in Run : run[r] = "replacing" ~> run[r] \in {"streaming", "done", "failed"}
=============================================================================
