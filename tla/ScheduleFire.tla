---------------------------- MODULE ScheduleFire ----------------------------
(***************************************************************************)
(* The schedule runner: a cybo run every time a cron slot comes due.       *)
(* Every daemon that holds a copy of the schedule keeps its own row in     *)
(* SQLite and advances it by itself; the right to fire a slot is one row   *)
(* of a table they share in PostgreSQL.  A tick works on the rows it read  *)
(* when it began, across three calls it waits for, while users edit,       *)
(* pause, delete or run the schedule by hand and earlier runs go on.       *)
(*                                                                         *)
(* Schedules share nothing but the tick, so one is enough: the time a tick *)
(* spends on other schedules is the gap between TickBegins and ProcessDue. *)
(* A cadence is a period; the run itself, from the spawn to the end of the *)
(* cybo's turn, is the time between StartRun and FireSettles.              *)
(***************************************************************************)
EXTENDS Integers, Sequences, FiniteSets

CONSTANTS
  Daemon,      \* the daemons that hold a copy of the schedule
  Crons,       \* the cadences users choose from, as periods
  Caps,        \* the values of max_runs (Never: recurring)
  MaxTime,     \* bound: the clock
  MaxEvents    \* bound, on all of these together: "Run now" requests; updates,
               \* pauses, resumes and deletions; failing calls to PostgreSQL, restarts,
               \* changes of the creator's access and of the licence

Never == 0

ASSUME ScheduleAssumption ==
  /\ Crons \subseteq Nat \ {0} /\ Caps \subseteq Nat
  /\ MaxTime \in Nat /\ MaxEvents \in Nat

VARIABLES
  now,         \* the clock
  policy,      \* the schedule's max_runs and catch_up: never change
  row,         \* [daemon -> its SQLite row]
  job,         \* [daemon -> the row its tick read and how far it is]
  manual,      \* [daemon -> its runOnce calls waiting for each check]
  inFlight,    \* [daemon -> the schedule is in this.inFlight]
  live,        \* [daemon -> the runs its process has going]
  runs,        \* [daemon -> the run rows it opened: for which slot, their status]
  skipped,     \* [daemon -> the skips on record: slot and reason]
  claims,      \* the slots claimed in PostgreSQL
  localClaims, \* [daemon -> the slots claimed in its SQLite]
  authorized,  \* the creator still has access
  paused,      \* the workspace's licence is paused
  fellBack,    \* history: <<daemon, slot>> of claims PostgreSQL failed
  resumes,     \* history: [daemon -> resumes handled]
  used         \* how many events of each kind there were

stores == <<row, runs, skipped, claims, localClaims>>
process == <<job, manual, inFlight, live>>
world == <<policy, authorized, paused>>
history == <<fellBack, resumes>>
vars == <<now, stores, process, world, history, used>>

\* computeNextRunAt: the first occurrence after t.
NextAfter(c, t) == (t \div c + 1) * c

Slot == UNION {{NextAfter(c, t) : t \in 0..MaxTime} : c \in Crons}
Reason == {"overlap", "unauthorized", "license_paused", "duplicate"}
Policy == [maxRuns : Caps, catchUp : BOOLEAN]

Idle == [at |-> "idle", cron |-> Never, slot |-> Never, runs |-> 0, next |-> Never]

Init ==
  /\ now = 0 /\ policy \in Policy
  /\ \E c \in Crons : row = [d \in Daemon |-> [held |-> TRUE, enabled |-> TRUE, cron |-> c,
                                               next |-> NextAfter(c, 0), runs |-> 0]]
  /\ job = [d \in Daemon |-> Idle]
  /\ manual = [d \in Daemon |-> [authorize |-> 0, license |-> 0]]
  /\ inFlight = [d \in Daemon |-> FALSE] /\ live = [d \in Daemon |-> {}]
  /\ runs = [d \in Daemon |-> <<>>] /\ skipped = [d \in Daemon |-> {}]
  /\ claims = {} /\ localClaims = [d \in Daemon |-> {}]
  /\ authorized = TRUE /\ paused = FALSE
  /\ fellBack = {} /\ resumes = [d \in Daemon |-> 0]
  /\ used = [manual |-> 0, edits |-> 0, faults |-> 0, restarts |-> 0]

Event(kind) ==
  /\ used.manual + used.edits + used.faults + used.restarts < MaxEvents
  /\ used' = [used EXCEPT ![kind] = @ + 1]
Fault == Event("faults")

\* A check of PostgreSQL that lets the run pass when it fails.
Passes(ok) == (ok /\ UNCHANGED used) \/ (~ok /\ Fault)

------------------------------------------------------------------------------
(* Writes.  (An operator named as a slip of the code would read is a mutant   *)
(* of the one after it.)                                                      *)

\* An UPDATE of a row that was deleted changes nothing.
Write(d, r) == row' = [row EXCEPT ![d] = IF @.held THEN r ELSE @]

\* markScheduleRun, with and without bumping run_count.
Marked(d, next, count) == [row[d] EXCEPT !.next = next, !.runs = @ + count]

RecordSkip(d, reason) == skipped' = [skipped EXCEPT ![d] = @ \cup {<<job[d].slot, reason>>}]

EndJob(d) == job' = [job EXCEPT ![d] = Idle]
Proceed(d, to) == job' = [job EXCEPT ![d].at = to]

\* startScheduleRun, inFlight.add and the start of fire.
StartRun(d, slot) ==
  /\ runs' = [runs EXCEPT ![d] = Append(@, [slot |-> slot, status |-> "running"])]
  /\ live' = [live EXCEPT ![d] = @ \cup {Len(runs[d]) + 1}]
  /\ inFlight' = [inFlight EXCEPT ![d] = TRUE]

\* fire settles: the run row is closed, and finally() deletes the schedule from
\* inFlight whatever else is running.
KeptInFlight(d) == inFlight[d]
StillInFlight(d) == FALSE

FireSettles(d, i) ==
  /\ i \in live[d]
  /\ live' = [live EXCEPT ![d] = @ \ {i}]
  /\ inFlight' = [inFlight EXCEPT ![d] = StillInFlight(d)]
  /\ runs' = [runs EXCEPT ![d][i].status = "closed"]
  /\ UNCHANGED <<now, row, skipped, claims, localClaims, job, manual, world, history, used>>

------------------------------------------------------------------------------
(* The tick.                                                                  *)

\* getDueSchedules.
Due(d) == row[d].held /\ row[d].enabled /\ row[d].next # Never /\ row[d].next <= now

\* The tick reads the row; ticking keeps the next tick out.
TickBegins(d) ==
  /\ job[d].at = "idle"
  /\ Due(d)
  /\ job' = [job EXCEPT ![d] = [at |-> "due", cron |-> row[d].cron, slot |-> row[d].next,
                                runs |-> row[d].runs, next |-> Never]]
  /\ UNCHANGED <<now, stores, manual, inFlight, live, world, history, used>>

NeverOverlaps(d) == FALSE
Overlaps(d) == inFlight[d]

MoreThanOnePeriodLate(d) == NextAfter(job[d].cron, job[d].slot) <= now

ProcessDue(d) ==
  LET next == NextAfter(job[d].cron, now) IN
  /\ job[d].at = "due"
  /\ \/ /\ Overlaps(d)
        /\ RecordSkip(d, "overlap") /\ EndJob(d) /\ UNCHANGED row
     \/ /\ ~Overlaps(d) /\ ~policy.catchUp /\ MoreThanOnePeriodLate(d)
        /\ Write(d, Marked(d, next, 0)) /\ EndJob(d) /\ UNCHANGED skipped
     \/ /\ ~Overlaps(d) /\ (policy.catchUp \/ ~MoreThanOnePeriodLate(d))
        /\ job' = [job EXCEPT ![d].at = "authorize", ![d].next = next]
        /\ UNCHANGED <<row, skipped>>
  /\ UNCHANGED <<now, runs, claims, localClaims, manual, inFlight, live, world, history, used>>

\* isCreatorStillAuthorized answers: a failing look-up of the creator's cloud account
\* makes it ask for the local id, which has no access; a failing check of the access
\* itself allows the run.
Refuses == (~authorized /\ UNCHANGED used) \/ (authorized /\ Fault)

Authorize(d) ==
  /\ job[d].at = "authorize"
  /\ \/ /\ Refuses
        /\ RecordSkip(d, "unauthorized") /\ EndJob(d)
        /\ Write(d, [row[d] EXCEPT !.enabled = FALSE])
     \/ /\ Passes(authorized)
        /\ Proceed(d, "license") /\ UNCHANGED <<row, skipped>>
  /\ UNCHANGED <<now, runs, claims, localClaims, manual, inFlight, live, world, history>>

\* isLicensePaused answers; a failing check allows the run.  The slot is consumed
\* here, before it is claimed: next_run_at moves on, or a one-shot ends.
CompletesLate(d) == policy.maxRuns # Never /\ job[d].runs >= policy.maxRuns
CompletesOneShot(d) == policy.maxRuns # Never /\ job[d].runs + 1 >= policy.maxRuns
PausedSkip(d) == Marked(d, job[d].next, 0)

License(d) ==
  /\ job[d].at = "license"
  /\ \/ /\ paused
        /\ RecordSkip(d, "license_paused") /\ EndJob(d) /\ Write(d, PausedSkip(d))
        /\ UNCHANGED used
     \/ /\ Passes(~paused)
        /\ Write(d, IF CompletesOneShot(d) THEN [Marked(d, Never, 1) EXCEPT !.enabled = FALSE]
                                           ELSE Marked(d, job[d].next, 1))
        /\ Proceed(d, "claim") /\ UNCHANGED skipped
  /\ UNCHANGED <<now, runs, claims, localClaims, manual, inFlight, live, world, history>>

\* claimScheduleDispatch answers, and the winner fires.
WonLocally(d, slot) == slot \notin localClaims[d]
Won(d, slot) == slot \notin claims

ClaimAnswered(d, won) ==
  /\ EndJob(d)
  /\ IF won THEN StartRun(d, job[d].slot) /\ UNCHANGED skipped
            ELSE RecordSkip(d, "duplicate") /\ UNCHANGED <<runs, live, inFlight>>

Claim(d) ==
  /\ job[d].at = "claim"
  /\ ClaimAnswered(d, Won(d, job[d].slot))
  /\ claims' = claims \cup {job[d].slot}
  /\ UNCHANGED <<now, row, localClaims, manual, world, history, used>>

\* The claim fails, with or without its row: the local claim decides.
ClaimFails(d) ==
  /\ job[d].at = "claim" /\ Fault
  /\ ClaimAnswered(d, job[d].slot \notin localClaims[d])
  /\ localClaims' = [localClaims EXCEPT ![d] = @ \cup {job[d].slot}]
  /\ claims' \in {claims, claims \cup {job[d].slot}}
  /\ fellBack' = fellBack \cup {<<d, job[d].slot>>}
  /\ UNCHANGED <<now, row, manual, world, resumes>>

TickStep(d) == ProcessDue(d) \/ Authorize(d) \/ License(d) \/ Claim(d) \/ ClaimFails(d)

------------------------------------------------------------------------------
(* "Run now".                                                                 *)

RunOnce(d) ==
  /\ row[d].held /\ ~inFlight[d]
  /\ Event("manual")
  /\ manual' = [manual EXCEPT ![d].authorize = @ + 1]
  /\ UNCHANGED <<now, stores, job, inFlight, live, world, history>>

AskedMaybe(d) == manual[d].authorize >= 0
Asked(d) == manual[d].authorize > 0

RunOnceAuthorized(d) ==
  /\ Asked(d)
  /\ \/ /\ Refuses
        /\ manual' = [manual EXCEPT ![d].authorize = @ - 1]
     \/ /\ Passes(authorized)
        /\ manual' = [manual EXCEPT ![d].authorize = @ - 1, ![d].license = @ + 1]
  /\ UNCHANGED <<now, stores, job, inFlight, live, world, history>>

\* The run starts off the cadence, and inFlight is not looked at again.
RunOnceLicensed(d) ==
  /\ manual[d].license > 0
  /\ manual' = [manual EXCEPT ![d].license = @ - 1]
  /\ \/ /\ paused /\ UNCHANGED <<used, runs, live, inFlight>>
     \/ /\ Passes(~paused)
        /\ StartRun(d, Never)
  /\ UNCHANGED <<now, row, skipped, claims, localClaims, job, world, history>>

------------------------------------------------------------------------------
(* The handlers of the user's edits: synchronous, at any moment of a tick.    *)

Edit(d, r) ==
  /\ row[d].held /\ Event("edits")
  /\ row' = [row EXCEPT ![d] = r]
  /\ UNCHANGED <<now, runs, skipped, claims, localClaims, process, world, fellBack>>

UpdateSchedule(d) ==
  \E c \in Crons :
    /\ Edit(d, [row[d] EXCEPT !.cron = c, !.next = NextAfter(c, now)])
    /\ UNCHANGED resumes

Pause(d) == Edit(d, [row[d] EXCEPT !.enabled = FALSE]) /\ UNCHANGED resumes

\* A slot that passed meanwhile is not fired on resume.
Resume(d) ==
  /\ Edit(d, [row[d] EXCEPT !.enabled = TRUE,
                            !.next = IF @ <= now THEN NextAfter(row[d].cron, now) ELSE @])
  /\ resumes' = [resumes EXCEPT ![d] = @ + 1]

DeleteSchedule(d) == Edit(d, [row[d] EXCEPT !.held = FALSE]) /\ UNCHANGED resumes

------------------------------------------------------------------------------
(* The world.                                                                 *)

Clock ==
  /\ now < MaxTime /\ now' = now + 1
  /\ UNCHANGED <<stores, process, world, history, used>>

AccessChanges ==
  /\ Fault /\ authorized' = ~authorized
  /\ UNCHANGED <<now, stores, process, policy, paused, history>>

LicenceChanges ==
  /\ Fault /\ paused' = ~paused
  /\ UNCHANGED <<now, stores, process, policy, authorized, history>>

\* The daemon restarts: what it had going is gone, its run rows stay "running".
Restart(d) ==
  /\ Event("restarts")
  /\ job' = [job EXCEPT ![d] = Idle]
  /\ manual' = [manual EXCEPT ![d] = [authorize |-> 0, license |-> 0]]
  /\ inFlight' = [inFlight EXCEPT ![d] = FALSE]
  /\ live' = [live EXCEPT ![d] = {}]
  /\ UNCHANGED <<now, stores, world, history>>

Next ==
  \/ Clock \/ AccessChanges \/ LicenceChanges
  \/ \E d \in Daemon :
       \/ TickBegins(d) \/ ProcessDue(d) \/ Authorize(d) \/ License(d) \/ Claim(d) \/ ClaimFails(d)
       \/ RunOnce(d) \/ RunOnceAuthorized(d) \/ RunOnceLicensed(d)
       \/ UpdateSchedule(d) \/ Pause(d) \/ Resume(d) \/ DeleteSchedule(d)
       \/ Restart(d)
       \/ \E i \in live[d] : FireSettles(d, i)

Spec == Init /\ [][Next]_vars

\* The timer of a minute keeps ticking, the calls a tick waits for answer or fail, and a
\* run ends: an unattended cybo has no prompt to wait for.
Fairness ==
  \A d \in Daemon :
    /\ WF_vars(TickBegins(d)) /\ WF_vars(TickStep(d))
    /\ WF_vars(\E i \in live[d] : FireSettles(d, i))

FairSpec == Spec /\ Fairness

------------------------------------------------------------------------------
(* Properties.                                                                *)

\* Every variable has its type.
TypeOK ==
  /\ now \in 0..MaxTime /\ policy \in Policy
  /\ row \in [Daemon -> [held : BOOLEAN, enabled : BOOLEAN, cron : Crons,
                         next : Slot \cup {Never}, runs : Nat]]
  /\ job \in [Daemon -> [at : {"idle", "due", "authorize", "license", "claim"},
                         cron : Crons \cup {Never}, slot : Slot \cup {Never}, runs : Nat,
                         next : Slot \cup {Never}]]
  /\ manual \in [Daemon -> [authorize : Nat, license : Nat]]
  /\ inFlight \in [Daemon -> BOOLEAN] /\ \A d \in Daemon : live[d] \subseteq DOMAIN runs[d]
  /\ runs \in [Daemon -> Seq([slot : Slot \cup {Never}, status : {"running", "closed"}])]
  /\ skipped \in [Daemon -> SUBSET (Slot \X Reason)]
  /\ claims \subseteq Slot /\ localClaims \in [Daemon -> SUBSET Slot]
  /\ authorized \in BOOLEAN /\ paused \in BOOLEAN
  /\ fellBack \subseteq Daemon \X Slot /\ resumes \in [Daemon -> Nat]
  /\ used \in [manual : Nat, edits : Nat, faults : Nat, restarts : Nat]

FiredFor(d, s) == {i \in DOMAIN runs[d] : runs[d][i].slot = s}
FiredBy(d) == {i \in DOMAIN runs[d] : runs[d][i].slot # Never}

\* A slot fires at most once on a daemon, whatever is edited, run by hand, failing
\* or restarted meanwhile, and at most once among all daemons but for those whose
\* claim PostgreSQL failed (schedule-runner.ts:257, dual-storage.ts:920).
OncePerSlot ==
  \A s \in Slot :
    /\ \A d \in Daemon : \A i, j \in FiredFor(d, s) : i = j
    /\ \A d, e \in Daemon : FiredFor(d, s) # {} /\ FiredFor(e, s) # {} =>
         d = e \/ <<d, s>> \in fellBack \/ <<e, s>> \in fellBack

\* A one-shot fires no more often than max_runs, each resume by a user allowing one
\* more, although the tick decides on the run_count it read before it waited.
OneShotEnds ==
  policy.maxRuns # Never =>
    \A d \in Daemon : Cardinality(FiredBy(d)) <= policy.maxRuns + resumes[d]

\* Runs of the schedule pile up on a daemon only through "Run now": the overlap
\* guard keeps cron runs apart although a settling run clears the flag of another.
PilesUpByHandOnly ==
  \A d \in Daemon : Cardinality(live[d]) <= 1 + used.manual

\* The runs counted in run_count are those on record, fired or lost to another
\* daemon, but for the one being claimed and those a restart cut short.
CountedRunsOnRecord ==
  \A d \in Daemon : row[d].held =>
    LET recorded == Cardinality(FiredBy(d)) + Cardinality({k \in skipped[d] : k[2] = "duplicate"})
        claiming == IF job[d].at = "claim" THEN 1 ELSE 0
    IN /\ recorded + claiming <= row[d].runs
       /\ row[d].runs <= recorded + claiming + used.restarts

\* What the counter allows and what it has counted, over reads that are stale and
\* writes that fail.
CountsAgree == OneShotEnds /\ CountedRunsOnRecord

\* The runner always catches up with the clock: a slot that is due is passed, ends
\* or is paused, however long runs overlap and whatever fails.
CatchesUp == \A d \in Daemon : []<>~Due(d)
=============================================================================
