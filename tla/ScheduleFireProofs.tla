------------------------- MODULE ScheduleFireProofs -------------------------
(* Proofs about ScheduleFire, for any number of daemons, cadences, edits and  *)
(* faults: a slot fires at most once, on each daemon and among all of them;   *)
(* runs pile up only by hand; run_count agrees with what is on record.  On    *)
(* one daemon the slots that fired lie behind the row's next slot and behind  *)
(* the one a tick works on; between daemons a slot that fired without         *)
(* PostgreSQL failing is one claimed there.                                   *)
EXTENDS ScheduleFire, FiniteSetTheorems, TLAPS

Stages == {"due", "authorize", "license", "claim"}
RunRow == [slot : Nat, status : {"running", "closed"}]
ScheduleRow == [held : BOOLEAN, enabled : BOOLEAN, cron : Crons, next : Nat, runs : Nat]
JobRow == [at : Stages \cup {"idle"}, cron : Crons \cup {Never}, slot : Nat, runs : Nat, next : Nat]

\* The variables the argument is about are well formed.
Typed ==
  /\ now \in Nat
  /\ row \in [Daemon -> ScheduleRow]
  /\ job \in [Daemon -> JobRow]
  /\ \A d \in Daemon : job[d].at # "idle" => job[d].cron \in Crons
  /\ runs \in [Daemon -> Seq(RunRow)]

\* Everything fired on d was for a slot before s.
FiredBefore(d, s) == \A i \in DOMAIN runs[d] : runs[d][i].slot # Never => runs[d][i].slot < s

\* What fired on d lies behind the clock, the row's next slot and the tick's slot,
\* which the row has passed by the time it is claimed.
Ordered(d) ==
  /\ FiredBefore(d, now + 1)
  /\ row[d].held /\ row[d].next # Never => FiredBefore(d, row[d].next)
  /\ job[d].at # "idle" =>
       /\ job[d].slot # Never /\ job[d].slot <= now
       /\ FiredBefore(d, job[d].slot)
  /\ job[d].at \in {"authorize", "license"} => job[d].next > job[d].slot
  /\ job[d].at = "claim" /\ row[d].held /\ row[d].next # Never => row[d].next > job[d].slot

Fired(d, s) == \E i \in DOMAIN runs[d] : runs[d][i].slot = s

OnceOn(d) ==
  \A i, j \in DOMAIN runs[d] :
    runs[d][i].slot = runs[d][j].slot /\ runs[d][i].slot # Never => i = j

\* A slot that fired is claimed in PostgreSQL, or PostgreSQL failed the claim.
Covered == \A d \in Daemon : \A s \in Nat \ {Never} :
             Fired(d, s) => s \in claims \/ <<d, s>> \in fellBack

Apart == \A d, e \in Daemon : \A s \in Nat \ {Never} :
           Fired(d, s) /\ Fired(e, s) => d = e \/ <<d, s>> \in fellBack \/ <<e, s>> \in fellBack

\* The inductive invariant.
FireInv ==
  /\ Typed
  /\ \A d \in Daemon : Ordered(d) /\ OnceOn(d)
  /\ Covered /\ Apart

\* The next occurrence is a slot, and lies after the given moment.
LEMMA NextIsLater ==
  ASSUME NEW c \in Nat \ {0}, NEW t \in Nat
  PROVE  NextAfter(c, t) \in Nat /\ NextAfter(c, t) > t
<1> DEFINE q == t \div c
<1>1. q \in Int /\ t % c \in 0..(c - 1)
  OBVIOUS
<1>2. t = c * q + (t % c)
  OBVIOUS
<1>3. (q + 1) * c = c * q + c
  BY <1>1
<1>4. QED
  BY <1>1, <1>2, <1>3 DEF NextAfter

\* The same, for the cadences of the schedule.
LEMMA CadenceMoves ==
  ASSUME ScheduleAssumption, NEW c \in Crons, NEW t \in Nat
  PROVE  NextAfter(c, t) \in Nat /\ NextAfter(c, t) > t /\ NextAfter(c, t) # Never
BY NextIsLater DEF ScheduleAssumption, Never

\* A tick that ended is well formed.
LEMMA IdleTyped == Idle \in JobRow /\ Idle.at = "idle"
BY DEF Idle, JobRow, Never

\* The slots of run rows are numbers.
LEMMA SlotsTyped ==
  ASSUME FireInv, NEW d \in Daemon PROVE \A i \in DOMAIN runs[d] : runs[d][i].slot \in Nat
<1>1. runs[d] \in Seq(RunRow)
  BY DEF FireInv, Typed
<1>2. \A i \in DOMAIN runs[d] : runs[d][i] \in RunRow
  BY <1>1
<1>3. QED
  BY <1>2 DEF RunRow

\* The invariant holds initially: nothing has fired.
LEMMA InitFire == ASSUME ScheduleAssumption, Init PROVE FireInv
<1>1. \A c \in Crons : NextAfter(c, 0) \in Nat
  BY CadenceMoves
<1>2. PICK c \in Crons : row = [d \in Daemon |-> [held |-> TRUE, enabled |-> TRUE, cron |-> c,
                                                 next |-> NextAfter(c, 0), runs |-> 0]]
  BY DEF Init
<1>3. now = 0 /\ runs = [d \in Daemon |-> <<>>] /\ job = [d \in Daemon |-> Idle]
  BY DEF Init
<1>4. Typed
  BY <1>1, <1>2, <1>3, IdleTyped DEF Typed, ScheduleRow
<1>5. \A d \in Daemon : DOMAIN runs[d] = {} /\ job[d].at = "idle"
  BY <1>3 DEF Idle
<1>6. QED
  BY <1>4, <1>5 DEF FireInv, Ordered, OnceOn, FiredBefore, Fired, Covered, Apart

\* A step that opens no run row: it is enough to look at the order again.
LEMMA QuietStep ==
  ASSUME FireInv, Typed', UNCHANGED <<runs, claims, fellBack>>,
         \A d \in Daemon : Ordered(d)'
  PROVE  FireInv'
BY DEF FireInv, OnceOn, Covered, Apart, Fired

\* ... and only at the daemon that took it.
LEMMA QuietStepAt ==
  ASSUME FireInv, NEW d \in Daemon, UNCHANGED <<now, runs, claims, fellBack>>, Typed', Ordered(d)',
         \A e \in Daemon \ {d} : row'[e] = row[e] /\ job'[e] = job[e]
  PROVE  FireInv'
<1>1. ASSUME NEW e \in Daemon \ {d} PROVE Ordered(e)'
  BY <1>1 DEF FireInv, Ordered, FiredBefore
<1>2. QED
  BY <1>1, QuietStep

\* A run row is opened on d for a slot the daemon had not fired, which is claimed
\* in PostgreSQL by it or failed there, or for no slot.
LEMMA OpeningStep ==
  ASSUME FireInv, NEW d \in Daemon, NEW s \in Nat, StartRun(d, s),
         s # Never => /\ FiredBefore(d, s) /\ s <= now
                      /\ row[d].held /\ row[d].next # Never => s < row[d].next
                      /\ \/ s \notin claims /\ s \in claims'
                         \/ <<d, s>> \in fellBack',
         s = Never => job' = job, s # Never => job' = [job EXCEPT ![d] = Idle],
         UNCHANGED <<now, row>>, claims \subseteq claims', fellBack \subseteq fellBack'
  PROVE  FireInv'
<1> DEFINE n == Len(runs[d]) + 1
           new == [slot |-> s, status |-> "running"]
<1>1. runs \in [Daemon -> Seq(RunRow)] /\ new \in RunRow
  BY DEF FireInv, Typed, RunRow
<1>2. /\ runs' = [runs EXCEPT ![d] = Append(@, new)]
      /\ runs'[d] = Append(runs[d], new) /\ runs[d] \in Seq(RunRow)
  BY <1>1 DEF StartRun
<1>3. /\ DOMAIN runs'[d] = DOMAIN runs[d] \cup {n} /\ n \notin DOMAIN runs[d]
      /\ runs'[d][n] = new
      /\ \A i \in DOMAIN runs[d] : runs'[d][i] = runs[d][i]
  BY <1>1, <1>2
<1>4. \A e \in Daemon \ {d} : runs'[e] = runs[e]
  BY <1>2
<1>5. Typed'
  <2>1. runs' \in [Daemon -> Seq(RunRow)]
    BY <1>1, <1>2
  <2>2. CASE s = Never
    BY <2>1, <2>2 DEF FireInv, Typed
  <2>3. CASE s # Never
    <3>1. job' = [job EXCEPT ![d] = Idle]
      BY <2>3
    <3>2. QED
      BY <2>1, <3>1, IdleTyped DEF FireInv, Typed
  <2>4. QED
    BY <2>2, <2>3
<1>6. ASSUME NEW e \in Daemon \ {d} PROVE Ordered(e)' /\ OnceOn(e)'
  <2>1. job'[e] = job[e] /\ row'[e] = row[e] /\ now' = now
    BY DEF FireInv, Typed
  <2>2. QED
    BY <1>4, <1>6, <2>1 DEF FireInv, Ordered, FiredBefore, OnceOn
<1>7. Ordered(d)' /\ OnceOn(d)'
  <2>1. CASE s = Never
    <3>1. job'[d] = job[d] /\ row'[d] = row[d] /\ now' = now
      BY <2>1
    <3>2. \A t : FiredBefore(d, t)' = FiredBefore(d, t)
      BY <1>3, <2>1 DEF FiredBefore
    <3>3. QED
      BY <1>3, <2>1, <3>1, <3>2 DEF FireInv, Ordered, OnceOn, FiredBefore
  <2>2. CASE s # Never
    <3>1. job'[d].at = "idle" /\ row'[d] = row[d] /\ now' = now
      BY <2>2 DEF FireInv, Typed, Idle
    <3>2. \A t \in Nat : FiredBefore(d, t) /\ s < t => FiredBefore(d, t)'
      BY <1>3 DEF FiredBefore
    <3>3. row[d].next \in Nat /\ now \in Nat
      BY DEF FireInv, Typed, ScheduleRow
    <3>4. Ordered(d)'
      BY <2>2, <3>1, <3>2, <3>3 DEF FireInv, Ordered
    <3>5. \A i \in DOMAIN runs[d] : runs[d][i].slot # s
      <4>1. \A i \in DOMAIN runs[d] : runs[d][i].slot \in Nat
        BY SlotsTyped
      <4>2. QED
        BY <2>2, <4>1 DEF FiredBefore
    <3>6. OnceOn(d)'
      BY <1>3, <3>5 DEF FireInv, OnceOn
    <3>7. QED
      BY <3>4, <3>6
  <2>3. QED
    BY <2>1, <2>2
<1>8. /\ \A e \in Daemon, t \in Nat : Fired(e, t)' => Fired(e, t) \/ (e = d /\ t = s)
  BY <1>3, <1>4 DEF Fired
<1>9. Covered'
  BY <1>8 DEF FireInv, Covered
<1>10. Apart'
  BY <1>8 DEF FireInv, Apart, Covered
<1>11. QED
  BY <1>5, <1>6, <1>7, <1>9, <1>10 DEF FireInv

\* The tick's row is read: its slot is due and nothing fired for it.
LEMMA BeginStep == ASSUME FireInv, NEW d \in Daemon, TickBegins(d) PROVE FireInv'
<1> DEFINE read == [at |-> "due", cron |-> row[d].cron, slot |-> row[d].next,
                    runs |-> row[d].runs, next |-> Never]
<1>1. job' = [job EXCEPT ![d] = read] /\ UNCHANGED <<now, row, runs, claims, fellBack>>
  BY DEF TickBegins, stores, history
<1>2. row[d].held /\ row[d].next # Never /\ row[d].next <= now
  BY DEF TickBegins, Due
<1>3. read \in JobRow /\ row[d].cron \in Crons
  BY DEF FireInv, Typed, ScheduleRow, JobRow, Stages, Never
<1>4. Typed'
  BY <1>1, <1>3 DEF FireInv, Typed
<1>5. job'[d] = read
  BY <1>1 DEF FireInv, Typed
<1>6. Ordered(d)'
  BY <1>1, <1>2, <1>5 DEF FireInv, Ordered, FiredBefore
<1>7. QED
  BY <1>1, <1>4, <1>6, QuietStepAt DEF FireInv, Typed

\* A tick ends or goes on to a later stage, and the row moves on or stays.
LEMMA StageStep ==
  ASSUME FireInv, NEW d \in Daemon, NEW r \in ScheduleRow, NEW j \in JobRow,
         row' = [row EXCEPT ![d] = r], job' = [job EXCEPT ![d] = j],
         job[d].at # "idle", job[d].at # "claim",
         r.held => row[d].held,
         r.next = row[d].next \/ r.next = Never \/ r.next > job[d].slot,
         j.at # "idle" => j.slot = job[d].slot /\ j.cron = job[d].cron,
         j.at \in {"authorize", "license"} => j.next > job[d].slot,
         j.at = "claim" /\ r.held => r.next = Never \/ r.next > job[d].slot,
         UNCHANGED <<now, runs, claims, fellBack>>
  PROVE  FireInv'
<1>1. /\ row'[d] = r /\ job'[d] = j
      /\ \A e \in Daemon \ {d} : row'[e] = row[e] /\ job'[e] = job[e]
  BY DEF FireInv, Typed
<1>2. Typed'
  BY <1>1 DEF FireInv, Typed
<1>3. \A t : FiredBefore(d, t)' = FiredBefore(d, t)
  BY DEF FiredBefore
<1>4. FiredBefore(d, job[d].slot) /\ FiredBefore(d, now + 1) /\ job[d].slot # Never /\ job[d].slot <= now
  BY DEF FireInv, Ordered
<1>5. r.held /\ r.next # Never => FiredBefore(d, r.next)
  <2>1. CASE r.next = row[d].next
    BY <2>1 DEF FireInv, Ordered
  <2>2. CASE r.next > job[d].slot
    <3>1. r.next \in Nat /\ job[d].slot \in Nat
      BY DEF FireInv, Typed, ScheduleRow, JobRow
    <3>2. \A i \in DOMAIN runs[d] : runs[d][i].slot \in Nat
      BY SlotsTyped
    <3>3. QED
      BY <1>4, <2>2, <3>1, <3>2 DEF FiredBefore
  <2>3. QED
    BY <2>1, <2>2
<1>6. Ordered(d)'
  BY <1>1, <1>3, <1>4, <1>5 DEF Ordered
<1>7. QED
  BY <1>1, <1>2, <1>6, QuietStepAt

\* The tick's row as the step of a stage finds it.
LEMMA AtStage ==
  ASSUME FireInv, NEW d \in Daemon, job[d].at # "idle"
  PROVE  /\ job[d] \in JobRow /\ job[d].cron \in Crons /\ job[d].slot \in Nat /\ job[d].next \in Nat
         /\ job[d].slot # Never /\ job[d].slot <= now /\ now \in Nat
         /\ row[d] \in ScheduleRow
BY DEF FireInv, Typed, Ordered, JobRow

\* markScheduleRun keeps the row's type.
LEMMA MarkedTyped ==
  ASSUME NEW d \in Daemon, row[d] \in ScheduleRow, NEW next \in Nat, NEW count \in {0, 1}
  PROVE  /\ Marked(d, next, count) \in ScheduleRow
         /\ Marked(d, next, count).held = row[d].held
         /\ Marked(d, next, count).next = next
<1>1. row[d].runs + count \in Nat
  BY DEF ScheduleRow
<1>2. QED
  BY <1>1 DEF Marked, ScheduleRow

\* processDue: an overlap ends the tick, a late slot is passed over, and otherwise
\* the slot after now is worked out.
LEMMA DueStep == ASSUME ScheduleAssumption, FireInv, NEW d \in Daemon, ProcessDue(d) PROVE FireInv'
<1> DEFINE next == NextAfter(job[d].cron, now)
           r == IF row[d].held THEN Marked(d, next, 0) ELSE row[d]
           j == [job[d] EXCEPT !.at = "authorize", !.next = next]
<1>1. job[d].at = "due" /\ UNCHANGED <<now, runs, claims, fellBack>>
  BY DEF ProcessDue, history
<1>2. next \in Nat /\ next > job[d].slot
  <2>1. /\ job[d].cron \in Crons /\ now \in Nat
        /\ job[d].slot \in Nat /\ job[d].slot <= now
    BY <1>1, AtStage
  <2>2. next \in Nat /\ next > now
    BY <2>1, CadenceMoves
  <2>3. QED
    BY <2>1, <2>2
<1>3. r \in ScheduleRow /\ (r.held => row[d].held) /\ (r.next = row[d].next \/ r.next = next)
  BY <1>1, <1>2, AtStage, MarkedTyped
<1>4. j \in JobRow /\ j.at = "authorize" /\ j.slot = job[d].slot /\ j.cron = job[d].cron /\ j.next = next
  BY <1>1, <1>2, AtStage DEF JobRow, Stages
<1>5. UNCHANGED row => row' = [row EXCEPT ![d] = row[d]]
  BY DEF FireInv, Typed
<1>6. CASE EndJob(d) /\ UNCHANGED row
  BY <1>1, <1>5, <1>6, AtStage, IdleTyped, StageStep DEF EndJob
<1>7. CASE EndJob(d) /\ Write(d, Marked(d, next, 0))
  <2>1. row' = [row EXCEPT ![d] = r]
    BY <1>7 DEF Write
  <2>2. QED
    BY <1>1, <1>2, <1>3, <1>7, <2>1, IdleTyped, StageStep DEF EndJob
<1>8. CASE job' = [job EXCEPT ![d].at = "authorize", ![d].next = next] /\ UNCHANGED row
  <2>1. job' = [job EXCEPT ![d] = j]
    BY <1>8 DEF FireInv, Typed
  <2>2. row' = [row EXCEPT ![d] = row[d]] /\ row[d] \in ScheduleRow
    BY <1>1, <1>5, <1>8, AtStage
  <2>3. QED
    BY <1>1, <1>2, <1>4, <2>1, <2>2, StageStep
<1>9. QED
  BY <1>6, <1>7, <1>8 DEF ProcessDue

\* A refused creator disables the row; otherwise the licence is asked for.
LEMMA AuthorizeStep == ASSUME FireInv, NEW d \in Daemon, Authorize(d) PROVE FireInv'
<1> DEFINE off == IF row[d].held THEN [row[d] EXCEPT !.enabled = FALSE] ELSE row[d]
           j == [job[d] EXCEPT !.at = "license"]
<1>1. job[d].at = "authorize" /\ UNCHANGED <<now, runs, claims, fellBack>>
  BY DEF Authorize, history
<1>2. job[d].next > job[d].slot
  BY <1>1 DEF FireInv, Ordered
<1>3. off \in ScheduleRow /\ off.held = row[d].held /\ off.next = row[d].next
  BY <1>1, AtStage DEF ScheduleRow
<1>4. j \in JobRow /\ j.at = "license" /\ j.slot = job[d].slot /\ j.cron = job[d].cron /\ j.next = job[d].next
  BY <1>1, AtStage DEF JobRow, Stages
<1>5. CASE EndJob(d) /\ Write(d, [row[d] EXCEPT !.enabled = FALSE])
  <2>1. row' = [row EXCEPT ![d] = off]
    BY <1>5 DEF Write
  <2>2. QED
    BY <1>1, <1>3, <1>5, <2>1, IdleTyped, StageStep DEF EndJob
<1>6. CASE Proceed(d, "license") /\ UNCHANGED row
  <2>1. row' = [row EXCEPT ![d] = row[d]] /\ row[d] \in ScheduleRow
    BY <1>1, <1>6, AtStage DEF FireInv, Typed
  <2>2. job' = [job EXCEPT ![d] = j]
    BY <1>6 DEF Proceed, FireInv, Typed
  <2>3. QED
    BY <1>1, <1>2, <1>4, <2>1, <2>2, StageStep
<1>7. QED
  BY <1>5, <1>6 DEF Authorize

\* A paused licence passes the slot over; otherwise the slot is consumed: the row
\* moves past it, or has no next slot any more.
LEMMA LicenseStep == ASSUME FireInv, NEW d \in Daemon, License(d) PROVE FireInv'
<1> DEFINE on == IF CompletesOneShot(d) THEN [Marked(d, Never, 1) EXCEPT !.enabled = FALSE]
                                       ELSE Marked(d, job[d].next, 1)
           j == [job[d] EXCEPT !.at = "claim"]
           Next2(m) == IF row[d].held THEN m ELSE row[d]
<1>1. job[d].at = "license" /\ UNCHANGED <<now, runs, claims, fellBack>>
  BY DEF License, history
<1>2. job[d].next > job[d].slot
  BY <1>1 DEF FireInv, Ordered
<1>3. /\ PausedSkip(d) \in ScheduleRow /\ PausedSkip(d).held = row[d].held
      /\ PausedSkip(d).next = job[d].next
  BY <1>1, AtStage, MarkedTyped DEF PausedSkip
<1>4. on \in ScheduleRow /\ on.held = row[d].held /\ (on.next = Never \/ on.next = job[d].next)
  <2>1. Never \in Nat
    BY DEF Never
  <2>2. /\ Marked(d, Never, 1) \in ScheduleRow /\ Marked(d, Never, 1).held = row[d].held
        /\ Marked(d, Never, 1).next = Never
        /\ Marked(d, job[d].next, 1) \in ScheduleRow /\ Marked(d, job[d].next, 1).held = row[d].held
        /\ Marked(d, job[d].next, 1).next = job[d].next
    BY <1>1, <2>1, AtStage, MarkedTyped
  <2>3. ASSUME NEW m \in ScheduleRow
        PROVE  /\ [m EXCEPT !.enabled = FALSE] \in ScheduleRow
               /\ [m EXCEPT !.enabled = FALSE].held = m.held
               /\ [m EXCEPT !.enabled = FALSE].next = m.next
    BY DEF ScheduleRow
  <2>4. QED
    BY <2>2, <2>3
<1>5. j \in JobRow /\ j.at = "claim" /\ j.slot = job[d].slot /\ j.cron = job[d].cron
  BY <1>1, AtStage DEF JobRow, Stages
<1>6. CASE EndJob(d) /\ Write(d, PausedSkip(d))
  <2>1. row' = [row EXCEPT ![d] = Next2(PausedSkip(d))]
    BY <1>6 DEF Write
  <2>2. Next2(PausedSkip(d)) \in ScheduleRow
    BY <1>1, <1>3, AtStage
  <2>3. QED
    BY <1>1, <1>2, <1>3, <1>6, <2>1, <2>2, IdleTyped, StageStep DEF EndJob
<1>7. CASE Write(d, on) /\ Proceed(d, "claim")
  <2>1. row' = [row EXCEPT ![d] = Next2(on)]
    BY <1>7 DEF Write
  <2>2. job' = [job EXCEPT ![d] = j]
    BY <1>7 DEF Proceed, FireInv, Typed
  <2>3. Next2(on) \in ScheduleRow
    BY <1>1, <1>4, AtStage
  <2>4. Next2(on).held => Next2(on).next = Never \/ Next2(on).next > job[d].slot
    BY <1>2, <1>4
  <2>5. QED
    BY <1>1, <1>4, <1>5, <2>1, <2>2, <2>3, <2>4, StageStep
<1>8. QED
  BY <1>6, <1>7 DEF License

\* The claim, answered or failed, fires the slot or ends the tick.
LEMMA ClaimStep == ASSUME FireInv, NEW d \in Daemon, Claim(d) \/ ClaimFails(d) PROVE FireInv'
<1> DEFINE s == job[d].slot
<1>1. job[d].at = "claim" /\ UNCHANGED <<now, row>> /\ EndJob(d)
      /\ claims \subseteq claims' /\ fellBack \subseteq fellBack'
  BY DEF Claim, ClaimFails, ClaimAnswered, history
<1>2. /\ s \in Nat /\ s # Never /\ s <= now /\ FiredBefore(d, s)
      /\ row[d].held /\ row[d].next # Never => s < row[d].next
  BY <1>1, AtStage DEF FireInv, Typed, Ordered, ScheduleRow
<1>3. CASE StartRun(d, s)
  <2>1. (s \notin claims /\ s \in claims') \/ <<d, s>> \in fellBack' \/ UNCHANGED runs
    BY <1>3 DEF Claim, ClaimFails, ClaimAnswered, Won
  <2>2. runs' # runs
    <3>1. runs[d] \in Seq(RunRow) /\ runs'[d] = Append(runs[d], [slot |-> s, status |-> "running"])
      BY <1>3 DEF StartRun, FireInv, Typed
    <3>2. Len(runs'[d]) # Len(runs[d])
      BY <3>1
    <3>3. QED
      BY <3>2
  <2>3. QED
    BY <1>1, <1>2, <1>3, <2>1, <2>2, OpeningStep DEF EndJob
<1>4. CASE UNCHANGED runs
  <2>1. Typed' /\ job'[d].at = "idle"
    BY <1>1, <1>4, IdleTyped DEF EndJob, FireInv, Typed
  <2>2. \A e \in Daemon \ {d} : job'[e] = job[e]
    BY <1>1 DEF EndJob, FireInv, Typed
  <2>3. \A e \in Daemon : Ordered(e)' /\ OnceOn(e)'
    BY <1>1, <1>4, <2>1, <2>2 DEF FireInv, Ordered, OnceOn, FiredBefore
  <2>4. Covered' /\ Apart'
    BY <1>1, <1>4 DEF FireInv, Covered, Apart, Fired
  <2>5. QED
    BY <2>1, <2>3, <2>4 DEF FireInv
<1>5. QED
  BY <1>3, <1>4 DEF Claim, ClaimFails, ClaimAnswered

\* A run by hand fires for no slot.
LEMMA ManualStep == ASSUME FireInv, NEW d \in Daemon, RunOnceLicensed(d) PROVE FireInv'
<1>1. UNCHANGED <<now, row, job, claims, fellBack>>
  BY DEF RunOnceLicensed, history
<1>2. CASE StartRun(d, Never)
  <2>1. Never \in Nat
    BY DEF Never
  <2>2. QED
    BY <1>1, <1>2, <2>1, OpeningStep
<1>3. CASE UNCHANGED runs
  <2>1. Typed' /\ \A e \in Daemon : Ordered(e)'
    BY <1>1, <1>3 DEF FireInv, Typed, Ordered, FiredBefore
  <2>2. QED
    BY <1>1, <1>3, <2>1, QuietStep
<1>4. QED
  BY <1>2, <1>3 DEF RunOnceLicensed

\* A run settles: its row is closed, its slot stays.
LEMMA SettleStep ==
  ASSUME FireInv, NEW d \in Daemon, NEW i, FireSettles(d, i)
  PROVE  FireInv'
<1> DEFINE closed == [runs[d][i] EXCEPT !.status = "closed"]
<1>1. UNCHANGED <<now, row, job, claims, fellBack>>
  BY DEF FireSettles, history
<1>2. runs \in [Daemon -> Seq(RunRow)] /\ runs[d] \in Seq(RunRow)
  BY DEF FireInv, Typed
<1>3. i \in DOMAIN runs[d] => closed \in RunRow /\ closed.slot = runs[d][i].slot
  <2>1. i \in DOMAIN runs[d] => runs[d][i] \in RunRow
    BY <1>2
  <2>2. QED
    BY <2>1 DEF RunRow
<1>4. runs' = [runs EXCEPT ![d] = [runs[d] EXCEPT ![i] = closed]]
  BY <1>2 DEF FireSettles
<1>5. [runs[d] EXCEPT ![i] = closed] \in Seq(RunRow)
  <2>1. CASE i \in DOMAIN runs[d]
    BY <1>2, <1>3, <2>1
  <2>2. CASE i \notin DOMAIN runs[d]
    <3>1. DOMAIN runs[d] = 1..Len(runs[d]) /\ runs[d] = [k \in 1..Len(runs[d]) |-> runs[d][k]]
      BY <1>2
    <3>2. [runs[d] EXCEPT ![i] = closed] = runs[d]
      BY <2>2, <3>1
    <3>3. QED
      BY <1>2, <3>2
  <2>3. QED
    BY <2>1, <2>2
<1>6. runs' \in [Daemon -> Seq(RunRow)]
  BY <1>2, <1>4, <1>5
<1>7. \A e \in Daemon : /\ DOMAIN runs'[e] = DOMAIN runs[e]
                         /\ \A k \in DOMAIN runs[e] : runs'[e][k].slot = runs[e][k].slot
  BY <1>2, <1>3, <1>4
<1>8. Typed'
  BY <1>1, <1>6 DEF FireInv, Typed
<1>9. \A e \in Daemon, t \in Nat : Fired(e, t)' = Fired(e, t)
  BY <1>7 DEF Fired
<1>10. \A e \in Daemon : Ordered(e)' /\ OnceOn(e)'
  BY <1>1, <1>7 DEF FireInv, Ordered, OnceOn, FiredBefore
<1>11. Covered' /\ Apart'
  BY <1>1, <1>9 DEF FireInv, Covered, Apart
<1>12. QED
  BY <1>8, <1>10, <1>11 DEF FireInv

\* A user's edit: the next slot it sets lies ahead of the clock, hence of whatever
\* fired and of the slot a tick works on.
LEMMA EditStep ==
  ASSUME FireInv, NEW d \in Daemon, NEW r \in ScheduleRow, Edit(d, r),
         r.held => r.next = row[d].next \/ r.next > now
  PROVE  FireInv'
<1>1. row' = [row EXCEPT ![d] = r] /\ row[d].held /\ UNCHANGED <<now, runs, claims, fellBack, job>>
  BY DEF Edit, process
<1>2. Typed' /\ row'[d] = r /\ \A e \in Daemon \ {d} : row'[e] = row[e]
  BY <1>1 DEF FireInv, Typed
<1>3. now \in Nat /\ r.next \in Nat /\ job[d].slot \in Nat
  BY DEF FireInv, Typed, ScheduleRow, JobRow
<1>4. \A i \in DOMAIN runs[d] : runs[d][i].slot \in Nat
  BY SlotsTyped
<1>5. r.held /\ r.next # Never => FiredBefore(d, r.next)
  BY <1>1, <1>3, <1>4 DEF FireInv, Ordered, FiredBefore
<1>6. job[d].at = "claim" /\ r.held /\ r.next # Never => r.next > job[d].slot
  BY <1>1, <1>3 DEF FireInv, Ordered
<1>7. Ordered(d)'
  BY <1>1, <1>2, <1>5, <1>6 DEF FireInv, Ordered, FiredBefore
<1>8. QED
  BY <1>1, <1>2, <1>7, QuietStepAt

\* update, pause, resume and delete are such edits.
LEMMA UserStep ==
  ASSUME ScheduleAssumption, FireInv, NEW d \in Daemon,
         UpdateSchedule(d) \/ Pause(d) \/ Resume(d) \/ DeleteSchedule(d)
  PROVE  FireInv'
<1>1. row[d] \in ScheduleRow /\ now \in Nat /\ row[d].cron \in Crons
  BY DEF FireInv, Typed, ScheduleRow
<1>2. CASE UpdateSchedule(d)
  <2>1. PICK c \in Crons : Edit(d, [row[d] EXCEPT !.cron = c, !.next = NextAfter(c, now)])
    BY <1>2 DEF UpdateSchedule
  <2>2. NextAfter(c, now) \in Nat /\ NextAfter(c, now) > now
    BY <1>1, CadenceMoves
  <2>3. [row[d] EXCEPT !.cron = c, !.next = NextAfter(c, now)] \in ScheduleRow
    BY <1>1, <2>2 DEF ScheduleRow
  <2>4. [row[d] EXCEPT !.cron = c, !.next = NextAfter(c, now)].next = NextAfter(c, now)
    BY <1>1 DEF ScheduleRow
  <2>5. QED
    BY <2>1, <2>2, <2>3, <2>4, EditStep
<1>3. CASE Pause(d)
  <2>1. /\ [row[d] EXCEPT !.enabled = FALSE] \in ScheduleRow
        /\ [row[d] EXCEPT !.enabled = FALSE].next = row[d].next
    BY <1>1 DEF ScheduleRow
  <2>2. QED
    BY <1>3, <2>1, EditStep DEF Pause
<1>4. CASE Resume(d)
  <2> DEFINE n == IF row[d].next <= now THEN NextAfter(row[d].cron, now) ELSE row[d].next
             r == [row[d] EXCEPT !.enabled = TRUE, !.next = n]
  <2>1. n \in Nat /\ (n = row[d].next \/ n > now)
    BY <1>1, CadenceMoves DEF ScheduleRow
  <2>2. r \in ScheduleRow /\ r.next = n
    BY <1>1, <2>1 DEF ScheduleRow
  <2>3. Edit(d, r)
    BY <1>1, <1>4 DEF Resume, ScheduleRow
  <2>4. QED
    BY <2>1, <2>2, <2>3, EditStep
<1>5. CASE DeleteSchedule(d)
  <2>1. /\ [row[d] EXCEPT !.held = FALSE] \in ScheduleRow
        /\ ~[row[d] EXCEPT !.held = FALSE].held
    BY <1>1 DEF ScheduleRow
  <2>2. QED
    BY <1>5, <2>1, EditStep DEF DeleteSchedule
<1>6. QED
  BY <1>2, <1>3, <1>4, <1>5

\* The clock only moves on, and a restart only drops the tick.
LEMMA WorldStep ==
  ASSUME FireInv, NEW d \in Daemon, Restart(d) PROVE FireInv'
<1>1. job' = [job EXCEPT ![d] = Idle] /\ UNCHANGED <<now, row, runs, claims, fellBack>>
  BY DEF Restart, stores, history
<1>2. Typed' /\ job'[d] = Idle /\ \A e \in Daemon \ {d} : job'[e] = job[e]
  BY <1>1, IdleTyped DEF FireInv, Typed
<1>3. Ordered(d)'
  BY <1>1, <1>2, IdleTyped DEF FireInv, Ordered, FiredBefore
<1>4. QED
  BY <1>1, <1>2, <1>3, QuietStepAt

LEMMA ClockStep == ASSUME FireInv, Clock PROVE FireInv'
<1>1. now' = now + 1 /\ UNCHANGED <<row, job, runs, claims, fellBack>> /\ now \in Nat
  BY DEF Clock, stores, process, history, FireInv, Typed
<1>2. Typed'
  BY <1>1 DEF FireInv, Typed
<1>3. ASSUME NEW d \in Daemon PROVE Ordered(d)'
  <2>1. FiredBefore(d, now + 1) => FiredBefore(d, now + 1)'
    <3>1. \A i \in DOMAIN runs[d] : runs[d][i].slot \in Nat
      BY SlotsTyped
    <3>2. QED
      BY <1>1, <3>1 DEF FiredBefore
  <2>2. job[d].slot \in Nat
    BY DEF FireInv, Typed, JobRow
  <2>3. QED
    BY <1>1, <2>1, <2>2 DEF FireInv, Ordered, FiredBefore
<1>4. QED
  BY <1>1, <1>2, <1>3, QuietStep

\* A step that touches none of the variables of the invariant.
LEMMA ElsewhereStep ==
  ASSUME FireInv, UNCHANGED <<now, row, job, runs, claims, fellBack>> PROVE FireInv'
<1>1. Typed' /\ \A d \in Daemon : Ordered(d)'
  BY DEF FireInv, Typed, Ordered, FiredBefore
<1>2. QED
  BY <1>1, QuietStep

\* Every step keeps the invariant.
LEMMA NextFire == ASSUME ScheduleAssumption, FireInv, [Next]_vars PROVE FireInv'
<1>1. CASE UNCHANGED vars
  BY <1>1, ElsewhereStep DEF vars, stores, process, history
<1>2. CASE Clock
  BY <1>2, ClockStep
<1>3. CASE AccessChanges \/ LicenceChanges
  BY <1>3, ElsewhereStep DEF AccessChanges, LicenceChanges, stores, process, history
<1>4. ASSUME NEW d \in Daemon, TickBegins(d) PROVE FireInv'
  BY <1>4, BeginStep
<1>5. ASSUME NEW d \in Daemon, ProcessDue(d) \/ Authorize(d) \/ License(d) \/ Claim(d) \/ ClaimFails(d)
      PROVE  FireInv'
  BY <1>5, DueStep, AuthorizeStep, LicenseStep, ClaimStep
<1>6. ASSUME NEW d \in Daemon, RunOnce(d) \/ RunOnceAuthorized(d) PROVE FireInv'
  BY <1>6, ElsewhereStep DEF RunOnce, RunOnceAuthorized, stores, history
<1>7. ASSUME NEW d \in Daemon, RunOnceLicensed(d) PROVE FireInv'
  BY <1>7, ManualStep
<1>8. ASSUME NEW d \in Daemon, UpdateSchedule(d) \/ Pause(d) \/ Resume(d) \/ DeleteSchedule(d)
      PROVE  FireInv'
  BY <1>8, UserStep
<1>9. ASSUME NEW d \in Daemon, Restart(d) PROVE FireInv'
  BY <1>9, WorldStep
<1>10. ASSUME NEW d \in Daemon, NEW i \in live[d], FireSettles(d, i) PROVE FireInv'
  BY <1>10, SettleStep
<1>11. QED
  BY <1>1, <1>2, <1>3, <1>4, <1>5, <1>6, <1>7, <1>8, <1>9, <1>10 DEF Next

\* The invariant says that a slot fires once.
LEMMA FiresOnce == ASSUME ScheduleAssumption, FireInv PROVE OncePerSlot
<1>1. \A s \in Slot : s \in Nat \ {Never}
  <2>1. ASSUME NEW c \in Crons, NEW t \in 0..MaxTime PROVE NextAfter(c, t) \in Nat \ {Never}
    BY CadenceMoves DEF ScheduleAssumption
  <2>2. QED
    BY <2>1 DEF Slot
<1>2. ASSUME NEW s \in Slot, NEW d \in Daemon PROVE \A i, j \in FiredFor(d, s) : i = j
  BY <1>1 DEF FireInv, OnceOn, FiredFor
<1>3. ASSUME NEW s \in Slot, NEW d \in Daemon, NEW e \in Daemon, FiredFor(d, s) # {}, FiredFor(e, s) # {}
      PROVE  d = e \/ <<d, s>> \in fellBack \/ <<e, s>> \in fellBack
  <2>1. Fired(d, s) /\ Fired(e, s)
    BY <1>3 DEF FiredFor, Fired
  <2>2. QED
    BY <1>1, <2>1 DEF FireInv, Apart
<1>4. QED
  BY <1>2, <1>3 DEF OncePerSlot

\* In every behaviour a slot fires at most once on each daemon, and on one daemon
\* only unless PostgreSQL failed a claim (schedule-runner.ts:257).
THEOREM SlotsFireOnce == Spec => []OncePerSlot
<1>1. ScheduleAssumption
  BY ScheduleAssumption
<1>2. Init => FireInv
  BY <1>1, InitFire
<1>3. FireInv /\ [Next]_vars => FireInv'
  BY <1>1, NextFire
<1>4. FireInv => OncePerSlot
  BY <1>1, FiresOnce
<1>5. QED
  BY <1>2, <1>3, <1>4, PTL DEF Spec
------------------------------------------------------------------------------
(* The events that are bounded.                                              *)

UsedTyped == used \in [manual : Nat, edits : Nat, faults : Nat, restarts : Nat]

LEMMA EventUses ==
  ASSUME UsedTyped, NEW kind \in {"manual", "edits", "faults", "restarts"}, Event(kind)
  PROVE  /\ UsedTyped'
         /\ used'.manual = used.manual + (IF kind = "manual" THEN 1 ELSE 0)
         /\ used'.restarts = used.restarts + (IF kind = "restarts" THEN 1 ELSE 0)
<1>1. used' = [used EXCEPT ![kind] = @ + 1]
  BY DEF Event
<1>2. CASE kind = "manual"
  BY <1>1, <1>2 DEF UsedTyped
<1>3. CASE kind = "edits"
  BY <1>1, <1>3 DEF UsedTyped
<1>4. CASE kind = "faults"
  BY <1>1, <1>4 DEF UsedTyped
<1>5. CASE kind = "restarts"
  BY <1>1, <1>5 DEF UsedTyped
<1>6. QED BY <1>2, <1>3, <1>4, <1>5

\* Only "Run now" counts as manual, and only a restart as a restart.
LEMMA NextUses ==
  ASSUME UsedTyped, [Next]_vars
  PROVE  /\ UsedTyped' /\ used.manual <= used'.manual /\ used.restarts <= used'.restarts
         /\ \A d \in Daemon : RunOnce(d) => used'.manual = used.manual + 1
         /\ \A d \in Daemon : Restart(d) => used'.restarts = used.restarts + 1
<1>1. used.manual \in Nat /\ used.restarts \in Nat
  BY DEF UsedTyped
<1> DEFINE Grows == /\ UsedTyped' /\ used.manual <= used'.manual /\ used.restarts <= used'.restarts
<1>2. ASSUME UNCHANGED used \/ Event("faults") \/ Event("edits") PROVE Grows
  BY <1>1, <1>2, EventUses DEF UsedTyped
<1>3. ASSUME NEW d \in Daemon, RunOnce(d) PROVE Grows /\ used'.manual = used.manual + 1
  BY <1>1, <1>3, EventUses DEF RunOnce
<1>4. ASSUME NEW d \in Daemon, Restart(d) PROVE Grows /\ used'.restarts = used.restarts + 1
  BY <1>1, <1>4, EventUses DEF Restart
<1> HIDE DEF Grows
<1>5. ASSUME Clock \/ AccessChanges \/ LicenceChanges \/ UNCHANGED vars PROVE Grows
  <2>1. UNCHANGED used \/ Event("faults")
    BY <1>5 DEF Clock, AccessChanges, LicenceChanges, Fault, vars
  <2>2. QED BY <1>2, <2>1
<1>6. ASSUME NEW d \in Daemon,
             TickBegins(d) \/ ProcessDue(d) \/ Authorize(d) \/ License(d) \/ Claim(d) \/ ClaimFails(d)
      PROVE  Grows
  BY <1>2, <1>6 DEF TickBegins, ProcessDue, Authorize, License, Claim, ClaimFails, Refuses, Passes, Fault
<1>7. ASSUME NEW d \in Daemon,
             \/ RunOnceAuthorized(d) \/ RunOnceLicensed(d)
             \/ UpdateSchedule(d) \/ Pause(d) \/ Resume(d) \/ DeleteSchedule(d)
             \/ \E i \in live[d] : FireSettles(d, i)
      PROVE  Grows
  BY <1>2, <1>7 DEF RunOnceAuthorized, RunOnceLicensed, UpdateSchedule, Pause, Resume, DeleteSchedule, Edit,
                    FireSettles, Refuses, Passes, Fault
<1>8. Grows
  BY <1>3, <1>4, <1>5, <1>6, <1>7 DEF Next
<1>9. QED BY <1>3, <1>4, <1>8 DEF Grows

------------------------------------------------------------------------------
(* Runs going at once.  Every "Run now" allows for one more; the cron run    *)
(* needs a moment without any in inFlight, and the place for it is taken     *)
(* from then until its tick ends.                                            *)

Underway == {"authorize", "license", "claim"}
Place(d) == IF job[d].at \in Underway \/ ~inFlight[d] THEN 1 ELSE 0

PileTyped ==
  /\ manual \in [Daemon -> [authorize : Nat, license : Nat]]
  /\ inFlight \in [Daemon -> BOOLEAN]
  /\ DOMAIN live = Daemon

Piled(d) ==
  /\ IsFiniteSet(live[d])
  /\ Cardinality(live[d]) + manual[d].authorize + manual[d].license + Place(d) <= 1 + used.manual

PileInv == PileTyped /\ UsedTyped /\ \A d \in Daemon : Piled(d)

\* The runs going on d are as many or fewer, and there is no more to come.
LEMMA PiledStep ==
  ASSUME PileInv, PileTyped', NEW d \in Daemon, UsedTyped', used.manual <= used'.manual,
         live'[d] \subseteq live[d], UNCHANGED manual[d], Place(d)' <= Place(d)
  PROVE  Piled(d)'
<1>1. IsFiniteSet(live'[d]) /\ Cardinality(live'[d]) <= Cardinality(live[d])
      /\ Cardinality(live'[d]) \in Nat /\ Cardinality(live[d]) \in Nat
  <2>1. live'[d] \in SUBSET live[d]
    OBVIOUS
  <2>2. IsFiniteSet(live[d])
    BY DEF PileInv, Piled
  <2>3. QED BY <2>1, <2>2, FS_Subset, FS_CardinalityType
<1>2. manual[d].authorize \in Nat /\ manual[d].license \in Nat /\ used.manual \in Nat /\ used'.manual \in Nat
  BY DEF PileInv, PileTyped, UsedTyped
<1>3. Place(d) \in {0, 1} /\ Place(d)' \in {0, 1}
  BY DEF Place
<1>4. QED BY <1>1, <1>2, <1>3 DEF PileInv, Piled

\* A run starts: its place was kept, or it is one that was asked for by hand.
LEMMA StartPiles ==
  ASSUME FireInv, PileInv, PileTyped', NEW d \in Daemon, NEW s, StartRun(d, s), UsedTyped', used.manual <= used'.manual,
         \/ UNCHANGED manual /\ job[d].at \in Underway /\ job'[d].at \notin Underway
         \/ /\ manual[d].license > 0 /\ manual' = [manual EXCEPT ![d].license = @ - 1]
            /\ UNCHANGED job
  PROVE  Piled(d)'
<1> DEFINE n == Len(runs[d]) + 1
<1>1. live'[d] = live[d] \cup {n}
  BY DEF StartRun, PileInv, PileTyped
<1> HIDE DEF n
<1>2. IsFiniteSet(live[d]) /\ Cardinality(live[d]) \in Nat
  BY FS_CardinalityType DEF PileInv, Piled
<1>3. IsFiniteSet(live'[d]) /\ Cardinality(live'[d]) <= Cardinality(live[d]) + 1 /\ Cardinality(live'[d]) \in Nat
  <2>1. IsFiniteSet(live[d] \cup {n})
        /\ Cardinality(live[d] \cup {n}) = IF n \in live[d] THEN Cardinality(live[d]) ELSE Cardinality(live[d]) + 1
    BY <1>2, FS_AddElement
  <2>2. QED BY <1>1, <1>2, <2>1
<1>4. manual[d].authorize \in Nat /\ manual[d].license \in Nat /\ used.manual \in Nat /\ used'.manual \in Nat
  BY DEF PileInv, PileTyped, UsedTyped
<1>5. inFlight'[d] = TRUE
  BY DEF StartRun, PileInv, PileTyped
<1>6. Cardinality(live[d]) + manual[d].authorize + manual[d].license + Place(d) <= 1 + used.manual
  BY DEF PileInv, Piled
<1>7. CASE UNCHANGED manual /\ job[d].at \in Underway /\ job'[d].at \notin Underway
  <2>1. Place(d) = 1 /\ Place(d)' = 0
    BY <1>5, <1>7 DEF Place
  <2>2. QED BY <1>3, <1>2, <1>4, <1>6, <1>7, <2>1 DEF Piled
<1>8. CASE manual[d].license > 0 /\ manual' = [manual EXCEPT ![d].license = @ - 1] /\ UNCHANGED job
  <2>1. Place(d)' <= Place(d) /\ Place(d) \in {0, 1} /\ Place(d)' \in {0, 1}
    BY <1>5, <1>8 DEF Place
  <2>2. manual'[d].authorize = manual[d].authorize /\ manual'[d].license = manual[d].license - 1
    BY <1>8 DEF PileInv, PileTyped
  <2>3. QED BY <1>2, <1>3, <1>4, <1>6, <2>1, <2>2 DEF Piled
<1>9. QED BY <1>7, <1>8
LEMMA NextPiles == ASSUME FireInv, PileInv, [Next]_vars PROVE PileInv'
<1>1. UsedTyped' /\ used.manual <= used'.manual
  BY NextUses DEF PileInv
<1>2. manual \in [Daemon -> [authorize : Nat, license : Nat]] /\ inFlight \in [Daemon -> BOOLEAN]
      /\ job \in [Daemon -> JobRow]
  BY DEF FireInv, Typed, PileInv, PileTyped
<1>3. ASSUME PileTyped', \A d \in Daemon : Piled(d)' PROVE PileInv'
  BY <1>1, <1>3 DEF PileInv
<1>4. ASSUME PileTyped', \A d \in Daemon : /\ live'[d] \subseteq live[d] /\ UNCHANGED manual[d]
                                           /\ Place(d)' <= Place(d)
      PROVE  PileInv'
  BY <1>1, <1>3, <1>4, PiledStep
<1>5. ASSUME NEW d \in Daemon, PileTyped', Piled(d)',
             \A e \in Daemon \ {d} : /\ UNCHANGED live[e] /\ UNCHANGED manual[e]
                                     /\ UNCHANGED inFlight[e] /\ UNCHANGED job[e]
      PROVE  PileInv'
  <2>1. ASSUME NEW e \in Daemon \ {d} PROVE Piled(e)'
    <3>1. Place(e)' <= Place(e) /\ live'[e] \subseteq live[e] /\ UNCHANGED manual[e]
      BY <1>5 DEF Place
    <3>2. QED BY <1>1, <1>5, <3>1, PiledStep
  <2>2. QED BY <1>3, <1>5, <2>1
<1>6. ASSUME UNCHANGED process PROVE PileInv'
  BY <1>4, <1>6 DEF process, PileInv, PileTyped, Place
<1>7. CASE Clock \/ AccessChanges \/ LicenceChanges \/ UNCHANGED vars
  BY <1>6, <1>7 DEF Clock, AccessChanges, LicenceChanges, vars
<1>8. ASSUME NEW d \in Daemon, UpdateSchedule(d) \/ Pause(d) \/ Resume(d) \/ DeleteSchedule(d) PROVE PileInv'
  BY <1>6, <1>8 DEF UpdateSchedule, Pause, Resume, DeleteSchedule, Edit
<1>9. ASSUME NEW d \in Daemon, TickBegins(d) \/ ProcessDue(d) \/ Authorize(d) \/ License(d) PROVE PileInv'
  <2>1. UNCHANGED <<manual, inFlight, live>>
    BY <1>9 DEF TickBegins, ProcessDue, Authorize, License
  <2>2. PileTyped'
    BY <2>1 DEF PileInv, PileTyped
  <2>3. \A e \in Daemon \ {d} : job'[e] = job[e]
    BY <1>2, <1>9 DEF TickBegins, ProcessDue, Authorize, License, EndJob, Proceed
  <2>4. job'[d].at \in Underway => job[d].at \in Underway \/ ~inFlight[d]
    BY <1>2, <1>9 DEF TickBegins, ProcessDue, Authorize, License, EndJob, Proceed, Idle, Overlaps, Underway
  <2>5. Place(d)' <= Place(d)
    BY <2>1, <2>4 DEF Place
  <2>6. Piled(d)'
    BY <1>1, <2>1, <2>2, <2>5, PiledStep
  <2>7. QED BY <1>5, <2>1, <2>2, <2>3, <2>6
<1>10. ASSUME NEW d \in Daemon, Claim(d) \/ ClaimFails(d) PROVE PileInv'
  <2>1. UNCHANGED manual /\ EndJob(d) /\ job[d].at = "claim"
    BY <1>10 DEF Claim, ClaimFails, ClaimAnswered
  <2>2. job[d].at \in Underway /\ job'[d].at \notin Underway /\ \A e \in Daemon \ {d} : job'[e] = job[e]
    BY <1>2, <2>1 DEF EndJob, Idle, Underway
  <2>3. CASE StartRun(d, job[d].slot)
    <3>1. PileTyped'
      BY <2>1, <2>3 DEF StartRun, PileInv, PileTyped
    <3>2. \A e \in Daemon \ {d} : UNCHANGED live[e] /\ UNCHANGED inFlight[e]
      BY <2>3 DEF StartRun, PileInv, PileTyped
    <3>3. Piled(d)'
      BY <1>1, <2>1, <2>2, <2>3, <3>1, StartPiles
    <3>4. QED BY <1>5, <2>1, <2>2, <3>1, <3>2, <3>3
  <2>4. CASE UNCHANGED <<live, inFlight>>
    <3>1. PileTyped' /\ Place(d)' <= Place(d)
      BY <2>1, <2>2, <2>4 DEF PileInv, PileTyped, Place
    <3>2. Piled(d)'
      BY <1>1, <2>1, <2>4, <3>1, PiledStep
    <3>3. QED BY <1>5, <2>1, <2>2, <2>4, <3>1, <3>2
  <2>5. QED BY <1>10, <2>3, <2>4 DEF Claim, ClaimFails, ClaimAnswered
<1>11. ASSUME NEW d \in Daemon, RunOnce(d) PROVE PileInv'
  <2>1. /\ manual' = [manual EXCEPT ![d].authorize = @ + 1] /\ UNCHANGED <<job, inFlight, live>>
        /\ used'.manual = used.manual + 1
    BY <1>11, NextUses DEF RunOnce, PileInv
  <2>2. PileTyped' /\ manual'[d].authorize = manual[d].authorize + 1 /\ manual'[d].license = manual[d].license
    BY <1>2, <2>1 DEF PileInv, PileTyped
  <2>3. Place(d)' = Place(d)
    BY <2>1 DEF Place
  <2>4. /\ Cardinality(live[d]) \in Nat /\ manual[d].authorize \in Nat /\ manual[d].license \in Nat
        /\ used.manual \in Nat /\ Place(d) \in {0, 1}
    BY <1>2, FS_CardinalityType DEF PileInv, Piled, UsedTyped, Place
  <2>5. Piled(d)'
    BY <2>1, <2>2, <2>3, <2>4 DEF PileInv, Piled
  <2>6. QED BY <1>2, <1>5, <2>1, <2>2, <2>5
<1>12. ASSUME NEW d \in Daemon, RunOnceAuthorized(d) PROVE PileInv'
  <2>1. /\ UNCHANGED <<job, inFlight, live>> /\ manual[d].authorize > 0
        /\ \/ manual' = [manual EXCEPT ![d].authorize = @ - 1]
           \/ manual' = [manual EXCEPT ![d].authorize = @ - 1, ![d].license = @ + 1]
    BY <1>12 DEF RunOnceAuthorized, Asked
  <2>2. /\ PileTyped' /\ manual'[d].authorize = manual[d].authorize - 1
        /\ manual'[d].license \in {manual[d].license, manual[d].license + 1}
        /\ \A e \in Daemon \ {d} : manual'[e] = manual[e]
    BY <1>2, <2>1 DEF PileInv, PileTyped
  <2>3. Place(d)' = Place(d)
    BY <2>1 DEF Place
  <2>4. /\ Cardinality(live[d]) \in Nat /\ manual[d].authorize \in Nat /\ manual[d].license \in Nat
        /\ used.manual \in Nat /\ used'.manual \in Nat /\ Place(d) \in {0, 1}
    BY <1>1, <1>2, FS_CardinalityType DEF PileInv, Piled, UsedTyped, Place
  <2>5. Piled(d)'
    BY <1>1, <2>1, <2>2, <2>3, <2>4 DEF PileInv, Piled
  <2>6. QED BY <1>5, <2>1, <2>2, <2>5
<1>13. ASSUME NEW d \in Daemon, RunOnceLicensed(d) PROVE PileInv'
  <2>1. manual[d].license > 0 /\ manual' = [manual EXCEPT ![d].license = @ - 1] /\ UNCHANGED job
    BY <1>13 DEF RunOnceLicensed
  <2>2. /\ manual' \in [Daemon -> [authorize : Nat, license : Nat]]
        /\ \A e \in Daemon \ {d} : manual'[e] = manual[e]
        /\ manual'[d].authorize = manual[d].authorize /\ manual'[d].license = manual[d].license - 1
    BY <1>2, <2>1
  <2>3. CASE StartRun(d, Never)
    <3>1. PileTyped'
      BY <2>2, <2>3 DEF StartRun, PileInv, PileTyped
    <3>2. \A e \in Daemon \ {d} : UNCHANGED live[e] /\ UNCHANGED inFlight[e]
      BY <2>3 DEF StartRun, PileInv, PileTyped
    <3>3. Piled(d)'
      BY <1>1, <2>1, <2>3, <3>1, StartPiles
    <3>4. QED BY <1>5, <2>1, <2>2, <3>1, <3>2, <3>3
  <2>4. CASE UNCHANGED <<live, inFlight>>
    <3>1. PileTyped' /\ Place(d)' = Place(d)
      BY <2>1, <2>2, <2>4 DEF PileInv, PileTyped, Place
    <3>2. /\ Cardinality(live[d]) \in Nat /\ manual[d].authorize \in Nat /\ manual[d].license \in Nat
          /\ used.manual \in Nat /\ used'.manual \in Nat /\ Place(d) \in {0, 1}
      BY <1>1, <1>2, FS_CardinalityType DEF PileInv, Piled, UsedTyped, Place
    <3>3. Piled(d)'
      BY <1>1, <2>2, <2>4, <3>1, <3>2 DEF PileInv, Piled
    <3>4. QED BY <1>5, <2>1, <2>2, <2>4, <3>1, <3>3
  <2>5. QED BY <1>13, <2>3, <2>4 DEF RunOnceLicensed
<1>14. ASSUME NEW d \in Daemon, NEW i \in live[d], FireSettles(d, i) PROVE PileInv'
  <2>1. /\ live' = [live EXCEPT ![d] = @ \ {i}] /\ inFlight' = [inFlight EXCEPT ![d] = FALSE]
        /\ UNCHANGED <<job, manual>>
    BY <1>14 DEF FireSettles, StillInFlight
  <2>2. PileTyped' /\ live'[d] = live[d] \ {i}
    BY <2>1 DEF PileInv, PileTyped
  <2>3. /\ IsFiniteSet(live'[d]) /\ Cardinality(live'[d]) = Cardinality(live[d]) - 1
        /\ Cardinality(live[d]) \in Nat
    BY <2>2, FS_RemoveElement, FS_CardinalityType DEF PileInv, Piled
  <2>4. /\ manual[d].authorize \in Nat /\ manual[d].license \in Nat
        /\ used.manual \in Nat /\ used'.manual \in Nat /\ Place(d) \in {0, 1} /\ Place(d)' \in {0, 1}
    BY <1>1, <1>2 DEF PileInv, UsedTyped, Place
  <2>5. Piled(d)'
    BY <1>1, <2>1, <2>3, <2>4 DEF PileInv, Piled
  <2>6. \A e \in Daemon \ {d} : UNCHANGED live[e] /\ UNCHANGED inFlight[e]
    BY <2>1 DEF PileInv, PileTyped
  <2>7. QED BY <1>5, <2>1, <2>2, <2>5, <2>6
<1>15. ASSUME NEW d \in Daemon, Restart(d) PROVE PileInv'
  <2>1. /\ job' = [job EXCEPT ![d] = Idle] /\ manual' = [manual EXCEPT ![d] = [authorize |-> 0, license |-> 0]]
        /\ inFlight' = [inFlight EXCEPT ![d] = FALSE] /\ live' = [live EXCEPT ![d] = {}]
    BY <1>15 DEF Restart
  <2>2. PileTyped' /\ live'[d] = {} /\ manual'[d] = [authorize |-> 0, license |-> 0]
    BY <1>2, <2>1 DEF PileInv, PileTyped
  <2>3. IsFiniteSet(live'[d]) /\ Cardinality(live'[d]) = 0
    BY <2>2, FS_EmptySet
  <2>4. used'.manual \in Nat /\ Place(d)' \in {0, 1}
    BY <1>1 DEF UsedTyped, Place
  <2>5. Piled(d)'
    BY <2>2, <2>3, <2>4 DEF Piled
  <2>6. \A e \in Daemon \ {d} : UNCHANGED live[e] /\ UNCHANGED inFlight[e] /\ UNCHANGED job[e] /\ UNCHANGED manual[e]
    BY <1>2, <2>1 DEF PileInv, PileTyped
  <2>7. QED BY <1>5, <2>2, <2>5, <2>6
<1>16. QED
  BY <1>7, <1>8, <1>9, <1>10, <1>11, <1>12, <1>13, <1>14, <1>15 DEF Next

LEMMA InitPiles == ASSUME Init PROVE PileInv
<1>1. PileTyped /\ UsedTyped /\ used.manual = 0
  BY DEF Init, PileTyped, UsedTyped
<1>2. ASSUME NEW d \in Daemon PROVE Piled(d)
  <2>1. live[d] = {} /\ manual[d].authorize = 0 /\ manual[d].license = 0 /\ Place(d) \in {0, 1}
    BY DEF Init, Place
  <2>2. IsFiniteSet(live[d]) /\ Cardinality(live[d]) = 0
    BY <2>1, FS_EmptySet
  <2>3. QED BY <1>1, <2>1, <2>2 DEF Piled
<1>3. QED BY <1>1, <1>2 DEF PileInv

\* Whatever settles under whichever flag, a daemon has at most one run of a schedule
\* going, and one more for each "Run now" (schedule-runner.ts:53).
THEOREM RunsPileUpByHand == Spec => []PilesUpByHandOnly
<1>1. Init => FireInv /\ PileInv
  BY InitFire, InitPiles, ScheduleAssumption
<1>2. FireInv /\ PileInv /\ [Next]_vars => FireInv' /\ PileInv'
  BY NextFire, NextPiles, ScheduleAssumption
<1>3. FireInv /\ PileInv => PilesUpByHandOnly
  <2>1. ASSUME PileInv, NEW d \in Daemon PROVE Cardinality(live[d]) <= 1 + used.manual
    <3>1. /\ Cardinality(live[d]) \in Nat /\ manual[d].authorize \in Nat /\ manual[d].license \in Nat
          /\ used.manual \in Nat /\ Place(d) \in {0, 1}
      BY <2>1, FS_CardinalityType DEF PileInv, Piled, PileTyped, UsedTyped, Place
    <3>2. QED BY <2>1, <3>1 DEF PileInv, Piled
  <2>2. QED BY <2>1 DEF PilesUpByHandOnly
<1>4. QED BY <1>1, <1>2, <1>3, PTL DEF Spec
------------------------------------------------------------------------------
(* What run_count counts.  The runs on record are those that fired and those *)
(* another daemon had claimed; the tick's own copy of run_count is current   *)
(* because only the tick writes it.                                          *)

Dups(d) == {k \in skipped[d] : k[2] = "duplicate"}
DupBefore(d, s) == \A k \in Dups(d) : k[1] \in Nat /\ k[1] < s

Claiming(d) == IF job[d].at = "claim" THEN 1 ELSE 0
Pending(d) == IF job[d].at = "idle" THEN 0 ELSE 1
Fires(d) == Cardinality(FiredBy(d))
Recorded(d) == Fires(d) + Cardinality(Dups(d))
Allowed(d) == policy.maxRuns + resumes[d]

\* Like the slots that fired, those another daemon had lie behind.
DupOrdered(d) ==
  /\ DupBefore(d, now + 1)
  /\ row[d].held /\ row[d].next # Never => DupBefore(d, row[d].next)
  /\ job[d].at # "idle" => DupBefore(d, job[d].slot)

RunsRead(d) == row[d].held /\ job[d].at \in {"due", "authorize", "license"} => job[d].runs = row[d].runs

CountedRight(d) ==
  row[d].held => /\ Recorded(d) + Claiming(d) <= row[d].runs
                 /\ row[d].runs <= Recorded(d) + Claiming(d) + used.restarts

CappedRight(d) ==
  policy.maxRuns # Never =>
    /\ Fires(d) + Pending(d) <= Allowed(d)
    /\ row[d].held => row[d].runs <= Allowed(d)
    /\ row[d].held /\ (row[d].enabled \/ job[d].at \in {"due", "authorize", "license"}) => row[d].runs < Allowed(d)

Counted(d) == IsFiniteSet(Dups(d)) /\ DupOrdered(d) /\ RunsRead(d) /\ CountedRight(d) /\ CappedRight(d)

CountTyped == UsedTyped /\ policy \in [maxRuns : Nat, catchUp : BOOLEAN] /\ resumes \in [Daemon -> Nat]
              /\ DOMAIN skipped = Daemon

CountInv == CountTyped /\ \A d \in Daemon : Counted(d)

\* The numbers that are compared.
LEMMA CountTypes ==
  ASSUME FireInv, CountInv, NEW d \in Daemon
  PROVE  /\ IsFiniteSet(FiredBy(d)) /\ Fires(d) \in Nat /\ Cardinality(Dups(d)) \in Nat
         /\ Claiming(d) \in {0, 1} /\ Pending(d) \in {0, 1} /\ used.restarts \in Nat
         /\ policy.maxRuns \in Nat /\ resumes[d] \in Nat /\ Allowed(d) \in Nat
         /\ now \in Nat /\ row[d] \in ScheduleRow /\ job[d] \in JobRow
<1>1. runs[d] \in Seq(RunRow)
  BY DEF FireInv, Typed
<1>2. FiredBy(d) \in SUBSET (1..Len(runs[d])) /\ IsFiniteSet(1..Len(runs[d]))
  <2>1. Len(runs[d]) \in Nat /\ DOMAIN runs[d] = 1..Len(runs[d])
    BY <1>1
  <2>2. IsFiniteSet(1..Len(runs[d]))
    BY <2>1, FS_Interval
  <2>3. QED BY <2>1, <2>2 DEF FiredBy
<1>3. IsFiniteSet(FiredBy(d)) /\ Fires(d) \in Nat
  BY <1>2, FS_Subset, FS_CardinalityType DEF Fires
<1>4. Cardinality(Dups(d)) \in Nat
  BY FS_CardinalityType DEF CountInv, Counted
<1>5. policy.maxRuns \in Nat /\ resumes[d] \in Nat /\ used.restarts \in Nat
  BY DEF CountInv, CountTyped, UsedTyped
<1>6. QED BY <1>3, <1>4, <1>5 DEF Claiming, Pending, Allowed, FireInv, Typed

\* Steps that record nothing on d: the counter stays, a slot the row gets is new, and
\* a tick that goes on keeps what it read.
RowKept(d) ==
  row'[d].held =>
    /\ row[d].held /\ row'[d].runs = row[d].runs /\ (row'[d].enabled => row[d].enabled)
    /\ \/ row'[d].next = row[d].next \/ row'[d].next = Never \/ row'[d].next > now
       \/ job[d].at # "idle" /\ row'[d].next > job[d].slot

JobKept(d) ==
  \/ job'[d].at = "idle" /\ job[d].at # "claim"
  \/ UNCHANGED job[d]
  \/ /\ {job[d].at, job'[d].at} \subseteq {"due", "authorize", "license"}
     /\ job'[d].slot = job[d].slot /\ job'[d].runs = job[d].runs

LEMMA CountKept ==
  ASSUME FireInv, FireInv', CountInv, CountTyped', NEW d \in Daemon, RowKept(d), JobKept(d),
         FiredBy(d)' = FiredBy(d), Dups(d)' = Dups(d), UNCHANGED policy, UNCHANGED resumes[d],
         now <= now', used.restarts <= used'.restarts
  PROVE  Counted(d)'
<1>1. /\ Fires(d) \in Nat /\ Cardinality(Dups(d)) \in Nat
      /\ used.restarts \in Nat /\ used'.restarts \in Nat /\ Allowed(d) \in Nat
      /\ now \in Nat /\ row[d] \in ScheduleRow /\ job[d] \in JobRow
      /\ now' \in Nat /\ row'[d] \in ScheduleRow /\ job'[d] \in JobRow
  BY CountTypes DEF CountTyped, UsedTyped, FireInv, Typed
<1>2. Fires(d)' = Fires(d) /\ Recorded(d)' = Recorded(d) /\ Allowed(d)' = Allowed(d)
  BY DEF Fires, Recorded, Allowed
<1>3. Counted(d)
  BY DEF CountInv
<1>4. IsFiniteSet(Dups(d))'
  BY <1>3 DEF Counted
<1>5. \A s \in Nat : DupBefore(d, s)' <=> \A k \in Dups(d) : k[1] \in Nat /\ k[1] < s
  BY DEF DupBefore
<1>6. DupOrdered(d)'
  <2>1. \A k \in Dups(d) : /\ k[1] \in Nat /\ k[1] < now + 1
                           /\ row[d].held /\ row[d].next # Never => k[1] < row[d].next
                           /\ job[d].at # "idle" => k[1] < job[d].slot
    BY <1>3 DEF Counted, DupOrdered, DupBefore
  <2>2. row[d].next \in Nat /\ row'[d].next \in Nat /\ job[d].slot \in Nat /\ job'[d].slot \in Nat
    BY <1>1 DEF ScheduleRow, JobRow
  <2>3. \A k \in Dups(d) : /\ k[1] \in Nat /\ k[1] < now' + 1
                           /\ row'[d].held /\ row'[d].next # Never => k[1] < row'[d].next
                           /\ job'[d].at # "idle" => k[1] < job'[d].slot
    BY <1>1, <2>1, <2>2 DEF RowKept, JobKept
  <2>4. QED BY <2>3 DEF DupOrdered, DupBefore
<1>7. RunsRead(d)'
  BY <1>3 DEF Counted, RunsRead, RowKept, JobKept
<1>8. Claiming(d)' = Claiming(d) /\ Claiming(d) \in {0, 1}
  BY DEF Claiming, JobKept
<1>9. Pending(d)' <= Pending(d) /\ Pending(d) \in {0, 1} /\ Pending(d)' \in {0, 1}
  BY DEF Pending, JobKept
<1>10. CountedRight(d)'
  <2>1. Recorded(d) \in Nat
    BY <1>1 DEF Recorded
  <2>2. row[d].runs \in Nat
    BY <1>1 DEF ScheduleRow
  <2>3. QED BY <1>1, <1>2, <1>3, <1>8, <2>1, <2>2 DEF Counted, CountedRight, RowKept
<1>11. CappedRight(d)'
  <2>1. row[d].runs \in Nat
    BY <1>1 DEF ScheduleRow
  <2>2. job'[d].at \in {"due", "authorize", "license"} => job[d].at \in {"due", "authorize", "license"}
    BY DEF JobKept
  <2>3. QED BY <1>1, <1>2, <1>3, <1>9, <2>1, <2>2 DEF Counted, CappedRight, RowKept
<1>12. QED BY <1>4, <1>6, <1>7, <1>10, <1>11 DEF Counted

\* The tick reads a row that is due, enabled and thus below its cap.
LEMMA BeginCounts ==
  ASSUME FireInv, FireInv', CountInv, NEW d \in Daemon, TickBegins(d) PROVE Counted(d)'
<1>1. /\ job[d].at = "idle" /\ row[d].held /\ row[d].enabled /\ row[d].next # Never
      /\ UNCHANGED <<now, row, runs, skipped, policy, resumes, used>>
      /\ job'[d].at = "due" /\ job'[d].slot = row[d].next /\ job'[d].runs = row[d].runs
  <2>1. job \in [Daemon -> JobRow]
    BY DEF FireInv, Typed
  <2>2. QED BY <2>1 DEF TickBegins, Due, stores, world, history
<1>2. Dups(d)' = Dups(d) /\ FiredBy(d)' = FiredBy(d)
  BY <1>1 DEF Dups, FiredBy
<1>3. Fires(d)' = Fires(d) /\ Recorded(d)' = Recorded(d) /\ Allowed(d)' = Allowed(d)
  BY <1>1, <1>2 DEF Fires, Recorded, Allowed
<1>4. Claiming(d) = 0 /\ Claiming(d)' = 0 /\ Pending(d)' = 1
  BY <1>1 DEF Claiming, Pending
<1>5. Counted(d)
  BY DEF CountInv
<1>6. /\ Fires(d) \in Nat /\ Cardinality(Dups(d)) \in Nat /\ Allowed(d) \in Nat /\ row[d].runs \in Nat
  BY CountTypes DEF ScheduleRow
<1>7. DupOrdered(d)' /\ RunsRead(d)' /\ IsFiniteSet(Dups(d))'
  BY <1>1, <1>2, <1>5 DEF Counted, DupOrdered, DupBefore, RunsRead
<1>8. CountedRight(d)'
  BY <1>1, <1>3, <1>4, <1>5 DEF Counted, CountedRight
<1>9. CappedRight(d)'
  BY <1>1, <1>3, <1>4, <1>5, <1>6 DEF Counted, CappedRight, CountedRight, Recorded
<1>10. QED BY <1>7, <1>8, <1>9 DEF Counted

\* The two answers of the licence check.
Consumed(d) == IF CompletesOneShot(d) THEN [Marked(d, Never, 1) EXCEPT !.enabled = FALSE]
                                      ELSE Marked(d, job[d].next, 1)
IsPaused(d) == License(d) /\ RecordSkip(d, "license_paused") /\ EndJob(d) /\ Write(d, PausedSkip(d))
Consumes(d) == License(d) /\ Write(d, Consumed(d)) /\ Proceed(d, "claim") /\ UNCHANGED skipped

LEMMA LicenseAnswers == ASSUME NEW d, License(d) PROVE IsPaused(d) \/ Consumes(d)
BY DEF License, IsPaused, Consumes, Consumed

\* The slot is consumed: the counter moves with the claim that is to be made.
LEMMA ConsumeCounts ==
  ASSUME FireInv, FireInv', CountInv, CountTyped', NEW d \in Daemon, Consumes(d) PROVE Counted(d)'
<1> DEFINE on == Consumed(d)
<1>1. /\ job[d].at = "license" /\ UNCHANGED <<now, runs, skipped, policy, resumes>>
      /\ Write(d, on) /\ Proceed(d, "claim")
      /\ used.restarts \in Nat /\ used'.restarts \in Nat
  BY DEF Consumes, License, world, history, CountInv, CountTyped, UsedTyped
<1>2. used.restarts <= used'.restarts
  <2>1. [Next]_vars
    BY DEF Consumes, Next
  <2>2. QED BY <2>1, NextUses DEF CountInv, CountTyped
<1>3. /\ job'[d].at = "claim" /\ job'[d].slot = job[d].slot /\ job \in [Daemon -> JobRow] /\ row \in [Daemon -> ScheduleRow]
  BY <1>1 DEF Proceed, FireInv, Typed
<1>4. row'[d] = IF row[d].held THEN on ELSE row[d]
  BY <1>1, <1>3 DEF Write
<1>5. Dups(d)' = Dups(d) /\ FiredBy(d)' = FiredBy(d)
  BY <1>1 DEF Dups, FiredBy
<1>6. Fires(d)' = Fires(d) /\ Recorded(d)' = Recorded(d) /\ Allowed(d)' = Allowed(d)
  BY <1>1, <1>5 DEF Fires, Recorded, Allowed
<1>7. Claiming(d) = 0 /\ Claiming(d)' = 1 /\ Pending(d)' = 1 /\ Pending(d) = 1
  BY <1>1, <1>3 DEF Claiming, Pending
<1>8. Counted(d)
  BY DEF CountInv
<1>9. /\ Fires(d) \in Nat /\ Cardinality(Dups(d)) \in Nat /\ Allowed(d) \in Nat /\ row[d].runs \in Nat
      /\ policy.maxRuns \in Nat /\ resumes[d] \in Nat
      /\ job[d].next > job[d].slot /\ job[d].next \in Nat /\ job[d].slot \in Nat
  BY <1>1, CountTypes DEF ScheduleRow, JobRow, FireInv, Ordered
<1>10. row[d].held =>
         /\ row'[d].runs = row[d].runs + 1 /\ row'[d].held
         /\ row'[d].next = Never \/ row'[d].next = job[d].next
         /\ row'[d].enabled => row[d].enabled /\ ~CompletesOneShot(d)
  BY <1>3, <1>4 DEF Consumed, Marked, ScheduleRow
<1>11. DupOrdered(d)'
  <2>1. \A k \in Dups(d) : k[1] \in Nat /\ k[1] < now + 1 /\ k[1] < job[d].slot
    BY <1>1, <1>8 DEF Counted, DupOrdered, DupBefore
  <2>2. row'[d].held /\ row'[d].next # Never => \A k \in Dups(d) : k[1] < row'[d].next
    BY <1>4, <1>9, <1>10, <2>1
  <2>3. QED BY <1>1, <1>3, <1>5, <2>1, <2>2 DEF DupOrdered, DupBefore
<1>12. RunsRead(d)'
  BY <1>3 DEF RunsRead
<1>13. CountedRight(d)'
  <2>1. Recorded(d) \in Nat
    BY <1>9 DEF Recorded
  <2>2. QED BY <1>1, <1>2, <1>4, <1>6, <1>7, <1>8, <1>9, <1>10, <2>1 DEF Counted, CountedRight
<1>14. CappedRight(d)'
  <2> SUFFICES ASSUME policy.maxRuns # Never
               PROVE  /\ Fires(d) + 1 <= Allowed(d)
                      /\ row'[d].held => row'[d].runs <= Allowed(d)
                      /\ row'[d].held /\ row'[d].enabled => row'[d].runs < Allowed(d)
    BY <1>1, <1>3, <1>6, <1>7 DEF CappedRight
  <2>1. Fires(d) + 1 <= Allowed(d) /\ (row[d].held => row[d].runs < Allowed(d))
    BY <1>1, <1>7, <1>8 DEF Counted, CappedRight
  <2>2. row[d].held /\ ~CompletesOneShot(d) => row[d].runs + 1 < policy.maxRuns
    BY <1>1, <1>8, <1>9 DEF Counted, RunsRead, CompletesOneShot
  <2>3. row'[d].held => row[d].held
    BY <1>4
  <2>4. row[d].held => row'[d].runs <= Allowed(d)
    BY <1>9, <1>10, <2>1
  <2>5. row[d].held /\ row'[d].enabled => row'[d].runs < Allowed(d)
    BY <1>9, <1>10, <2>2 DEF Allowed
  <2>6. QED BY <2>1, <2>3, <2>4, <2>5
<1>15. QED BY <1>5, <1>8, <1>11, <1>12, <1>13, <1>14 DEF Counted

\* A run row is added, for a slot or for none.
LEMMA StartFires ==
  ASSUME FireInv, CountInv, NEW d \in Daemon, NEW s, StartRun(d, s)
  PROVE  /\ s = Never => FiredBy(d)' = FiredBy(d)
         /\ s # Never => Fires(d)' = Fires(d) + 1
         /\ \A e \in Daemon \ {d} : FiredBy(e)' = FiredBy(e)
<1> DEFINE n == Len(runs[d]) + 1
           new == [slot |-> s, status |-> "running"]
<1>1. runs \in [Daemon -> Seq(RunRow)] /\ runs[d] \in Seq(RunRow)
  BY DEF FireInv, Typed
<1>2. runs'[d] = Append(runs[d], new) /\ \A e \in Daemon \ {d} : runs'[e] = runs[e]
  BY <1>1 DEF StartRun
<1>3. /\ DOMAIN runs'[d] = DOMAIN runs[d] \cup {n} /\ n \notin DOMAIN runs[d]
      /\ \A i \in DOMAIN runs[d] : runs'[d][i] = runs[d][i]
      /\ runs'[d][n] = new
  BY <1>1, <1>2
<1>4. new.slot = s
  OBVIOUS
<1> HIDE DEF n, new
<1>5. s = Never => FiredBy(d)' = FiredBy(d)
  BY <1>3, <1>4 DEF FiredBy
<1>6. s # Never => FiredBy(d)' = FiredBy(d) \cup {n} /\ n \notin FiredBy(d)
  BY <1>3, <1>4 DEF FiredBy
<1>7. IsFiniteSet(FiredBy(d))
  BY CountTypes
<1>8. s # Never => Cardinality(FiredBy(d)') = Cardinality(FiredBy(d)) + 1
  BY <1>6, <1>7, FS_AddElement
<1>9. QED BY <1>2, <1>5, <1>8 DEF Fires, FiredBy

\* The claim is answered: what was being claimed is on record now, as a run or as one
\* another daemon had.
LEMMA ClaimCounts ==
  ASSUME FireInv, FireInv', CountInv, CountTyped', NEW d \in Daemon, Claim(d) \/ ClaimFails(d) PROVE Counted(d)'
<1> DEFINE s == job[d].slot
           dup == <<s, "duplicate">>
<1>1. /\ job[d].at = "claim" /\ job'[d].at = "idle" /\ UNCHANGED <<now, row, policy, resumes>>
      /\ used'.restarts \in Nat /\ used.restarts \in Nat
      /\ \/ StartRun(d, s) /\ UNCHANGED skipped
         \/ RecordSkip(d, "duplicate") /\ UNCHANGED runs
  <2>1. job \in [Daemon -> JobRow]
    BY DEF FireInv, Typed
  <2>2. QED BY <2>1 DEF Claim, ClaimFails, ClaimAnswered, EndJob, Idle, world, history, CountInv, CountTyped, UsedTyped
<1>2. used.restarts <= used'.restarts
  <2>1. [Next]_vars
    BY DEF Next
  <2>2. QED BY <2>1, NextUses DEF CountInv, CountTyped
<1>3. Counted(d)
  BY DEF CountInv
<1>4. /\ Fires(d) \in Nat /\ Cardinality(Dups(d)) \in Nat /\ Allowed(d) \in Nat
      /\ row[d].runs \in Nat /\ row[d].next \in Nat /\ s \in Nat /\ now \in Nat
  BY CountTypes DEF ScheduleRow, JobRow
<1>5. s # Never /\ s <= now /\ (row[d].held /\ row[d].next # Never => row[d].next > s)
  BY <1>1 DEF FireInv, Ordered
<1>6. Claiming(d) = 1 /\ Claiming(d)' = 0 /\ Pending(d) = 1 /\ Pending(d)' = 0 /\ Allowed(d)' = Allowed(d)
  BY <1>1 DEF Claiming, Pending, Allowed
<1>7. RunsRead(d)'
  BY <1>1 DEF RunsRead
<1>8. ASSUME Fires(d)' \in Nat, Fires(d)' <= Fires(d) + 1, Recorded(d)' = Recorded(d) + 1
      PROVE  CountedRight(d)' /\ CappedRight(d)'
  <2>1. CountedRight(d)'
    BY <1>1, <1>2, <1>3, <1>4, <1>6, <1>8 DEF Counted, CountedRight, Recorded
  <2>2. CappedRight(d)'
    BY <1>1, <1>3, <1>4, <1>6, <1>8 DEF Counted, CappedRight
  <2>3. QED BY <2>1, <2>2
<1>9. \A k \in Dups(d) : k[1] \in Nat /\ k[1] < now + 1 /\ k[1] < s
                         /\ (row[d].held /\ row[d].next # Never => k[1] < row[d].next)
  BY <1>1, <1>3 DEF Counted, DupOrdered, DupBefore
<1>10. CASE StartRun(d, s) /\ UNCHANGED skipped
  <2>1. Fires(d)' = Fires(d) + 1 /\ Dups(d)' = Dups(d)
    BY <1>5, <1>10, StartFires DEF Dups
  <2>2. Recorded(d)' = Recorded(d) + 1
    BY <1>4, <2>1 DEF Recorded
  <2>3. DupOrdered(d)' /\ IsFiniteSet(Dups(d))'
    BY <1>1, <1>3, <2>1 DEF Counted, DupOrdered, DupBefore
  <2>4. QED BY <1>4, <1>7, <1>8, <2>1, <2>2, <2>3 DEF Counted
<1>11. CASE RecordSkip(d, "duplicate") /\ UNCHANGED runs
  <2>1. skipped'[d] = skipped[d] \cup {dup} /\ dup[1] = s /\ dup[2] = "duplicate"
    BY <1>11 DEF RecordSkip, CountInv, CountTyped
  <2> HIDE DEF dup
  <2>2. Dups(d)' = Dups(d) \cup {dup}
    BY <2>1 DEF Dups
  <2>3. dup \notin Dups(d)
    BY <1>4, <1>9, <2>1
  <2>4. IsFiniteSet(Dups(d)) /\ IsFiniteSet(Dups(d) \cup {dup})
        /\ Cardinality(Dups(d) \cup {dup}) = Cardinality(Dups(d)) + 1
    BY <1>3, <2>3, FS_AddElement DEF Counted
  <2>5. Fires(d)' = Fires(d)
    BY <1>11 DEF Fires, FiredBy
  <2>6. Recorded(d)' = Recorded(d) + 1
    BY <1>4, <2>2, <2>4, <2>5 DEF Recorded
  <2>7. \A k \in Dups(d)' : k[1] \in Nat /\ k[1] < now + 1 /\ (row[d].held /\ row[d].next # Never => k[1] < row[d].next)
    BY <1>4, <1>5, <1>9, <2>1, <2>2
  <2>8. DupOrdered(d)' /\ IsFiniteSet(Dups(d))'
    BY <1>1, <2>2, <2>4, <2>7 DEF DupOrdered, DupBefore
  <2>9. QED BY <1>4, <1>7, <1>8, <2>5, <2>6, <2>8 DEF Counted
<1>12. QED BY <1>1, <1>10, <1>11

\* What no step changes, or only one way.
LEMMA NextFrame ==
  ASSUME FireInv, CountInv, [Next]_vars
  PROVE  CountTyped' /\ UNCHANGED policy /\ now <= now' /\ used.restarts <= used'.restarts
<1>1. UsedTyped' /\ used.restarts <= used'.restarts
  BY NextUses DEF CountInv, CountTyped
<1>2. now \in Nat /\ resumes \in [Daemon -> Nat] /\ DOMAIN skipped = Daemon
  BY DEF FireInv, Typed, CountInv, CountTyped
<1>3. UNCHANGED policy /\ now <= now'
  <2>1. CASE Clock
    BY <1>2, <2>1 DEF Clock, world
  <2>2. CASE AccessChanges \/ LicenceChanges \/ UNCHANGED vars
    BY <1>2, <2>2 DEF AccessChanges, LicenceChanges, vars, world
  <2>3. ASSUME NEW d \in Daemon, TickBegins(d) \/ ProcessDue(d) \/ Authorize(d) \/ License(d) \/ Claim(d) \/ ClaimFails(d)
        PROVE  UNCHANGED <<policy, now>>
    BY <2>3 DEF TickBegins, ProcessDue, Authorize, License, Claim, ClaimFails, world
  <2>4. ASSUME NEW d \in Daemon,
               \/ RunOnce(d) \/ RunOnceAuthorized(d) \/ RunOnceLicensed(d) \/ Restart(d)
               \/ UpdateSchedule(d) \/ Pause(d) \/ Resume(d) \/ DeleteSchedule(d)
               \/ \E i \in live[d] : FireSettles(d, i)
        PROVE  UNCHANGED <<policy, now>>
    BY <2>4 DEF RunOnce, RunOnceAuthorized, RunOnceLicensed, Restart, UpdateSchedule, Pause, Resume, DeleteSchedule,
                Edit, FireSettles, world
  <2>5. QED BY <1>2, <2>1, <2>2, <2>3, <2>4 DEF Next
<1>4. resumes' \in [Daemon -> Nat] /\ DOMAIN skipped' = Daemon
  <2>1. CASE Clock \/ AccessChanges \/ LicenceChanges \/ UNCHANGED vars
    BY <1>2, <2>1 DEF Clock, AccessChanges, LicenceChanges, vars, stores, history
  <2>2. ASSUME NEW d \in Daemon, TickBegins(d) \/ ProcessDue(d) \/ Authorize(d) \/ License(d) \/ Claim(d) \/ ClaimFails(d)
        PROVE  UNCHANGED resumes /\ DOMAIN skipped' = Daemon
    BY <1>2, <2>2 DEF TickBegins, ProcessDue, Authorize, License, Claim, ClaimFails, ClaimAnswered, RecordSkip,
                      stores, history
  <2>3. ASSUME NEW d \in Daemon,
               \/ RunOnce(d) \/ RunOnceAuthorized(d) \/ RunOnceLicensed(d) \/ Restart(d)
               \/ UpdateSchedule(d) \/ Pause(d) \/ DeleteSchedule(d)
               \/ \E i \in live[d] : FireSettles(d, i)
        PROVE  UNCHANGED <<resumes, skipped>>
    BY <2>3 DEF RunOnce, RunOnceAuthorized, RunOnceLicensed, Restart, UpdateSchedule, Pause, DeleteSchedule,
                Edit, FireSettles, stores, history
  <2>4. ASSUME NEW d \in Daemon, Resume(d) PROVE resumes' \in [Daemon -> Nat] /\ UNCHANGED skipped
    BY <1>2, <2>4 DEF Resume, Edit
  <2>5. QED BY <1>2, <2>1, <2>2, <2>3, <2>4 DEF Next
<1>5. QED BY <1>1, <1>3, <1>4 DEF CountInv, CountTyped

\* The row, the tick and the records of d are left alone.
Quiet(d) == /\ UNCHANGED row[d] /\ UNCHANGED job[d] /\ UNCHANGED runs[d] /\ UNCHANGED skipped[d]
            /\ UNCHANGED resumes[d]

LEMMA QuietCounts ==
  ASSUME FireInv, FireInv', CountInv, [Next]_vars, NEW d \in Daemon, Quiet(d) PROVE Counted(d)'
<1>1. FiredBy(d)' = FiredBy(d) /\ Dups(d)' = Dups(d)
  BY DEF Quiet, FiredBy, Dups
<1>2. RowKept(d) /\ JobKept(d)
  BY DEF Quiet, RowKept, JobKept
<1>3. QED BY <1>1, <1>2, NextFrame, CountKept DEF Quiet

\* What one daemon does leaves the others alone.
LEMMA OthersQuiet ==
  ASSUME FireInv, CountInv, NEW d \in Daemon, NEW e \in Daemon \ {d},
         \/ TickBegins(d) \/ ProcessDue(d) \/ Authorize(d) \/ License(d) \/ Claim(d) \/ ClaimFails(d)
         \/ RunOnceLicensed(d) \/ Restart(d)
         \/ UpdateSchedule(d) \/ Pause(d) \/ Resume(d) \/ DeleteSchedule(d)
         \/ \E i \in live[d] : FireSettles(d, i)
  PROVE  Quiet(e)
<1>1. /\ DOMAIN row = Daemon /\ DOMAIN job = Daemon /\ DOMAIN runs = Daemon /\ DOMAIN skipped = Daemon
      /\ DOMAIN resumes = Daemon
  BY DEF FireInv, Typed, CountInv, CountTyped
<1>2. UNCHANGED row[e]
  BY <1>1 DEF TickBegins, ProcessDue, Authorize, License, Claim, ClaimFails, RunOnceLicensed, Restart,
              UpdateSchedule, Pause, Resume, DeleteSchedule, Edit, FireSettles, Write, stores
<1>3. UNCHANGED job[e]
  BY <1>1 DEF TickBegins, ProcessDue, Authorize, License, Claim, ClaimFails, ClaimAnswered, RunOnceLicensed, Restart,
              UpdateSchedule, Pause, Resume, DeleteSchedule, Edit, FireSettles, EndJob, Proceed, process
<1>4. UNCHANGED runs[e]
  BY <1>1 DEF TickBegins, ProcessDue, Authorize, License, Claim, ClaimFails, ClaimAnswered, RunOnceLicensed, Restart,
              UpdateSchedule, Pause, Resume, DeleteSchedule, Edit, FireSettles, StartRun, stores
<1>5. UNCHANGED skipped[e]
  BY <1>1 DEF TickBegins, ProcessDue, Authorize, License, Claim, ClaimFails, ClaimAnswered, RunOnceLicensed, Restart,
              UpdateSchedule, Pause, Resume, DeleteSchedule, Edit, FireSettles, RecordSkip, stores
<1>6. UNCHANGED resumes[e]
  BY <1>1 DEF TickBegins, ProcessDue, Authorize, License, Claim, ClaimFails, RunOnceLicensed, Restart,
              UpdateSchedule, Pause, Resume, DeleteSchedule, Edit, FireSettles, history
<1>7. QED BY <1>2, <1>3, <1>4, <1>5, <1>6 DEF Quiet

\* A skip for another reason is no duplicate.
LEMMA SkipKeeps ==
  ASSUME CountInv, NEW d \in Daemon, NEW reason, reason # "duplicate", RecordSkip(d, reason)
  PROVE  Dups(d)' = Dups(d)
<1>1. skipped'[d] = skipped[d] \cup {<<job[d].slot, reason>>}
  BY DEF RecordSkip, CountInv, CountTyped
<1>2. QED BY <1>1 DEF Dups

\* Up to the licence a tick counts nothing, and one that is paused there moves on.
LEMMA StageCounts ==
  ASSUME ScheduleAssumption, FireInv, FireInv', CountInv, NEW d \in Daemon, [Next]_vars,
         ProcessDue(d) \/ Authorize(d) \/ IsPaused(d)
  PROVE  Counted(d)'
<1>1. /\ job[d].at \in {"due", "authorize", "license"} /\ UNCHANGED <<now, runs, resumes>>
      /\ row \in [Daemon -> ScheduleRow] /\ job \in [Daemon -> JobRow]
  BY DEF ProcessDue, Authorize, IsPaused, License, FireInv, Typed, history
<1>2. FiredBy(d)' = FiredBy(d)
  BY <1>1 DEF FiredBy
<1>3. Dups(d)' = Dups(d)
  <2>1. UNCHANGED skipped \/ \E reason \in Reason \ {"duplicate"} : RecordSkip(d, reason)
    BY DEF ProcessDue, Authorize, IsPaused, Reason
  <2>2. QED BY <2>1, SkipKeeps DEF Dups
<1>4. JobKept(d)
  <2>1. CASE EndJob(d)
    BY <1>1, <2>1 DEF EndJob, Idle, JobKept
  <2>2. CASE job' = [job EXCEPT ![d].at = "authorize", ![d].next = NextAfter(job[d].cron, now)]
    <3>1. job'[d].at = "authorize" /\ job'[d].slot = job[d].slot /\ job'[d].runs = job[d].runs
      BY <1>1, <2>2 DEF JobRow
    <3>2. QED BY <1>1, <3>1 DEF JobKept
  <2>3. CASE Proceed(d, "license")
    <3>1. job'[d].at = "license" /\ job'[d].slot = job[d].slot /\ job'[d].runs = job[d].runs
      BY <1>1, <2>3 DEF Proceed, JobRow
    <3>2. QED BY <1>1, <3>1 DEF JobKept
  <2>4. ProcessDue(d) => \/ EndJob(d)
                         \/ job' = [job EXCEPT ![d].at = "authorize", ![d].next = NextAfter(job[d].cron, now)]
    BY DEF ProcessDue
  <2>5. Authorize(d) => EndJob(d) \/ Proceed(d, "license")
    BY DEF Authorize
  <2>6. IsPaused(d) => EndJob(d)
    BY DEF IsPaused
  <2>7. QED BY <2>1, <2>2, <2>3, <2>4, <2>5, <2>6
<1>5. RowKept(d)
  <2>1. CASE UNCHANGED row
    BY <2>1 DEF RowKept
  <2>2. CASE ProcessDue(d) /\ Write(d, Marked(d, NextAfter(job[d].cron, now), 0))
    <3>1. NextAfter(job[d].cron, now) > now
      BY <1>1, AtStage, CadenceMoves
    <3>2. row'[d] = IF row[d].held THEN Marked(d, NextAfter(job[d].cron, now), 0) ELSE row[d]
      BY <1>1, <2>2 DEF Write
    <3>3. row[d].runs \in Nat
      BY <1>1 DEF ScheduleRow
    <3>4. QED BY <1>1, <3>1, <3>2, <3>3 DEF RowKept, Marked, ScheduleRow
  <2>3. CASE Write(d, [row[d] EXCEPT !.enabled = FALSE])
    BY <1>1, <2>3 DEF Write, RowKept, ScheduleRow
  <2>4. CASE job[d].at = "license" /\ Write(d, PausedSkip(d))
    <3>1. job[d].next > job[d].slot
      BY <2>4 DEF FireInv, Ordered
    <3>2. row'[d] = IF row[d].held THEN PausedSkip(d) ELSE row[d]
      BY <1>1, <2>4 DEF Write
    <3>3. row[d].runs \in Nat
      BY <1>1 DEF ScheduleRow
    <3>4. QED BY <1>1, <2>4, <3>1, <3>2, <3>3 DEF RowKept, PausedSkip, Marked, ScheduleRow
  <2>5. IsPaused(d) => job[d].at = "license" /\ Write(d, PausedSkip(d))
    BY DEF IsPaused, License
  <2>6. Authorize(d) => UNCHANGED row \/ Write(d, [row[d] EXCEPT !.enabled = FALSE])
    BY DEF Authorize
  <2>7. ProcessDue(d) => UNCHANGED row \/ Write(d, Marked(d, NextAfter(job[d].cron, now), 0))
    BY DEF ProcessDue
  <2>8. QED BY <2>1, <2>2, <2>3, <2>4, <2>5, <2>6, <2>7
<1>6. UNCHANGED resumes[d]
  BY <1>1
<1>7. QED BY <1>2, <1>3, <1>4, <1>5, <1>6, NextFrame, CountKept

\* Edits leave the counter alone.
LEMMA EditCounts ==
  ASSUME ScheduleAssumption, FireInv, FireInv', CountInv, NEW d \in Daemon, [Next]_vars,
         UpdateSchedule(d) \/ Pause(d) \/ DeleteSchedule(d)
  PROVE  Counted(d)'
<1>1. /\ UNCHANGED <<now, runs, skipped, job, resumes>> /\ row[d].held
      /\ row \in [Daemon -> ScheduleRow] /\ now \in Nat
  BY DEF UpdateSchedule, Pause, DeleteSchedule, Edit, process, FireInv, Typed
<1>2. FiredBy(d)' = FiredBy(d) /\ Dups(d)' = Dups(d) /\ JobKept(d)
  BY <1>1 DEF FiredBy, Dups, JobKept
<1>3. RowKept(d)
  <2>1. CASE UpdateSchedule(d)
    <3>1. PICK c \in Crons : row' = [row EXCEPT ![d] = [row[d] EXCEPT !.cron = c, !.next = NextAfter(c, now)]]
      BY <2>1 DEF UpdateSchedule, Edit
    <3>2. NextAfter(c, now) > now
      BY <1>1, CadenceMoves
    <3>3. QED BY <1>1, <3>1, <3>2 DEF RowKept, ScheduleRow
  <2>2. CASE Pause(d) \/ DeleteSchedule(d)
    BY <1>1, <2>2 DEF Pause, DeleteSchedule, Edit, RowKept, ScheduleRow
  <2>3. QED BY <2>1, <2>2
<1>4. QED BY <1>1, <1>2, <1>3, NextFrame, CountKept

\* A resume allows one run more.
LEMMA ResumeCounts ==
  ASSUME ScheduleAssumption, FireInv, FireInv', CountInv, NEW d \in Daemon, [Next]_vars, Resume(d)
  PROVE  Counted(d)'
<1>1. /\ UNCHANGED <<now, runs, skipped, job, policy>> /\ row[d].held
      /\ row \in [Daemon -> ScheduleRow] /\ now \in Nat /\ resumes \in [Daemon -> Nat]
      /\ resumes' = [resumes EXCEPT ![d] = @ + 1]
  BY DEF Resume, Edit, process, world, FireInv, Typed, CountInv, CountTyped
<1>2. NextAfter(row[d].cron, now) > now
  BY <1>1, CadenceMoves DEF ScheduleRow
<1>3. /\ row'[d].held /\ row'[d].runs = row[d].runs
      /\ row'[d].next = row[d].next \/ row'[d].next > now
  BY <1>1, <1>2 DEF Resume, Edit, ScheduleRow
<1>4. FiredBy(d)' = FiredBy(d) /\ Dups(d)' = Dups(d) /\ job'[d] = job[d]
  BY <1>1 DEF FiredBy, Dups
<1>5. /\ Fires(d)' = Fires(d) /\ Recorded(d)' = Recorded(d) /\ Claiming(d)' = Claiming(d)
      /\ Pending(d)' = Pending(d)
  BY <1>4 DEF Fires, Recorded, Claiming, Pending
<1>6. Counted(d)
  BY DEF CountInv
<1>7. /\ Fires(d) \in Nat /\ Cardinality(Dups(d)) \in Nat /\ Allowed(d) \in Nat /\ row[d].runs \in Nat
      /\ row[d].next \in Nat /\ row'[d].next \in Nat
      /\ used.restarts \in Nat /\ used'.restarts \in Nat /\ Claiming(d) \in {0, 1} /\ Pending(d) \in {0, 1}
  BY CountTypes, NextFrame DEF ScheduleRow, CountTyped, UsedTyped, FireInv, Typed
<1>8. Allowed(d)' = Allowed(d) + 1
  BY <1>1 DEF Allowed, CountInv, CountTyped
<1>9. DupOrdered(d)'
  <2>1. \A k \in Dups(d) : /\ k[1] \in Nat /\ k[1] < now + 1
                           /\ row[d].next # Never => k[1] < row[d].next
                           /\ job[d].at # "idle" => k[1] < job[d].slot
    BY <1>1, <1>6 DEF Counted, DupOrdered, DupBefore
  <2>2. \A k \in Dups(d) : row'[d].next # Never => k[1] < row'[d].next
    BY <1>1, <1>3, <1>7, <2>1
  <2>3. QED BY <1>1, <1>4, <2>1, <2>2 DEF DupOrdered, DupBefore
<1>10. RunsRead(d)' /\ IsFiniteSet(Dups(d))'
  BY <1>1, <1>3, <1>4, <1>6 DEF Counted, RunsRead
<1>11. CountedRight(d)'
  <2>1. Recorded(d) \in Nat /\ used.restarts <= used'.restarts
    BY <1>7, NextFrame DEF Recorded
  <2>2. QED BY <1>1, <1>3, <1>5, <1>6, <1>7, <2>1 DEF Counted, CountedRight
<1>12. CappedRight(d)'
  BY <1>1, <1>3, <1>4, <1>5, <1>6, <1>7, <1>8 DEF Counted, CappedRight
<1>13. QED BY <1>9, <1>10, <1>11, <1>12 DEF Counted

\* A restart cuts a claim short at most.
LEMMA RestartCounts ==
  ASSUME FireInv, FireInv', CountInv, NEW d \in Daemon, [Next]_vars, Restart(d) PROVE Counted(d)'
<1>1. /\ UNCHANGED <<now, row, runs, skipped, policy, resumes>> /\ job'[d].at = "idle"
      /\ used'.restarts = used.restarts + 1
  <2>1. job \in [Daemon -> JobRow] /\ UsedTyped
    BY DEF FireInv, Typed, CountInv, CountTyped
  <2>2. QED BY <2>1, NextUses DEF Restart, Idle, stores, world, history
<1>2. FiredBy(d)' = FiredBy(d) /\ Dups(d)' = Dups(d)
  BY <1>1 DEF FiredBy, Dups
<1>3. /\ Fires(d)' = Fires(d) /\ Recorded(d)' = Recorded(d) /\ Allowed(d)' = Allowed(d)
      /\ Claiming(d)' = 0 /\ Pending(d)' = 0
  BY <1>1, <1>2 DEF Fires, Recorded, Allowed, Claiming, Pending
<1>4. Counted(d)
  BY DEF CountInv
<1>5. /\ Fires(d) \in Nat /\ Recorded(d) \in Nat /\ Allowed(d) \in Nat /\ row[d].runs \in Nat
      /\ used.restarts \in Nat /\ Claiming(d) \in {0, 1} /\ Pending(d) \in {0, 1}
  BY CountTypes DEF ScheduleRow, Recorded
<1>6. DupOrdered(d)' /\ RunsRead(d)' /\ IsFiniteSet(Dups(d))'
  BY <1>1, <1>2, <1>4 DEF Counted, DupOrdered, DupBefore, RunsRead
<1>7. CountedRight(d)'
  BY <1>1, <1>3, <1>4, <1>5 DEF Counted, CountedRight
<1>8. CappedRight(d)'
  BY <1>1, <1>3, <1>4, <1>5 DEF Counted, CappedRight
<1>9. QED BY <1>6, <1>7, <1>8 DEF Counted

\* A run by hand is for no slot.
LEMMA ManualCounts ==
  ASSUME FireInv, FireInv', CountInv, NEW d \in Daemon, [Next]_vars, RunOnceLicensed(d) PROVE Counted(d)'
<1>1. UNCHANGED <<row, job, skipped, resumes>> /\ (StartRun(d, Never) \/ UNCHANGED runs)
  BY DEF RunOnceLicensed, history
<1>2. FiredBy(d)' = FiredBy(d) /\ Dups(d)' = Dups(d)
  BY <1>1, StartFires DEF FiredBy, Dups
<1>3. RowKept(d) /\ JobKept(d)
  BY <1>1 DEF RowKept, JobKept
<1>4. QED BY <1>1, <1>2, <1>3, NextFrame, CountKept

\* A run that settles keeps its slot.
LEMMA SettleCounts ==
  ASSUME FireInv, FireInv', CountInv, NEW d \in Daemon, [Next]_vars, NEW i, FireSettles(d, i) PROVE Counted(d)'
<1>1. UNCHANGED <<row, job, skipped, resumes>> /\ runs' = [runs EXCEPT ![d][i].status = "closed"]
  BY DEF FireSettles, history
<1>2. runs \in [Daemon -> Seq(RunRow)] /\ runs[d] \in Seq(RunRow)
  BY DEF FireInv, Typed
<1>3. DOMAIN runs'[d] = DOMAIN runs[d] /\ \A k \in DOMAIN runs[d] : runs'[d][k].slot = runs[d][k].slot
  <2>1. runs'[d] = [runs[d] EXCEPT ![i] = [runs[d][i] EXCEPT !.status = "closed"]]
    BY <1>1, <1>2
  <2>2. \A k \in DOMAIN runs[d] : runs[d][k] \in RunRow
    BY <1>2
  <2>3. QED BY <2>1, <2>2 DEF RunRow
<1>4. FiredBy(d)' = FiredBy(d) /\ Dups(d)' = Dups(d)
  BY <1>1, <1>3 DEF FiredBy, Dups
<1>5. RowKept(d) /\ JobKept(d)
  BY <1>1 DEF RowKept, JobKept
<1>6. QED BY <1>1, <1>4, <1>5, NextFrame, CountKept

LEMMA NextCounts ==
  ASSUME ScheduleAssumption, FireInv, FireInv', CountInv, [Next]_vars PROVE CountInv'
<1> DEFINE AllCounted == \A e \in Daemon : Counted(e)'
<1>1. CountTyped'
  BY NextFrame
<1>2. ASSUME NEW d \in Daemon,
             \/ TickBegins(d) \/ ProcessDue(d) \/ Authorize(d) \/ License(d) \/ Claim(d) \/ ClaimFails(d)
             \/ RunOnceLicensed(d) \/ Restart(d)
             \/ UpdateSchedule(d) \/ Pause(d) \/ Resume(d) \/ DeleteSchedule(d)
             \/ \E i \in live[d] : FireSettles(d, i)
      PROVE  AllCounted
  <2>1. \A e \in Daemon \ {d} : Counted(e)'
    BY <1>2, OthersQuiet, QuietCounts
  <2>2. CASE TickBegins(d)
    BY <2>1, <2>2, BeginCounts
  <2>3. CASE ProcessDue(d) \/ Authorize(d) \/ License(d)
    BY <1>1, <2>1, <2>3, LicenseAnswers, StageCounts, ConsumeCounts
  <2>4. CASE Claim(d) \/ ClaimFails(d)
    BY <1>1, <2>1, <2>4, ClaimCounts
  <2>5. CASE RunOnceLicensed(d) \/ Restart(d)
    BY <2>1, <2>5, ManualCounts, RestartCounts
  <2>6. CASE UpdateSchedule(d) \/ Pause(d) \/ Resume(d) \/ DeleteSchedule(d)
    BY <2>1, <2>6, EditCounts, ResumeCounts
  <2>7. CASE \E i \in live[d] : FireSettles(d, i)
    BY <2>1, <2>7, SettleCounts
  <2>8. QED BY <1>2, <2>2, <2>3, <2>4, <2>5, <2>6, <2>7
<1>3. ASSUME UNCHANGED <<row, job, runs, skipped, resumes>> PROVE AllCounted
  BY <1>3, QuietCounts DEF Quiet
<1> HIDE DEF AllCounted
<1>4. ASSUME Clock \/ AccessChanges \/ LicenceChanges \/ UNCHANGED vars PROVE AllCounted
  <2>1. UNCHANGED <<row, job, runs, skipped, resumes>>
    BY <1>4 DEF Clock, AccessChanges, LicenceChanges, vars, stores, process, history
  <2>2. QED BY <1>3, <2>1
<1>5. ASSUME NEW d \in Daemon, RunOnce(d) \/ RunOnceAuthorized(d) PROVE AllCounted
  BY <1>3, <1>5 DEF RunOnce, RunOnceAuthorized, stores, history
<1>6. AllCounted
  BY <1>2, <1>4, <1>5 DEF Next
<1>7. QED BY <1>1, <1>6 DEF CountInv, AllCounted

LEMMA InitCounts == ASSUME ScheduleAssumption, Init PROVE CountInv
<1>1. CountTyped /\ used.restarts = 0 /\ policy.maxRuns \in Nat /\ \A d \in Daemon : resumes[d] = 0
  BY DEF Init, CountTyped, UsedTyped, Policy, ScheduleAssumption
<1>2. ASSUME NEW d \in Daemon PROVE Counted(d)
  <2>1. /\ runs[d] = <<>> /\ skipped[d] = {} /\ job[d].at = "idle" /\ row[d].runs = 0
    BY DEF Init, Idle
  <2>2. FiredBy(d) = {} /\ Dups(d) = {}
    BY <2>1 DEF FiredBy, Dups
  <2>3. IsFiniteSet(Dups(d)) /\ Cardinality(Dups(d)) = 0 /\ Fires(d) = 0
    BY <2>2, FS_EmptySet DEF Fires
  <2>4. Claiming(d) = 0 /\ Pending(d) = 0 /\ Allowed(d) = policy.maxRuns
    BY <1>1, <2>1 DEF Claiming, Pending, Allowed
  <2>5. DupOrdered(d) /\ RunsRead(d)
    BY <2>1, <2>2 DEF DupOrdered, DupBefore, RunsRead
  <2>6. CountedRight(d) /\ CappedRight(d)
    BY <1>1, <2>1, <2>3, <2>4 DEF CountedRight, CappedRight, Recorded, Never
  <2>7. QED BY <2>3, <2>5, <2>6 DEF Counted
<1>3. QED BY <1>1, <1>2 DEF CountInv

\* However a tick's reads age and its calls fail, run_count is what is on record, and
\* a schedule with max_runs fires no more often but for resumes (schedule-runner.ts:330).
THEOREM CountersAgree == Spec => []CountsAgree
<1>1. Init => FireInv /\ CountInv
  BY InitFire, InitCounts, ScheduleAssumption
<1>2. FireInv /\ CountInv /\ [Next]_vars => FireInv' /\ CountInv'
  BY NextFire, NextCounts, ScheduleAssumption
<1>3. FireInv /\ CountInv => CountsAgree
  <2> SUFFICES ASSUME FireInv, CountInv PROVE OneShotEnds /\ CountedRunsOnRecord
    BY DEF CountsAgree
  <2>1. OneShotEnds
    <3>1. ASSUME policy.maxRuns # Never, NEW d \in Daemon
          PROVE  Cardinality(FiredBy(d)) <= policy.maxRuns + resumes[d]
      <4>1. Fires(d) + Pending(d) <= Allowed(d)
        BY <3>1 DEF CountInv, Counted, CappedRight
      <4>2. Fires(d) \in Nat /\ Pending(d) \in {0, 1} /\ Allowed(d) \in Nat
        BY CountTypes
      <4>3. QED BY <4>1, <4>2 DEF Fires, Allowed
    <3>2. QED BY <3>1 DEF OneShotEnds
  <2>2. CountedRunsOnRecord
    BY DEF CountInv, Counted, CountedRight, CountedRunsOnRecord, Recorded, Fires, Dups, Claiming
  <2>3. QED BY <2>1, <2>2
<1>4. QED BY <1>1, <1>2, <1>3, PTL DEF Spec
------------------------------------------------------------------------------
(* Types.  What a tick works on is a slot, because a row that is due has one. *)

RowType == [held : BOOLEAN, enabled : BOOLEAN, cron : Crons, next : Slot \cup {Never}, runs : Nat]
JobType == [at : {"idle", "due", "authorize", "license", "claim"}, cron : Crons \cup {Never},
            slot : Slot \cup {Never}, runs : Nat, next : Slot \cup {Never}]
RunType == [slot : Slot \cup {Never}, status : {"running", "closed"}]
ManualType == [authorize : Nat, license : Nat]

\* The parts of the type invariant, by who writes them.
RowsTyped == /\ now \in 0..MaxTime /\ policy \in Policy /\ row \in [Daemon -> RowType]
             /\ job \in [Daemon -> JobType]
RunsTyped == /\ manual \in [Daemon -> ManualType] /\ inFlight \in [Daemon -> BOOLEAN]
             /\ runs \in [Daemon -> Seq(RunType)] /\ \A d \in Daemon : live[d] \subseteq DOMAIN runs[d]
             /\ DOMAIN live = Daemon
RecordsTyped == /\ skipped \in [Daemon -> SUBSET (Slot \X Reason)] /\ claims \subseteq Slot
                /\ localClaims \in [Daemon -> SUBSET Slot] /\ fellBack \subseteq Daemon \X Slot
WorldTyped == authorized \in BOOLEAN /\ paused \in BOOLEAN /\ resumes \in [Daemon -> Nat] /\ UsedTyped

ScheduleTypes == RowsTyped /\ RunsTyped /\ RecordsTyped /\ WorldTyped

LEMMA TypesSuffice == ScheduleTypes => TypeOK
BY DEF ScheduleTypes, RowsTyped, RunsTyped, RecordsTyped, WorldTyped, UsedTyped, RowType, JobType, RunType, ManualType,
       TypeOK

\* An occurrence after a moment within the clock's bound is a slot.
LEMMA OccurrenceIsSlot ==
  ASSUME NEW c \in Crons, NEW t \in 0..MaxTime PROVE NextAfter(c, t) \in Slot
BY DEF Slot

LEMMA JobIsTyped ==
  ASSUME FireInv, RowsTyped, NEW d \in Daemon, job[d].at # "idle"
  PROVE  job[d] \in JobType /\ job[d].cron \in Crons /\ job[d].slot \in Slot /\ now \in 0..MaxTime
         /\ NextAfter(job[d].cron, now) \in Slot
<1>1. job[d] \in JobType /\ now \in 0..MaxTime
  BY DEF RowsTyped
<1>2. job[d].cron \in Crons /\ job[d].slot # Never
  BY AtStage
<1>3. QED BY <1>1, <1>2, OccurrenceIsSlot DEF JobType

\* Writes of the row by the tick.
LEMMA WriteTyped ==
  ASSUME RowsTyped, NEW d \in Daemon, NEW r \in RowType, Write(d, r) PROVE row' \in [Daemon -> RowType]
BY DEF RowsTyped, Write

LEMMA MarkTyped ==
  ASSUME RowsTyped, NEW d \in Daemon, NEW next \in Slot \cup {Never}, NEW count \in {0, 1}
  PROVE  Marked(d, next, count) \in RowType /\ [Marked(d, next, count) EXCEPT !.enabled = FALSE] \in RowType
<1>1. row[d] \in RowType /\ row[d].runs + count \in Nat
  BY DEF RowsTyped, RowType
<1>2. QED BY <1>1 DEF Marked, RowType

LEMMA NextRows ==
  ASSUME ScheduleAssumption, FireInv, RowsTyped, [Next]_vars PROVE RowsTyped'
<1>1. /\ now \in 0..MaxTime /\ policy \in Policy /\ MaxTime \in Nat
      /\ row \in [Daemon -> RowType] /\ job \in [Daemon -> JobType]
  BY DEF RowsTyped, ScheduleAssumption
<1>2. Idle \in JobType
  BY DEF Idle, JobType
<1>3. UNCHANGED <<now, policy, row, job>> => RowsTyped'
  BY DEF RowsTyped
<1>4. CASE Clock
  BY <1>1, <1>4 DEF Clock, stores, process, world, RowsTyped
<1>5. CASE AccessChanges \/ LicenceChanges \/ UNCHANGED vars
  BY <1>3, <1>5 DEF AccessChanges, LicenceChanges, vars, stores, process, world
<1>6. ASSUME NEW d \in Daemon, TickBegins(d) PROVE RowsTyped'
  <2>1. row[d] \in RowType
    BY <1>1
  <2>2. [at |-> "due", cron |-> row[d].cron, slot |-> row[d].next, runs |-> row[d].runs, next |-> Never] \in JobType
    BY <2>1 DEF RowType, JobType
  <2>3. QED BY <1>1, <1>6, <2>2 DEF TickBegins, stores, world, RowsTyped
<1>7. ASSUME NEW d \in Daemon, ProcessDue(d) PROVE RowsTyped'
  <2> DEFINE next == NextAfter(job[d].cron, now)
  <2>1. UNCHANGED <<now, policy>> /\ next \in Slot /\ job[d] \in JobType
    BY <1>7, JobIsTyped DEF ProcessDue, world
  <2>2. row' \in [Daemon -> RowType]
    <3>1. UNCHANGED row \/ Write(d, Marked(d, next, 0))
      BY <1>7 DEF ProcessDue
    <3>2. QED BY <1>1, <2>1, <3>1, MarkTyped, WriteTyped
  <2>3. job' \in [Daemon -> JobType]
    <3>1. EndJob(d) \/ job' = [job EXCEPT ![d].at = "authorize", ![d].next = next]
      BY <1>7 DEF ProcessDue
    <3>2. [job[d] EXCEPT !.at = "authorize", !.next = next] \in JobType
      BY <2>1 DEF JobType
    <3>3. job' = [job EXCEPT ![d].at = "authorize", ![d].next = next] =>
            job' = [job EXCEPT ![d] = [job[d] EXCEPT !.at = "authorize", !.next = next]]
      BY <1>1
    <3>4. QED BY <1>1, <1>2, <3>1, <3>2, <3>3 DEF EndJob
  <2>4. QED BY <1>1, <2>1, <2>2, <2>3 DEF RowsTyped
<1>8. ASSUME NEW d \in Daemon, NEW to \in {"license", "claim"}, EndJob(d) \/ Proceed(d, to)
      PROVE  job' \in [Daemon -> JobType]
  <2>1. [job[d] EXCEPT !.at = to] \in JobType
    BY <1>1 DEF JobType
  <2>2. QED BY <1>1, <1>2, <1>8, <2>1 DEF EndJob, Proceed
<1>9. ASSUME NEW d \in Daemon, Authorize(d) PROVE RowsTyped'
  <2>1. UNCHANGED <<now, policy>> /\ (EndJob(d) \/ Proceed(d, "license"))
    BY <1>9 DEF Authorize, world
  <2>2. [row[d] EXCEPT !.enabled = FALSE] \in RowType
    BY <1>1 DEF RowType
  <2>3. UNCHANGED row \/ Write(d, [row[d] EXCEPT !.enabled = FALSE])
    BY <1>9 DEF Authorize
  <2>4. QED BY <1>1, <1>8, <2>1, <2>2, <2>3, WriteTyped DEF RowsTyped
<1>10. ASSUME NEW d \in Daemon, License(d) PROVE RowsTyped'
  <2>1. UNCHANGED <<now, policy>> /\ (EndJob(d) \/ Proceed(d, "claim"))
    BY <1>10 DEF License, world
  <2>2. job[d].next \in Slot \cup {Never}
    BY <1>1 DEF JobType
  <2>3. PausedSkip(d) \in RowType /\ Consumed(d) \in RowType
    BY <2>2, MarkTyped DEF PausedSkip, Consumed
  <2>4. row' \in [Daemon -> RowType]
    BY <1>10, <2>3, LicenseAnswers, WriteTyped DEF IsPaused, Consumes
  <2>5. QED BY <1>1, <1>8, <2>1, <2>4 DEF RowsTyped
<1>11. ASSUME NEW d \in Daemon, Claim(d) \/ ClaimFails(d) PROVE RowsTyped'
  BY <1>1, <1>2, <1>11 DEF Claim, ClaimFails, ClaimAnswered, EndJob, world, RowsTyped
<1>12. ASSUME NEW d \in Daemon, RunOnce(d) \/ RunOnceAuthorized(d) \/ RunOnceLicensed(d) PROVE RowsTyped'
  BY <1>3, <1>12 DEF RunOnce, RunOnceAuthorized, RunOnceLicensed, stores, world
<1>13. ASSUME NEW d \in Daemon, NEW r \in RowType, Edit(d, r) PROVE RowsTyped'
  BY <1>1, <1>13 DEF Edit, process, world, RowsTyped
<1>14. ASSUME NEW d \in Daemon, UpdateSchedule(d) \/ Pause(d) \/ Resume(d) \/ DeleteSchedule(d) PROVE RowsTyped'
  <2>1. row[d] \in RowType
    BY <1>1
  <2>2. ASSUME NEW c \in Crons PROVE [row[d] EXCEPT !.cron = c, !.next = NextAfter(c, now)] \in RowType
    BY <1>1, <2>1, OccurrenceIsSlot DEF RowType
  <2>3. /\ [row[d] EXCEPT !.enabled = FALSE] \in RowType
        /\ [row[d] EXCEPT !.held = FALSE] \in RowType
    BY <2>1 DEF RowType
  <2>4. [row[d] EXCEPT !.enabled = TRUE,
                       !.next = IF @ <= now THEN NextAfter(row[d].cron, now) ELSE @] \in RowType
    <3>1. NextAfter(row[d].cron, now) \in Slot
      BY <1>1, <2>1, OccurrenceIsSlot DEF RowType
    <3>2. QED BY <2>1, <3>1 DEF RowType
  <2>5. QED BY <1>13, <1>14, <2>2, <2>3, <2>4 DEF UpdateSchedule, Pause, Resume, DeleteSchedule
<1>15. ASSUME NEW d \in Daemon, Restart(d) PROVE RowsTyped'
  BY <1>1, <1>2, <1>15 DEF Restart, stores, world, RowsTyped
<1>16. ASSUME NEW d \in Daemon, NEW i \in live[d], FireSettles(d, i) PROVE RowsTyped'
  BY <1>3, <1>16 DEF FireSettles, world
<1>17. QED BY <1>4, <1>5, <1>6, <1>7, <1>9, <1>10, <1>11, <1>12, <1>14, <1>15, <1>16 DEF Next

\* A run row is opened for a slot or none, and is one of those going.
LEMMA StartTyped ==
  ASSUME RunsTyped, NEW d \in Daemon, NEW s \in Slot \cup {Never}, StartRun(d, s), manual' \in [Daemon -> ManualType]
  PROVE  RunsTyped'
<1> DEFINE n == Len(runs[d]) + 1
           new == [slot |-> s, status |-> "running"]
<1>1. /\ runs \in [Daemon -> Seq(RunType)] /\ runs[d] \in Seq(RunType) /\ new \in RunType
      /\ DOMAIN live = Daemon /\ inFlight \in [Daemon -> BOOLEAN]
      /\ \A e \in Daemon : live[e] \subseteq DOMAIN runs[e]
  BY DEF RunsTyped, RunType
<1>2. /\ runs' = [runs EXCEPT ![d] = Append(runs[d], new)]
      /\ live' = [live EXCEPT ![d] = live[d] \cup {n}] /\ inFlight' = [inFlight EXCEPT ![d] = TRUE]
  BY <1>1 DEF StartRun
<1>3. Append(runs[d], new) \in Seq(RunType) /\ DOMAIN Append(runs[d], new) = DOMAIN runs[d] \cup {n}
  BY <1>1
<1> HIDE DEF new, n
<1>4. \A e \in Daemon : live'[e] \subseteq DOMAIN runs'[e]
  BY <1>1, <1>2, <1>3
<1>5. QED BY <1>1, <1>2, <1>3, <1>4 DEF RunsTyped

LEMMA NextRuns ==
  ASSUME ScheduleAssumption, FireInv, RowsTyped, RunsTyped, [Next]_vars PROVE RunsTyped'
<1>1. manual \in [Daemon -> ManualType]
  BY DEF RunsTyped
<1>2. UNCHANGED <<manual, inFlight, runs, live>> => RunsTyped'
  BY DEF RunsTyped
<1>3. CASE Clock \/ AccessChanges \/ LicenceChanges \/ UNCHANGED vars
  <2>1. UNCHANGED <<manual, inFlight, runs, live>>
    BY <1>3 DEF Clock, AccessChanges, LicenceChanges, vars, stores, process
  <2>2. QED BY <1>2, <2>1
<1>4. ASSUME NEW d \in Daemon,
             \/ TickBegins(d) \/ ProcessDue(d) \/ Authorize(d) \/ License(d)
             \/ UpdateSchedule(d) \/ Pause(d) \/ Resume(d) \/ DeleteSchedule(d)
      PROVE  RunsTyped'
  <2>1. UNCHANGED <<manual, inFlight, runs, live>>
    BY <1>4 DEF TickBegins, ProcessDue, Authorize, License, UpdateSchedule, Pause, Resume, DeleteSchedule, Edit,
                stores, process
  <2>2. QED BY <1>2, <2>1
<1>5. ASSUME NEW d \in Daemon, Claim(d) \/ ClaimFails(d) PROVE RunsTyped'
  <2>1. job[d].slot \in Slot
    BY <1>5, JobIsTyped DEF Claim, ClaimFails
  <2>2. UNCHANGED manual /\ (StartRun(d, job[d].slot) \/ UNCHANGED <<runs, live, inFlight>>)
    BY <1>5 DEF Claim, ClaimFails, ClaimAnswered
  <2>3. QED BY <1>1, <1>2, <2>1, <2>2, StartTyped
<1>6. ASSUME NEW d \in Daemon, NEW m \in ManualType, manual' = [manual EXCEPT ![d] = m]
      PROVE  manual' \in [Daemon -> ManualType]
  BY <1>1, <1>6
<1>7. ASSUME NEW d \in Daemon, RunOnce(d) PROVE RunsTyped'
  <2>1. manual' = [manual EXCEPT ![d] = [manual[d] EXCEPT !.authorize = @ + 1]]
        /\ UNCHANGED <<runs, live, inFlight>>
    BY <1>1, <1>7 DEF RunOnce, stores
  <2>2. [manual[d] EXCEPT !.authorize = @ + 1] \in ManualType
    BY <1>1 DEF ManualType
  <2>3. QED BY <1>6, <2>1, <2>2 DEF RunsTyped
<1>8. ASSUME NEW d \in Daemon, RunOnceAuthorized(d) PROVE RunsTyped'
  <2>1. /\ manual[d].authorize > 0 /\ UNCHANGED <<runs, live, inFlight>>
        /\ \/ manual' = [manual EXCEPT ![d] = [manual[d] EXCEPT !.authorize = @ - 1]]
           \/ manual' = [manual EXCEPT ![d] = [manual[d] EXCEPT !.authorize = @ - 1, !.license = @ + 1]]
    BY <1>1, <1>8 DEF RunOnceAuthorized, Asked, stores
  <2>2. /\ [manual[d] EXCEPT !.authorize = @ - 1] \in ManualType
        /\ [manual[d] EXCEPT !.authorize = @ - 1, !.license = @ + 1] \in ManualType
    <3>1. manual[d] \in ManualType /\ manual[d].authorize - 1 \in Nat /\ manual[d].license + 1 \in Nat
      BY <1>1, <2>1 DEF ManualType
    <3>2. QED BY <3>1 DEF ManualType
  <2>3. QED BY <1>6, <2>1, <2>2 DEF RunsTyped
<1>9. ASSUME NEW d \in Daemon, RunOnceLicensed(d) PROVE RunsTyped'
  <2>1. /\ manual[d].license > 0
        /\ manual' = [manual EXCEPT ![d] = [manual[d] EXCEPT !.license = @ - 1]]
        /\ StartRun(d, Never) \/ UNCHANGED <<runs, live, inFlight>>
    BY <1>1, <1>9 DEF RunOnceLicensed
  <2>2. [manual[d] EXCEPT !.license = @ - 1] \in ManualType
    BY <1>1, <2>1 DEF ManualType
  <2>3. manual' \in [Daemon -> ManualType]
    BY <1>6, <2>1, <2>2
  <2>4. CASE StartRun(d, Never)
    BY <2>3, <2>4, StartTyped
  <2>5. CASE UNCHANGED <<runs, live, inFlight>>
    BY <2>3, <2>5 DEF RunsTyped
  <2>6. QED BY <2>1, <2>4, <2>5
<1>10. ASSUME NEW d \in Daemon, Restart(d) PROVE RunsTyped'
  BY <1>10 DEF Restart, stores, RunsTyped, ManualType
<1>11. ASSUME NEW d \in Daemon, NEW i \in live[d], FireSettles(d, i) PROVE RunsTyped'
  <2>1. runs[d] \in Seq(RunType) /\ i \in DOMAIN runs[d] /\ runs \in [Daemon -> Seq(RunType)] /\ DOMAIN live = Daemon
        /\ inFlight \in [Daemon -> BOOLEAN] /\ \A e \in Daemon : live[e] \subseteq DOMAIN runs[e]
    BY <1>11 DEF RunsTyped
  <2>2. [runs[d][i] EXCEPT !.status = "closed"] \in RunType
    <3>1. runs[d][i] \in RunType
      BY <2>1
    <3>2. QED BY <3>1 DEF RunType
  <2>3. /\ runs' = [runs EXCEPT ![d] = [runs[d] EXCEPT ![i] = [runs[d][i] EXCEPT !.status = "closed"]]]
        /\ live' = [live EXCEPT ![d] = live[d] \ {i}] /\ inFlight' = [inFlight EXCEPT ![d] = FALSE]
        /\ UNCHANGED manual
    BY <1>11, <2>1 DEF FireSettles, StillInFlight
  <2>4. [runs[d] EXCEPT ![i] = [runs[d][i] EXCEPT !.status = "closed"]] \in Seq(RunType)
    BY <2>1, <2>2
  <2>5. DOMAIN [runs[d] EXCEPT ![i] = [runs[d][i] EXCEPT !.status = "closed"]] = DOMAIN runs[d]
    BY <2>1
  <2>6. \A e \in Daemon : live'[e] \subseteq DOMAIN runs'[e]
    BY <2>1, <2>3, <2>5
  <2>7. runs' \in [Daemon -> Seq(RunType)]
    BY <2>1, <2>3, <2>4
  <2>8. QED BY <1>1, <2>1, <2>3, <2>6, <2>7 DEF RunsTyped
<1>12. QED BY <1>3, <1>4, <1>5, <1>7, <1>8, <1>9, <1>10, <1>11 DEF Next

LEMMA NextRecords ==
  ASSUME ScheduleAssumption, FireInv, RowsTyped, RecordsTyped, [Next]_vars PROVE RecordsTyped'
<1>1. UNCHANGED <<skipped, claims, localClaims, fellBack>> => RecordsTyped'
  BY DEF RecordsTyped
<1>2. CASE Clock \/ AccessChanges \/ LicenceChanges \/ UNCHANGED vars
  <2>1. UNCHANGED <<skipped, claims, localClaims, fellBack>>
    BY <1>2 DEF Clock, AccessChanges, LicenceChanges, vars, stores, history
  <2>2. QED BY <1>1, <2>1
<1>3. ASSUME NEW d \in Daemon, NEW reason \in Reason, RecordSkip(d, reason), job[d].at # "idle"
      PROVE  skipped' \in [Daemon -> SUBSET (Slot \X Reason)]
  <2>1. job[d].slot \in Slot
    BY <1>3, JobIsTyped
  <2>2. QED BY <1>3, <2>1 DEF RecordSkip, RecordsTyped
<1>4. ASSUME NEW d \in Daemon, ProcessDue(d) \/ Authorize(d) \/ License(d) PROVE RecordsTyped'
  <2>1. /\ UNCHANGED <<claims, localClaims, fellBack>> /\ job[d].at # "idle"
        /\ UNCHANGED skipped \/ \E reason \in Reason : RecordSkip(d, reason)
    BY <1>4 DEF ProcessDue, Authorize, License, history, Reason
  <2>2. QED BY <1>1, <1>3, <2>1 DEF RecordsTyped
<1>5. ASSUME NEW d \in Daemon, Claim(d) \/ ClaimFails(d) PROVE RecordsTyped'
  <2>1. /\ job[d].slot \in Slot /\ job[d].at # "idle"
        /\ UNCHANGED skipped \/ RecordSkip(d, "duplicate")
        /\ "duplicate" \in Reason
    BY <1>5, JobIsTyped DEF Claim, ClaimFails, ClaimAnswered, Reason
  <2>2. skipped' \in [Daemon -> SUBSET (Slot \X Reason)]
    BY <1>3, <2>1 DEF RecordsTyped
  <2>3. claims' \subseteq Slot
    BY <1>5, <2>1 DEF Claim, ClaimFails, RecordsTyped
  <2>4. localClaims' \in [Daemon -> SUBSET Slot]
    BY <1>5, <2>1 DEF Claim, ClaimFails, RecordsTyped
  <2>5. fellBack' \subseteq Daemon \X Slot
    BY <1>5, <2>1 DEF Claim, ClaimFails, RecordsTyped, history
  <2>6. QED BY <2>2, <2>3, <2>4, <2>5 DEF RecordsTyped
<1>6. ASSUME NEW d \in Daemon,
             \/ TickBegins(d) \/ RunOnce(d) \/ RunOnceAuthorized(d) \/ RunOnceLicensed(d) \/ Restart(d)
             \/ UpdateSchedule(d) \/ Pause(d) \/ Resume(d) \/ DeleteSchedule(d)
             \/ \E i \in live[d] : FireSettles(d, i)
      PROVE  RecordsTyped'
  <2>1. UNCHANGED <<skipped, claims, localClaims, fellBack>>
    BY <1>6 DEF TickBegins, RunOnce, RunOnceAuthorized, RunOnceLicensed, Restart, UpdateSchedule, Pause, Resume,
                DeleteSchedule, Edit, FireSettles, stores, history
  <2>2. QED BY <1>1, <2>1
<1>7. QED BY <1>2, <1>4, <1>5, <1>6 DEF Next

LEMMA NextWorld ==
  ASSUME FireInv, CountInv, WorldTyped, [Next]_vars PROVE WorldTyped'
<1>1. resumes' \in [Daemon -> Nat] /\ UsedTyped'
  BY NextFrame DEF CountTyped
<1>2. authorized' \in BOOLEAN /\ paused' \in BOOLEAN
  <2>1. CASE Clock \/ AccessChanges \/ LicenceChanges \/ UNCHANGED vars
    BY <2>1 DEF Clock, AccessChanges, LicenceChanges, vars, world, WorldTyped
  <2>2. ASSUME NEW d \in Daemon, TickBegins(d) \/ ProcessDue(d) \/ Authorize(d) \/ License(d) \/ Claim(d) \/ ClaimFails(d)
        PROVE  UNCHANGED <<authorized, paused>>
    BY <2>2 DEF TickBegins, ProcessDue, Authorize, License, Claim, ClaimFails, world
  <2>3. ASSUME NEW d \in Daemon,
               \/ RunOnce(d) \/ RunOnceAuthorized(d) \/ RunOnceLicensed(d) \/ Restart(d)
               \/ UpdateSchedule(d) \/ Pause(d) \/ Resume(d) \/ DeleteSchedule(d)
               \/ \E i \in live[d] : FireSettles(d, i)
        PROVE  UNCHANGED <<authorized, paused>>
    BY <2>3 DEF RunOnce, RunOnceAuthorized, RunOnceLicensed, Restart, UpdateSchedule, Pause, Resume, DeleteSchedule,
                Edit, FireSettles, world
  <2>4. QED BY <2>1, <2>2, <2>3 DEF Next, WorldTyped
<1>3. QED BY <1>1, <1>2 DEF WorldTyped

LEMMA InitTypes == ASSUME ScheduleAssumption, Init PROVE ScheduleTypes
<1>1. 0 \in 0..MaxTime
  BY DEF ScheduleAssumption
<1>2. RowsTyped
  <2>1. PICK c \in Crons : row = [d \in Daemon |-> [held |-> TRUE, enabled |-> TRUE, cron |-> c,
                                                   next |-> NextAfter(c, 0), runs |-> 0]]
    BY DEF Init
  <2>2. NextAfter(c, 0) \in Slot
    BY <1>1, OccurrenceIsSlot
  <2>3. row \in [Daemon -> RowType]
    BY <2>1, <2>2 DEF RowType
  <2>4. Idle \in JobType
    BY DEF Idle, JobType
  <2>5. QED BY <1>1, <2>3, <2>4 DEF Init, RowsTyped
<1>3. RunsTyped
  BY DEF Init, RunsTyped, ManualType
<1>4. RecordsTyped
  BY DEF Init, RecordsTyped
<1>5. WorldTyped
  BY DEF Init, WorldTyped, UsedTyped
<1>6. QED BY <1>2, <1>3, <1>4, <1>5 DEF ScheduleTypes

\* Rows, ticks and records only ever name cadences of the schedule and slots of theirs
\* (schedule-runner.ts:257).
THEOREM FireTypes == Spec => []TypeOK
<1>1. Init => FireInv /\ CountInv /\ ScheduleTypes
  BY InitFire, InitCounts, InitTypes, ScheduleAssumption
<1>2. FireInv /\ CountInv /\ ScheduleTypes /\ [Next]_vars => FireInv' /\ CountInv' /\ ScheduleTypes'
  BY NextFire, NextCounts, NextRows, NextRuns, NextRecords, NextWorld, ScheduleAssumption DEF ScheduleTypes
<1>3. ScheduleTypes => TypeOK
  BY TypesSuffice
<1>4. QED BY <1>1, <1>2, <1>3, PTL DEF Spec
=============================================================================
