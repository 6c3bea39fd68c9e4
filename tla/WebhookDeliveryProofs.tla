----------------------- MODULE WebhookDeliveryProofs -----------------------
(* Proofs about WebhookDelivery: it implements Outbox; no more POSTs of a row *)
(* are under way together than one and the leases that ended under their      *)
(* attempts; a row is tried no more often than its cap and the faults allow,  *)
(* and the owner is told of a webhook that was turned off.  All of it rests   *)
(* on an attempt's number being one the row has counted and no other attempt  *)
(* has; the last three count the attempts that are open, or overtaken, and    *)
(* charge them to leases that ended early and to faults.                      *)
EXTENDS WebhookDelivery, FiniteSetTheorems, TLAPS

Outcomes == {"posting", "succeeded", "failed", "deactivating", "notifying"}

\* The variables the argument is about are well formed.
Typed ==
  /\ stored \subseteq Event /\ attempts \in [Event -> Nat]
  /\ happened \in [Event -> Nat] /\ enqueues \subseteq Event
  /\ jobs \in [Runner -> SUBSET Job]

\* An attempt is one its row has counted; "succeeded" means accepted.
JobsCounted ==
  \A w \in Runner : \A j \in jobs[w] :
    /\ j.event \in stored /\ 1 <= j.attempt /\ j.attempt <= attempts[j.event]
    /\ j.at = "succeeded" => j.event \in accepted

\* An attempt is of one runner.
JobsUnique ==
  \A v, w \in Runner : \A i \in jobs[v], j \in jobs[w] :
    i.event = j.event /\ i.attempt = j.attempt => v = w /\ i = j

\* The inductive invariant.
OutboxInv == Typed /\ JobsCounted /\ JobsUnique

\* It holds when the outbox is empty.
LEMMA InitOutbox == ASSUME WebhookAssumption, Init PROVE OutboxInv
BY DEF WebhookAssumption, Init, OutboxInv, Typed, JobsCounted, JobsUnique

\* Steps that touch no attempt and no lease keep it.
LEMMA QuietStep ==
  ASSUME OutboxInv, Typed', stored \subseteq stored', accepted \subseteq accepted',
         UNCHANGED <<jobs, attempts>>
  PROVE  OutboxInv'
BY DEF OutboxInv, JobsCounted, JobsUnique

\* A delivery that moves on, or ends, without coming back to "posting".
LEMMA MoveStep ==
  ASSUME OutboxInv, NEW w \in Runner, NEW j \in jobs[w], NEW to \in Outcomes \ {"posting"},
         Goes(w, j, to) \/ Ends(w, j),
         to = "succeeded" => j.event \in accepted',
         stored' = stored, accepted \subseteq accepted',
         UNCHANGED <<attempts, enqueues, happened>>
  PROVE  OutboxInv'
<1> DEFINE k == [j EXCEPT !.at = to]
<1>1. jobs \in [Runner -> SUBSET Job] /\ j \in Job
  BY DEF OutboxInv, Typed
<1>2. k \in Job /\ k.event = j.event /\ k.attempt = j.attempt /\ k.at = to
  BY <1>1 DEF Job, Outcomes
<1> HIDE DEF k
<1>3. \A v \in Runner : jobs'[v] \subseteq (IF v = w THEN (jobs[w] \ {j}) \cup {k} ELSE jobs[v])
  BY <1>1 DEF Goes, Ends, k
<1>4. jobs' \in [Runner -> SUBSET Job]
  BY <1>1, <1>2 DEF Goes, Ends, k
<1>5. Typed'
  BY <1>4 DEF OutboxInv, Typed
<1>6. JobsCounted'
  BY <1>1, <1>2, <1>3 DEF OutboxInv, JobsCounted
<1>7. JobsUnique'
  BY <1>1, <1>2, <1>3 DEF OutboxInv, JobsUnique
<1>8. QED
  BY <1>5, <1>6, <1>7 DEF OutboxInv

\* A tick begins attempts with fresh numbers on rows that were not leased.
LEMMA TickStep == ASSUME OutboxInv, NEW w \in Runner, Tick(w) PROVE OutboxInv'
<1>1. PICK batch \in SUBSET Due \ {{}} :
        /\ attempts' = [e \in Event |-> IF e \in batch THEN attempts[e] + 1 ELSE attempts[e]]
        /\ hidden' = Lease(batch)
        /\ jobs' = [jobs EXCEPT ![w] = {[event |-> e, attempt |-> attempts[e] + 1, at |-> "posting"]
                                          : e \in batch}]
  BY DEF Tick
<1> DEFINE Begun(e) == [event |-> e, attempt |-> attempts[e] + 1, at |-> "posting"]
<1>2. /\ jobs[w] = {}
      /\ UNCHANGED <<stored, enqueues, happened, accepted>>
  BY DEF Tick, world
<1>3. batch \subseteq stored /\ batch \cap hidden = {} /\ batch \subseteq Event
  BY DEF Due, OutboxInv, Typed
<1>4. jobs \in [Runner -> SUBSET Job] /\ attempts \in [Event -> Nat]
  BY DEF OutboxInv, Typed
<1>5. \A e \in batch : Begun(e) \in Job /\ attempts'[e] = attempts[e] + 1
  BY <1>1, <1>3, <1>4 DEF Job
<1>6. jobs'[w] = {Begun(e) : e \in batch} /\ \A v \in Runner \ {w} : jobs'[v] = jobs[v]
  BY <1>1, <1>4
<1>7. attempts' \in [Event -> Nat] /\ \A e \in Event : attempts[e] <= attempts'[e]
  BY <1>1, <1>4
<1>8. jobs' \in [Runner -> SUBSET Job]
  <2> DEFINE begun == {Begun(e) : e \in batch}
  <2>1. begun \in SUBSET Job BY <1>5
  <2>2. jobs' = [jobs EXCEPT ![w] = begun] BY <1>1
  <2> HIDE DEF begun
  <2>3. QED BY <1>4, <2>1, <2>2
<1>9. Typed'
  BY <1>2, <1>7, <1>8 DEF OutboxInv, Typed
<1>10. JobsCounted'
  <2> SUFFICES ASSUME NEW v \in Runner, NEW j \in jobs'[v]
      PROVE  /\ j.event \in stored' /\ 1 <= j.attempt /\ j.attempt <= attempts'[j.event]
             /\ j.at = "succeeded" => j.event \in accepted'
    BY DEF JobsCounted
  <2>1. CASE v = w
    BY <2>1, <1>2, <1>3, <1>4, <1>5, <1>6
  <2>2. CASE v # w
    <3>1. j \in jobs[v] /\ j \in Job
      BY <2>2, <1>6, <1>8
    <3>2. j.event \in Event /\ j.attempt \in Nat
      BY <3>1 DEF Job
    <3>3. QED
      BY <3>1, <3>2, <1>2, <1>4, <1>7 DEF OutboxInv, JobsCounted
  <2>3. QED
    BY <2>1, <2>2
<1>11. JobsUnique'
  <2> SUFFICES ASSUME NEW u \in Runner, NEW v \in Runner, NEW i \in jobs'[u], NEW j \in jobs'[v],
                      i.event = j.event, i.attempt = j.attempt
      PROVE  u = v /\ i = j
    BY DEF JobsUnique
  <2>1. \A x \in Runner \ {w} : \A y \in jobs'[x] :
          y.attempt \in Nat /\ y.attempt <= attempts[y.event] /\ y.event \in Event
    BY <1>4, <1>6 DEF OutboxInv, JobsCounted, Job
  <2>2. \A y \in jobs'[w] : y.attempt = attempts[y.event] + 1 /\ y = Begun(y.event)
                            /\ attempts[y.event] \in Nat
    BY <1>3, <1>4, <1>6
  <2>3. CASE u = w /\ v = w
    BY <2>2, <2>3
  <2>4. CASE u # w /\ v # w
    BY <2>4, <1>6 DEF OutboxInv, JobsUnique
  <2>5. CASE u = w /\ v # w
    BY <2>1, <2>2, <2>5
  <2>6. CASE u # w /\ v = w
    BY <2>1, <2>2, <2>6
  <2>7. QED
    BY <2>3, <2>4, <2>5, <2>6
<1>12. QED
  BY <1>9, <1>10, <1>11 DEF OutboxInv

\* Every step of a delivery preserves the invariant.
LEMMA DeliveryStep ==
  ASSUME OutboxInv, NEW w \in Runner, NEW j \in jobs[w],
         \/ Posted(w, j) \/ OnSuccess(w, j) \/ Reschedule(w, j) \/ DeadLetter(w, j)
         \/ Deactivate(w, j) \/ NotifyOwner(w, j) \/ WriteFails(w, j)
  PROVE  OutboxInv'
<1>1. {"succeeded", "failed", "deactivating", "notifying"} = Outcomes \ {"posting"}
  BY DEF Outcomes
<1>2. CASE Posted(w, j)
  <2>1. UNCHANGED <<attempts, enqueues, happened, stored>> /\ accepted \subseteq accepted'
    BY <1>2 DEF Posted, postgres
  <2>2. CASE j.event \in accepted' /\ Goes(w, j, "succeeded")
    BY <1>1, <2>1, <2>2, MoveStep
  <2>3. CASE Goes(w, j, "failed")
    BY <1>1, <2>1, <2>3, MoveStep
  <2>4. QED
    BY <1>2, <2>2, <2>3 DEF Posted
<1>3. CASE OnSuccess(w, j)
  BY <1>1, <1>3, MoveStep DEF OnSuccess, world
<1>4. CASE Reschedule(w, j)
  <2>1. Ends(w, j) /\ UNCHANGED <<attempts, enqueues, happened, stored, accepted>>
    BY <1>4 DEF Reschedule, world
  <2>2. QED
    BY <1>1, <2>1, MoveStep
<1>5. CASE DeadLetter(w, j)
  <2>1. Goes(w, j, "deactivating") /\ UNCHANGED <<attempts, enqueues, happened, stored, accepted>>
    BY <1>5 DEF DeadLetter, world
  <2>2. QED
    BY <1>1, <2>1, MoveStep
<1>6. CASE Deactivate(w, j)
  <2>1. /\ Goes(w, j, "notifying") \/ Ends(w, j)
        /\ UNCHANGED <<attempts, enqueues, happened, stored, accepted>>
    BY <1>6 DEF Deactivate, Off, world
  <2>2. QED
    BY <1>1, <2>1, MoveStep
<1>7. CASE NotifyOwner(w, j)
  <2>1. Ends(w, j) /\ UNCHANGED <<attempts, enqueues, happened, stored, accepted>>
    BY <1>7 DEF NotifyOwner, postgres
  <2>2. QED
    BY <1>1, <2>1, MoveStep
<1>8. CASE WriteFails(w, j)
  <2>1. Ends(w, j) /\ UNCHANGED <<attempts, enqueues, happened, stored, accepted>>
    BY <1>8 DEF WriteFails, postgres, world
  <2>2. QED
    BY <1>1, <2>1, MoveStep
<1>9. QED
  BY <1>2, <1>3, <1>4, <1>5, <1>6, <1>7, <1>8

\* Every step preserves the invariant.
LEMMA NextOutbox == ASSUME WebhookAssumption, OutboxInv, [Next]_vars PROVE OutboxInv'
<1>1. CASE UNCHANGED vars
  BY <1>1 DEF vars, postgres, world, bounds, OutboxInv, Typed, JobsCounted, JobsUnique
<1>2. CASE Toggle \/ Delete
  BY <1>2, QuietStep DEF Toggle, Delete, world, OutboxInv, Typed
<1>3. ASSUME NEW e \in Event, Happens(e) PROVE OutboxInv'
  <2>1. Typed'
    <3>1. UNCHANGED <<stored, attempts, jobs>>
      BY <1>3 DEF Happens, postgres
    <3>2. happened' \in [Event -> Nat]
      BY <1>3 DEF Happens, OutboxInv, Typed
    <3>3. QED
      BY <1>3, <3>1, <3>2 DEF Happens, OutboxInv, Typed
  <2>2. QED
    BY <1>3, <2>1, QuietStep DEF Happens, postgres
<1>4. ASSUME NEW e \in Event, BecomesDue(e) \/ LeaseExpires(e) PROVE OutboxInv'
  BY <1>4, QuietStep DEF BecomesDue, LeaseExpires, world, OutboxInv, Typed
<1>5. ASSUME NEW q \in enqueues, Enqueue(q) PROVE OutboxInv'
  BY <1>5, QuietStep DEF Enqueue, world, OutboxInv, Typed
<1>6. ASSUME NEW q \in enqueues, EnqueueFails(q) PROVE OutboxInv'
  BY <1>6, QuietStep DEF EnqueueFails, postgres, world, OutboxInv, Typed
<1>7. ASSUME NEW w \in Runner, Tick(w) PROVE OutboxInv'
  BY <1>7, TickStep
<1>8. ASSUME NEW w \in Runner, Restart(w) PROVE OutboxInv'
  <2>1. /\ jobs' \in [Runner -> SUBSET Job] /\ \A v \in Runner : jobs'[v] \subseteq jobs[v]
        /\ UNCHANGED <<stored, attempts, hidden, accepted, enqueues, happened>>
    BY <1>8 DEF Restart, postgres, world, OutboxInv, Typed
  <2>2. QED
    BY <2>1 DEF OutboxInv, Typed, JobsCounted, JobsUnique
<1>9. ASSUME NEW w \in Runner, NEW j \in jobs[w],
             \/ Posted(w, j) \/ OnSuccess(w, j) \/ Reschedule(w, j) \/ DeadLetter(w, j)
             \/ Deactivate(w, j) \/ NotifyOwner(w, j) \/ WriteFails(w, j)
      PROVE  OutboxInv'
  BY <1>9, DeliveryStep
<1>10. QED
  BY <1>1, <1>2, <1>3, <1>4, <1>5, <1>6, <1>7, <1>8, <1>9 DEF Next

\* What a delivery writes is, to the promise, nothing, an acceptance or a settlement.
LEMMA DeliveryPromised ==
  ASSUME WebhookAssumption, OutboxInv, NEW w \in Runner, NEW j \in jobs[w],
         \/ Posted(w, j) \/ OnSuccess(w, j) \/ Reschedule(w, j) \/ DeadLetter(w, j)
         \/ Deactivate(w, j) \/ NotifyOwner(w, j) \/ WriteFails(w, j)
  PROVE  [Promise!Next]_(Promise!vars)
<1>1. /\ j.event \in Event /\ j.event \in stored
      /\ attempts[j.event] \in Nat /\ j.attempt \in Nat
      /\ 1 <= j.attempt /\ j.attempt <= attempts[j.event]
      /\ j.at = "succeeded" => j.event \in accepted
  BY DEF OutboxInv, Typed, JobsCounted, Job
<1>2. CASE Posted(w, j)
  <2>1. UNCHANGED <<stored, attempts, delivered>>
    BY <1>2 DEF Posted, postgres
  <2>2. CASE accepted' = accepted
    BY <2>1, <2>2 DEF Promise!vars
  <2>3. CASE accepted' = accepted \cup {j.event}
    <3>1. Promise!Accept(j.event)
      BY <1>1, <2>1, <2>3 DEF Promise!Accept
    <3>2. QED
      BY <1>1, <3>1 DEF Promise!Next
  <2>4. QED
    BY <1>2, <2>2, <2>3 DEF Posted
<1>3. CASE OnSuccess(w, j)
  <2>1. Promise!Settle(j.event)
    BY <1>1, <1>3 DEF OnSuccess, Promise!Settle, world
  <2>2. QED
    BY <1>1, <2>1 DEF Promise!Next
<1>4. CASE DeadLetter(w, j)
  <2>1. attempts[j.event] >= MaxAttempts
    BY <1>1, <1>4 DEF DeadLetter, CapReached, WebhookAssumption
  <2>2. Promise!Settle(j.event)
    BY <1>1, <1>4, <2>1 DEF DeadLetter, Promise!Settle, world
  <2>3. QED
    BY <1>1, <2>2 DEF Promise!Next
<1>5. CASE Reschedule(w, j) \/ Deactivate(w, j) \/ NotifyOwner(w, j) \/ WriteFails(w, j)
  BY <1>5 DEF Reschedule, Deactivate, NotifyOwner, WriteFails, postgres, world, Promise!vars
<1>6. QED
  BY <1>2, <1>3, <1>4, <1>5

\* So is every step.
LEMMA StepPromised ==
  ASSUME WebhookAssumption, OutboxInv, [Next]_vars PROVE [Promise!Next]_(Promise!vars)
<1>1. CASE UNCHANGED vars
  BY <1>1 DEF vars, postgres, world, Promise!vars
<1>2. CASE Toggle \/ Delete
  BY <1>2 DEF Toggle, Delete, world, Promise!vars
<1>3. ASSUME NEW e \in Event, Happens(e) \/ BecomesDue(e) \/ LeaseExpires(e)
      PROVE  [Promise!Next]_(Promise!vars)
  BY <1>3 DEF Happens, BecomesDue, LeaseExpires, postgres, world, Promise!vars
<1>4. ASSUME NEW q \in enqueues, Enqueue(q) PROVE [Promise!Next]_(Promise!vars)
  <2>1. q \in Event
    BY DEF OutboxInv, Typed
  <2>2. Promise!Store(q) \/ UNCHANGED Promise!vars
    BY <1>4 DEF Enqueue, world, Promise!Store, Promise!vars
  <2>3. QED
    BY <2>1, <2>2 DEF Promise!Next
<1>5. ASSUME NEW q \in enqueues, EnqueueFails(q) PROVE [Promise!Next]_(Promise!vars)
  BY <1>5 DEF EnqueueFails, postgres, world, Promise!vars
<1>6. ASSUME NEW w \in Runner, Tick(w) PROVE [Promise!Next]_(Promise!vars)
  <2>1. PICK batch \in SUBSET Due :
          attempts' = [e \in Event |-> IF e \in batch THEN attempts[e] + 1 ELSE attempts[e]]
    BY <1>6 DEF Tick
  <2>2. Promise!Attempt(batch)
    BY <1>6, <2>1 DEF Tick, Due, world, Promise!Attempt
  <2>3. batch \in SUBSET Event
    BY DEF Due, OutboxInv, Typed
  <2>4. QED
    BY <2>2, <2>3 DEF Promise!Next
<1>7. ASSUME NEW w \in Runner, Restart(w) PROVE [Promise!Next]_(Promise!vars)
  BY <1>7 DEF Restart, postgres, world, Promise!vars
<1>8. ASSUME NEW w \in Runner, NEW j \in jobs[w],
             \/ Posted(w, j) \/ OnSuccess(w, j) \/ Reschedule(w, j) \/ DeadLetter(w, j)
             \/ Deactivate(w, j) \/ NotifyOwner(w, j) \/ WriteFails(w, j)
      PROVE  [Promise!Next]_(Promise!vars)
  BY <1>8, DeliveryPromised
<1>9. QED
  BY <1>1, <1>2, <1>3, <1>4, <1>5, <1>6, <1>7, <1>8 DEF Next

\* WebhookDelivery implements Outbox: an event is settled only after its receiver
\* accepted it or MaxAttempts tries, and a settled one is not claimed again.
THEOREM OutboxKeepsPromise == Spec => KeepsPromise
<1>1. Init => OutboxInv /\ Promise!Init
  BY InitOutbox, WebhookAssumption DEF Init, Promise!Init
<1>2. OutboxInv /\ [Next]_vars => OutboxInv' /\ [Promise!Next]_(Promise!vars)
  BY NextOutbox, StepPromised, WebhookAssumption
<1>3. QED
  BY <1>1, <1>2, PTL DEF Spec, KeepsPromise, Promise!Spec
------------------------------------------------------------------------------
(* Giving up.  What a step does to the attempts under way is said with their *)
(* numbers: a delivery that moves on keeps its own.                          *)

HasJob(e, n) == \E w \in Runner : \E j \in jobs[w] : j.event = e /\ j.attempt = n

LEMMA GoesKeepsJob ==
  ASSUME OutboxInv, NEW w \in Runner, NEW j \in jobs[w], NEW to, Goes(w, j, to)
  PROVE  \A e, n : HasJob(e, n)' <=> HasJob(e, n)
<1> DEFINE k == [j EXCEPT !.at = to]
<1>1. jobs \in [Runner -> SUBSET Job] /\ j \in Job
  BY DEF OutboxInv, Typed
<1>2. k.event = j.event /\ k.attempt = j.attempt
  BY <1>1 DEF Job
<1>3. jobs'[w] = (jobs[w] \ {j}) \cup {k} /\ \A v \in Runner \ {w} : jobs'[v] = jobs[v]
  BY <1>1 DEF Goes
<1> HIDE DEF k
<1>4. QED BY <1>2, <1>3 DEF HasJob

LEMMA EndsTakesJob ==
  ASSUME OutboxInv, NEW w \in Runner, NEW j \in jobs[w], Ends(w, j)
  PROVE  \A e, n : HasJob(e, n)' <=> HasJob(e, n) /\ ~(e = j.event /\ n = j.attempt)
<1>1. jobs'[w] = jobs[w] \ {j} /\ \A v \in Runner \ {w} : jobs'[v] = jobs[v]
  BY DEF Ends, OutboxInv, Typed
<1>2. \A v \in Runner : \A i \in jobs[v] : i.event = j.event /\ i.attempt = j.attempt => v = w /\ i = j
  BY DEF OutboxInv, JobsUnique
<1>3. QED BY <1>1, <1>2 DEF HasJob

LEMMA TickAddsJobs ==
  ASSUME OutboxInv, NEW w \in Runner, Tick(w)
  PROVE  \E batch \in SUBSET Due :
           /\ attempts' = [e \in Event |-> IF e \in batch THEN attempts[e] + 1 ELSE attempts[e]]
           /\ hidden' = hidden \cup batch
           /\ \A e, n : HasJob(e, n)' <=> HasJob(e, n) \/ (e \in batch /\ n = attempts[e] + 1)
           /\ \A v \in Runner : \A j \in jobs'[v] :
                j \in jobs[v]
                  \/ (j.at = "posting" /\ j.event \in batch /\ j.attempt = attempts[j.event] + 1)
<1>1. PICK batch \in SUBSET Due \ {{}} :
        /\ attempts' = [e \in Event |-> IF e \in batch THEN attempts[e] + 1 ELSE attempts[e]]
        /\ hidden' = Lease(batch)
        /\ jobs' = [jobs EXCEPT ![w] = {[event |-> e, attempt |-> attempts[e] + 1, at |-> "posting"]
                                          : e \in batch}]
  BY DEF Tick
<1> DEFINE Begun(e) == [event |-> e, attempt |-> attempts[e] + 1, at |-> "posting"]
<1>2. jobs[w] = {} /\ jobs'[w] = {Begun(e) : e \in batch} /\ \A v \in Runner \ {w} : jobs'[v] = jobs[v]
  BY <1>1 DEF Tick, OutboxInv, Typed
<1>3. \A e, n : HasJob(e, n)' <=> HasJob(e, n) \/ (e \in batch /\ n = attempts[e] + 1)
  <2>1. ASSUME NEW e, NEW n, HasJob(e, n)' PROVE HasJob(e, n) \/ (e \in batch /\ n = attempts[e] + 1)
    BY <1>2, <2>1 DEF HasJob
  <2>2. ASSUME NEW e, NEW n, HasJob(e, n) PROVE HasJob(e, n)'
    BY <1>2, <2>2 DEF HasJob
  <2>3. ASSUME NEW e \in batch, NEW n, n = attempts[e] + 1 PROVE HasJob(e, n)'
    <3>1. Begun(e) \in jobs'[w] /\ Begun(e).event = e /\ Begun(e).attempt = n
      BY <1>2, <2>3
    <3> HIDE DEF Begun
    <3>2. QED BY <3>1 DEF HasJob
  <2>4. QED BY <2>1, <2>2, <2>3
<1>4. \A v \in Runner : \A j \in jobs'[v] :
        j \in jobs[v] \/ (j.at = "posting" /\ j.event \in batch /\ j.attempt = attempts[j.event] + 1)
  BY <1>2
<1>5. QED BY <1>1, <1>3, <1>4 DEF Lease

\* A restart drops what its runner had under way.
LEMMA RestartDropsJobs ==
  ASSUME OutboxInv, NEW w \in Runner, Restart(w)
  PROVE  \A v \in Runner : jobs'[v] \subseteq jobs[v]
BY DEF Restart, OutboxInv, Typed

\* A numbered attempt is of a stored event, and no later than the last one.
LEMMA JobNumbers ==
  ASSUME OutboxInv, NEW e, NEW n, HasJob(e, n)
  PROVE  e \in Event /\ e \in stored /\ n \in Nat /\ 1 <= n /\ n <= attempts[e]
BY DEF OutboxInv, Typed, JobsCounted, HasJob, Job

\* A delivery that gave its row up has marked it.
GivenUp == \A w \in Runner : \A j \in jobs[w] : j.at \in {"deactivating", "notifying"} => j.event \in delivered
------------------------------------------------------------------------------
(* How often a row is tried.  A row with its last try behind it is tried      *)
(* again only if that try was lost to a fault, or was overtaken: the lease    *)
(* of an attempt expired, and the row was uncovered once more by each attempt *)
(* that had been overtaken before.  All of it is charged to the faults.       *)

Excess(e) == IF attempts[e] > MaxAttempts THEN attempts[e] - MaxAttempts ELSE 0

\* The last try is lost.
Lost(e) == IF HasJob(e, attempts[e]) \/ attempts[e] < MaxAttempts THEN 0 ELSE 1

\* The attempts that may yet uncover the row, and the last one when it is uncovered.
Loose(e) ==
  {n \in 1..attempts[e] : /\ HasJob(e, n)
                          /\ IF n < attempts[e] THEN n < MaxAttempts ELSE e \notin hidden}

Charged(e) ==
  /\ Excess(e) <= faults
  /\ e \notin delivered => Excess(e) + Cardinality(Loose(e)) + Lost(e) <= faults

ChargeInv == faults \in Nat /\ \A e \in Event : Charged(e)

\* Counting: a set within another one, or within one that changes by an element.
LEMMA Fewer ==
  ASSUME NEW S, IsFiniteSet(S), NEW T, T \subseteq S
  PROVE  IsFiniteSet(T) /\ Cardinality(T) \in Nat /\ Cardinality(S) \in Nat /\ Cardinality(T) <= Cardinality(S)
<1>1. T \in SUBSET S
  OBVIOUS
<1>2. QED BY <1>1, FS_Subset, FS_CardinalityType

LEMMA OneMore ==
  ASSUME NEW S, IsFiniteSet(S), NEW x, NEW T, T \subseteq S \cup {x}
  PROVE  IsFiniteSet(T) /\ Cardinality(T) \in Nat /\ Cardinality(S) \in Nat /\ Cardinality(T) <= Cardinality(S) + 1
<1>1. IsFiniteSet(S \cup {x}) /\ Cardinality(S) \in Nat /\ Cardinality(S \cup {x}) <= Cardinality(S) + 1
  <2>1. Cardinality(S) \in Nat
    BY FS_CardinalityType
  <2>2. IsFiniteSet(S \cup {x})
        /\ Cardinality(S \cup {x}) = IF x \in S THEN Cardinality(S) ELSE Cardinality(S) + 1
    BY FS_AddElement
  <2>3. QED BY <2>1, <2>2
<1>2. IsFiniteSet(T) /\ Cardinality(T) \in Nat /\ Cardinality(T) <= Cardinality(S \cup {x}) /\ Cardinality(S \cup {x}) \in Nat
  BY <1>1, Fewer
<1>3. QED BY <1>1, <1>2

LEMMA OneLess ==
  ASSUME NEW S, IsFiniteSet(S), NEW y \in S, NEW T, T \subseteq S \ {y}
  PROVE  IsFiniteSet(T) /\ Cardinality(T) \in Nat /\ Cardinality(S) \in Nat /\ Cardinality(T) + 1 <= Cardinality(S)
<1>1. IsFiniteSet(S \ {y}) /\ Cardinality(S) \in Nat /\ Cardinality(S \ {y}) = Cardinality(S) - 1
  BY FS_RemoveElement, FS_CardinalityType
<1>2. IsFiniteSet(T) /\ Cardinality(T) \in Nat /\ Cardinality(T) <= Cardinality(S \ {y}) /\ Cardinality(S \ {y}) \in Nat
  BY <1>1, Fewer
<1>3. QED BY <1>1, <1>2

LEMMA Traded ==
  ASSUME NEW S, IsFiniteSet(S), NEW y \in S, NEW x, NEW T, T \subseteq (S \ {y}) \cup {x}
  PROVE  IsFiniteSet(T) /\ Cardinality(T) \in Nat /\ Cardinality(S) \in Nat /\ Cardinality(T) <= Cardinality(S)
<1>1. /\ IsFiniteSet(S \ {y}) /\ Cardinality(S \ {y}) + 1 <= Cardinality(S)
      /\ Cardinality(S) \in Nat /\ Cardinality(S \ {y}) \in Nat
  BY OneLess
<1>2. IsFiniteSet(T) /\ Cardinality(T) \in Nat /\ Cardinality(T) <= Cardinality(S \ {y}) + 1
  BY <1>1, OneMore
<1>3. QED BY <1>1, <1>2

LEMMA LooseFinite ==
  ASSUME OutboxInv, NEW e \in Event
  PROVE  IsFiniteSet(Loose(e)) /\ Cardinality(Loose(e)) \in Nat
<1>1. attempts[e] \in Nat
  BY DEF OutboxInv, Typed
<1>2. IsFiniteSet(1..attempts[e])
  BY <1>1, FS_Interval
<1>3. Loose(e) \in SUBSET (1..attempts[e])
  BY DEF Loose
<1>4. IsFiniteSet(Loose(e))
  BY <1>2, <1>3, FS_Subset
<1>5. QED BY <1>4, FS_CardinalityType

\* The numbers of a charge.
LEMMA ChargeTypes ==
  ASSUME WebhookAssumption, OutboxInv, NEW e \in Event
  PROVE  /\ MaxAttempts \in Nat /\ attempts[e] \in Nat
         /\ Excess(e) \in Nat /\ Lost(e) \in {0, 1}
         /\ Cardinality(Loose(e)) \in Nat
<1>1. attempts[e] \in Nat /\ MaxAttempts \in Nat
  BY DEF OutboxInv, Typed, WebhookAssumption
<1>2. QED BY <1>1, LooseFinite DEF Excess, Lost

\* No attempt of e ended or began, and it was not uncovered.
LEMMA ChargeKept ==
  ASSUME WebhookAssumption, OutboxInv, NEW e \in Event, Charged(e),
         faults \in Nat, faults' \in Nat, faults <= faults',
         attempts'[e] = attempts[e], \A n : HasJob(e, n)' <=> HasJob(e, n),
         e \in hidden => e \in hidden', delivered \subseteq delivered'
  PROVE  Charged(e)'
<1>1. Loose(e)' \subseteq Loose(e)
  BY DEF Loose
<1>2. Cardinality(Loose(e)') <= Cardinality(Loose(e)) /\ Cardinality(Loose(e)') \in Nat
  BY <1>1, LooseFinite, Fewer
<1>3. Excess(e)' = Excess(e)
  BY DEF Excess
<1>4. Lost(e)' = Lost(e)
  <2>1. HasJob(e, attempts[e])' <=> HasJob(e, attempts[e])
    OBVIOUS
  <2>2. QED BY <2>1 DEF Lost
<1>5. QED
  <2>1. Excess(e) \in Nat /\ Lost(e) \in {0, 1} /\ Cardinality(Loose(e)) \in Nat
    BY ChargeTypes
  <2>2. QED BY <1>2, <1>3, <1>4, <2>1 DEF Charged

\* A fault loses an attempt, or uncovers the last one.
LEMMA FaultCharged ==
  ASSUME WebhookAssumption, OutboxInv, NEW e \in Event, Charged(e),
         faults \in Nat, faults' = faults + 1,
         attempts'[e] = attempts[e], delivered \subseteq delivered',
         \/ (\A n : HasJob(e, n)' => HasJob(e, n)) /\ (e \in hidden => e \in hidden')
         \/ \A n : HasJob(e, n)' <=> HasJob(e, n)
  PROVE  Charged(e)'
<1>1. Excess(e)' = Excess(e)
  BY DEF Excess
<1>2. /\ Excess(e) \in Nat /\ Lost(e) \in {0, 1} /\ Cardinality(Loose(e)) \in Nat
      /\ attempts[e] \in Nat /\ IsFiniteSet(Loose(e))
  BY ChargeTypes, LooseFinite
<1>3. CASE (\A n : HasJob(e, n)' => HasJob(e, n)) /\ (e \in hidden => e \in hidden')
  <2>1. Loose(e)' \subseteq Loose(e)
    BY <1>3 DEF Loose
  <2>2. Cardinality(Loose(e)') <= Cardinality(Loose(e)) /\ Cardinality(Loose(e)') \in Nat
    BY <1>2, <2>1, Fewer
  <2>3. Lost(e)' \in {0, 1}
    BY DEF Lost
  <2>4. QED BY <1>1, <1>2, <2>2, <2>3 DEF Charged
<1>4. CASE \A n : HasJob(e, n)' <=> HasJob(e, n)
  <2> DEFINE a == attempts[e]
  <2>1. \A n \in Loose(e)' : n \in Loose(e) \/ n = a
    BY <1>2, <1>4 DEF Loose
  <2>2. Loose(e)' \subseteq Loose(e) \cup {a}
    BY <2>1
  <2> HIDE DEF a
  <2>3. Cardinality(Loose(e)') <= Cardinality(Loose(e)) + 1 /\ Cardinality(Loose(e)') \in Nat
    BY <1>2, <2>2, OneMore
  <2>4. Lost(e)' = Lost(e)
    <3>1. HasJob(e, attempts[e])' <=> HasJob(e, attempts[e])
      BY <1>4
    <3>2. QED BY <3>1 DEF Lost
  <2>5. QED BY <1>1, <1>2, <2>3, <2>4 DEF Charged
<1>5. QED BY <1>3, <1>4
\* A try of a row that is not delivered and is due: the one before it is paid for.
LEMMA TickCharged ==
  ASSUME WebhookAssumption, OutboxInv, NEW w \in Runner, Tick(w), NEW e \in Event, Charged(e), faults \in Nat
  PROVE  Charged(e)'
<1>1. PICK batch \in SUBSET Due :
        /\ attempts' = [f \in Event |-> IF f \in batch THEN attempts[f] + 1 ELSE attempts[f]]
        /\ hidden' = hidden \cup batch
        /\ \A f, n : HasJob(f, n)' <=> HasJob(f, n) \/ (f \in batch /\ n = attempts[f] + 1)
  BY TickAddsJobs
<1>2. faults' = faults /\ delivered' = delivered
  BY DEF Tick, bounds
<1>3. CASE e \notin batch
  BY <1>1, <1>2, <1>3, ChargeKept
<1>4. CASE e \in batch
  <2> DEFINE a == attempts[e]
  <2>1. e \notin hidden /\ e \notin delivered
    BY <1>1, <1>4 DEF Due
  <2>2. /\ Excess(e) \in Nat /\ Lost(e) \in {0, 1} /\ Cardinality(Loose(e)) \in Nat
        /\ a \in Nat /\ MaxAttempts \in Nat /\ IsFiniteSet(Loose(e))
    BY ChargeTypes, LooseFinite
  <2>3. attempts'[e] = a + 1 /\ e \in hidden'
    BY <1>1, <1>4
  <2>4. \A n : HasJob(e, n)' <=> HasJob(e, n) \/ n = a + 1
    BY <1>1, <1>4
  <2>5. Lost(e)' = 0
    <3>1. HasJob(e, attempts[e])'
      BY <2>3, <2>4
    <3>2. QED BY <3>1 DEF Lost
  <2>6. \A n : n \in Loose(e)' <=> n \in 1..a /\ HasJob(e, n) /\ n < MaxAttempts
    <3>1. \A n : n \in Loose(e)' <=> n \in 1..(a + 1) /\ HasJob(e, n)' /\ (IF n < a + 1 THEN n < MaxAttempts ELSE e \notin hidden')
      BY <2>3 DEF Loose
    <3>2. \A n \in 1..(a + 1) : (n \in 1..a /\ n < a + 1 /\ n # a + 1) \/ (n = a + 1 /\ ~(n < a + 1))
      BY <2>2
    <3>3. \A n \in 1..a : n \in 1..(a + 1) /\ n < a + 1 /\ n # a + 1
      BY <2>2
    <3> HIDE DEF a
    <3>4. ASSUME NEW n, n \in Loose(e)' PROVE n \in 1..a /\ HasJob(e, n) /\ n < MaxAttempts
      BY <2>3, <2>4, <3>1, <3>2, <3>4
    <3>5. ASSUME NEW n \in 1..a, HasJob(e, n), n < MaxAttempts PROVE n \in Loose(e)'
      BY <2>4, <3>1, <3>3, <3>5
    <3>6. QED BY <3>4, <3>5
  <2>7. \A n : n \in Loose(e) <=> n \in 1..a /\ HasJob(e, n) /\ (n < a => n < MaxAttempts)
    BY <2>1 DEF Loose
  <2> HIDE DEF a
  <2>8. CASE a < MaxAttempts
    <3>1. Excess(e)' = 0
      BY <2>2, <2>3, <2>8 DEF Excess
    <3>2. Loose(e)' \subseteq Loose(e)
      BY <2>6, <2>7
    <3>3. Cardinality(Loose(e)') <= Cardinality(Loose(e)) /\ Cardinality(Loose(e)') \in Nat
      BY <2>2, <3>2, Fewer
    <3>4. QED BY <1>2, <2>1, <2>2, <2>5, <3>1, <3>3 DEF Charged
  <2>9. CASE ~(a < MaxAttempts)
    <3>1. Excess(e)' = Excess(e) + 1
      BY <2>2, <2>3, <2>9 DEF Excess, a
    <3>2. CASE HasJob(e, a)
      <4>1. a \in Loose(e)
        <5>1. 1 <= a
          BY <3>2, JobNumbers
        <5>2. QED BY <2>2, <2>7, <3>2, <5>1
      <4>2. Loose(e)' \subseteq Loose(e) \ {a}
        BY <2>2, <2>6, <2>7, <2>9
      <4>3. Cardinality(Loose(e)') + 1 <= Cardinality(Loose(e)) /\ Cardinality(Loose(e)') \in Nat
        BY <2>2, <4>1, <4>2, OneLess
      <4>4. QED BY <1>2, <2>1, <2>2, <2>5, <3>1, <4>3 DEF Charged
    <3>3. CASE ~HasJob(e, a)
      <4>1. Lost(e) = 1
        BY <2>9, <3>3 DEF Lost, a
      <4>2. Loose(e)' \subseteq Loose(e)
        BY <2>6, <2>7
      <4>3. Cardinality(Loose(e)') <= Cardinality(Loose(e)) /\ Cardinality(Loose(e)') \in Nat
        BY <2>2, <4>2, Fewer
      <4>4. QED BY <1>2, <2>1, <2>2, <2>5, <3>1, <4>1, <4>3 DEF Charged
    <3>4. QED BY <3>2, <3>3
  <2>10. QED BY <2>8, <2>9
<1>5. QED BY <1>3, <1>4

\* An attempt with tries left ends: the last one leaves nothing behind, and an
\* overtaken one may uncover the row once, for which it was charged.
LEMMA RescheduleCharged ==
  ASSUME WebhookAssumption, OutboxInv, NEW w \in Runner, NEW j \in jobs[w], Reschedule(w, j),
         NEW e \in Event, Charged(e), faults \in Nat
  PROVE  Charged(e)'
<1>1. /\ UNCHANGED <<attempts, delivered, faults>> /\ Ends(w, j) /\ j.attempt < MaxAttempts
      /\ \A f \in hidden : f # j.event => f \in hidden'
  <2>1. j.attempt \in Nat /\ MaxAttempts \in Nat
    BY DEF OutboxInv, Typed, Job, WebhookAssumption
  <2>2. QED BY <2>1 DEF Reschedule, CapReached, bounds
<1>2. \A f, n : HasJob(f, n)' <=> HasJob(f, n) /\ ~(f = j.event /\ n = j.attempt)
  BY <1>1, EndsTakesJob
<1>3. CASE e # j.event
  BY <1>1, <1>2, <1>3, ChargeKept
<1>4. CASE e = j.event /\ e \in delivered
  BY <1>1, <1>4 DEF Charged, Excess
<1>5. CASE e = j.event /\ e \notin delivered
  <2> DEFINE a == attempts[e]
             b == j.attempt
  <2>1. /\ Excess(e) \in Nat /\ Lost(e) \in {0, 1} /\ Cardinality(Loose(e)) \in Nat
        /\ a \in Nat /\ MaxAttempts \in Nat /\ IsFiniteSet(Loose(e))
    BY ChargeTypes, LooseFinite
  <2>2. HasJob(e, b) /\ b \in 1..a
    <3>1. HasJob(e, b)
      BY <1>5 DEF HasJob
    <3>2. QED BY <2>1, <3>1, JobNumbers
  <2>3. Excess(e)' = Excess(e)
    BY <1>1 DEF Excess
  <2>4. \A n : HasJob(e, n)' <=> HasJob(e, n) /\ n # b
    BY <1>2, <1>5
  <2>5. \A n : n \in Loose(e)' <=> n \in 1..a /\ HasJob(e, n) /\ n # b /\ (IF n < a THEN n < MaxAttempts ELSE e \notin hidden')
    BY <1>1, <2>4 DEF Loose
  <2>6. \A n : n \in Loose(e) <=> n \in 1..a /\ HasJob(e, n) /\ (IF n < a THEN n < MaxAttempts ELSE e \notin hidden)
    BY DEF Loose
  <2>7. \A n \in 1..a : n < a \/ n = a
    BY <2>1
  <2>8. HasJob(e, attempts[e])' <=> HasJob(e, a) /\ a # b
    BY <1>1, <2>4
  <2>9. Lost(e)' \in {0, 1} /\ (a < MaxAttempts => Lost(e)' = 0) /\ (a # b => Lost(e)' = Lost(e))
    BY <1>1, <2>8 DEF Lost
  <2> HIDE DEF a, b
  <2>10. CASE b = a
    <3>1. Loose(e)' \subseteq Loose(e)
      BY <2>5, <2>6, <2>7, <2>10
    <3>2. Cardinality(Loose(e)') <= Cardinality(Loose(e)) /\ Cardinality(Loose(e)') \in Nat
      BY <2>1, <3>1, Fewer
    <3>3. Lost(e)' = 0
      BY <1>1, <2>9, <2>10 DEF b
    <3>4. QED BY <1>1, <1>5, <2>1, <2>3, <3>2, <3>3 DEF Charged
  <2>11. CASE b # a
    <3>1. b < a /\ b < MaxAttempts
      BY <1>1, <2>2, <2>7, <2>11 DEF b
    <3>2. b \in Loose(e)
      BY <2>2, <2>6, <3>1
    <3>3. Loose(e)' \subseteq (Loose(e) \ {b}) \cup {a}
      BY <2>5, <2>6, <2>7
    <3>4. Cardinality(Loose(e)') <= Cardinality(Loose(e)) /\ Cardinality(Loose(e)') \in Nat
      BY <2>1, <3>2, <3>3, Traded
    <3>5. QED BY <1>1, <1>5, <2>1, <2>3, <2>9, <2>11, <3>4 DEF Charged
  <2>12. QED BY <2>10, <2>11
<1>6. QED BY <1>3, <1>4, <1>5

\* A delivered row is not tried again, whatever else ends.
LEMMA DoneCharged ==
  ASSUME NEW e \in Event, Charged(e), e \in delivered', attempts'[e] = attempts[e], faults' = faults
  PROVE  Charged(e)'
BY DEF Charged, Excess
\* Every step pays for what it does to the attempts of a row.
LEMMA NextCharged ==
  ASSUME WebhookAssumption, OutboxInv, GivenUp, [Next]_vars, faults \in Nat, NEW e \in Event, Charged(e)
  PROVE  Charged(e)'
<1>1. ASSUME UNCHANGED <<jobs, attempts, hidden>>, delivered \subseteq delivered', faults' \in {faults, faults + 1}
      PROVE  Charged(e)'
  <2>1. \A n : HasJob(e, n)' <=> HasJob(e, n)
    BY <1>1 DEF HasJob
  <2>2. QED BY <1>1, <2>1, ChargeKept
<1>2. CASE Toggle \/ Delete \/ UNCHANGED vars
  BY <1>1, <1>2 DEF Toggle, Delete, User, vars, postgres, bounds
<1>3. ASSUME NEW f \in Event, Happens(f) PROVE Charged(e)'
  BY <1>1, <1>3 DEF Happens, postgres, bounds
<1>4. ASSUME NEW f \in enqueues, Enqueue(f) \/ EnqueueFails(f) PROVE Charged(e)'
  BY <1>1, <1>4 DEF Enqueue, EnqueueFails, postgres, bounds, Fault
<1>5. ASSUME NEW f \in Event, BecomesDue(f) PROVE Charged(e)'
  <2>1. \A n : HasJob(e, n)' <=> HasJob(e, n)
    BY <1>5 DEF BecomesDue, HasJob
  <2>2. UNCHANGED <<attempts, delivered, faults>> /\ hidden' = hidden \ {f}
    BY <1>5 DEF BecomesDue, bounds
  <2>3. CASE e # f
    BY <2>1, <2>2, <2>3, ChargeKept
  <2>4. CASE e = f
    <3>1. ~HasJob(e, attempts[e])
      BY <1>5, <2>4 DEF BecomesDue, Working, HasJob
    <3>2. Loose(e)' \subseteq Loose(e)
      <4>1. \A n \in 1..attempts[e] : n < attempts[e] \/ n = attempts[e]
        BY ChargeTypes
      <4>2. QED BY <2>1, <2>2, <3>1, <4>1 DEF Loose
    <3>3. /\ Excess(e) \in Nat /\ Lost(e) \in {0, 1} /\ Cardinality(Loose(e)) \in Nat
          /\ Cardinality(Loose(e)') <= Cardinality(Loose(e)) /\ Cardinality(Loose(e)') \in Nat
      BY <3>2, ChargeTypes, LooseFinite, Fewer
    <3>4. Excess(e)' = Excess(e)
      BY <2>2 DEF Excess
    <3>5. HasJob(e, attempts[e])' <=> HasJob(e, attempts[e])
      BY <2>1, <2>2
    <3>6. Lost(e)' = Lost(e)
      BY <2>2, <3>5 DEF Lost
    <3>7. QED BY <2>2, <3>3, <3>4, <3>6 DEF Charged
  <2>5. QED BY <2>3, <2>4
<1>6. ASSUME NEW f \in Event, LeaseExpires(f) PROVE Charged(e)'
  <2>1. \A n : HasJob(e, n)' <=> HasJob(e, n)
    BY <1>6 DEF LeaseExpires, HasJob
  <2>2. QED BY <1>6, <2>1, FaultCharged DEF LeaseExpires, Fault
<1>7. ASSUME NEW w \in Runner, Tick(w) PROVE Charged(e)'
  BY <1>7, TickCharged
<1>8. ASSUME NEW w \in Runner, Restart(w) PROVE Charged(e)'
  <2>1. \A n : HasJob(e, n)' => HasJob(e, n)
    BY <1>8, RestartDropsJobs DEF HasJob
  <2>2. UNCHANGED <<attempts, hidden, delivered>> /\ faults' = faults + 1
    BY <1>8 DEF Restart, postgres, Fault
  <2>3. QED BY <2>1, <2>2, FaultCharged
<1>9. ASSUME NEW w \in Runner, NEW j \in jobs[w],
             \/ Posted(w, j) \/ OnSuccess(w, j) \/ Reschedule(w, j) \/ DeadLetter(w, j)
             \/ Deactivate(w, j) \/ NotifyOwner(w, j) \/ WriteFails(w, j)
      PROVE  Charged(e)'
  <2>1. ASSUME NEW to, Goes(w, j, to), UNCHANGED <<attempts, hidden, faults>>, delivered \subseteq delivered'
        PROVE  Charged(e)'
    <3>1. \A n : HasJob(e, n)' <=> HasJob(e, n)
      BY <2>1, GoesKeepsJob
    <3>2. QED BY <2>1, <3>1, ChargeKept
  <2>2. ASSUME Ends(w, j), UNCHANGED <<attempts, hidden, faults>>, delivered \subseteq delivered', j.event \in delivered'
        PROVE  Charged(e)'
    <3>1. CASE e = j.event
      BY <2>2, <3>1, DoneCharged
    <3>2. CASE e # j.event
      <4>1. \A n : HasJob(e, n)' <=> HasJob(e, n)
        BY <2>2, <3>2, EndsTakesJob
      <4>2. QED BY <2>2, <4>1, ChargeKept
    <3>3. QED BY <3>1, <3>2
  <2>3. CASE Posted(w, j)
    <3>1. UNCHANGED <<attempts, hidden, faults, delivered>> /\ (Goes(w, j, "succeeded") \/ Goes(w, j, "failed"))
      BY <2>3 DEF Posted, postgres, bounds
    <3>2. QED BY <2>1, <3>1
  <2>4. CASE OnSuccess(w, j)
    BY <2>2, <2>4 DEF OnSuccess, bounds
  <2>5. CASE Reschedule(w, j)
    BY <2>5, RescheduleCharged
  <2>6. CASE DeadLetter(w, j)
    BY <2>1, <2>6 DEF DeadLetter, bounds
  <2>7. CASE Deactivate(w, j)
    BY <2>1, <2>2, <2>7 DEF Deactivate, Off, bounds, GivenUp
  <2>8. CASE NotifyOwner(w, j)
    BY <2>2, <2>8 DEF NotifyOwner, postgres, bounds, GivenUp
  <2>9. CASE WriteFails(w, j)
    <3>1. \A n : HasJob(e, n)' => HasJob(e, n)
      BY <2>9, EndsTakesJob DEF WriteFails
    <3>2. UNCHANGED <<attempts, hidden, delivered>> /\ faults' = faults + 1
      BY <2>9 DEF WriteFails, postgres, Fault
    <3>3. QED BY <3>1, <3>2, FaultCharged
  <2>10. QED BY <1>9, <2>3, <2>4, <2>5, <2>6, <2>7, <2>8, <2>9
<1>10. QED BY <1>2, <1>3, <1>4, <1>5, <1>6, <1>7, <1>8, <1>9 DEF Next
------------------------------------------------------------------------------
(* How often the owner is told.  A row is given up twice only by an attempt  *)
(* that was overtaken: they are counted, with those that are being given up. *)

Overtaken ==
  {p \in Event \X Nat : /\ HasJob(p[1], p[2])
                        /\ p[2] < attempts[p[1]] \/ p[1] \notin hidden \/ p[1] \in delivered}

Counts ==
  /\ IsFiniteSet(Overtaken) /\ IsFiniteSet(delivered) /\ owner \in Nat /\ faults \in Nat
  /\ owner + Cardinality(Overtaken) <= Cardinality(delivered) + faults

\* What was counted still is; nobody is told.
LEMMA CountsFewer ==
  ASSUME Counts, UNCHANGED owner, faults' \in {faults, faults + 1}, UNCHANGED delivered,
         Overtaken' \subseteq Overtaken
  PROVE  Counts'
<1>1. IsFiniteSet(Overtaken') /\ Cardinality(Overtaken') <= Cardinality(Overtaken)
      /\ Cardinality(Overtaken') \in Nat /\ Cardinality(Overtaken) \in Nat
  BY Fewer DEF Counts
<1>2. Cardinality(delivered) \in Nat
  BY FS_CardinalityType DEF Counts
<1>3. QED BY <1>1, <1>2 DEF Counts

\* One more is overtaken, for a fault or for a row that is done with.
LEMMA CountsMore ==
  ASSUME Counts, UNCHANGED owner, NEW p, Overtaken' \subseteq Overtaken \cup {p},
         \/ faults' = faults + 1 /\ UNCHANGED delivered
         \/ faults' = faults /\ \E e : e \notin delivered /\ delivered' = delivered \cup {e}
  PROVE  Counts'
<1>1. IsFiniteSet(Overtaken') /\ Cardinality(Overtaken') <= Cardinality(Overtaken) + 1
      /\ Cardinality(Overtaken') \in Nat /\ Cardinality(Overtaken) \in Nat
  BY OneMore DEF Counts
<1>2. Cardinality(delivered) \in Nat
  BY FS_CardinalityType DEF Counts
<1>3. CASE faults' = faults + 1 /\ UNCHANGED delivered
  BY <1>1, <1>2, <1>3 DEF Counts
<1>4. ASSUME NEW e, e \notin delivered, delivered' = delivered \cup {e}, faults' = faults PROVE Counts'
  <2>1. IsFiniteSet(delivered') /\ Cardinality(delivered') = Cardinality(delivered) + 1
    BY <1>4, FS_AddElement DEF Counts
  <2>2. QED BY <1>1, <1>2, <1>4, <2>1 DEF Counts
<1>5. QED BY <1>3, <1>4

\* A step of time or of the user, and what such a step leaves alone.
LEMMA OvertakenKept ==
  ASSUME \A e, n : HasJob(e, n)' => HasJob(e, n), UNCHANGED <<attempts, delivered>>, hidden \subseteq hidden'
  PROVE  Overtaken' \subseteq Overtaken
BY DEF Overtaken

LEMMA TickCounts ==
  ASSUME OutboxInv, Counts, NEW w \in Runner, Tick(w) PROVE Counts'
<1>1. PICK batch \in SUBSET Due :
        /\ attempts' = [f \in Event |-> IF f \in batch THEN attempts[f] + 1 ELSE attempts[f]]
        /\ hidden' = hidden \cup batch
        /\ \A f, n : HasJob(f, n)' <=> HasJob(f, n) \/ (f \in batch /\ n = attempts[f] + 1)
  BY TickAddsJobs
<1>2. UNCHANGED <<faults, delivered, owner>>
  BY DEF Tick, bounds, world
<1>3. ASSUME NEW e \in Event, NEW n \in Nat, HasJob(e, n)',
             n < attempts'[e] \/ e \notin hidden' \/ e \in delivered
      PROVE  HasJob(e, n) /\ (n < attempts[e] \/ e \notin hidden \/ e \in delivered)
  <2>1. attempts[e] \in Nat
    BY DEF OutboxInv, Typed
  <2>2. CASE e \in batch
    <3>1. e \notin hidden /\ e \notin delivered /\ e \in hidden' /\ attempts'[e] = attempts[e] + 1
      BY <1>1, <2>2 DEF Due
    <3>2. n # attempts[e] + 1
      BY <1>3, <2>1, <3>1
    <3>3. HasJob(e, n)
      BY <1>1, <1>3, <3>2
    <3>4. QED BY <3>1, <3>3
  <2>3. CASE e \notin batch
    <3>1. HasJob(e, n) /\ attempts'[e] = attempts[e] /\ (e \in hidden' <=> e \in hidden)
      BY <1>1, <1>3, <2>3
    <3>2. QED BY <1>3, <3>1
  <2>4. QED BY <2>2, <2>3
<1>4. Overtaken' \subseteq Overtaken
  BY <1>2, <1>3 DEF Overtaken
<1>5. QED BY <1>2, <1>4, CountsFewer

\* An outcome is written: an overtaken attempt that ends makes room for the one it uncovers.
LEMMA RescheduleCounts ==
  ASSUME OutboxInv, Counts, NEW w \in Runner, NEW j \in jobs[w], Reschedule(w, j)
  PROVE  Counts'
<1> DEFINE e == j.event
           p == <<j.event, j.attempt>>
           last == <<j.event, attempts[j.event]>>
<1>1. /\ UNCHANGED <<attempts, delivered, faults, owner>> /\ Ends(w, j)
      /\ \A f \in hidden : f # e => f \in hidden'
  BY DEF Reschedule, world, bounds
<1>2. \A f, n : HasJob(f, n)' <=> HasJob(f, n) /\ ~(f = e /\ n = j.attempt)
  BY <1>1, EndsTakesJob
<1>3. HasJob(e, j.attempt)
  BY DEF HasJob
<1>4. e \in Event /\ j.attempt \in Nat /\ attempts[e] \in Nat /\ j.attempt <= attempts[e]
  BY <1>3, JobNumbers DEF OutboxInv, Typed
<1>5. Overtaken' \subseteq (Overtaken \ {p}) \cup {last}
  <2>1. ASSUME NEW f \in Event, NEW n \in Nat, HasJob(f, n)', ~(f = e /\ n = attempts[e]),
               n < attempts[f] \/ f \notin hidden' \/ f \in delivered
        PROVE  <<f, n>> \in Overtaken /\ <<f, n>> # p
    <3>1. HasJob(f, n) /\ ~(f = e /\ n = j.attempt)
      BY <1>2, <2>1
    <3>2. n < attempts[f] \/ f \notin hidden \/ f \in delivered
      <4>1. CASE f = e
        BY <2>1, <3>1, <4>1, JobNumbers, <1>4
      <4>2. CASE f # e
        BY <1>1, <2>1, <4>2
      <4>3. QED BY <4>1, <4>2
    <3>3. QED BY <3>1, <3>2 DEF Overtaken
  <2>2. QED BY <1>1, <2>1 DEF Overtaken
<1>6. CASE j.attempt < attempts[e]
  <2>1. p \in Overtaken
    BY <1>3, <1>4, <1>6 DEF Overtaken
  <2> HIDE DEF p, last
  <2>2. /\ IsFiniteSet(Overtaken') /\ Cardinality(Overtaken') <= Cardinality(Overtaken)
        /\ Cardinality(Overtaken') \in Nat /\ Cardinality(Overtaken) \in Nat
    BY <1>5, <2>1, Traded DEF Counts
  <2>3. Cardinality(delivered) \in Nat
    BY FS_CardinalityType DEF Counts
  <2>4. QED BY <1>1, <2>2, <2>3 DEF Counts
<1>7. CASE ~(j.attempt < attempts[e])
  <2>1. j.attempt = attempts[e]
    BY <1>4, <1>7
  <2>2. ~HasJob(e, attempts[e])'
    BY <1>1, <1>2, <2>1
  <2>3. last \notin Overtaken'
    BY <1>1, <2>2 DEF Overtaken
  <2>4. Overtaken' \subseteq Overtaken
    BY <1>5, <2>3
  <2>5. QED BY <1>1, <2>4, CountsFewer
<1>8. QED BY <1>6, <1>7

\* A row is done with: the attempt that was the last one is overtaken now.
LEMMA DoneCounts ==
  ASSUME OutboxInv, Counts, UNCHANGED <<attempts, hidden, faults, owner>>, NEW e \in Event,
         delivered' = delivered \cup {e}, \A f, n : HasJob(f, n)' => HasJob(f, n)
  PROVE  Counts'
<1> DEFINE last == <<e, attempts[e]>>
<1>1. CASE e \in delivered
  <2>1. delivered' = delivered
    BY <1>1
  <2>2. QED BY <2>1, OvertakenKept, CountsFewer
<1>2. CASE e \notin delivered
  <2>1. ASSUME NEW f \in Event, NEW n \in Nat, HasJob(f, n)', <<f, n>> # last,
               n < attempts[f] \/ f \notin hidden \/ f \in delivered'
        PROVE  <<f, n>> \in Overtaken
    <3>1. HasJob(f, n)
      BY <2>1
    <3>2. f = e => n < attempts[f]
      BY <2>1, <3>1, JobNumbers DEF OutboxInv, Typed
    <3>3. QED BY <2>1, <3>1, <3>2 DEF Overtaken
  <2>2. Overtaken' \subseteq Overtaken \cup {last}
    BY <2>1 DEF Overtaken
  <2> HIDE DEF last
  <2>3. QED BY <1>2, <2>2, CountsMore
<1>3. QED BY <1>1, <1>2

\* The owner is told, once for the attempt that gave the row up.
LEMMA NotifyCounts ==
  ASSUME OutboxInv, GivenUp, Counts, NEW w \in Runner, NEW j \in jobs[w], NotifyOwner(w, j)
  PROVE  Counts'
<1> DEFINE p == <<j.event, j.attempt>>
<1>1. UNCHANGED <<attempts, hidden, delivered, faults>> /\ owner' = owner + 1 /\ Ends(w, j)
  BY DEF NotifyOwner, postgres, bounds
<1>2. HasJob(j.event, j.attempt) /\ j.event \in delivered
  BY DEF NotifyOwner, GivenUp, HasJob
<1>3. j.event \in Event /\ j.attempt \in Nat
  BY <1>2, JobNumbers
<1>4. p \in Overtaken
  BY <1>2, <1>3 DEF Overtaken
<1>5. Overtaken' \subseteq Overtaken \ {p}
  BY <1>1, EndsTakesJob DEF Overtaken
<1> HIDE DEF p
<1>6. /\ IsFiniteSet(Overtaken') /\ Cardinality(Overtaken') + 1 <= Cardinality(Overtaken)
      /\ Cardinality(Overtaken') \in Nat /\ Cardinality(Overtaken) \in Nat
  BY <1>4, <1>5, OneLess DEF Counts
<1>7. Cardinality(delivered) \in Nat
  BY FS_CardinalityType DEF Counts
<1>8. QED BY <1>1, <1>6, <1>7 DEF Counts
LEMMA NextCounts == ASSUME OutboxInv, GivenUp, Counts, [Next]_vars PROVE Counts'
<1>1. ASSUME UNCHANGED <<jobs, attempts, delivered, owner>>, hidden \subseteq hidden', faults' \in {faults, faults + 1}
      PROVE  Counts'
  <2>1. \A e, n : HasJob(e, n)' => HasJob(e, n)
    BY <1>1 DEF HasJob
  <2>2. QED BY <1>1, <2>1, OvertakenKept, CountsFewer
<1>2. CASE Toggle \/ Delete \/ UNCHANGED vars
  BY <1>1, <1>2 DEF Toggle, Delete, User, vars, postgres, bounds, world
<1>3. ASSUME NEW f \in Event, Happens(f) PROVE Counts'
  BY <1>1, <1>3 DEF Happens, postgres, bounds
<1>4. ASSUME NEW f \in enqueues, Enqueue(f) \/ EnqueueFails(f) PROVE Counts'
  BY <1>1, <1>4 DEF Enqueue, EnqueueFails, postgres, bounds, world, Fault
<1>5. ASSUME NEW f \in Event, BecomesDue(f) \/ LeaseExpires(f) PROVE Counts'
  <2>1. \A e, n : HasJob(e, n)' <=> HasJob(e, n)
    BY <1>5 DEF BecomesDue, LeaseExpires, HasJob
  <2>2. UNCHANGED <<attempts, delivered, owner>> /\ hidden' = hidden \ {f}
    BY <1>5 DEF BecomesDue, LeaseExpires, world
  <2>3. \A p \in Overtaken' : p \in Overtaken \/ (p = <<f, attempts[f]>> /\ HasJob(f, attempts[f]))
    <3>1. ASSUME NEW e \in Event, NEW n \in Nat, HasJob(e, n),
                 n < attempts[e] \/ e \notin hidden' \/ e \in delivered
          PROVE  <<e, n>> \in Overtaken \/ (e = f /\ n = attempts[f])
      <4>1. n <= attempts[e] /\ attempts[e] \in Nat
        BY <3>1, JobNumbers DEF OutboxInv, Typed
      <4>2. QED BY <2>2, <3>1, <4>1 DEF Overtaken
    <3>2. QED BY <2>1, <2>2, <3>1 DEF Overtaken
  <2>4. CASE BecomesDue(f)
    <3>1. ~HasJob(f, attempts[f]) /\ faults' = faults
      BY <2>4 DEF BecomesDue, Working, HasJob, bounds
    <3>2. Overtaken' \subseteq Overtaken
      BY <2>3, <3>1
    <3>3. QED BY <2>2, <3>1, <3>2, CountsFewer
  <2>5. CASE LeaseExpires(f)
    <3>1. faults' = faults + 1
      BY <2>5 DEF LeaseExpires, Fault
    <3> DEFINE last == <<f, attempts[f]>>
    <3>2. Overtaken' \subseteq Overtaken \cup {last}
      BY <2>3
    <3> HIDE DEF last
    <3>3. QED BY <2>2, <3>1, <3>2, CountsMore
  <2>6. QED BY <1>5, <2>4, <2>5
<1>6. ASSUME NEW w \in Runner, Tick(w) PROVE Counts'
  BY <1>6, TickCounts
<1>7. ASSUME NEW w \in Runner, Restart(w) PROVE Counts'
  <2>1. \A e, n : HasJob(e, n)' => HasJob(e, n)
    BY <1>7, RestartDropsJobs DEF HasJob
  <2>2. QED BY <1>7, <2>1, OvertakenKept, CountsFewer DEF Restart, postgres, world, Fault
<1>8. ASSUME NEW w \in Runner, NEW j \in jobs[w],
             \/ Posted(w, j) \/ OnSuccess(w, j) \/ Reschedule(w, j) \/ DeadLetter(w, j)
             \/ Deactivate(w, j) \/ NotifyOwner(w, j) \/ WriteFails(w, j)
      PROVE  Counts'
  <2>1. j.event \in Event
    BY DEF OutboxInv, Typed, Job
  <2>2. ASSUME NEW to, Goes(w, j, to) \/ Ends(w, j) PROVE \A e, n : HasJob(e, n)' => HasJob(e, n)
    BY <2>2, GoesKeepsJob, EndsTakesJob
  <2>3. CASE Posted(w, j)
    <3>1. UNCHANGED <<attempts, hidden, delivered, faults, owner>> /\ (Goes(w, j, "succeeded") \/ Goes(w, j, "failed"))
      BY <2>3 DEF Posted, postgres, bounds
    <3>2. QED BY <2>2, <3>1, OvertakenKept, CountsFewer
  <2>4. CASE OnSuccess(w, j)
    BY <2>1, <2>2, <2>4, DoneCounts DEF OnSuccess, bounds, world
  <2>5. CASE Reschedule(w, j)
    BY <2>5, RescheduleCounts
  <2>6. CASE DeadLetter(w, j)
    BY <2>1, <2>2, <2>6, DoneCounts DEF DeadLetter, bounds, world
  <2>7. CASE Deactivate(w, j)
    <3>1. UNCHANGED <<attempts, hidden, delivered, faults, owner>> /\ (Goes(w, j, "notifying") \/ Ends(w, j))
      BY <2>7 DEF Deactivate, Off, bounds, world
    <3>2. QED BY <2>2, <3>1, OvertakenKept, CountsFewer
  <2>8. CASE NotifyOwner(w, j)
    BY <2>8, NotifyCounts
  <2>9. CASE WriteFails(w, j)
    <3>1. UNCHANGED <<attempts, hidden, delivered, owner>> /\ faults' = faults + 1 /\ Ends(w, j)
      BY <2>9 DEF WriteFails, postgres, world, Fault
    <3>2. QED BY <2>2, <3>1, OvertakenKept, CountsFewer
  <2>10. QED BY <1>8, <2>3, <2>4, <2>5, <2>6, <2>7, <2>8, <2>9
<1>9. QED BY <1>2, <1>3, <1>4, <1>5, <1>6, <1>7, <1>8 DEF Next

------------------------------------------------------------------------------
(* How many POSTs of a row are under way.  An attempt is open until its POST  *)
(* has an outcome and that is written; the row is free when a tick may, now   *)
(* or after a backoff, claim it again.  A claim trades the one for the other, *)
(* and only the end of a lease under its attempt makes one more.              *)

Unsettled == {"posting", "succeeded", "failed"}
HasOpen(e, n) ==
  \E w \in Runner : \E j \in jobs[w] : j.event = e /\ j.attempt = n /\ j.at \in Unsettled
Open(e) == {n \in 1..attempts[e] : HasOpen(e, n)}
Free(e) == IF e \in delivered \/ (e \in hidden /\ HasJob(e, attempts[e])) THEN 0 ELSE 1
Permitted(e) == Cardinality(Open(e)) + Free(e) <= 1 + overruns[e]

OverrunInv == overruns \in [Event -> Nat] /\ \A e \in Event : Permitted(e)

LEMMA OpenFinite ==
  ASSUME OutboxInv, NEW e \in Event
  PROVE  IsFiniteSet(Open(e)) /\ Cardinality(Open(e)) \in Nat /\ Free(e) \in {0, 1} /\ attempts[e] \in Nat
<1>1. attempts[e] \in Nat
  BY DEF OutboxInv, Typed
<1>2. IsFiniteSet(1..attempts[e])
  BY <1>1, FS_Interval
<1>3. Open(e) \in SUBSET (1..attempts[e])
  BY DEF Open
<1>4. IsFiniteSet(Open(e))
  BY <1>2, <1>3, FS_Subset
<1>5. QED BY <1>1, <1>4, FS_CardinalityType DEF Free

\* No attempt of e opened, and if the row came free one closed.
LEMMA PermitKept ==
  ASSUME OutboxInv, NEW e \in Event, Permitted(e), overruns \in [Event -> Nat],
         attempts'[e] = attempts[e], overruns'[e] = overruns[e],
         \A n : HasOpen(e, n)' => HasOpen(e, n),
         \/ e \in delivered'
         \/ /\ e \in hidden => e \in hidden'
            /\ e \in delivered => e \in delivered'
            /\ HasJob(e, attempts[e])' <=> HasJob(e, attempts[e])
         \/ \E n : HasOpen(e, n) /\ ~HasOpen(e, n)'
  PROVE  Permitted(e)'
<1>1. /\ IsFiniteSet(Open(e)) /\ Cardinality(Open(e)) \in Nat /\ Free(e) \in {0, 1}
      /\ attempts[e] \in Nat /\ overruns[e] \in Nat
  BY OpenFinite
<1>2. Open(e)' \subseteq Open(e)
  BY DEF Open
<1>3. Cardinality(Open(e)') <= Cardinality(Open(e)) /\ Cardinality(Open(e)') \in Nat
  BY <1>1, <1>2, Fewer
<1>4. Free(e)' \in {0, 1}
  BY DEF Free
<1>5. CASE e \in delivered'
  <2>1. Free(e)' = 0
    BY <1>5 DEF Free
  <2>2. QED BY <1>1, <1>3, <2>1 DEF Permitted
<1>6. CASE /\ e \in hidden => e \in hidden'
           /\ e \in delivered => e \in delivered'
           /\ HasJob(e, attempts[e])' <=> HasJob(e, attempts[e])
  <2>1. Free(e)' <= Free(e)
    BY <1>6 DEF Free
  <2>2. QED BY <1>1, <1>3, <1>4, <2>1 DEF Permitted
<1>7. ASSUME NEW n, HasOpen(e, n), ~HasOpen(e, n)' PROVE Permitted(e)'
  <2>1. HasJob(e, n)
    BY <1>7 DEF HasOpen, HasJob
  <2>2. n \in Open(e)
    BY <1>1, <1>7, <2>1, JobNumbers DEF Open
  <2>3. Open(e)' \subseteq Open(e) \ {n}
    BY <1>2, <1>7 DEF Open
  <2>4. Cardinality(Open(e)') + 1 <= Cardinality(Open(e))
    BY <1>1, <2>2, <2>3, OneLess
  <2>5. QED BY <1>1, <1>3, <1>4, <2>4 DEF Permitted
<1>8. QED BY <1>5, <1>6, <1>7

\* A claim takes the row that was free.
LEMMA TickPermitted ==
  ASSUME OutboxInv, NEW w \in Runner, Tick(w), NEW e \in Event, Permitted(e), overruns \in [Event -> Nat]
  PROVE  Permitted(e)'
<1>1. PICK batch \in SUBSET Due :
        /\ attempts' = [f \in Event |-> IF f \in batch THEN attempts[f] + 1 ELSE attempts[f]]
        /\ hidden' = hidden \cup batch
        /\ \A f, n : HasJob(f, n)' <=> HasJob(f, n) \/ (f \in batch /\ n = attempts[f] + 1)
        /\ \A f, n : HasOpen(f, n)' => HasOpen(f, n) \/ (f \in batch /\ n = attempts[f] + 1)
  <2>1. PICK batch \in SUBSET Due :
          /\ attempts' = [f \in Event |-> IF f \in batch THEN attempts[f] + 1 ELSE attempts[f]]
          /\ hidden' = hidden \cup batch
          /\ \A f, n : HasJob(f, n)' <=> HasJob(f, n) \/ (f \in batch /\ n = attempts[f] + 1)
          /\ \A v \in Runner : \A j \in jobs'[v] :
               j \in jobs[v] \/ (j.event \in batch /\ j.attempt = attempts[j.event] + 1)
    BY TickAddsJobs
  <2>2. QED BY <2>1 DEF HasOpen
<1>2. overruns' = overruns /\ delivered' = delivered
  BY DEF Tick, world
<1>3. CASE e \notin batch
  BY <1>1, <1>2, <1>3, PermitKept
<1>4. CASE e \in batch
  <2>1. /\ IsFiniteSet(Open(e)) /\ Cardinality(Open(e)) \in Nat
        /\ attempts[e] \in Nat /\ overruns[e] \in Nat
    BY OpenFinite
  <2>2. e \notin hidden /\ e \notin delivered /\ attempts'[e] = attempts[e] + 1
    BY <1>1, <1>4 DEF Due
  <2>3. Free(e) = 1
    BY <2>2 DEF Free
  <2>4. HasJob(e, attempts[e])' /\ e \in hidden'
    <3>1. \A n : n = attempts[e] + 1 => HasJob(e, n)'
      BY <1>1, <1>4
    <3>2. QED BY <1>1, <1>4, <2>2, <3>1
  <2>5. Free(e)' = 0
    BY <2>4 DEF Free
  <2> DEFINE a == attempts[e] + 1
  <2>6. Open(e)' \subseteq Open(e) \cup {a}
    <3>1. ASSUME NEW n \in 1..(attempts[e] + 1), HasOpen(e, n)' PROVE n \in Open(e) \cup {a}
      BY <1>1, <2>1, <3>1 DEF Open
    <3>2. QED BY <2>2, <3>1 DEF Open
  <2> HIDE DEF a
  <2>7. Cardinality(Open(e)') <= Cardinality(Open(e)) + 1 /\ Cardinality(Open(e)') \in Nat
    BY <2>1, <2>6, OneMore
  <2>8. QED BY <1>2, <2>1, <2>3, <2>5, <2>7 DEF Permitted
<1>5. QED BY <1>3, <1>4

\* What a delivery does: it moves on, or it ends and is open no more.
LEMMA GoesOpen ==
  ASSUME OutboxInv, NEW w \in Runner, NEW j \in jobs[w], NEW to, Goes(w, j, to),
         to \in Unsettled => j.at \in Unsettled
  PROVE  \A e, n : HasOpen(e, n)' => HasOpen(e, n)
<1> DEFINE k == [j EXCEPT !.at = to]
<1>1. jobs \in [Runner -> SUBSET Job] /\ j \in Job
  BY DEF OutboxInv, Typed
<1>2. k.event = j.event /\ k.attempt = j.attempt /\ k.at = to
  BY <1>1 DEF Job
<1>3. jobs'[w] = (jobs[w] \ {j}) \cup {k} /\ \A v \in Runner \ {w} : jobs'[v] = jobs[v]
  BY <1>1 DEF Goes
<1> HIDE DEF k
<1>4. QED BY <1>2, <1>3 DEF HasOpen

LEMMA EndsOpen ==
  ASSUME OutboxInv, NEW w \in Runner, NEW j \in jobs[w], Ends(w, j)
  PROVE  \A e, n : HasOpen(e, n)' => HasOpen(e, n) /\ ~(e = j.event /\ n = j.attempt)
<1>1. jobs'[w] = jobs[w] \ {j} /\ \A v \in Runner \ {w} : jobs'[v] = jobs[v]
  BY DEF Ends, OutboxInv, Typed
<1>2. \A v \in Runner : \A i \in jobs[v] : i.event = j.event /\ i.attempt = j.attempt => v = w /\ i = j
  BY DEF OutboxInv, JobsUnique
<1>3. QED BY <1>1, <1>2 DEF HasOpen

LEMMA NextPermitted ==
  ASSUME OutboxInv, GivenUp, OverrunInv, [Next]_vars, NEW e \in Event
  PROVE  Permitted(e)'
<1>1. Permitted(e) /\ overruns \in [Event -> Nat]
  BY DEF OverrunInv
<1>2. ASSUME UNCHANGED <<jobs, attempts, hidden, delivered, overruns>> PROVE Permitted(e)'
  <2>1. (\A n : HasOpen(e, n)' <=> HasOpen(e, n)) /\ (HasJob(e, attempts[e])' <=> HasJob(e, attempts[e]))
    BY <1>2 DEF HasOpen, HasJob
  <2>2. QED BY <1>1, <1>2, <2>1, PermitKept
<1>3. CASE Toggle \/ Delete \/ UNCHANGED vars
  BY <1>2, <1>3 DEF Toggle, Delete, vars, postgres, world
<1>4. ASSUME NEW f \in Event, Happens(f) PROVE Permitted(e)'
  BY <1>2, <1>4 DEF Happens, postgres
<1>5. ASSUME NEW f \in enqueues, Enqueue(f) \/ EnqueueFails(f) PROVE Permitted(e)'
  BY <1>2, <1>5 DEF Enqueue, EnqueueFails, postgres, world
<1>6. ASSUME NEW f \in Event, BecomesDue(f) PROVE Permitted(e)'
  <2>1. UNCHANGED <<attempts, delivered, overruns, jobs>> /\ hidden' = hidden \ {f}
    BY <1>6 DEF BecomesDue, world
  <2>2. (\A n : HasOpen(e, n)' <=> HasOpen(e, n)) /\ (HasJob(e, attempts[e])' <=> HasJob(e, attempts[e]))
    BY <2>1 DEF HasOpen, HasJob
  <2>3. CASE e # f
    BY <1>1, <2>1, <2>2, <2>3, PermitKept
  <2>4. CASE e = f
    <3>1. ~HasJob(e, attempts[e])
      BY <1>6, <2>4 DEF BecomesDue, Working, HasJob
    <3>2. Free(e)' = Free(e)
      BY <2>1, <2>2, <3>1 DEF Free
    <3>3. Open(e)' = Open(e)
      BY <2>1, <2>2 DEF Open
    <3>4. QED BY <1>1, <2>1, <3>2, <3>3 DEF Permitted
  <2>5. QED BY <2>3, <2>4
<1>7. ASSUME NEW f \in Event, LeaseExpires(f) PROVE Permitted(e)'
  <2>1. /\ UNCHANGED <<attempts, delivered, jobs>> /\ hidden' = hidden \ {f}
        /\ overruns' = [overruns EXCEPT ![f] = @ + 1]
    BY <1>7 DEF LeaseExpires
  <2>2. (\A n : HasOpen(e, n)' <=> HasOpen(e, n)) /\ (HasJob(e, attempts[e])' <=> HasJob(e, attempts[e]))
    BY <2>1 DEF HasOpen, HasJob
  <2>3. CASE e # f
    <3>1. overruns'[e] = overruns[e]
      BY <1>1, <2>1, <2>3
    <3>2. QED BY <1>1, <2>1, <2>2, <2>3, <3>1, PermitKept
  <2>4. CASE e = f
    <3>1. /\ Cardinality(Open(e)) \in Nat /\ Free(e) \in {0, 1} /\ overruns[e] \in Nat
          /\ overruns'[e] = overruns[e] + 1
      BY <1>1, <2>1, <2>4, OpenFinite
    <3>2. Open(e)' = Open(e)
      BY <2>1, <2>2 DEF Open
    <3>3. Free(e)' \in {0, 1}
      BY DEF Free
    <3>4. QED BY <1>1, <3>1, <3>2, <3>3 DEF Permitted
  <2>5. QED BY <2>3, <2>4
<1>8. ASSUME NEW w \in Runner, Tick(w) PROVE Permitted(e)'
  BY <1>1, <1>8, TickPermitted
<1>9. ASSUME NEW w \in Runner, Restart(w) PROVE Permitted(e)'
  <2>1. /\ UNCHANGED <<attempts, hidden, delivered, overruns>>
        /\ jobs'[w] = {} /\ \A v \in Runner \ {w} : jobs'[v] = jobs[v]
    BY <1>9 DEF Restart, postgres, world, OutboxInv, Typed
  <2>2. \A n : HasOpen(e, n)' => HasOpen(e, n)
    BY <2>1 DEF HasOpen
  <2>3. CASE e \in delivered
    BY <1>1, <2>1, <2>2, <2>3, PermitKept
  <2>4. ASSUME e \notin delivered, NEW j \in jobs[w], j.event = e PROVE Permitted(e)'
    <3>1. j.at \in Unsettled
      BY <2>4 DEF GivenUp, OutboxInv, Typed, Job, Unsettled
    <3>2. HasOpen(e, j.attempt)
      BY <2>4, <3>1 DEF HasOpen
    <3>3. ~HasOpen(e, j.attempt)'
      BY <2>1, <2>4 DEF HasOpen, OutboxInv, JobsUnique
    <3>4. QED BY <1>1, <2>1, <2>2, <3>2, <3>3, PermitKept
  <2>5. ASSUME \A j \in jobs[w] : j.event # e PROVE Permitted(e)'
    <3>1. HasJob(e, attempts[e])' <=> HasJob(e, attempts[e])
      BY <2>1, <2>5 DEF HasJob
    <3>2. QED BY <1>1, <2>1, <2>2, <3>1, PermitKept
  <2>6. QED BY <2>3, <2>4, <2>5
<1>10. ASSUME NEW w \in Runner, NEW j \in jobs[w],
              \/ Posted(w, j) \/ OnSuccess(w, j) \/ Reschedule(w, j) \/ DeadLetter(w, j)
              \/ Deactivate(w, j) \/ NotifyOwner(w, j) \/ WriteFails(w, j)
       PROVE  Permitted(e)'
  <2>1. ASSUME NEW to, Goes(w, j, to), to \in Unsettled => j.at \in Unsettled,
               UNCHANGED <<attempts, hidden, overruns>>, delivered \subseteq delivered'
        PROVE  Permitted(e)'
    <3>1. \A n : HasOpen(e, n)' => HasOpen(e, n)
      BY <2>1, GoesOpen
    <3>2. HasJob(e, attempts[e])' <=> HasJob(e, attempts[e])
      <4>1. \A n : HasJob(e, n)' <=> HasJob(e, n)
        BY <2>1, GoesKeepsJob
      <4>2. QED BY <2>1, <4>1
    <3>3. QED BY <1>1, <2>1, <3>1, <3>2, PermitKept
  <2>2. ASSUME Ends(w, j), UNCHANGED <<attempts, overruns>>, delivered \subseteq delivered',
               \A f \in hidden : f # j.event => f \in hidden',
               j.at \in Unsettled \/ j.event \in delivered'
        PROVE  Permitted(e)'
    <3>1. \A n : HasOpen(e, n)' => HasOpen(e, n) /\ ~(e = j.event /\ n = j.attempt)
      BY <2>2, EndsOpen
    <3>2. CASE e # j.event
      <4>1. HasJob(e, attempts[e])' <=> HasJob(e, attempts[e])
        <5>1. \A n : HasJob(e, n)' <=> HasJob(e, n)
          BY <2>2, <3>2, EndsTakesJob
        <5>2. QED BY <2>2, <5>1
      <4>2. QED BY <1>1, <2>2, <3>1, <3>2, <4>1, PermitKept
    <3>3. CASE e = j.event /\ e \in delivered'
      BY <1>1, <2>2, <3>1, <3>3, PermitKept
    <3>4. CASE e = j.event /\ j.at \in Unsettled
      <4>1. HasOpen(e, j.attempt) /\ ~HasOpen(e, j.attempt)'
        BY <3>1, <3>4 DEF HasOpen
      <4>2. QED BY <1>1, <2>2, <3>1, <4>1, PermitKept
    <3>5. QED BY <2>2, <3>2, <3>3, <3>4
  <2>3. CASE Posted(w, j)
    <3>1. /\ UNCHANGED <<attempts, hidden, overruns, delivered>> /\ j.at \in Unsettled
          /\ (Goes(w, j, "succeeded") \/ Goes(w, j, "failed"))
      BY <2>3 DEF Posted, postgres, Unsettled
    <3>2. QED BY <2>1, <3>1
  <2>4. CASE OnSuccess(w, j)
    BY <2>2, <2>4 DEF OnSuccess, world, Unsettled
  <2>5. CASE Reschedule(w, j)
    BY <2>2, <2>5 DEF Reschedule, world, Unsettled
  <2>6. CASE DeadLetter(w, j)
    BY <2>1, <2>6 DEF DeadLetter, world, Unsettled
  <2>7. CASE Deactivate(w, j)
    <3>1. j.event \in delivered' /\ UNCHANGED <<attempts, hidden, overruns, delivered>>
      BY <2>7 DEF Deactivate, world, GivenUp
    <3>2. Goes(w, j, "notifying") \/ Ends(w, j)
      BY <2>7 DEF Deactivate, Off
    <3>3. "notifying" \notin Unsettled
      BY DEF Unsettled
    <3>4. QED BY <2>1, <2>2, <3>1, <3>2, <3>3
  <2>8. CASE NotifyOwner(w, j)
    BY <2>2, <2>8 DEF NotifyOwner, postgres, GivenUp
  <2>9. CASE WriteFails(w, j)
    <3>1. j.at \in Unsettled \/ j.event \in delivered
      BY DEF GivenUp, OutboxInv, Typed, Job, Unsettled
    <3>2. QED BY <2>2, <2>9, <3>1 DEF WriteFails, postgres, world
  <2>10. QED BY <1>10, <2>3, <2>4, <2>5, <2>6, <2>7, <2>8, <2>9
<1>11. QED BY <1>3, <1>4, <1>5, <1>6, <1>7, <1>8, <1>9, <1>10 DEF Next

------------------------------------------------------------------------------

\* Without a user or a fault a webhook is off only when its owner was told or is
\* being told.
OffTold ==
  /\ toggles \in Nat /\ (gone => toggles # 0)
  /\ ~active /\ toggles = 0 /\ faults = 0 =>
       owner > 0 \/ \E w \in Runner : \E j \in jobs[w] : j.at = "notifying"

\* The types that the argument above does not need.
RowTypes ==
  /\ gone \in BOOLEAN /\ active \in (IF gone THEN {FALSE} ELSE BOOLEAN)
  /\ hidden \subseteq stored /\ delivered \subseteq stored /\ accepted \subseteq stored /\ overruns \in [Event -> Nat]
  /\ happened \in [Event -> 0..MaxHappen] /\ owner \in Nat
  /\ toggles \in 0..MaxToggles /\ faults \in 0..MaxFaults

GivesUpInv == OutboxInv /\ RowTypes /\ GivenUp /\ ChargeInv /\ Counts /\ OffTold

LEMMA InitGivesUp == ASSUME WebhookAssumption, Init PROVE GivesUpInv
<1>1. OutboxInv
  BY InitOutbox
<1>2. \A e, n : ~HasJob(e, n)
  BY DEF Init, HasJob
<1>3. RowTypes /\ GivenUp /\ OffTold
  <2>1. happened \in [Event -> 0..MaxHappen] /\ 0 \in 0..MaxToggles /\ 0 \in 0..MaxFaults
    BY DEF Init, WebhookAssumption
  <2>2. \A w \in Runner : jobs[w] = {}
    BY DEF Init
  <2>3. RowTypes
    BY <2>1 DEF Init, RowTypes
  <2>4. GivenUp /\ OffTold
    BY <2>2 DEF Init, GivenUp, OffTold
  <2>5. QED BY <2>3, <2>4
<1>4. ASSUME NEW e \in Event PROVE Charged(e)
  <2>1. Loose(e) = {} /\ Excess(e) = 0 /\ Lost(e) = 0 /\ faults = 0
    BY <1>2 DEF Loose, Excess, Lost, Init, WebhookAssumption
  <2>2. Cardinality(Loose(e)) = 0
    BY <2>1, FS_EmptySet
  <2>3. QED BY <2>1, <2>2 DEF Charged
<1>5. Counts
  <2>1. Overtaken = {} /\ delivered = {} /\ owner = 0 /\ faults = 0
    BY <1>2 DEF Overtaken, Init
  <2>2. IsFiniteSet(Overtaken) /\ Cardinality(Overtaken) = 0 /\ IsFiniteSet(delivered) /\ Cardinality(delivered) = 0
    BY <2>1, FS_EmptySet
  <2>3. QED BY <2>1, <2>2 DEF Counts
<1>6. faults \in Nat
  BY DEF Init
<1>7. QED BY <1>1, <1>3, <1>4, <1>5, <1>6 DEF GivesUpInv, ChargeInv

LEMMA NextRowTypes ==
  ASSUME WebhookAssumption, OutboxInv, RowTypes, [Next]_vars PROVE RowTypes'
<1> USE DEF RowTypes, WebhookAssumption
<1>1. ASSUME Fault PROVE faults' \in 0..MaxFaults /\ toggles' = toggles
  BY <1>1 DEF Fault
<1>2. CASE Toggle \/ Delete
  <2>1. toggles' \in 0..MaxToggles /\ faults' = faults
    BY <1>2 DEF Toggle, Delete, User
  <2>2. gone' \in BOOLEAN /\ active' \in (IF gone' THEN {FALSE} ELSE BOOLEAN)
    <3>1. CASE ~gone /\ gone' = gone /\ active' = ~active
      BY <3>1, Zenon
    <3>2. CASE gone' = TRUE /\ active' = FALSE
      BY <3>2
    <3>3. QED BY <1>2, <3>1, <3>2 DEF Toggle, Delete
  <2>3. UNCHANGED <<stored, hidden, delivered, accepted, overruns, happened, owner>>
    BY <1>2 DEF Toggle, Delete, world
  <2>4. QED BY <2>1, <2>2, <2>3
<1>3. ASSUME NEW f \in Event, Happens(f) PROVE RowTypes'
  <2>1. happened[f] \in 0..MaxHappen /\ happened[f] < MaxHappen /\ MaxHappen \in Nat
    BY <1>3 DEF Happens
  <2>2. happened[f] + 1 \in 0..MaxHappen
    BY <2>1
  <2>3. happened' \in [Event -> 0..MaxHappen]
    BY <1>3, <2>2 DEF Happens
  <2>4. UNCHANGED <<gone, active, stored, hidden, delivered, accepted, overruns, owner, toggles, faults>>
    BY <1>3 DEF Happens, postgres, bounds
  <2>5. gone' \in BOOLEAN /\ active' \in (IF gone' THEN {FALSE} ELSE BOOLEAN)
    BY <2>4
  <2>6. QED BY <2>3, <2>4, <2>5
<1>4. ASSUME NEW f \in Event, BecomesDue(f) PROVE RowTypes'
  BY <1>4 DEF BecomesDue, world, bounds
<1>5. ASSUME NEW f \in Event, LeaseExpires(f) PROVE RowTypes'
  <2>1. overruns' \in [Event -> Nat]
    BY <1>5 DEF LeaseExpires
  <2>2. QED BY <1>1, <1>5, <2>1 DEF LeaseExpires
<1>6. ASSUME NEW f \in enqueues, Enqueue(f) PROVE RowTypes'
  BY <1>6 DEF Enqueue, world, bounds
<1>7. ASSUME NEW f \in enqueues, EnqueueFails(f) PROVE RowTypes'
  BY <1>1, <1>7 DEF EnqueueFails, postgres, world
<1>8. ASSUME NEW w \in Runner, Tick(w) PROVE RowTypes'
  BY <1>8 DEF Tick, Lease, Due, world, bounds
<1>9. ASSUME NEW w \in Runner, Restart(w) PROVE RowTypes'
  BY <1>1, <1>9 DEF Restart, postgres, world
<1>10. ASSUME NEW w \in Runner, NEW j \in jobs[w],
              \/ Posted(w, j) \/ OnSuccess(w, j) \/ Reschedule(w, j) \/ DeadLetter(w, j)
              \/ Deactivate(w, j) \/ NotifyOwner(w, j) \/ WriteFails(w, j)
       PROVE  RowTypes'
  <2>1. j.event \in stored
    BY DEF OutboxInv, JobsCounted
  <2>2. CASE Posted(w, j)
    BY <2>1, <2>2 DEF Posted, postgres, bounds
  <2>3. CASE OnSuccess(w, j) \/ DeadLetter(w, j)
    BY <2>1, <2>3 DEF OnSuccess, DeadLetter, world, bounds
  <2>4. CASE Reschedule(w, j)
    <3>1. /\ UNCHANGED <<gone, active, stored, delivered, accepted, overruns, happened, owner, toggles, faults>>
          /\ hidden' \in {hidden \cup {j.event}, hidden \ {j.event}}
      BY <2>4 DEF Reschedule, world, bounds
    <3>2. hidden' \subseteq stored'
      BY <2>1, <3>1
    <3>3. QED BY <3>1, <3>2
  <2>5. CASE Deactivate(w, j)
    BY <2>5 DEF Deactivate, world, bounds
  <2>6. CASE NotifyOwner(w, j)
    <3>1. owner' = owner + 1
          /\ UNCHANGED <<gone, active, stored, hidden, delivered, accepted, overruns, happened, toggles, faults>>
      BY <2>6 DEF NotifyOwner, postgres, bounds
    <3>2. gone' \in BOOLEAN /\ active' \in (IF gone' THEN {FALSE} ELSE BOOLEAN)
      BY <3>1
    <3>3. owner' \in Nat
      BY <3>1
    <3>4. QED BY <3>1, <3>2, <3>3
  <2>7. CASE WriteFails(w, j)
    BY <1>1, <2>7 DEF WriteFails, postgres, world
  <2>8. QED BY <1>10, <2>2, <2>3, <2>4, <2>5, <2>6, <2>7
<1>11. CASE UNCHANGED vars
  BY <1>11 DEF vars, postgres, world, bounds
<1>12. QED BY <1>2, <1>3, <1>4, <1>5, <1>6, <1>7, <1>8, <1>9, <1>10, <1>11 DEF Next

LEMMA NextGivenUp ==
  ASSUME OutboxInv, GivenUp, OffTold, faults \in Nat, owner \in Nat, [Next]_vars PROVE GivenUp' /\ OffTold'
<1>1. ASSUME NEW w \in Runner, NEW j \in jobs[w],
             \/ Posted(w, j) \/ OnSuccess(w, j) \/ Reschedule(w, j) \/ DeadLetter(w, j)
             \/ Deactivate(w, j) \/ NotifyOwner(w, j) \/ WriteFails(w, j)
      PROVE  GivenUp' /\ OffTold'
  <2> DEFINE Moved(to) == [j EXCEPT !.at = to]
  <2>1. jobs \in [Runner -> SUBSET Job] /\ j \in Job
    BY DEF OutboxInv, Typed
  <2>2. ASSUME NEW to PROVE Moved(to).at = to /\ Moved(to).event = j.event
    BY <2>1 DEF Job
  <2>3. ASSUME NEW to, Goes(w, j, to)
        PROVE  jobs'[w] = (jobs[w] \ {j}) \cup {Moved(to)} /\ \A v \in Runner \ {w} : jobs'[v] = jobs[v]
    BY <2>1, <2>3 DEF Goes
  <2>4. ASSUME Ends(w, j)
        PROVE  jobs'[w] = jobs[w] \ {j} /\ \A v \in Runner \ {w} : jobs'[v] = jobs[v]
    BY <2>1, <2>4 DEF Ends
  <2> HIDE DEF Moved
  <2>5. ASSUME NEW to, Goes(w, j, to), to \in {"deactivating", "notifying"} => j.event \in delivered',
               delivered \subseteq delivered'
        PROVE  GivenUp'
    BY <2>2, <2>3, <2>5 DEF GivenUp
  <2>6. ASSUME Ends(w, j), delivered \subseteq delivered' PROVE GivenUp'
    BY <2>4, <2>6 DEF GivenUp
  <2>7. ASSUME \/ Ends(w, j)
               \/ \E to : Goes(w, j, to),
               j.at # "notifying", UNCHANGED <<toggles, gone, active, faults, owner>>
        PROVE  OffTold'
    BY <2>3, <2>4, <2>7 DEF OffTold
  <2>8. CASE Posted(w, j)
    <3>1. /\ UNCHANGED <<delivered, toggles, gone, active, faults, owner>> /\ j.at = "posting"
          /\ Goes(w, j, "succeeded") \/ Goes(w, j, "failed")
      BY <2>8 DEF Posted, postgres, bounds
    <3>2. QED BY <2>5, <2>7, <3>1
  <2>9. CASE OnSuccess(w, j)
    BY <2>6, <2>7, <2>9 DEF OnSuccess, world, bounds
  <2>10. CASE Reschedule(w, j)
    BY <2>6, <2>7, <2>10 DEF Reschedule, world, bounds
  <2>11. CASE DeadLetter(w, j)
    <3>1. /\ Goes(w, j, "deactivating") /\ delivered' = delivered \cup {j.event} /\ j.at = "failed"
          /\ UNCHANGED <<toggles, gone, active, faults, owner>>
      BY <2>11 DEF DeadLetter, world, bounds
    <3>2. QED BY <2>5, <2>7, <3>1
  <2>12. CASE Deactivate(w, j)
    <3>1. /\ UNCHANGED <<delivered, toggles, gone, faults, owner>> /\ j.at = "deactivating"
          /\ (gone /\ Ends(w, j)) \/ (~gone /\ Goes(w, j, "notifying"))
      BY <2>12 DEF Deactivate, Off, world, bounds
    <3>2. j.event \in delivered
      BY <3>1 DEF GivenUp
    <3>3. GivenUp'
      BY <2>5, <2>6, <3>1, <3>2
    <3>4. CASE gone
      BY <3>1, <3>3, <3>4 DEF OffTold
    <3>5. CASE ~gone
      <4>1. Moved("notifying") \in jobs'[w] /\ Moved("notifying").at = "notifying"
        BY <2>2, <2>3, <3>1, <3>5
      <4>2. QED BY <3>1, <3>3, <4>1 DEF OffTold
    <3>6. QED BY <3>3, <3>4, <3>5
  <2>13. CASE NotifyOwner(w, j)
    <3>1. Ends(w, j) /\ owner' = owner + 1 /\ UNCHANGED <<delivered, toggles, gone>>
      BY <2>13 DEF NotifyOwner, postgres, bounds
    <3>2. owner' > 0
      BY <3>1
    <3>3. GivenUp'
      BY <2>6, <3>1
    <3>4. OffTold'
      BY <3>1, <3>2 DEF OffTold
    <3>5. QED BY <3>3, <3>4
  <2>14. CASE WriteFails(w, j)
    <3>1. Ends(w, j) /\ faults' = faults + 1 /\ UNCHANGED <<delivered, toggles, gone>>
      BY <2>14 DEF WriteFails, postgres, Fault
    <3>2. QED BY <2>6, <3>1 DEF OffTold
  <2>15. QED BY <1>1, <2>8, <2>9, <2>10, <2>11, <2>12, <2>13, <2>14
<1>2. ASSUME NEW w \in Runner, Tick(w) PROVE GivenUp' /\ OffTold'
  <2>1. \A v \in Runner : \A j \in jobs'[v] : j \in jobs[v] \/ j.at = "posting"
    BY <1>2, TickAddsJobs
  <2>2. active /\ UNCHANGED <<delivered, toggles, gone, active>>
    BY <1>2 DEF Tick, bounds
  <2>3. QED BY <2>1, <2>2 DEF GivenUp, OffTold
<1>3. ASSUME NEW w \in Runner, Restart(w) PROVE GivenUp' /\ OffTold'
  <2>1. UNCHANGED <<delivered, toggles, gone>> /\ faults' = faults + 1
    BY <1>3 DEF Restart, postgres, Fault
  <2>2. \A v \in Runner : jobs'[v] \subseteq jobs[v]
    BY <1>3, RestartDropsJobs
  <2>3. QED BY <2>1, <2>2 DEF GivenUp, OffTold
<1>4. CASE Toggle \/ Delete
  <2>1. UNCHANGED <<jobs, delivered>> /\ toggles' = toggles + 1
    BY <1>4 DEF Toggle, Delete, User
  <2>2. QED BY <2>1 DEF GivenUp, OffTold
<1>5. ASSUME UNCHANGED <<jobs, delivered, gone, active, toggles, owner>>, faults' \in {faults, faults + 1}
      PROVE  GivenUp' /\ OffTold'
  BY <1>5 DEF GivenUp, OffTold
<1>6. ASSUME NEW f \in Event, Happens(f) \/ BecomesDue(f) \/ LeaseExpires(f) PROVE GivenUp' /\ OffTold'
  BY <1>5, <1>6 DEF Happens, BecomesDue, LeaseExpires, postgres, bounds, world, Fault
<1>7. ASSUME NEW f \in enqueues, Enqueue(f) \/ EnqueueFails(f) PROVE GivenUp' /\ OffTold'
  BY <1>5, <1>7 DEF Enqueue, EnqueueFails, postgres, bounds, world, Fault
<1>8. CASE UNCHANGED vars
  BY <1>5, <1>8 DEF vars, postgres, bounds, world
<1>9. QED BY <1>1, <1>2, <1>3, <1>4, <1>6, <1>7, <1>8 DEF Next

LEMMA NextGivesUp == ASSUME WebhookAssumption, GivesUpInv, [Next]_vars PROVE GivesUpInv'
<1>1. faults \in Nat /\ owner \in Nat
  BY DEF GivesUpInv, Counts
<1>2. OutboxInv' /\ RowTypes' /\ GivenUp' /\ OffTold' /\ Counts'
  BY <1>1, NextOutbox, NextRowTypes, NextGivenUp, NextCounts DEF GivesUpInv
<1>3. \A e \in Event : Charged(e)'
  BY <1>1, NextCharged DEF GivesUpInv, ChargeInv
<1>4. faults' \in Nat
  BY <1>2 DEF Counts
<1>5. QED BY <1>2, <1>3, <1>4 DEF GivesUpInv, ChargeInv

LEMMA GivesUpEnough == ASSUME WebhookAssumption, GivesUpInv PROVE TypeOK /\ GivesUp
<1>1. TypeOK
  BY DEF GivesUpInv, OutboxInv, Typed, RowTypes, TypeOK
<1>2. ASSUME NEW e \in Event PROVE attempts[e] <= MaxAttempts + faults
  BY ChargeTypes DEF GivesUpInv, ChargeInv, Charged, Excess
<1>3. owner <= Cardinality(delivered) + faults
  <2>1. /\ Cardinality(Overtaken) \in Nat /\ Cardinality(delivered) \in Nat
        /\ owner \in Nat /\ faults \in Nat
        /\ owner + Cardinality(Overtaken) <= Cardinality(delivered) + faults
    BY FS_CardinalityType DEF GivesUpInv, Counts
  <2>2. QED BY <2>1
<1>4. TriesBounded /\ OwnerTold
  BY <1>2, <1>3 DEF TriesBounded, OwnerTold, GivesUpInv, OffTold
<1>5. QED BY <1>1, <1>4 DEF GivesUp

\* Every variable keeps its type: no row is hidden, delivered or accepted that was
\* not stored.
THEOREM OutboxTypes == Spec => []TypeOK
<1>1. Init => GivesUpInv
  BY InitGivesUp, WebhookAssumption
<1>2. GivesUpInv /\ [Next]_vars => GivesUpInv'
  BY NextGivesUp, WebhookAssumption
<1>3. GivesUpInv => TypeOK
  BY GivesUpEnough, WebhookAssumption
<1>4. QED BY <1>1, <1>2, <1>3, PTL DEF Spec

\* A row is tried MaxAttempts times and once more for each fault at most, whatever
\* the order in which overlapping attempts write their outcomes, and the owner of a
\* webhook that was turned off is told (onFailure).
THEOREM OutboxGivesUp == Spec => []GivesUp
<1>1. Init => GivesUpInv
  BY InitGivesUp, WebhookAssumption
<1>2. GivesUpInv /\ [Next]_vars => GivesUpInv'
  BY NextGivesUp, WebhookAssumption
<1>3. GivesUpInv => GivesUp
  BY GivesUpEnough, WebhookAssumption
<1>4. QED BY <1>1, <1>2, <1>3, PTL DEF Spec

\* However slow its claims and its writes, and whoever restarts, no more POSTs of a
\* row are under way together than one and the leases that ended under their
\* attempts (claimDueWebhookDeliveries' lease against deliverOne's concurrent ticks).
THEOREM PostsApart == Spec => []OnePostPerLease
<1> DEFINE Inv == GivesUpInv /\ OverrunInv
<1>1. Init => Inv
  <2> SUFFICES ASSUME Init PROVE Inv
    OBVIOUS
  <2>1. GivesUpInv
    BY InitGivesUp, WebhookAssumption
  <2>2. ASSUME NEW e \in Event PROVE Permitted(e)
    <3>1. Open(e) = {} /\ Free(e) \in {0, 1} /\ overruns[e] = 0
      BY <2>2 DEF Init, Open, HasOpen, Free
    <3>2. Cardinality(Open(e)) = 0
      BY <3>1, FS_EmptySet
    <3>3. QED BY <3>1, <3>2 DEF Permitted
  <2>3. overruns \in [Event -> Nat]
    BY DEF Init
  <2>4. QED BY <2>1, <2>2, <2>3 DEF OverrunInv
<1>2. Inv /\ [Next]_vars => Inv'
  <2> SUFFICES ASSUME Inv, [Next]_vars PROVE Inv'
    OBVIOUS
  <2>1. GivesUpInv'
    BY NextGivesUp, WebhookAssumption
  <2>2. \A e \in Event : Permitted(e)'
    BY NextPermitted DEF GivesUpInv
  <2>3. (overruns \in [Event -> Nat])'
    BY <2>1 DEF GivesUpInv, RowTypes
  <2>4. QED BY <2>1, <2>2, <2>3 DEF OverrunInv
<1>3. Inv => OnePostPerLease
  <2> SUFFICES ASSUME Inv, NEW e \in Event PROVE Cardinality(Posting(e)) <= 1 + overruns[e]
    BY DEF OnePostPerLease
  <2>1. Posting(e) \subseteq Open(e)
    BY DEF Posting, Open, HasOpen, Unsettled
  <2>2. /\ IsFiniteSet(Open(e)) /\ Cardinality(Open(e)) \in Nat /\ Free(e) \in {0, 1}
        /\ overruns[e] \in Nat
    BY OpenFinite DEF GivesUpInv, OverrunInv
  <2>3. Cardinality(Posting(e)) <= Cardinality(Open(e)) /\ Cardinality(Posting(e)) \in Nat
    BY <2>1, <2>2, Fewer
  <2>4. QED BY <2>2, <2>3 DEF OverrunInv, Permitted
<1>4. QED
  BY <1>1, <1>2, <1>3, PTL DEF Spec

=============================================================================
