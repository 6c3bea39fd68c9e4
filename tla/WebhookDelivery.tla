-------------------------- MODULE WebhookDelivery --------------------------
(***************************************************************************)
(* Outgoing webhooks: an event of a channel is stored as one outbox row    *)
(* per webhook, and the runners of the relay instances (and of a solo      *)
(* daemon) claim due rows, POST them, and write the outcome back one       *)
(* awaited statement at a time.  PostgreSQL is all they share: the claim   *)
(* hides a row for a lease of 60s, and no later write looks whose turn     *)
(* it is.  After MaxAttempts failures the row is given up, the webhook is  *)
(* turned off and its owner is told.                                       *)
(*                                                                         *)
(* One webhook is enough: rows of different webhooks share nothing.  Time  *)
(* is abstracted to what a row's next_retry_at means: due, or hidden by a  *)
(* lease or a backoff.  A lease runs from the clock read before the claim, *)
(* and nothing bounds a statement: it may end at any point of its attempt, *)
(* the POST included, when the claim or a later write is slow.             *)
(***************************************************************************)
EXTENDS Integers, FiniteSets

CONSTANTS
  Runner,       \* the processes with a WebhookDeliveryRunner
  Event,        \* event ids: an event type and a message
  MaxAttempts,  \* MAX_ATTEMPTS
  MaxHappen,    \* bound: how often an event id happens (an edit is repeated)
  MaxToggles,   \* bound: the user turns the webhook on and off, or deletes it
  MaxFaults     \* bound: failed and slow statements, restarts, and those of the user

ASSUME WebhookAssumption ==
  MaxAttempts \in Nat \ {0} /\ MaxHappen \in Nat /\ MaxToggles \in Nat /\ MaxFaults \in Nat

VARIABLES
  gone,       \* the row of outgoing_webhooks was deleted
  active,     \* its is_active, and not gone
  stored,     \* webhook_outbox: the event ids it has a row for
  attempts,   \* [event -> attempts]
  hidden,     \* rows whose next_retry_at lies ahead
  delivered,  \* rows with a delivered_at
  enqueues,   \* events whose enqueueWebhookEvent has read the webhooks and not yet written
  jobs,       \* [runner -> deliverOne calls of its tick]
  happened,   \* [event -> times it happened]
  accepted,   \* events the receiver answered with a 2xx
  owner,      \* direct messages the owner got: the webhook was turned off
  overruns,   \* history: [event -> leases that ended under their attempt]
  toggles, faults

postgres == <<gone, active, stored, attempts, hidden, delivered>>
world == <<happened, accepted, owner, overruns>>
bounds == <<toggles, faults>>
vars == <<postgres, enqueues, jobs, world, bounds>>

Job == [event : Event, attempt : Nat,
        at : {"posting", "succeeded", "failed", "deactivating", "notifying"}]

Init ==
  /\ gone = FALSE /\ active = TRUE /\ stored = {}
  /\ attempts = [e \in Event |-> 0]
  /\ hidden = {} /\ delivered = {}
  /\ enqueues = {} /\ jobs = [w \in Runner |-> {}]
  /\ happened = [e \in Event |-> 0] /\ accepted = {} /\ owner = 0
  /\ overruns = [e \in Event |-> 0]
  /\ toggles = 0 /\ faults = 0

Fault == faults + toggles < MaxFaults /\ faults' = faults + 1 /\ UNCHANGED toggles

------------------------------------------------------------------------------
(* Enqueueing.  (An operator named as a slip of the code would read is a      *)
(* mutant of the one after it.)                                               *)

\* A message is created, edited or deleted; enqueueWebhookEvent reads the active
\* webhooks.
Happens(e) ==
  /\ happened[e] < MaxHappen /\ ~gone
  /\ happened' = [happened EXCEPT ![e] = @ + 1]
  /\ enqueues' = enqueues \cup (IF active THEN {e} ELSE {})
  /\ UNCHANGED <<postgres, jobs, accepted, owner, overruns, bounds>>

\* enqueueWebhookOutboxBatch: there is one row of an event id, and none can be written
\* for a webhook that is gone.
Enqueue(e) ==
  /\ e \in enqueues /\ enqueues' = enqueues \ {e}
  /\ stored' = IF gone THEN stored ELSE stored \cup {e}
  /\ UNCHANGED <<gone, active, attempts, hidden, delivered, jobs, world, bounds>>

EnqueueFails(e) ==
  /\ e \in enqueues /\ enqueues' = enqueues \ {e}
  /\ Fault
  /\ UNCHANGED <<postgres, jobs, world>>

------------------------------------------------------------------------------
(* The runner.                                                                *)

DueUnstored == Event \ (delivered \cup hidden)
DueUntilCap == {e \in stored \ (delivered \cup hidden) : attempts[e] < MaxAttempts}
Due == stored \ (delivered \cup hidden)

\* tick claims rows that are due, and nobody locks, and hides them for the lease;
\* it ends when the last of its deliveries has.
NoLease(batch) == hidden
Lease(batch) == hidden \cup batch

Tick(w) ==
  /\ jobs[w] = {} /\ active
  /\ \E batch \in SUBSET Due \ {{}} :
       /\ attempts' = [e \in Event |-> IF e \in batch THEN attempts[e] + 1 ELSE attempts[e]]
       /\ hidden' = Lease(batch)
       /\ jobs' = [jobs EXCEPT ![w] = {[event |-> e, attempt |-> attempts[e] + 1, at |-> "posting"]
                                         : e \in batch}]
  /\ UNCHANGED <<gone, active, stored, delivered, enqueues, world, bounds>>

Goes(w, j, to) == jobs' = [jobs EXCEPT ![w] = (@ \ {j}) \cup {[j EXCEPT !.at = to]}]
Ends(w, j) == jobs' = [jobs EXCEPT ![w] = @ \ {j}]

\* The POST ends: the receiver accepts and the answer arrives, or is lost, or the
\* receiver refuses, cannot be reached or is blocked.
Posted(w, j) ==
  /\ j.at = "posting"
  /\ \/ accepted' = accepted \cup {j.event} /\ Goes(w, j, "succeeded")
     \/ accepted' \in {accepted, accepted \cup {j.event}} /\ Goes(w, j, "failed")
  /\ UNCHANGED <<postgres, enqueues, happened, owner, overruns, bounds>>

\* onSuccess: markWebhookOutboxDelivered; the counters and the log that follow
\* decide nothing.
OnSuccess(w, j) ==
  /\ j.at = "succeeded"
  /\ delivered' = delivered \cup {j.event}
  /\ Ends(w, j)
  /\ UNCHANGED <<gone, active, stored, attempts, hidden, enqueues, world, bounds>>

CapOneEarly(j) == j.attempt + 1 >= MaxAttempts
CapReached(j) == j.attempt >= MaxAttempts

\* onFailure, with attempts left: rescheduleWebhookOutbox, the jitter from no
\* backoff at all to a long one.
Reschedule(w, j) ==
  /\ j.at = "failed" /\ ~CapReached(j)
  /\ hidden' \in {hidden \cup {j.event}, hidden \ {j.event}}
  /\ Ends(w, j)
  /\ UNCHANGED <<gone, active, stored, attempts, delivered, enqueues, world, bounds>>

\* onFailure at the cap: the row is given up, the webhook turned off, the owner told.
DeadLetter(w, j) ==
  /\ j.at = "failed" /\ CapReached(j)
  /\ delivered' = delivered \cup {j.event}
  /\ Goes(w, j, "deactivating")
  /\ UNCHANGED <<gone, active, stored, attempts, hidden, enqueues, world, bounds>>

\* applyWebhookDeliveryOutcome reports that it turned the webhook off, if there is one.
OffSilently(w, j) == Ends(w, j)
Off(w, j) == Goes(w, j, "notifying")

Deactivate(w, j) ==
  /\ j.at = "deactivating"
  /\ active' = FALSE
  /\ IF gone THEN Ends(w, j) ELSE Off(w, j)
  /\ UNCHANGED <<gone, stored, attempts, hidden, delivered, enqueues, world, bounds>>

NotifyOwner(w, j) ==
  /\ j.at = "notifying"
  /\ owner' = owner + 1
  /\ Ends(w, j)
  /\ UNCHANGED <<postgres, enqueues, happened, accepted, overruns, bounds>>

\* A statement or the message fails: deliverOne logs it and ends there.
WriteFails(w, j) ==
  /\ j.at # "posting" /\ Fault
  /\ Ends(w, j)
  /\ UNCHANGED <<postgres, enqueues, world>>

Deliver(w) ==
  \E j \in jobs[w] :
    Posted(w, j) \/ OnSuccess(w, j) \/ Reschedule(w, j) \/ DeadLetter(w, j) \/ Deactivate(w, j)
      \/ NotifyOwner(w, j)

------------------------------------------------------------------------------
(* Time, faults and the user.                                                 *)

Working(e) == \E w \in Runner : \E j \in jobs[w] : j.event = e /\ j.attempt = attempts[e]

\* A backoff ends, or the lease of an attempt whose outcome was lost.
BecomesDue(e) ==
  /\ e \in hidden /\ ~Working(e) /\ ~gone
  /\ hidden' = hidden \ {e}
  /\ UNCHANGED <<gone, active, stored, attempts, delivered, enqueues, jobs, world, bounds>>

\* The lease ends under its attempt: the claim was slow to come back, and the POST is
\* to be made or under way, or the outcome is slow to be written.
LeaseExpires(e) ==
  /\ e \in hidden /\ Working(e) /\ ~gone /\ Fault
  /\ hidden' = hidden \ {e}
  /\ overruns' = [overruns EXCEPT ![e] = @ + 1]
  /\ UNCHANGED <<gone, active, stored, attempts, delivered, enqueues, jobs, happened, accepted,
                 owner>>

Restart(w) ==
  /\ jobs[w] # {} /\ Fault
  /\ jobs' = [jobs EXCEPT ![w] = {}]
  /\ UNCHANGED <<postgres, enqueues, world>>

User ==
  /\ toggles < MaxToggles /\ faults + toggles < MaxFaults
  /\ toggles' = toggles + 1 /\ UNCHANGED faults

Toggle ==
  /\ ~gone /\ User
  /\ active' = ~active
  /\ UNCHANGED <<gone, stored, attempts, hidden, delivered, enqueues, jobs, world>>

\* Its rows go with the webhook.  They are kept here: nothing claims them any more,
\* and what a delivery under way writes to them nobody reads.
Delete ==
  /\ ~gone /\ User
  /\ gone' = TRUE /\ active' = FALSE
  /\ UNCHANGED <<stored, attempts, hidden, delivered, enqueues, jobs, world>>

Next ==
  \/ Toggle \/ Delete
  \/ \E e \in Event : Happens(e) \/ BecomesDue(e) \/ LeaseExpires(e)
  \/ \E e \in enqueues : Enqueue(e) \/ EnqueueFails(e)
  \/ \E w \in Runner :
       \/ Tick(w) \/ Restart(w)
       \/ \E j \in jobs[w] :
            \/ Posted(w, j) \/ OnSuccess(w, j) \/ Reschedule(w, j) \/ DeadLetter(w, j)
            \/ Deactivate(w, j) \/ NotifyOwner(w, j) \/ WriteFails(w, j)

Spec == Init /\ [][Next]_vars

\* The host's interval keeps ticking, every call ends, time passes.
Fairness ==
  /\ WF_vars(\E e \in enqueues : Enqueue(e))
  /\ \A w \in Runner : WF_vars(Tick(w)) /\ WF_vars(Deliver(w))
  /\ \A e \in Event : WF_vars(BecomesDue(e))

FairSpec == Spec /\ Fairness

------------------------------------------------------------------------------
(* Properties.                                                                *)

\* Every variable has its type.
TypeOK ==
  /\ gone \in BOOLEAN /\ active \in (IF gone THEN {FALSE} ELSE BOOLEAN) /\ stored \subseteq Event
  /\ attempts \in [Event -> Nat]
  /\ hidden \subseteq stored /\ delivered \subseteq stored
  /\ enqueues \subseteq Event
  /\ jobs \in [Runner -> SUBSET Job]
  /\ happened \in [Event -> 0..MaxHappen] /\ accepted \subseteq stored
  /\ owner \in Nat /\ overruns \in [Event -> Nat]
  /\ toggles \in 0..MaxToggles /\ faults \in 0..MaxFaults

\* The attempts of e that are in their POST.
Posting(e) ==
  {n \in 1..attempts[e] : \E w \in Runner : \E j \in jobs[w] :
                            j.event = e /\ j.attempt = n /\ j.at = "posting"}

\* "exactly one tick (across relay instances) attempts each row"
\* (webhook-delivery-runner.ts:19), as far as it goes: each lease that ended under
\* its attempt lets one more POST of the row be under way, and nothing else does,
\* whatever overtaken attempts write and whoever restarts.
OnePostPerLease == \A e \in Event : Cardinality(Posting(e)) <= 1 + overruns[e]

\* A row is tried MaxAttempts times, and once more at most for every outcome that
\* was lost or late: the cap is a bound although it is read before the POST.
TriesBounded == \A e \in Event : attempts[e] <= MaxAttempts + faults

\* The owner of a webhook the runner turned off is told, but for a failure just then,
\* and no more often than once for each event given up, or twice for a late outcome.
OwnerTold ==
  /\ ~active /\ toggles = 0 /\ faults = 0 =>
       owner > 0 \/ \E w \in Runner : \E j \in jobs[w] : j.at = "notifying"
  /\ owner <= Cardinality(delivered) + faults

\* Giving up comes in time and is not silent.
GivesUp == TriesBounded /\ OwnerTold

\* The outbox keeps its promise: at least once, or MaxAttempts tries.
Promise == INSTANCE Outbox WITH tries <- attempts, settled <- delivered
KeepsPromise == Promise!Spec

\* A stored event is done with in the end, unless the webhook stays off.
Settles == \A e \in Event : e \in stored ~> (e \in delivered \/ ~active)
=============================================================================
