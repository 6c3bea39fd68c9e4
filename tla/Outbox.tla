------------------------------- MODULE Outbox -------------------------------
(* What the webhook outbox promises of the events stored in it: an event is   *)
(* given up or done with only after its receiver accepted it or after         *)
(* MaxAttempts tries, and is not tried again from then on.                    *)
EXTENDS Integers

CONSTANTS Event, MaxAttempts

VARIABLES
  stored,    \* events in the outbox
  tries,     \* [event -> attempts begun]
  accepted,  \* events the receiver answered with a 2xx
  settled    \* events the outbox is done with

vars == <<stored, tries, accepted, settled>>

Init == stored = {} /\ tries = [e \in Event |-> 0] /\ accepted = {} /\ settled = {}

Store(e) ==
  /\ stored' = stored \cup {e}
  /\ UNCHANGED <<tries, accepted, settled>>

\* One tick begins several attempts.
Attempt(batch) ==
  /\ batch \subseteq stored \ settled
  /\ tries' = [e \in Event |-> IF e \in batch THEN tries[e] + 1 ELSE tries[e]]
  /\ UNCHANGED <<stored, accepted, settled>>

Accept(e) ==
  /\ e \in stored /\ tries[e] > 0
  /\ accepted' = accepted \cup {e}
  /\ UNCHANGED <<stored, tries, settled>>

Settle(e) ==
  /\ e \in accepted \/ (e \in stored /\ tries[e] >= MaxAttempts)
  /\ settled' = settled \cup {e}
  /\ UNCHANGED <<stored, tries, accepted>>

Next ==
  \/ \E e \in Event : Store(e) \/ Accept(e) \/ Settle(e)
  \/ \E batch \in SUBSET Event : Attempt(batch)

Spec == Init /\ [][Next]_vars
=============================================================================
