---- MODULE MCSendOutbox ----
(* In one channel two messages and two faults, or one message with two retries   *)
(* and a fault; between two channels one message with two faults or a retry.     *)
EXTENDS SendOutbox
Here == {CHOOSE c \in Channel : TRUE}
MCBudgets == {[channels |-> Here, sends |-> 2, retries |-> 0, faults |-> 2],
              [channels |-> Here, sends |-> 1, retries |-> 2, faults |-> 1],
              [channels |-> Channel, sends |-> 1, retries |-> 0, faults |-> 2],
              [channels |-> Channel, sends |-> 1, retries |-> 1, faults |-> 0]}
====
