----------------------------- MODULE MCAgentRun -----------------------------
(* Instances of AgentRun for TLC. *)
EXTENDS AgentRun

\* Cancellations that wait for what they would disturb, with a background task
\* and failures of the process.
Orderly == [runs |-> 3, stops |-> 2, tasks |-> 1, faults |-> 2,
            early |-> FALSE, overlap |-> FALSE, late |-> FALSE]

\* Everybody does what they want, when they want.
Wild == [runs |-> 2, stops |-> 2, tasks |-> 0, faults |-> 1,
         early |-> TRUE, overlap |-> TRUE, late |-> TRUE]

\* Background tasks that end while their predecessor's turn is interrupted.
Restless == [runs |-> 2, stops |-> 0, tasks |-> 2, faults |-> 0,
             early |-> FALSE, overlap |-> FALSE, late |-> TRUE]

All == {Orderly, Wild, Restless}
=============================================================================
