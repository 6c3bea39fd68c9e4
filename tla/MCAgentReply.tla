---------------------------- MODULE MCAgentReply ----------------------------
(* Instances of AgentReply for TLC. *)
EXTENDS AgentReply

CONSTANTS alice, bob

Two == {alice, bob}

\* Prompts that wait for each other and for PostgreSQL, without failures.
Calm == [turns |-> MaxTurns, deltas |-> MaxDeltas, faults |-> 0, autonomous |-> FALSE,
         overlap |-> FALSE, resend |-> FALSE, images |-> FALSE, tail |-> TRUE, slow |-> FALSE]

\* No reply ends in the middle of a window.
Steady == [Calm EXCEPT !.tail = FALSE]

\* Three prompts at once.
Crowded == [Steady EXCEPT !.deltas = 1, !.overlap = TRUE]

\* Prompts that wait for each other, slow inserts, and an outage or a failed insert.
Failing == [Calm EXCEPT !.turns = 2, !.faults = 1, !.slow = TRUE]

\* Two prompts at once and short replies, with a failure.
Colliding == [Failing EXCEPT !.deltas = 1, !.overlap = TRUE]

\* The same in a session that a schedule opened.
Scheduled == [Colliding EXCEPT !.autonomous = TRUE]

\* Nobody waits at all, and the cybo sends images.
Hurried == [Calm EXCEPT !.turns = 2, !.overlap = TRUE, !.resend = TRUE, !.images = TRUE]

\* The same with a failure, and short replies.
Unlucky == [Hurried EXCEPT !.deltas = 1, !.faults = 1]

AllSituations == {Calm, Steady, Crowded, Failing, Colliding, Scheduled, Hurried, Unlucky}
Slow == {[Calm EXCEPT !.slow = TRUE]}
=============================================================================
