---------------------------- MODULE MCRelayServing ----------------------------
(* Instances of RelayServing for TLC. *)
EXTENDS RelayServing, TLC

CONSTANTS d1, d2, o1, o2

TwoOwners == d1 :> o1 @@ d2 :> o2
OneOwner == [d \in Daemon |-> o1]

Symmetry == Permutations(Socket) \cup Permutations(Workspace)
===============================================================================
