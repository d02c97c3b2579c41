----------------------------- MODULE MCStaging -----------------------------
(* Instances of Staging for TLC: one client per process, as in bt. *)
EXTENDS Staging, TLC

OwnProcess == [c \in Clients |-> c]

Symmetric == Permutations(Files) \cup Permutations(Blocks) \cup Permutations(Clients)
============================================================================
