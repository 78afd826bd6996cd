-------------------------- MODULE MCSearchRunQueue --------------------------
(* SearchRunQueue with its symmetries, for the safety runs. *)
EXTENDS SearchRunQueue, TLC

Symmetry == Permutations(Workers) \cup Permutations(Clients)
            \cup Permutations(Runs) \cup Permutations(Ops)
=============================================================================
