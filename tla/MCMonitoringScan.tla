-------------------------- MODULE MCMonitoringScan --------------------------
(* MonitoringScan with its symmetries, for the safety runs. *)
EXTENDS MonitoringScan, TLC

Symmetry == Permutations(Scanners) \cup Permutations(Users) \cup Permutations(Repos)
            \cup Permutations(Watches) \cup Permutations(Releases) \cup Permutations(Commits)
=============================================================================
