---------------------------- MODULE MCScheduling ----------------------------
(* Instances of Scheduling for TLC. *)
EXTENDS Scheduling, TLC

ThreadSymmetry == Permutations(Threads)
=============================================================================
