-------------------------- MODULE MCConnectionSetup --------------------------
(* Instances of ConnectionSetup for TLC: its constants are numbers, given in
   the configurations.  Two servers have attempts that cross, peers that are
   late and sweeps that repeat. *)
EXTENDS ConnectionSetup
=============================================================================
