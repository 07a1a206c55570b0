------------------------------ MODULE MCDaemon ------------------------------
(* Two clients, so that one waits while the other is served. *)
EXTENDS Daemon, TLC

ClientSymmetry == Permutations(Clients)
=============================================================================
