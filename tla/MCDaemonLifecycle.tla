------------------------- MODULE MCDaemonLifecycle -------------------------
(* Model checking of DaemonLifecycle. *)
EXTENDS DaemonLifecycle
=============================================================================
