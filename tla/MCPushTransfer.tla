--------------------------- MODULE MCPushTransfer ---------------------------
(* Model checking of PushTransfer; the sizes are scaled down in the cfg. *)
EXTENDS PushTransfer
=============================================================================
