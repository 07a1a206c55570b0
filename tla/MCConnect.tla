----------------------------- MODULE MCConnect -----------------------------
(* Model checking of Connect: two relays, one of them the configured one. *)
EXTENDS Connect

CONSTANTS h1, h2

TwoHosts == {h1, h2}

RelayWithoutPort == [host |-> h1, port |-> None]
=============================================================================
