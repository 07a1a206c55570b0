--------------------------- MODULE MCExecTerminal ---------------------------
(* Model checking of ExecTerminal: what commands print and return. *)
EXTENDS ExecTerminal

(* A complete line and one without an end. *)
LineOutputs == {<<"x", "n", "x">>}

(* As short as can be cut. *)
TwoDigits == {<<"1", "2">>}
=============================================================================
