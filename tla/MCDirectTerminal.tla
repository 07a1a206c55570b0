-------------------------- MODULE MCDirectTerminal --------------------------
(* Model checking of DirectTerminal: what a command prints and returns. *)
EXTENDS DirectTerminal

(* With and without a final newline, and a line in the middle. *)
MCOutputs == {<<>>, <<"x", "n">>, <<"x", "n", "x">>}

TwoDigits == {<<"1", "2">>}
=============================================================================
