----------------------------- MODULE MCCapture -----------------------------
(***************************************************************************)
(* Capture with a screen that is resized while captures run.  The regions  *)
(* put each axis at its edges: negative, zero and last pixel; widths that  *)
(* are refused, that fit, that do not, and that overflow a u32 together    *)
(* with a negative offset.                                                 *)
(***************************************************************************)
EXTENDS Capture

MCScreenSizes == <<[w |-> 3, h |-> 2], [w |-> 2, h |-> 3]>>

Spans == {<<-8, 7>>, <<-1, 1>>, <<-1, 2>>, <<-1, 3>>, <<0, 0>>, <<0, 2>>, <<1, 2>>, <<2, 1>>, <<7, 7>>}

MCRequests ==
  {[region |-> <<>>, format |-> f] : f \in {"png", "jpg"}}
  \cup {[region |-> <<[x |-> s[1], y |-> 0, w |-> s[2], h |-> 1]>>, format |-> "png"] : s \in Spans}
  \cup {[region |-> <<[x |-> 1, y |-> s[1], w |-> 1, h |-> s[2]]>>, format |-> "jpg"] : s \in Spans}

\* Every length modulo 3, with bytes whose bits straddle the characters.
MCEncodings == {<<255>>, <<3, 240>>, <<252, 15, 193>>, <<0, 62, 255, 191>>, <<66, 1, 128, 63, 254>>}
=============================================================================
