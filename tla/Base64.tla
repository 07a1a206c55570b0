------------------------------- MODULE Base64 -------------------------------
(***************************************************************************)
(* base64_encode and base64_decode of src/capture.rs, by which the daemon  *)
(* hands the bytes of a screenshot to the front end inside a JSON reply.   *)
(* Characters are their ASCII codes.                                       *)
(***************************************************************************)
EXTENDS Integers, Sequences

Byte == 0..255

ALPHABET(v) ==
  CASE v < 26 -> 65 + v
    [] v \in 26..51 -> 97 + (v - 26)
    [] v \in 52..61 -> 48 + (v - 52)
    [] v = 62 -> 43
    [] v = 63 -> 47

Pad == 61

\* slice::chunks: pieces of k elements, the last one with what is left.
chunks(s, k) ==
  [g \in 1..(Len(s) + k - 1) \div k |-> SubSeq(s, k * (g - 1) + 1, IF k * g <= Len(s) THEN k * g ELSE Len(s))]

\* What a loop over pieces has pushed to `out' at its end.
Pushed(pieces) ==
  LET out[g \in 0..Len(pieces)] == IF g = 0 THEN <<>> ELSE out[g - 1] \o pieces[g] IN out[Len(pieces)]

\* Three bytes as four numbers of six bits.
Sextets(b0, b1, b2) == <<b0 \div 4, (b0 % 4) * 16 + b1 \div 16, (b1 % 16) * 4 + b2 \div 64, b2 % 64>>

\* The four characters of one to three bytes.
MutantEncodeChunk(chunk) ==
  LET v == Sextets(chunk[1], IF Len(chunk) > 1 THEN chunk[2] ELSE 0, IF Len(chunk) > 2 THEN chunk[3] ELSE 0)
  IN  [i \in 1..4 |-> IF i > 2 /\ Len(chunk) < 2 THEN Pad ELSE ALPHABET(v[i])]
EncodeChunk(chunk) ==
  LET v == Sextets(chunk[1], IF Len(chunk) > 1 THEN chunk[2] ELSE 0, IF Len(chunk) > 2 THEN chunk[3] ELSE 0)
  IN  [i \in 1..4 |-> IF Len(chunk) < i - 1 THEN Pad ELSE ALPHABET(v[i])]

base64_encode(input) ==
  LET groups == chunks(input, 3) IN Pushed([g \in DOMAIN groups |-> EncodeChunk(groups[g])])

\* The value of a character, or -1 for one that is refused.
val(c) ==
  CASE c \in 65..90 -> c - 65
    [] c \in 97..122 -> c - 97 + 26
    [] c \in 48..57 -> c - 48 + 52
    [] c = 43 -> 62
    [] c = 47 -> 63
    [] OTHER -> -1

\* The number four values of six bits make, and its three bytes.
Packed(v) == v[1] * 262144 + v[2] * 4096 + v[3] * 64 + v[4]

Octets(n) == <<(n \div 65536) % 256, (n \div 256) % 256, n % 256>>

\* The bytes of four characters, of which the last two may be padding; none
\* when a character is refused.  A pad of 3 or 4 is refused as a character.
DecodeChunk(chunk) ==
  LET v == [i \in 1..4 |-> IF i > 2 /\ chunk[i] = Pad THEN 0 ELSE val(chunk[i])]
      pad == IF chunk[4] # Pad THEN 0 ELSE IF chunk[3] # Pad THEN 1 ELSE 2
  IN  IF \E i \in 1..4 : v[i] < 0 THEN <<>> ELSE <<SubSeq(Octets(Packed(v)), 1, 3 - pad)>>

base64_decode(input) ==
  LET groups == chunks(input, 4)
      decoded == [g \in DOMAIN groups |-> DecodeChunk(groups[g])]
  IN  IF Len(input) % 4 # 0 \/ \E g \in DOMAIN groups : decoded[g] = <<>>
      THEN <<>>
      ELSE <<Pushed([g \in DOMAIN groups |-> decoded[g][1]])>>

=============================================================================
