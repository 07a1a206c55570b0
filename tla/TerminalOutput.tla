--------------------------- MODULE TerminalOutput ---------------------------
(***************************************************************************)
(* What a terminal prints for an exec, and how the client finds the        *)
(* command's output and exit code in it: find_sentinel_output and          *)
(* parse_exec_output of src/daemon.rs, parse_direct_exec_output of         *)
(* src/main.rs.                                                            *)
(***************************************************************************)
EXTENDS Integers, Sequences

(* Bytes.  A byte knows the command or terminal that printed it; "s" "t" is   *)
(* that command's sentinel (unique: a nanosecond timestamp), "q" stands for   *)
(* `echo '', "k" for the quote that closes it, "e" for an echoed command, "p" *)
(* for a prompt, "b" for output of a background process.                      *)

Digits == {"0", "1", "2", "7"}

Letters == {"e", "n", "q", "s", "t", "k", "x", "p", "b", "-"} \cup Digits

Bytes == [ch : Letters, of : Nat]

By(j, s) == [i \in 1 .. Len(s) |-> [ch |-> s[i], of |-> j]]

Sentinel(j) == By(j, <<"s", "t">>)

EchoCmd(j) == By(j, <<"q", "s", "t", "k">>)

(* What the terminal shows of an exec (the layout parse_exec_output expects). *)
Transcript(j, d) ==
    By(j, <<"e", "n", "q", "s", "t", "k", "n">> \o d.out \o <<"s", "t">> \o d.code \o <<"n", "p">>)

(* str::find and str::rfind as the set of positions to take the first or last of. *)
Min(S) == CHOOSE x \in S : \A y \in S : x <= y

Max(S) == CHOOSE x \in S : \A y \in S : x >= y

Occurrences(pat, s) ==
    {p \in 1 .. Len(s) : p + Len(pat) - 1 <= Len(s) /\ SubSeq(s, p, p + Len(pat) - 1) = pat}

Newlines(s) == {p \in 1 .. Len(s) : s[p].ch = "n"}

(* The sentinel followed by a digit; 0 is None.  The loop skips occurrences   *)
(* that are not, and they do not overlap.                                     *)
MutantEchoCounts(raw, j) ==
    LET found == Occurrences(Sentinel(j), raw) IN IF found = {} THEN 0 ELSE Min(found)
find_sentinel_output(raw, j) ==
    LET found == {p \in Occurrences(Sentinel(j), raw) :
                    p + 2 <= Len(raw) /\ raw[p + 2].ch \in Digits}
    IN  IF found = {} THEN 0 ELSE Min(found)

(* take_while(is_ascii_digit) from position p on. *)
DigitsFrom(raw, p) ==
    LET ends == {q \in p .. Len(raw) : raw[q].ch \notin Digits}
    IN  SubSeq(raw, p, IF ends = {} THEN Len(raw) ELSE Min(ends) - 1)

TrimEnd(s) ==
    LET kept == {p \in 1 .. Len(s) : s[p].ch # "n"} IN SubSeq(s, 1, IF kept = {} THEN 0 ELSE Max(kept))

Trim(s) ==
    LET kept == {p \in 1 .. Len(s) : s[p].ch # "n"}
    IN  IF kept = {} THEN <<>> ELSE SubSeq(s, Min(kept), Max(kept))

(* After the newline that ends the echoed echo command; 1 when there is none. *)
MutantOutputFromEcho(raw, j) ==
    LET echo == Occurrences(EchoCmd(j), raw) IN IF echo = {} THEN 1 ELSE Min(echo) + 4
OutputStart(raw, j) ==
    LET echo == Occurrences(EchoCmd(j), raw)
        nl == {p \in Newlines(raw) : echo # {} /\ p >= Min(echo)}
    IN  IF nl = {} THEN 1 ELSE Min(nl) + 1

SentinelLineStart(raw, pos) ==
    LET nl == {p \in Newlines(raw) : p < pos} IN IF nl = {} THEN 1 ELSE Max(nl) + 1

(* (stdout, exit code); the empty code stands for -1. *)
parse_exec_output(raw, j) ==
    LET pos == find_sentinel_output(raw, j)
    IN  IF pos = 0
        THEN [stdout |-> Trim(raw), code |-> <<>>]
        ELSE [stdout |-> TrimEnd(SubSeq(raw, OutputStart(raw, j), SentinelLineStart(raw, pos) - 1)),
              code |-> DigitsFrom(raw, pos + 2)]

-----------------------------------------------------------------------------
(* src/main.rs has a copy of the search ... *)
find_direct_sentinel_output(raw, j) == find_sentinel_output(raw, j)

(* ... and a parser of its own: of the lines before the sentinel it drops those *)
(* that contain the echo command, and keeps all others.                         *)
LineStart(s, p) == SentinelLineStart(s, p)

(* The characters of s at the positions in S, in their order. *)
Picked(s, S) ==
    LET upto[p \in 0 .. Len(s)] ==
          IF p = 0 THEN <<>> ELSE IF p \in S THEN Append(upto[p - 1], s[p]) ELSE upto[p - 1]
    IN  upto[Len(s)]

MutantFromEcho(s, j) ==
    LET echo == Occurrences(EchoCmd(j), s)
        dropped == {p \in DOMAIN s : \E o \in echo : p >= LineStart(s, o) /\ s[p].ch # "n"}
    IN  Picked(s, DOMAIN s \ dropped)
KeptLines(s, j) ==
    LET echo == Occurrences(EchoCmd(j), s)
        dropped == {p \in DOMAIN s : \E o \in echo : LineStart(s, p) = LineStart(s, o)}
    IN  Picked(s, DOMAIN s \ dropped)

parse_direct_exec_output(raw, j) ==
    LET pos == find_direct_sentinel_output(raw, j)
    IN  IF pos = 0
        THEN [stdout |-> Trim(raw), code |-> <<>>]
        ELSE [stdout |-> Trim(KeptLines(SubSeq(raw, 1, pos - 1), j)), code |-> DigitsFrom(raw, pos + 2)]

-----------------------------------------------------------------------------
(* How the text of a terminal can be described.                               *)

(* The first byte of the sentinel. *)
Mark(j) == [ch |-> "s", of |-> j]

(* Nothing in it is a command's. *)
OnlyNoise(text) == \A i \in DOMAIN text : text[i].of = 0

(* The transcript is in it, in one piece behind the first k bytes, and nothing *)
(* else is a command's.                                                        *)
LiesBehind(text, k, transcript) ==
    /\ k + Len(transcript) <= Len(text)
    /\ \A i \in DOMAIN text : i \notin k + 1 .. k + Len(transcript) => text[i].of = 0
    /\ \A i \in 1 .. Len(transcript) : text[k + i] = transcript[i]

=============================================================================
