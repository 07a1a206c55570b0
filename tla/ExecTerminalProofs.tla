------------------------- MODULE ExecTerminalProofs -------------------------
(***************************************************************************)
(* Proofs about ExecTerminal: that an exec completes with the end of its   *)
(* own command and returns what that command printed, for any number of    *)
(* jobs and any output.                                                    *)
(***************************************************************************)
EXTENDS ExecTerminal, TerminalOutputProofs

-----------------------------------------------------------------------------
(* Texts that go on.                                                          *)

LEMMA JobsAreNat == Jobs \subseteq Nat
  BY JobsAssumption DEF Jobs

(* The first n bytes are kept and what follows is neither sentinel nor digit. *)
Trails(n, text, more) ==
    /\ n \in 0 .. Len(text) /\ n <= Len(more)
    /\ \A p \in 1 .. n : more[p] = text[p]
    /\ \A p \in n + 1 .. Len(more) : more[p].ch \notin Digits \cup {"s"}

LEMMA TrailsUnmarked ==
  ASSUME NEW text \in Seq(Bytes), NEW more \in Seq(Bytes), NEW n, Trails(n, text, more),
         NEW j, Unmarked(text, j)
  PROVE  Unmarked(more, j)
<1> SUFFICES ASSUME NEW p \in 1 .. Len(more), more[p] = Mark(j) PROVE FALSE
  BY Zenon DEF Unmarked
<1>1. more[p].ch = "s"
  BY DEF Mark
<1>2. n \in Nat /\ Len(more) \in Nat /\ Len(text) \in Nat /\ n <= Len(text)
  BY DEF Trails
<1>3. p \in 1 .. n
  BY <1>1, <1>2 DEF Trails
<1> QED
  BY <1>2, <1>3 DEF Trails, Unmarked

(* Where a text agrees with another that is h bytes shorter at the front, a   *)
(* sentinel of the one is as good as the sentinel of the other.               *)
LEMMA CodeShifts ==
  ASSUME NEW text \in Seq(Bytes), NEW more \in Seq(Bytes), NEW h \in {0, 1}, NEW p \in Nat, NEW d,
         CodeFollows(text, p - h, d),
         \A q \in p + 2 .. Len(more) : (\A k \in p + 2 .. q : more[k].ch \in Digits) =>
            q - h <= Len(text) /\ more[q] = text[q - h]
  PROVE  CodeFollows(more, p, d)
<1> SUFFICES ASSUME NEW q \in p + 2 .. Len(more), \A k \in p + 2 .. q : more[k].ch \in Digits
             PROVE  q - p - 1 \in 1 .. Len(d.code) /\ more[q] = d.code[q - p - 1]
  BY Zenon DEF CodeFollows
<1>1. Len(more) \in Nat /\ Len(text) \in Nat /\ h \in Nat /\ q \in Nat
  OBVIOUS
<1>2. q - h \in (p - h) + 2 .. Len(text) /\ more[q] = text[q - h]
  BY SMTT(60), <1>1
<1>3. ASSUME NEW k \in (p - h) + 2 .. q - h PROVE text[k].ch \in Digits
  <2>1. /\ k + h \in p + 2 .. q /\ (k + h) - h = k /\ k + h \in p + 2 .. Len(more)
        /\ \A l \in p + 2 .. k + h : l \in p + 2 .. q
    BY <1>1
  <2>2. \A l \in p + 2 .. k + h : more[l].ch \in Digits
    BY Zenon, <2>1
  <2>3. more[k + h] = text[(k + h) - h]
    BY Zenon, <2>1, <2>2
  <2> QED
    BY Zenon, <2>1, <2>3
<1>4. (q - h) - (p - h) - 1 \in 1 .. Len(d.code) /\ text[q - h] = d.code[(q - h) - (p - h) - 1]
  BY Zenon, <1>2, <1>3 DEF CodeFollows
<1>5. (q - h) - (p - h) - 1 = q - p - 1
  BY <1>1
<1> QED
  BY Zenon, <1>2, <1>4, <1>5

LEMMA OutputShifts ==
  ASSUME NEW text \in Seq(Bytes), NEW more \in Seq(Bytes), NEW h \in {0, 1}, NEW p \in Nat, NEW j, NEW d,
         d.out \in Seq(Bytes), OutputPrecedes(text, p - h, j, d),
         \A q \in p - Len(d.out) - 7 .. p : more[q] = text[q - h],
         \A q \in 1 .. p - Len(d.out) - 5 : more[q] = Mark(j) =>
            \E r \in 1 .. (p - h) - Len(d.out) - 5 : text[r] = Mark(j)
  PROVE  OutputPrecedes(more, p, j, d)
<1> DEFINE o == Len(d.out)
           start == (p - h) - o
           top == By(j, <<"e", "n", "q", "s", "t", "k", "n">>)
<1>1. /\ start > 7
      /\ \A i \in 1 .. 7 : text[start - 8 + i] = top[i]
      /\ \A i \in 1 .. o : text[start - 1 + i] = d.out[i]
      /\ \A q \in 1 .. start - 5 : text[q] # Mark(j)
  BY Zenon DEF OutputPrecedes
<1>2. o \in Nat /\ h \in Nat
  OBVIOUS
<1>3. \A q \in p - o - 7 .. p : more[q] = text[q - h]
  BY Zenon
<1>4. \A q \in 1 .. p - o - 5 : more[q] # Mark(j)
  BY Zenon, <1>1
<1> HIDE DEF o, top
<1>5. p - o > 7
  BY <1>1, <1>2
<1>6. ASSUME NEW i \in 1 .. 7 PROVE more[(p - o) - 8 + i] = top[i]
  <2>1. (p - o) - 8 + i \in p - o - 7 .. p /\ ((p - o) - 8 + i) - h = start - 8 + i
    BY <1>2
  <2> QED
    BY ZenonT(60), <1>1, <1>3, <2>1
<1>7. ASSUME NEW i \in 1 .. o PROVE more[(p - o) - 1 + i] = d.out[i]
  <2>1. (p - o) - 1 + i \in p - o - 7 .. p /\ ((p - o) - 1 + i) - h = start - 1 + i
    BY <1>2
  <2> QED
    BY ZenonT(30), <1>1, <1>3, <2>1
<1> QED
  BY Zenon, <1>4, <1>5, <1>6, <1>7 DEF OutputPrecedes, o, top

LEMMA TrailsFits ==
  ASSUME NEW text \in Seq(Bytes), NEW more \in Seq(Bytes), NEW n, Trails(n, text, more),
         NEW j, NEW d, d.out \in Seq(Bytes), Fits(text, j, d)
  PROVE  Fits(more, j, d)
<1> SUFFICES ASSUME NEW p \in 1 .. Len(more), more[p] = Mark(j), p + 2 <= Len(more),
                    more[p + 1] = [ch |-> "t", of |-> j], more[p + 2].ch \in Digits
             PROVE  EndsOutput(more, p, j, d)
  BY Zenon DEF Fits
<1>1. /\ n \in Nat /\ Len(more) \in Nat /\ Len(text) \in Nat /\ n <= Len(text) /\ n <= Len(more)
      /\ \A q \in 1 .. n : more[q] = text[q]
      /\ \A q \in n + 1 .. Len(more) : more[q].ch \notin Digits
  BY DEF Trails
<1>2. p \in Nat /\ p - 0 = p /\ p + 2 \in 1 .. n /\ p + 1 \in 1 .. n /\ p \in 1 .. n
  BY <1>1
<1>3. EndsOutput(text, p, j, d)
  BY SMTT(60), <1>1, <1>2 DEF Fits
<1>4. CodeFollows(more, p, d)
  <2>1. ASSUME NEW q \in p + 2 .. Len(more), \A k \in p + 2 .. q : more[k].ch \in Digits
        PROVE  q - 0 <= Len(text) /\ more[q] = text[q - 0]
    <3>1. q - 0 = q /\ q \in p + 2 .. q
      BY <1>2
    <3>2. q \in 1 .. n
      BY SMTT(60), <1>1, <1>2, <2>1, <3>1
    <3> QED
      BY <1>1, <3>1, <3>2
  <2>2. CodeFollows(text, p - 0, d)
    BY Zenon, <1>2, <1>3 DEF EndsOutput
  <2> QED
    BY ZenonT(30), <1>2, <2>1, <2>2, CodeShifts
<1>5. ASSUME \A k \in Strays(more, j) : k > p PROVE OutputPrecedes(more, p, j, d)
  <2>1. ASSUME NEW k \in Strays(text, j) PROVE k > p
    <3>1. PICK i \in 1 .. k : k \in 1 .. Len(text) /\ text[k].ch = "b" /\ text[i] = [ch |-> "e", of |-> j]
      BY ZenonT(30) DEF Strays
    <3>2. ASSUME k <= p PROVE FALSE
      <4>1. k \in 1 .. n /\ i \in 1 .. n /\ k \in 1 .. Len(more)
        BY <1>1, <1>2, <3>1, <3>2
      <4>2. more[k].ch = "b" /\ more[i] = [ch |-> "e", of |-> j]
        BY Zenon, <1>1, <3>1, <4>1
      <4>3. k \in Strays(more, j)
        BY Zenon, <4>1, <4>2 DEF Strays
      <4> QED
        BY <1>2, <1>5, <3>1, <3>2, <4>3
    <3> QED
      BY <1>2, <3>1, <3>2
  <2>2. OutputPrecedes(text, p, j, d)
    BY Zenon, <1>3, <2>1 DEF EndsOutput
  <2>3. Len(d.out) \in Nat /\ p - Len(d.out) > 7
    BY SMTT(60), <2>2 DEF OutputPrecedes
  <2>4. ASSUME NEW q \in p - Len(d.out) - 7 .. p PROVE more[q] = text[q - 0]
    <3>1. q \in 1 .. n /\ q - 0 = q
      BY <1>1, <1>2, <2>3
    <3> QED
      BY Zenon, <1>1, <3>1
  <2>5. ASSUME NEW q \in 1 .. p - Len(d.out) - 5, more[q] = Mark(j)
        PROVE  \E r \in 1 .. (p - 0) - Len(d.out) - 5 : text[r] = Mark(j)
    <3>1. q \in 1 .. n /\ q \in 1 .. (p - 0) - Len(d.out) - 5
      BY <1>1, <1>2, <2>3
    <3> QED
      BY ZenonT(30), <1>1, <2>5, <3>1
  <2>6. OutputPrecedes(text, p - 0, j, d)
    BY Zenon, <1>2, <2>2
  <2> QED
    BY ZenonT(30), <1>2, <2>4, <2>5, <2>6, OutputShifts
<1> QED
  BY Zenon, <1>4, <1>5 DEF EndsOutput

(* A byte of another program in between, after m bytes. *)
Inserted(m, text, more) ==
    /\ m \in 0 .. Len(text) /\ Len(more) = Len(text) + 1
    /\ \A k \in 1 .. m : more[k] = text[k]
    /\ more[m + 1].ch = "b"
    /\ \A k \in m + 2 .. Len(more) : more[k] = text[k - 1]

LEMMA InsertedUnmarked ==
  ASSUME NEW text \in Seq(Bytes), NEW more \in Seq(Bytes), NEW m, Inserted(m, text, more), NEW j, Unmarked(text, j)
  PROVE  Unmarked(more, j)
<1> SUFFICES ASSUME NEW p \in 1 .. Len(more), more[p] = Mark(j) PROVE FALSE
  BY Zenon DEF Unmarked
<1>1. m \in Nat /\ Len(text) \in Nat /\ m <= Len(text) /\ Len(more) = Len(text) + 1
  BY DEF Inserted
<1>2. more[p].ch = "s"
  BY DEF Mark
<1>3. CASE p \in 1 .. m
  <2>1. p \in 1 .. Len(text) /\ more[p] = text[p]
    BY <1>1, <1>3 DEF Inserted
  <2> QED
    BY Zenon, <2>1 DEF Unmarked
<1>4. CASE p = m + 1
  BY Zenon, <1>2, <1>4 DEF Inserted
<1>5. CASE p \in m + 2 .. Len(more)
  <2>1. p - 1 \in 1 .. Len(text) /\ more[p] = text[p - 1]
    BY <1>1, <1>5 DEF Inserted
  <2> QED
    BY Zenon, <2>1 DEF Unmarked
<1> QED
  BY <1>1, <1>3, <1>4, <1>5

(* Behind the sentinel it changes nothing before ... *)
LEMMA InsertedBehind ==
  ASSUME NEW text \in Seq(Bytes), NEW more \in Seq(Bytes), NEW m, Inserted(m, text, more),
         NEW j, NEW d, d.out \in Seq(Bytes), NEW p \in Nat, p > 0, p + 2 <= m, EndsOutput(text, p, j, d)
  PROVE  EndsOutput(more, p, j, d)
<1>1. /\ m \in Nat /\ Len(text) \in Nat /\ m <= Len(text) /\ Len(more) = Len(text) + 1 /\ Len(more) \in Nat
      /\ (\A k \in 1 .. m : more[k] = text[k]) /\ more[m + 1].ch = "b"
  BY DEF Inserted
<1>2. "b" \notin Digits /\ p - 0 = p
  BY DEF Digits
<1>4. CodeFollows(more, p, d)
  <2>1. ASSUME NEW q \in p + 2 .. Len(more), \A k \in p + 2 .. q : more[k].ch \in Digits
        PROVE  q - 0 <= Len(text) /\ more[q] = text[q - 0]
    <3>1. ASSUME q > m PROVE FALSE
      <4>1. m + 1 \in p + 2 .. q
        BY <1>1, <3>1
      <4> QED
        BY ZenonT(60), <1>1, <1>2, <2>1, <4>1
    <3>2. q \in 1 .. m /\ q - 0 = q
      BY <1>1, <3>1
    <3> QED
      BY <1>1, <3>2
  <2>2. CodeFollows(text, p - 0, d)
    BY Zenon, <1>2 DEF EndsOutput
  <2> QED
    BY Zenon, <2>1, <2>2, CodeShifts
<1>5. ASSUME \A k \in Strays(more, j) : k > p PROVE OutputPrecedes(more, p, j, d)
  <2>1. ASSUME NEW k \in Strays(text, j) PROVE k > p
    <3>1. PICK i \in 1 .. k : k \in 1 .. Len(text) /\ text[k].ch = "b" /\ text[i] = [ch |-> "e", of |-> j]
      BY Zenon DEF Strays
    <3>2. ASSUME k <= p PROVE FALSE
      <4>1. k \in 1 .. m /\ i \in 1 .. m /\ k \in 1 .. Len(more)
        BY SMTT(60), <1>1, <3>1, <3>2
      <4>2. more[k].ch = "b" /\ more[i] = [ch |-> "e", of |-> j]
        BY Zenon, <1>1, <3>1, <4>1
      <4>3. k \in Strays(more, j)
        BY Zenon, <4>1, <4>2 DEF Strays
      <4> QED
        BY SMTT(60), <1>5, <3>1, <3>2, <4>3
    <3> QED
      BY <3>1, <3>2
  <2>2. OutputPrecedes(text, p, j, d)
    BY Zenon, <2>1 DEF EndsOutput
  <2>3. Len(d.out) \in Nat /\ p - Len(d.out) > 7
    BY SMTT(60), <2>2 DEF OutputPrecedes
  <2>4. ASSUME NEW q \in p - Len(d.out) - 7 .. p PROVE more[q] = text[q - 0]
    <3>1. q \in 1 .. m /\ q - 0 = q
      BY <1>1, <2>3
    <3> QED
      BY Zenon, <1>1, <3>1
  <2>5. ASSUME NEW q \in 1 .. p - Len(d.out) - 5, more[q] = Mark(j)
        PROVE  \E r \in 1 .. (p - 0) - Len(d.out) - 5 : text[r] = Mark(j)
    <3>1. q \in 1 .. m /\ q \in 1 .. (p - 0) - Len(d.out) - 5
      BY <1>1, <2>3
    <3> QED
      BY Zenon, <1>1, <2>5, <3>1
  <2>6. OutputPrecedes(text, p - 0, j, d)
    BY Zenon, <1>2, <2>2
  <2> QED
    BY ZenonT(30), <2>4, <2>5, <2>6, OutputShifts
<1> QED
  BY Zenon, <1>4, <1>5 DEF EndsOutput

(* ... and in front of it, it strays into the output or lies before all of it. *)
LEMMA InsertedBefore ==
  ASSUME NEW text \in Seq(Bytes), NEW more \in Seq(Bytes), NEW m, Inserted(m, text, more),
         NEW j, NEW d, d.out \in Seq(Bytes), NEW p \in Nat, p > m + 1, p + 2 <= Len(more), EndsOutput(text, p - 1, j, d)
  PROVE  EndsOutput(more, p, j, d)
<1>1. /\ m \in Nat /\ Len(text) \in Nat /\ m <= Len(text) /\ Len(more) = Len(text) + 1 /\ Len(more) \in Nat
      /\ (\A k \in 1 .. m : more[k] = text[k]) /\ more[m + 1].ch = "b"
      /\ \A k \in m + 2 .. Len(more) : more[k] = text[k - 1]
  BY DEF Inserted
<1>4. CodeFollows(more, p, d)
  <2>1. ASSUME NEW q \in p + 2 .. Len(more), \A k \in p + 2 .. q : more[k].ch \in Digits
        PROVE  q - 1 <= Len(text) /\ more[q] = text[q - 1]
    BY SMTT(60), <1>1
  <2>2. CodeFollows(text, p - 1, d)
    BY Zenon DEF EndsOutput
  <2> QED
    BY Zenon, <2>1, <2>2, CodeShifts
<1>5. ASSUME \A k \in Strays(more, j) : k > p PROVE OutputPrecedes(more, p, j, d)
  <2>0. ASSUME NEW i \in 1 .. m, text[i] = [ch |-> "e", of |-> j] PROVE FALSE
    <3>1. m + 1 \in 1 .. Len(more) /\ i \in 1 .. m + 1 /\ more[i] = [ch |-> "e", of |-> j]
      BY <1>1, <2>0
    <3>2. m + 1 \in Strays(more, j)
      BY Zenon, <1>1, <3>1 DEF Strays
    <3> QED
      BY <1>1, <1>5, <3>2
  <2>1. ASSUME NEW k \in Strays(text, j) PROVE k > p - 1
    <3>1. PICK i \in 1 .. k : k \in 1 .. Len(text) /\ text[k].ch = "b" /\ text[i] = [ch |-> "e", of |-> j]
      BY Zenon DEF Strays
    <3>2. i > m /\ k > m
      BY <1>1, <2>0, <3>1
    <3>3. /\ k + 1 \in m + 2 .. Len(more) /\ i + 1 \in m + 2 .. Len(more) /\ i + 1 \in 1 .. k + 1 /\ k + 1 \in 1 .. Len(more)
          /\ (k + 1) - 1 = k /\ (i + 1) - 1 = i
      BY SMTT(30), <1>1, <3>1, <3>2
    <3>4. more[k + 1].ch = "b" /\ more[i + 1] = [ch |-> "e", of |-> j]
      BY ZenonT(30), <1>1, <3>1, <3>3
    <3>5. k + 1 \in Strays(more, j)
      BY Zenon, <3>3, <3>4 DEF Strays
    <3> QED
      BY <1>5, <3>1, <3>5
  <2>2. OutputPrecedes(text, p - 1, j, d)
    BY Zenon, <2>1 DEF EndsOutput
  <2> DEFINE o == Len(d.out)
             start == (p - 1) - o
             top == By(j, <<"e", "n", "q", "s", "t", "k", "n">>)
  <2>3. o \in Nat
    OBVIOUS
  <2>9. start > 7
    BY Zenon, <2>2 DEF OutputPrecedes
  <2>10. ASSUME NEW i \in 1 .. 7 PROVE text[start - 8 + i] = top[i]
    BY ZenonT(30), <2>2 DEF OutputPrecedes
  <2>4. top[1] = [ch |-> "e", of |-> j]
    BY DEF By
  <2> HIDE DEF o, top
  <2>5. text[start - 7] = [ch |-> "e", of |-> j]
    <3>1. start - 8 + 1 = start - 7 /\ 1 \in 1 .. 7
      BY <2>3
    <3> QED
      BY ZenonT(60), <2>10, <2>4, <3>1
  <2>11. m \in Nat /\ p \in Nat
    BY Zenon, <1>1
  <2>6. start - 7 > m
    BY SMTT(30), <2>0, <2>3, <2>5, <2>9, <2>11
  <2>7. ASSUME NEW q \in p - o - 7 .. p PROVE more[q] = text[q - 1]
    <3>1. q \in m + 2 .. Len(more)
      <4>1. p <= Len(more) /\ Len(more) \in Nat
        BY <1>1
      <4> QED
        BY SMTT(30), <2>3, <2>6, <2>11, <4>1
    <3> QED
      BY Zenon, <1>1, <3>1
  <2>8. ASSUME NEW q \in 1 .. p - o - 5, more[q] = Mark(j)
        PROVE  \E r \in 1 .. (p - 1) - o - 5 : text[r] = Mark(j)
    <3>0. more[q].ch = "s"
      BY <2>8 DEF Mark
    <3>1. CASE q \in 1 .. m
      <4>1. q \in 1 .. (p - 1) - o - 5
        BY <2>3, <2>6, <2>11, <3>1
      <4>2. text[q] = Mark(j)
        BY Zenon, <1>1, <2>8, <3>1
      <4> QED
        BY Zenon, <4>1, <4>2
    <3>2. CASE q = m + 1
      BY Zenon, <1>1, <3>0, <3>2
    <3>3. CASE q \in m + 2 .. Len(more)
      <4>1. q - 1 \in 1 .. (p - 1) - o - 5
        BY SMTT(30), <1>1, <2>3, <2>6, <2>11, <3>3
      <4>2. text[q - 1] = Mark(j)
        BY Zenon, <1>1, <2>8, <3>3
      <4> QED
        BY Zenon, <4>1, <4>2
    <3> QED
      BY SMTT(30), <1>1, <2>3, <3>1, <3>2, <3>3
  <2> QED
    BY ZenonT(30), <2>2, <2>7, <2>8, OutputShifts DEF o
<1> QED
  BY Zenon, <1>4, <1>5 DEF EndsOutput

LEMMA InsertedFits ==
  ASSUME NEW text \in Seq(Bytes), NEW more \in Seq(Bytes), NEW m, Inserted(m, text, more),
         NEW j, NEW d, d.out \in Seq(Bytes), Fits(text, j, d)
  PROVE  Fits(more, j, d)
<1> SUFFICES ASSUME NEW p \in 1 .. Len(more), more[p] = Mark(j), p + 2 <= Len(more),
                    more[p + 1] = [ch |-> "t", of |-> j], more[p + 2].ch \in Digits
             PROVE  EndsOutput(more, p, j, d)
  BY Zenon DEF Fits
<1>1. /\ m \in Nat /\ Len(text) \in Nat /\ m <= Len(text) /\ Len(more) = Len(text) + 1 /\ Len(more) \in Nat
      /\ (\A k \in 1 .. m : more[k] = text[k]) /\ more[m + 1].ch = "b"
      /\ \A k \in m + 2 .. Len(more) : more[k] = text[k - 1]
  BY DEF Inserted
<1>2. more[p].ch # "b" /\ more[p + 1].ch # "b" /\ more[p + 2].ch # "b"
  BY DEF Mark, Digits
<1>3. p \in Nat /\ p > 0 /\ (p + 2 <= m \/ p > m + 1)
  BY SMTT(60), <1>1, <1>2
<1>4. CASE p + 2 <= m
  <2>1. p \in 1 .. m /\ p + 1 \in 1 .. m /\ p + 2 \in 1 .. m /\ p \in 1 .. Len(text) /\ p + 2 <= Len(text)
    BY <1>1, <1>3, <1>4
  <2>2. EndsOutput(text, p, j, d)
    BY Zenon, <1>1, <2>1 DEF Fits
  <2> QED
    BY Zenon, <1>3, <1>4, <2>2, InsertedBehind
<1>5. CASE p > m + 1
  <2>1. /\ p \in m + 2 .. Len(more) /\ p + 1 \in m + 2 .. Len(more) /\ p + 2 \in m + 2 .. Len(more)
        /\ p - 1 \in 1 .. Len(text) /\ (p - 1) + 2 <= Len(text)
        /\ (p + 1) - 1 = (p - 1) + 1 /\ (p + 2) - 1 = (p - 1) + 2
    BY <1>1, <1>3, <1>5
  <2>2. text[p - 1] = Mark(j) /\ text[(p - 1) + 1] = [ch |-> "t", of |-> j] /\ text[(p - 1) + 2].ch \in Digits
    BY Zenon, <1>1, <2>1
  <2>3. EndsOutput(text, p - 1, j, d)
    BY Zenon, <2>1, <2>2 DEF Fits
  <2> QED
    BY ZenonT(60), <1>3, <1>5, <2>3, InsertedBefore
<1> QED
  BY ZenonT(60), <1>3, <1>4, <1>5
(* A text that goes on with T. *)
GoesOn(text, T, more) ==
    /\ Len(more) = Len(text) + Len(T)
    /\ \A i \in 1 .. Len(text) : more[i] = text[i]
    /\ \A i \in 1 .. Len(T) : more[Len(text) + i] = T[i]

(* The transcript of another job has no mark of this one ... *)
LEMMA OthersUnmarked ==
  ASSUME NEW text \in Seq(Bytes), NEW j, Unmarked(text, j), NEW T \in Seq(Bytes),
         \A i \in 1 .. Len(T) : T[i].of # j, NEW more \in Seq(Bytes), GoesOn(text, T, more)
  PROVE  Unmarked(more, j)
<1> SUFFICES ASSUME NEW p \in 1 .. Len(more), more[p] = Mark(j) PROVE FALSE
  BY Zenon DEF Unmarked
<1>1. Len(text) \in Nat /\ Len(T) \in Nat /\ more[p].of = j
  BY DEF Mark
<1>2. CASE p \in 1 .. Len(text)
  BY Zenon, <1>2 DEF GoesOn, Unmarked
<1>3. CASE p \notin 1 .. Len(text)
  <2>1. p - Len(text) \in 1 .. Len(T) /\ Len(text) + (p - Len(text)) = p
    BY <1>1, <1>3 DEF GoesOn
  <2>2. more[p] = T[p - Len(text)]
    BY Zenon, <2>1 DEF GoesOn
  <2> QED
    BY Zenon, <1>1, <2>1, <2>2
<1> QED
  BY Zenon, <1>2, <1>3

(* ... and its own fits. *)
LEMMA TranscriptFits ==
  ASSUME NEW text \in Seq(Bytes), NEW j \in Jobs, Unmarked(text, j),
         NEW out \in Seq({"x", "n"}), NEW code \in Seq(Digits), NEW T, LaidOut(T, j, out, code),
         NEW more \in Seq(Bytes), GoesOn(text, T, more)
  PROVE  Fits(more, j, [out |-> By(j, out), code |-> By(j, code)])
<1> DEFINE d == [out |-> By(j, out), code |-> By(j, code)]
           o == Len(out)
           c == Len(code)
           n == Len(text)
<1> SUFFICES ASSUME NEW p \in 1 .. Len(more), more[p] = Mark(j), p + 2 <= Len(more),
                    more[p + 1] = [ch |-> "t", of |-> j], more[p + 2].ch \in Digits
             PROVE  EndsOutput(more, p, j, d)
  BY ZenonT(60) DEF Fits
<1>1. o \in Nat /\ c \in Nat /\ n \in Nat /\ T \in Seq(Bytes) /\ Len(T) = 11 + o + c
  BY DEF LaidOut
<1>2. /\ Len(d.out) = o /\ \A i \in 1 .. o : d.out[i] = [ch |-> out[i], of |-> j]
      /\ Len(d.code) = c /\ \A i \in 1 .. c : d.code[i] = [ch |-> code[i], of |-> j]
  BY DEF By
<1>3. /\ T[1] = [ch |-> "e", of |-> j] /\ T[2] = [ch |-> "n", of |-> j] /\ T[3] = [ch |-> "q", of |-> j]
      /\ T[4] = [ch |-> "s", of |-> j] /\ T[5] = [ch |-> "t", of |-> j] /\ T[6] = [ch |-> "k", of |-> j]
      /\ T[7] = [ch |-> "n", of |-> j]
      /\ \A k \in 1 .. o : T[7 + k] = [ch |-> out[k], of |-> j]
      /\ \A k \in 1 .. c : T[9 + o + k] = [ch |-> code[k], of |-> j]
  BY Zenon DEF LaidOut
<1>4. /\ Len(more) = n + (11 + o + c)
      /\ \A i \in 1 .. n : more[i] = text[i]
      /\ \A i \in 1 .. 11 + o + c : more[n + i] = T[i]
  BY Zenon, <1>1 DEF GoesOn
<1>5. \A i \in 1 .. 11 + o + c : /\ T[i].ch = "s" => i = 4 \/ i = 8 + o
                                 /\ T[i].ch \in Digits => i \in 10 + o .. 9 + o + c
  <2> SUFFICES ASSUME NEW i \in 1 .. 11 + o + c
               PROVE  /\ T[i].ch = "s" => i = 4 \/ i = 8 + o
                      /\ T[i].ch \in Digits => i \in 10 + o .. 9 + o + c
    BY Zenon
  <2>1. i \in 1 .. Len(T)
    BY Zenon, <1>1
  <2>2. ReadsAs(T, i, j, out, code)
    BY Zenon, <2>1, TranscriptMarks, JobsAreNat
  <2> QED
    BY Zenon, <2>2 DEF ReadsAs
<1>6. \A i \in 1 .. n : text[i] # Mark(j)
  BY ZenonT(30) DEF Unmarked
<1>7. Mark(j) = [ch |-> "s", of |-> j]
  BY ZenonT(60) DEF Mark
<1>8. By(j, <<"e", "n", "q", "s", "t", "k", "n">>) =
        <<[ch |-> "e", of |-> j], [ch |-> "n", of |-> j],
          [ch |-> "q", of |-> j], [ch |-> "s", of |-> j], [ch |-> "t", of |-> j], [ch |-> "k", of |-> j],
          [ch |-> "n", of |-> j]>>
  BY DEF By
<1> HIDE DEF o, c, n, d
<1>9. p = n + 8 + o
  <2>1. p \notin 1 .. n
    BY ZenonT(60), <1>4, <1>6
  <2>2. p - n \in 1 .. 11 + o + c /\ n + (p - n) = p
    BY SMTT(30), <1>1, <1>4, <2>1
  <2>3. T[p - n] = Mark(j)
    BY ZenonT(60), <1>4, <2>2
  <2>4. p - n = 4 \/ p - n = 8 + o
    BY SMTT(30), <1>5, <1>7, <2>2, <2>3
  <2>5. ASSUME p - n = 4 PROVE FALSE
    <3>0. o \in Nat /\ c \in Nat /\ n \in Nat /\ p \in Nat
      BY SMTT(60), <1>1
    <3>1. p + 2 = n + 6 /\ 6 \in 1 .. 11 + o + c
      BY SMTT(30), <2>5, <3>0
    <3>2. more[p + 2].ch = "k"
      <4>1. more[n + 6] = T[6] /\ T[6].ch = "k"
        BY SMTT(60), <1>3, <1>4, <3>1
      <4> QED
        BY ZenonT(60), <3>1, <4>1
    <3> QED
      BY Zenon, <3>2 DEF Digits
  <2> QED
    BY <1>1, <2>2, <2>4, <2>5
<1> DEFINE start == p - Len(d.out)
<1>10. start = n + 8 /\ start > 7
  BY SMTT(30), <1>1, <1>2, <1>9
<1> HIDE DEF start
<1>11. \A i \in 1 .. 7 : more[start - 8 + i] = By(j, <<"e", "n", "q", "s", "t", "k", "n">>)[i]
  <2> SUFFICES ASSUME NEW i \in 1 .. 7
               PROVE  more[start - 8 + i] = By(j, <<"e", "n", "q", "s", "t", "k", "n">>)[i]
    BY Zenon
  <2>1. start - 8 + i = n + i /\ i \in 1 .. 11 + o + c
    BY <1>1, <1>10
  <2>2. more[start - 8 + i] = T[i]
    BY ZenonT(60), <1>4, <2>1
  <2>3. i = 1 \/ i = 2 \/ i = 3 \/ i = 4 \/ i = 5 \/ i = 6 \/ i = 7
    OBVIOUS
  <2> QED
    BY SMTT(60), <1>3, <1>8, <2>2, <2>3
<1>12. \A i \in 1 .. Len(d.out) : more[start - 1 + i] = d.out[i]
  <2> SUFFICES ASSUME NEW i \in 1 .. o PROVE more[start - 1 + i] = d.out[i]
    BY Zenon, <1>2
  <2>1. start - 1 + i = n + (7 + i) /\ 7 + i \in 1 .. 11 + o + c
    BY SMTT(30), <1>1, <1>10
  <2> QED
    BY ZenonT(60), <1>2, <1>3, <1>4, <2>1
<1>13. \A q \in 1 .. start - 5 : more[q] # Mark(j)
  <2> SUFFICES ASSUME NEW q \in 1 .. start - 5, more[q] = Mark(j) PROVE FALSE
    BY Zenon
  <2>1. q \notin 1 .. n
    BY ZenonT(60), <1>4, <1>6
  <2>2. q - n \in 1 .. 3 /\ q - n \in 1 .. 11 + o + c /\ n + (q - n) = q
    BY <1>1, <1>10, <2>1
  <2>3. T[q - n] = Mark(j)
    BY ZenonT(30), <1>4, <2>2
  <2> QED
    <3>1. T[q - n].ch = "s"
      BY SMTT(30), <1>7, <2>3
    <3>2. q - n = 4 \/ q - n = 8 + o
      BY Zenon, <1>5, <2>2, <3>1
    <3> QED
      BY SMTT(60), <1>1, <2>2, <3>2
<1>14. \A q \in p + 2 .. Len(more) : more[q].ch \in Digits =>
         q - p - 1 \in 1 .. Len(d.code) /\ more[q] = d.code[q - p - 1]
  <2> SUFFICES ASSUME NEW q \in p + 2 .. Len(more), more[q].ch \in Digits
               PROVE  q - p - 1 \in 1 .. c /\ more[q] = d.code[q - p - 1]
    BY ZenonT(60), <1>2
  <2>1. q - n \in 1 .. 11 + o + c /\ n + (q - n) = q
    <3>1. Len(more) = n + (11 + o + c) /\ q \in n + 8 + o + 2 .. Len(more)
      BY Zenon, <1>4, <1>9
    <3> QED
      BY SMTT(30), <1>1, <3>1
  <2>2. more[q] = T[q - n]
    BY ZenonT(30), <1>4, <2>1
  <2>3. q - n \in 10 + o .. 9 + o + c
    BY ZenonT(60), <1>5, <2>1, <2>2
  <2>5. o \in Nat /\ c \in Nat /\ n \in Nat /\ q \in Nat
    <3>1. n + 8 + o + 2 \in Nat /\ q \in n + 8 + o + 2 .. Len(more) /\ Len(more) \in Nat
      BY <1>1, <1>9
    <3> QED
      BY SMTT(60), <1>1, <3>1
  <2>4. q - p - 1 \in 1 .. c /\ 9 + o + (q - p - 1) = q - n
    <3>1. q - p - 1 = q - (n + 8 + o) - 1
      BY Zenon, <1>9
    <3> HIDE DEF d
    <3> QED
      BY SMTT(30), <2>3, <2>5, <3>1
  <2> QED
    BY ZenonT(30), <1>2, <1>3, <2>2, <2>4
<1>15. OutputPrecedes(more, p, j, d)
  BY Zenon, <1>10, <1>11, <1>12, <1>13 DEF OutputPrecedes, start
<1>16. CodeFollows(more, p, d)
  <2> SUFFICES ASSUME NEW q \in p + 2 .. Len(more), \A k \in p + 2 .. q : more[k].ch \in Digits
               PROVE  q - p - 1 \in 1 .. Len(d.code) /\ more[q] = d.code[q - p - 1]
    BY ZenonT(60) DEF CodeFollows
  <2>1. q \in p + 2 .. q
    OBVIOUS
  <2> QED
    BY Zenon, <1>14, <2>1
<1> QED
  BY Zenon, <1>15, <1>16 DEF EndsOutput

(* What parse_exec_output returns of a text that fits. *)
Answers(r, raw, j, d) ==
    /\ r.code # <<>> /\ r.code = SubSeq(d.code, 1, Len(r.code))
    /\ Strays(raw, j) = {} => r.stdout = TrimEnd(CompleteLines(d.out))

LEMMA ParsedFits ==
  ASSUME NEW raw \in Seq(Bytes), NEW j \in Jobs, NEW d, d.out \in Seq(Bytes), d.code \in Seq(Bytes),
         Fits(raw, j, d), find_sentinel_output(raw, j) # 0
  PROVE  Answers(parse_exec_output(raw, j), raw, j, d) /\ ~Unmarked(raw, j)
<1> DEFINE pos == find_sentinel_output(raw, j)
           start == pos - Len(d.out)
           first == SentinelLineStart(d.out, Len(d.out) + 1)
           ds == DigitsFrom(raw, pos + 2)
<1>1. /\ pos \in 1 .. Len(raw) /\ pos + 2 <= Len(raw)
      /\ raw[pos] = Mark(j) /\ raw[pos + 1] = [ch |-> "t", of |-> j] /\ raw[pos + 2].ch \in Digits
  BY Zenon, SentinelFound
<1>11. parse_exec_output(raw, j) =
         [stdout |-> TrimEnd(SubSeq(raw, OutputStart(raw, j), SentinelLineStart(raw, pos) - 1)), code |-> ds]
  BY Zenon DEF parse_exec_output, pos
<1> HIDE DEF pos, ds
<1>2. EndsOutput(raw, pos, j, d)
  BY Zenon, <1>1 DEF Fits
<1>10. ds # <<>> /\ ds = SubSeq(d.code, 1, Len(ds))
  <2>1. pos + 2 \in 1 .. Len(raw)
    BY <1>1
  <2>2. \A q \in pos + 2 .. Len(raw) : (\A k \in pos + 2 .. q : raw[k].ch \in Digits) =>
           q - (pos + 2) + 1 \in 1 .. Len(d.code) /\ raw[q] = d.code[q - (pos + 2) + 1]
    <3> SUFFICES ASSUME NEW q \in pos + 2 .. Len(raw), \A k \in pos + 2 .. q : raw[k].ch \in Digits
                 PROVE  q - (pos + 2) + 1 \in 1 .. Len(d.code) /\ raw[q] = d.code[q - (pos + 2) + 1]
      BY Zenon
    <3>1. q - (pos + 2) + 1 = q - pos - 1
      BY <1>1
    <3>2. q - pos - 1 \in 1 .. Len(d.code) /\ raw[q] = d.code[q - pos - 1]
      BY Zenon, <1>2 DEF EndsOutput, CodeFollows
    <3> QED
      BY Zenon, <3>1, <3>2
  <2> QED
    BY ZenonT(60), <1>1, <2>1, <2>2, DigitsFound DEF ds
<1>12. ASSUME Strays(raw, j) = {}
       PROVE  parse_exec_output(raw, j) = [stdout |-> TrimEnd(CompleteLines(d.out)), code |-> ds]
  <2>1. OutputPrecedes(raw, pos, j, d)
    BY Zenon, <1>2, <1>12 DEF EndsOutput
  <2>2. /\ start > 7
        /\ \A i \in 1 .. 7 : raw[start - 8 + i] = By(j, <<"e", "n", "q", "s", "t", "k", "n">>)[i]
        /\ \A i \in 1 .. Len(d.out) : raw[start - 1 + i] = d.out[i]
        /\ \A q \in 1 .. start - 5 : raw[q] # Mark(j)
    BY ZenonT(60), <2>1 DEF OutputPrecedes
  <2>4. start \in Nat /\ pos = start + Len(d.out) /\ start <= Len(raw) /\ pos <= Len(raw) /\ Len(d.out) \in Nat
    BY SMTT(60), <1>1, <2>2
  <2> HIDE DEF start
  <2>3. \A i \in 1 .. 5 : raw[start - 6 + i] = By(j, <<"q", "s", "t", "k", "n">>)[i]
    <3> SUFFICES ASSUME NEW i \in 1 .. 5
                 PROVE  raw[start - 6 + i] = By(j, <<"q", "s", "t", "k", "n">>)[i]
      BY Zenon
    <3>1. start - 6 + i = start - 8 + (i + 2) /\ i + 2 \in 1 .. 7
      BY <2>4
    <3>2. By(j, <<"q", "s", "t", "k", "n">>)[i] = By(j, <<"e", "n", "q", "s", "t", "k", "n">>)[i + 2]
      <4>1. i = 1 \/ i = 2 \/ i = 3 \/ i = 4 \/ i = 5
        OBVIOUS
      <4> QED
        BY <4>1 DEF By
    <3> QED
      BY Zenon, <2>2, <3>1, <3>2
  <2>5. OutputStart(raw, j) = start
    BY ZenonT(60), <2>2, <2>3, <2>4, EchoFound
  <2>6. raw[start - 1].ch = "n"
    <3>1. start - 6 + 5 = start - 1 /\ By(j, <<"q", "s", "t", "k", "n">>)[5].ch = "n"
      BY <2>4 DEF By
    <3> QED
      BY <2>3, <3>1
  <2>7. first \in 1 .. Len(d.out) + 1 /\ SentinelLineStart(raw, pos) = start - 1 + first
    <3>1. SameLine(raw, pos, start, d.out)
      BY ZenonT(60), <2>2, <2>3, <2>4, <2>6, LineStartFound
    <3> QED
      BY Zenon, <3>1 DEF SameLine
  <2> HIDE DEF first
  <2>8. SubSeq(raw, start, SentinelLineStart(raw, pos) - 1) = SubSeq(d.out, 1, first - 1)
    <3>1. first - 1 \in 0 .. Len(d.out) /\ start - 1 + Len(d.out) <= Len(raw)
          /\ SentinelLineStart(raw, pos) - 1 = start - 1 + (first - 1)
      BY SMTT(60), <2>4, <2>7
    <3>2. SubSeq(raw, start, start - 1 + (first - 1)) = SubSeq(d.out, 1, first - 1)
      BY ZenonT(60), <2>2, <2>3, <2>4, <3>1, LinesFound
    <3> QED
      BY Zenon, <3>1, <3>2
  <2>9. SubSeq(d.out, 1, first - 1) = CompleteLines(d.out)
    BY Zenon DEF CompleteLines, first
  <2> QED
    BY Zenon, <1>11, <2>5, <2>8, <2>9
<1>13. Answers(parse_exec_output(raw, j), raw, j, d)
  <2>1. parse_exec_output(raw, j).code = ds
    BY <1>11
  <2>2. Strays(raw, j) = {} => parse_exec_output(raw, j).stdout = TrimEnd(CompleteLines(d.out))
    <3> SUFFICES ASSUME Strays(raw, j) = {}
                 PROVE  parse_exec_output(raw, j).stdout = TrimEnd(CompleteLines(d.out))
      BY Zenon
    <3>1. parse_exec_output(raw, j) = [stdout |-> TrimEnd(CompleteLines(d.out)), code |-> ds]
      BY Zenon, <1>12
    <3> QED
      BY <3>1
  <2> QED
    BY Zenon, <1>10, <2>1, <2>2 DEF Answers
<1>14. ~Unmarked(raw, j)
  BY Zenon, <1>1 DEF Unmarked
<1> QED
  BY Zenon, <1>13, <1>14

-----------------------------------------------------------------------------
(* What is collected and on its way.                                          *)

IsText(c, w, text) ==
    /\ text \in Seq(Bytes) /\ Len(text) = Len(c) + Len(w)
    /\ \A p \in 1 .. Len(c) : text[p] = c[p]
    /\ \A p \in 1 .. Len(w) : text[Len(c) + p] = w[p].byte

LEMMA ResponseFields ==
  ASSUME NEW r \in Responses
  PROVE  r.type \in {"opened", "data", "closed", "error"} /\ r.id \in Jobs /\ r.byte \in Bytes
  BY Zenon DEF Responses

LEMMA ContentsAreBytes ==
  ASSUME NEW w \in Seq(Responses)
  PROVE  /\ Contents(w) \in Seq(Bytes) /\ Len(Contents(w)) = Len(w)
         /\ \A p \in 1 .. Len(w) : Contents(w)[p] = w[p].byte
<1>1. Len(w) \in Nat /\ \A p \in 1 .. Len(w) : w[p] \in Responses
  OBVIOUS
<1>2. \A p \in 1 .. Len(w) : w[p].byte \in Bytes
  BY Zenon, <1>1, ResponseFields
<1> QED
  BY <1>1, <1>2 DEF Contents

LEMMA TextOf ==
  ASSUME NEW c \in Seq(Bytes), NEW w \in Seq(Responses)
  PROVE  IsText(c, w, c \o Contents(w))
<1> DEFINE x == Contents(w)
<1>1. x \in Seq(Bytes) /\ Len(x) = Len(w) /\ \A p \in 1 .. Len(w) : x[p] = w[p].byte
  BY Zenon, ContentsAreBytes
<1> HIDE DEF x
<1>2. /\ c \o x \in Seq(Bytes) /\ Len(c \o x) = Len(c) + Len(x)
      /\ \A i \in 1 .. Len(c) : (c \o x)[i] = c[i]
      /\ \A i \in 1 .. Len(x) : (c \o x)[Len(c) + i] = x[i]
  BY SMTT(60), <1>1
<1>3. IsText(c, w, c \o x)
  BY Zenon, <1>1, <1>2 DEF IsText
<1> QED
  BY Zenon, <1>3 DEF x

(* The first n responses stay and what follows is neither sentinel nor digit. *)
Follows(n, w, more) ==
    /\ n \in 0 .. Len(w) /\ n <= Len(more)
    /\ \A p \in 1 .. n : more[p] = w[p]
    /\ \A p \in n + 1 .. Len(more) : more[p].byte.ch \notin Digits \cup {"s"}

LEMMA FollowsTrails ==
  ASSUME NEW c \in Seq(Bytes), NEW w \in Seq(Responses), NEW more \in Seq(Responses), NEW n, Follows(n, w, more),
         NEW text, IsText(c, w, text), NEW text2, IsText(c, more, text2)
  PROVE  Trails(Len(c) + n, text, text2)
<1> DEFINE k == Len(c)
<1>1. k \in Nat /\ Len(w) \in Nat /\ Len(more) \in Nat /\ n \in 0 .. Len(w) /\ n <= Len(more)
  BY DEF Follows
<1>2. /\ Len(text) = k + Len(w) /\ (\A p \in 1 .. k : text[p] = c[p])
      /\ \A p \in 1 .. Len(w) : text[k + p] = w[p].byte
  BY Zenon DEF IsText
<1>3. /\ Len(text2) = k + Len(more) /\ (\A p \in 1 .. k : text2[p] = c[p])
      /\ \A p \in 1 .. Len(more) : text2[k + p] = more[p].byte
  BY Zenon DEF IsText
<1> HIDE DEF k
<1>4. k + n \in 0 .. Len(text) /\ k + n <= Len(text2)
  BY <1>1, <1>2, <1>3
<1>5. ASSUME NEW p \in 1 .. k + n PROVE text2[p] = text[p]
  <2>1. CASE p \in 1 .. k
    BY ZenonT(60), <1>2, <1>3, <2>1
  <2>2. CASE p \notin 1 .. k
    <3>1. p - k \in 1 .. n /\ p - k \in 1 .. Len(w) /\ p - k \in 1 .. Len(more) /\ k + (p - k) = p
      BY <1>1, <2>2
    <3>2. more[p - k] = w[p - k]
      BY Zenon, <3>1 DEF Follows
    <3> QED
      BY ZenonT(60), <1>2, <1>3, <3>1, <3>2
  <2> QED
    BY Zenon, <2>1, <2>2
<1>6. ASSUME NEW p \in k + n + 1 .. Len(text2) PROVE text2[p].ch \notin Digits \cup {"s"}
  <2>1. p - k \in n + 1 .. Len(more) /\ p - k \in 1 .. Len(more) /\ k + (p - k) = p
    BY <1>1, <1>3
  <2>2. more[p - k].byte.ch \notin Digits \cup {"s"}
    BY Zenon, <2>1 DEF Follows
  <2> QED
    BY ZenonT(60), <1>3, <2>1, <2>2
<1>7. Trails(k + n, text, text2)
  BY ZenonT(60), <1>4, <1>5, <1>6 DEF Trails
<1> QED
  BY Zenon, <1>7 DEF k

(* Commands on their way: the first k have been taken. *)
Takes(k) ==
    /\ k \in {0, 1} /\ k <= Len(toPeer) /\ Len(toPeer') = Len(toPeer) - k
    /\ \A i \in 1 .. Len(toPeer') : toPeer'[i] = toPeer[i + k]

LEMMA SameCommands ==
  ASSUME TypeOK, UNCHANGED toPeer
  PROVE  Takes(0)
  BY DEF TypeOK, Takes

LEMMA NextCommand ==
  ASSUME TypeOK, NEW t, PeerTakes(t)
  PROVE  /\ Takes(1) /\ toPeer' \in Seq(Actions) /\ Head(toPeer) = toPeer[1] /\ 1 \in 1 .. Len(toPeer)
         /\ toPeer[1] \in Actions /\ toPeer[1].type = t
  BY SMTT(60) DEF TypeOK, Takes, PeerTakes

LEMMA TakesKeepsCommands ==
  ASSUME TypeOK, CommandsFit, NEW k, Takes(k), pc' = pc, job' = job, result' = result
  PROVE  CommandsFit'
<1>1. Len(toPeer) \in Nat /\ k \in {0, 1} /\ Len(toPeer') = Len(toPeer) - k /\ Len(toPeer') \in Nat
  BY DEF TypeOK, Takes
<1> SUFFICES ASSUME NEW i \in 1 .. Len(toPeer'), toPeer'[i].type = "data"
             PROVE  /\ toPeer'[i].job \in 1 .. job
                    /\ result[toPeer'[i].job].kind # "done"
                    /\ toPeer'[i].job = job => /\ pc \notin {"opening", "draining"}
                                               /\ \A l \in i + 1 .. Len(toPeer') : toPeer'[l].type # "data"
  BY Zenon DEF CommandsFit
<1>2. i + k \in 1 .. Len(toPeer) /\ toPeer'[i] = toPeer[i + k]
  BY <1>1 DEF Takes
<1>3. /\ toPeer'[i].job \in 1 .. job
      /\ result[toPeer'[i].job].kind # "done"
      /\ toPeer'[i].job = job => /\ pc \notin {"opening", "draining"}
                                 /\ \A l \in i + k + 1 .. Len(toPeer) : toPeer[l].type # "data"
  BY Zenon, <1>2 DEF CommandsFit
<1>4. ASSUME toPeer'[i].job = job, NEW l \in i + 1 .. Len(toPeer') PROVE toPeer'[l].type # "data"
  <2>1. l + k \in i + k + 1 .. Len(toPeer) /\ l \in 1 .. Len(toPeer')
    BY <1>1, <1>2
  <2> QED
    BY ZenonT(60), <1>3, <1>4, <2>1 DEF Takes
<1> QED
  BY ZenonT(60), <1>3, <1>4

LEMMA QuietKeepsIncoming ==
  ASSUME TypeOK, IncomingFits, wire' \in Seq(Responses), NEW k, Takes(k), NEW n, Follows(n, wire, wire'),
         pc' = pc, job' = job, collected' = collected, did' = did, pc = "collecting" => did[job].out \in Seq(Bytes)
  PROVE  IncomingFits'
<1>1. /\ collected \in Seq(Bytes) /\ wire \in Seq(Responses) /\ Len(wire) \in Nat /\ Len(wire') \in Nat
  BY DEF TypeOK
<1> DEFINE text == collected \o Contents(wire)
           text2 == collected \o Contents(wire')
<1>2. IsText(collected, wire, text) /\ IsText(collected, wire', text2)
  BY Zenon, <1>1, TextOf
<1>3. Incoming = text /\ Incoming' = text2
  BY Zenon DEF Incoming
<1> HIDE DEF text, text2
<1>4. Trails(Len(collected) + n, text, text2)
  BY Zenon, <1>1, <1>2, FollowsTrails
<1>5. text \in Seq(Bytes) /\ text2 \in Seq(Bytes)
  BY Zenon, <1>2 DEF IsText
<1>6. ASSUME NEW p \in 1 .. Len(wire'), wire'[p].byte.ch = "s" PROVE wire'[p].byte.of <= job
  <2>1. p \in 1 .. n /\ p \in 1 .. Len(wire)
    BY <1>1, <1>6 DEF Follows
  <2>2. wire'[p] = wire[p]
    BY Zenon, <2>1 DEF Follows
  <2> QED
    BY ZenonT(60), <1>6, <2>1, <2>2 DEF IncomingFits
<1>7. ASSUME \/ pc \in {"opening", "draining"}
             \/ pc = "collecting" /\ \E i \in 1 .. Len(toPeer') : toPeer'[i].type = "data"
      PROVE  Unmarked(text2, job)
  <2>1. ASSUME NEW i \in 1 .. Len(toPeer'), toPeer'[i].type = "data"
        PROVE  \E l \in 1 .. Len(toPeer) : toPeer[l].type = "data"
    <3>1. i + k \in 1 .. Len(toPeer) /\ toPeer'[i] = toPeer[i + k]
      BY SMTT(60) DEF Takes, TypeOK
    <3> QED
      BY ZenonT(60), <2>1, <3>1
  <2>2. Unmarked(text, job)
    BY Zenon, <1>3, <1>7, <2>1 DEF IncomingFits
  <2> QED
    BY ZenonT(60), <1>4, <1>5, <2>2, TrailsUnmarked
<1>8. ASSUME pc = "collecting" PROVE Fits(text2, job, did[job])
  <2>1. Fits(text, job, did[job])
    BY Zenon, <1>3, <1>8 DEF IncomingFits
  <2> QED
    BY ZenonT(60), <1>4, <1>5, <1>8, <2>1, TrailsFits
<1>9. pc # "collecting" => collected = <<>>
  BY Zenon DEF IncomingFits
<1> QED
  BY ZenonT(60), <1>3, <1>6, <1>7, <1>8, <1>9 DEF IncomingFits

-----------------------------------------------------------------------------
(* The peer.                                                                  *)

LEMMA ResponseIsResponse ==
  ASSUME NEW id \in Jobs, NEW t \in {"opened", "closed", "error"}
  PROVE  Response(t, id) \in Responses /\ Response(t, id).byte.ch \notin Digits \cup {"s"}
<1>1. [ch |-> "-", of |-> id] \in Bytes
  BY Zenon, JobsAreNat DEF Bytes, Letters
<1> QED
  BY Zenon, <1>1 DEF Response, Responses, Digits

LEMMA DataIsResponses ==
  ASSUME NEW id \in Jobs, NEW bytes \in Seq(Bytes)
  PROVE  /\ Data(id, bytes) \in Seq(Responses) /\ Len(Data(id, bytes)) = Len(bytes)
         /\ \A p \in 1 .. Len(bytes) : Data(id, bytes)[p].byte = bytes[p]
<1>1. Len(bytes) \in Nat /\ \A p \in 1 .. Len(bytes) : bytes[p] \in Bytes
  OBVIOUS
<1>2. \A p \in 1 .. Len(bytes) : [type |-> "data", id |-> id, byte |-> bytes[p]] \in Responses
  BY Zenon, <1>1 DEF Responses
<1>3. Data(id, bytes) = [p \in 1 .. Len(bytes) |-> [type |-> "data", id |-> id, byte |-> bytes[p]]]
  BY Zenon DEF Data
<1> HIDE DEF Data
<1>4. Data(id, bytes) \in Seq(Responses) /\ Len(Data(id, bytes)) = Len(bytes)
  BY <1>1, <1>2, <1>3
<1>5. \A p \in 1 .. Len(bytes) : Data(id, bytes)[p].byte = bytes[p]
  BY <1>3
<1> QED
  BY Zenon, <1>4, <1>5

(* A prompt or a byte of a background process. *)
LEMMA OneByte ==
  ASSUME NEW id \in Jobs, NEW x \in {"p", "b"}
  PROVE  /\ Data(id, By(id, <<x>>)) \in Seq(Responses) /\ Len(Data(id, By(id, <<x>>))) = 1
         /\ Data(id, By(id, <<x>>))[1].byte.ch \notin Digits \cup {"s"}
<1> DEFINE b == By(id, <<x>>)
<1>1. b = <<[ch |-> x, of |-> id]>>
  BY DEF By
<1>5. [ch |-> x, of |-> id] \in Bytes
  BY Zenon, JobsAreNat DEF Bytes, Letters
<1> HIDE DEF b
<1>2. b \in Seq(Bytes) /\ Len(b) = 1 /\ b[1].ch = x
  BY <1>1, <1>5
<1>3. Data(id, b) \in Seq(Responses) /\ Len(Data(id, b)) = Len(b) /\ \A p \in 1 .. Len(b) : Data(id, b)[p].byte = b[p]
  BY ZenonT(60), <1>2, DataIsResponses
<1>4. Data(id, b) \in Seq(Responses) /\ Len(Data(id, b)) = 1 /\ Data(id, b)[1].byte.ch \notin Digits \cup {"s"}
  BY <1>2, <1>3 DEF Digits
<1> QED
  BY Zenon, <1>4 DEF b

LEMMA AppendFollows ==
  ASSUME NEW w \in Seq(Responses), NEW r \in Responses, r.byte.ch \notin Digits \cup {"s"}
  PROVE  Append(w, r) \in Seq(Responses) /\ Follows(Len(w), w, Append(w, r))
<1>1. /\ Append(w, r) \in Seq(Responses) /\ Len(w) \in Nat /\ Len(Append(w, r)) = Len(w) + 1
      /\ Append(w, r)[Len(w) + 1] = r /\ \A p \in 1 .. Len(w) : Append(w, r)[p] = w[p]
  OBVIOUS
<1> QED
  BY <1>1 DEF Follows

LEMMA ConcatFollows ==
  ASSUME NEW w \in Seq(Responses), NEW m \in Seq(Responses),
         \A p \in 1 .. Len(m) : m[p].byte.ch \notin Digits \cup {"s"}
  PROVE  w \o m \in Seq(Responses) /\ Follows(Len(w), w, w \o m)
<1> DEFINE s == w \o m
<1>1. /\ s \in Seq(Responses) /\ Len(w) \in Nat /\ Len(m) \in Nat /\ Len(s) = Len(w) + Len(m)
      /\ \A p \in 1 .. Len(w) : s[p] = w[p]
      /\ \A p \in 1 .. Len(m) : s[Len(w) + p] = m[p]
  OBVIOUS
<1> HIDE DEF s
<1>2. ASSUME NEW p \in Len(w) + 1 .. Len(s) PROVE s[p].byte.ch \notin Digits \cup {"s"}
  <2>1. p - Len(w) \in 1 .. Len(m) /\ Len(w) + (p - Len(w)) = p
    BY SMTT(60), <1>1
  <2> QED
    BY ZenonT(30), <1>1, <2>1
<1>3. Follows(Len(w), w, s)
  BY <1>1, <1>2 DEF Follows
<1> QED
  BY Zenon, <1>1, <1>3 DEF s

LEMMA PrefixFollows ==
  ASSUME NEW w \in Seq(Responses), NEW n \in 0 .. Len(w)
  PROVE  /\ SubSeq(w, 1, n) \in Seq(Responses) /\ Len(SubSeq(w, 1, n)) = n
         /\ Follows(n, w, SubSeq(w, 1, n))
<1> DEFINE s == SubSeq(w, 1, n)
<1>1. n \in Nat /\ Len(w) \in Nat /\ n <= Len(w) /\ \A i \in 1 .. n : w[i] \in Responses
  OBVIOUS
<1>2. s \in Seq(Responses) /\ Len(s) = n /\ \A i \in 1 .. n : s[i] = w[i]
  BY <1>1, SubSeqProperties
<1> HIDE DEF s
<1>3. Follows(n, w, s)
  BY <1>1, <1>2 DEF Follows
<1> QED
  BY ZenonT(60), <1>2, <1>3 DEF s

LEMMA FollowsOn ==
  ASSUME NEW w \in Seq(Responses), NEW v \in Seq(Responses), NEW u \in Seq(Responses), NEW n,
         Follows(n, w, v), Follows(Len(v), v, u)
  PROVE  Follows(n, w, u)
<1>1. /\ Len(w) \in Nat /\ Len(v) \in Nat /\ Len(u) \in Nat /\ n \in 0 .. Len(w) /\ n <= Len(v) /\ Len(v) <= Len(u)
      /\ \A p \in 1 .. n : v[p] = w[p]
      /\ \A p \in n + 1 .. Len(v) : v[p].byte.ch \notin Digits \cup {"s"}
      /\ \A p \in 1 .. Len(v) : u[p] = v[p]
      /\ \A p \in Len(v) + 1 .. Len(u) : u[p].byte.ch \notin Digits \cup {"s"}
  BY DEF Follows
<1>2. \A p \in 1 .. n : u[p] = w[p]
  BY <1>1
<1>3. ASSUME NEW p \in n + 1 .. Len(u) PROVE u[p].byte.ch \notin Digits \cup {"s"}
  <2>1. (p \in n + 1 .. Len(v) /\ p \in 1 .. Len(v)) \/ p \in Len(v) + 1 .. Len(u)
    BY <1>1
  <2> QED
    BY Zenon, <1>1, <2>1
<1> QED
  BY SMTT(60), <1>1, <1>2, <1>3 DEF Follows

LEMMA SameWire ==
  ASSUME NEW w \in Seq(Responses)
  PROVE  Follows(Len(w), w, w)
  BY DEF Follows

LEMMA CurrentOutput ==
  ASSUME TypeOK, pc = "collecting"
  PROVE  job \in Jobs /\ did[job].out \in Seq(Bytes) /\ did[job].code \in Seq(Bytes)
<1>1. job \in Jobs
  BY JobsAssumption DEF TypeOK, Jobs
<1> QED
  BY Zenon, <1>1 DEF TypeOK

LEMMA PeerQuiet ==
  ASSUME IInv, UNCHANGED <<daemonVars, did>>, wire' \in Seq(Responses), toPeer' \in Seq(Actions),
         opened' \subseteq Jobs, chatter' \in 0 .. MaxChatter,
         NEW k, Takes(k), NEW n, Follows(n, wire, wire')
  PROVE  IInv'
<1>1. /\ pc' = pc /\ job' = job /\ kind' = kind /\ run' = run /\ tid' = tid /\ collected' = collected
      /\ result' = result /\ did' = did
  BY Zenon DEF daemonVars
<1>2. TypeOK /\ CommandsFit /\ IncomingFits /\ ResultsFit /\ CompletionIsOwn /\ StdoutExact
  BY Zenon DEF IInv
<1>3. TypeOK'
  BY ZenonT(60), <1>1, <1>2 DEF TypeOK
<1>4. CommandsFit'
  BY ZenonT(60), <1>1, <1>2, TakesKeepsCommands
<1>5. IncomingFits'
  BY ZenonT(60), <1>1, <1>2, CurrentOutput, QuietKeepsIncoming
<1>6. ResultsFit' /\ CompletionIsOwn' /\ StdoutExact'
  BY Zenon, <1>1, <1>2 DEF ResultsFit, CompletionIsOwn, StdoutExact
<1> QED
  BY ZenonT(60), <1>3, <1>4, <1>5, <1>6 DEF IInv

LEMMA HeadIsAction ==
  ASSUME TypeOK, NEW t, PeerTakes(t)
  PROVE  /\ Takes(1) /\ toPeer' \in Seq(Actions) /\ 1 \in 1 .. Len(toPeer) /\ Head(toPeer) = toPeer[1]
         /\ Head(toPeer).id \in Jobs /\ Head(toPeer).type = t /\ Head(toPeer).job \in 0 .. NumJobs
<1>1. /\ Takes(1) /\ toPeer' \in Seq(Actions) /\ Head(toPeer) = toPeer[1] /\ 1 \in 1 .. Len(toPeer)
      /\ toPeer[1] \in Actions /\ toPeer[1].type = t
  BY Zenon, NextCommand
<1>2. \A a \in Actions : a.id \in Jobs /\ a.job \in 0 .. NumJobs
  BY Zenon DEF Actions
<1> QED
  BY ZenonT(60), <1>1, <1>2

LEMMA PeerOpensStep == IInv /\ PeerOpens => IInv'
<1> SUFFICES ASSUME IInv, PeerOpens PROVE IInv'
  BY Zenon
<1>0. TypeOK /\ PeerTakes("open")
  BY Zenon DEF IInv, PeerOpens
<1> DEFINE id == Head(toPeer).id
           one == <<Response("opened", id)>>
           prompt == Data(id, By(id, <<"p">>))
<1>1. Takes(1) /\ toPeer' \in Seq(Actions) /\ id \in Jobs
  BY ZenonT(60), <1>0, HeadIsAction
<1>2. UNCHANGED <<daemonVars, did>> /\ chatter' = chatter
  BY Zenon DEF PeerOpens
<1>3. wire \in Seq(Responses) /\ opened \subseteq Jobs /\ chatter \in 0 .. MaxChatter
  BY Zenon, <1>0 DEF TypeOK
<1>4. \/ opened' = opened \cup {id} /\ wire' = wire \o one \o prompt
      \/ wire' = Append(wire, Response("error", id)) /\ opened' = opened
  BY Zenon DEF PeerOpens
<1> HIDE DEF id
<1>5. CASE opened' = opened \cup {id} /\ wire' = wire \o one \o prompt
  <2>1. Response("opened", id) \in Responses /\ Response("opened", id).byte.ch \notin Digits \cup {"s"}
    BY ZenonT(60), <1>1, ResponseIsResponse
  <2>2. one \in Seq(Responses) /\ Len(one) = 1 /\ one[1] = Response("opened", id)
    BY <2>1
  <2>3. prompt \in Seq(Responses) /\ Len(prompt) = 1 /\ prompt[1].byte.ch \notin Digits \cup {"s"}
    BY ZenonT(60), <1>1, OneByte
  <2> HIDE DEF one, prompt
  <2>4. wire \o one \in Seq(Responses) /\ Follows(Len(wire), wire, wire \o one)
    BY <1>3, <2>1, <2>2, ConcatFollows
  <2> DEFINE v == wire \o one
  <2>5. v \in Seq(Responses) /\ Follows(Len(wire), wire, v)
    BY Zenon, <2>4
  <2> HIDE DEF v
  <2>6. v \o prompt \in Seq(Responses) /\ Follows(Len(v), v, v \o prompt)
    BY <2>3, <2>5, ConcatFollows
  <2>7. wire' = v \o prompt
    BY Zenon, <1>5 DEF v
  <2>8. wire' \in Seq(Responses) /\ Follows(Len(wire), wire, wire')
    BY ZenonT(60), <1>3, <2>5, <2>6, <2>7, FollowsOn
  <2>9. opened' \subseteq Jobs
    BY ZenonT(60), <1>1, <1>3, <1>5
  <2> QED
    BY ZenonT(60), <1>1, <1>2, <1>3, <2>8, <2>9, PeerQuiet
<1>6. CASE wire' = Append(wire, Response("error", id)) /\ opened' = opened
  <2>1. Response("error", id) \in Responses /\ Response("error", id).byte.ch \notin Digits \cup {"s"}
    BY ZenonT(60), <1>1, ResponseIsResponse
  <2>2. wire' \in Seq(Responses) /\ Follows(Len(wire), wire, wire')
    BY ZenonT(60), <1>3, <1>6, <2>1, AppendFollows
  <2> QED
    BY ZenonT(60), <1>1, <1>2, <1>3, <1>6, <2>2, PeerQuiet
<1> QED
  BY ZenonT(60), <1>4, <1>5, <1>6

LEMMA PeerClosesStep == IInv /\ PeerCloses => IInv'
<1> SUFFICES ASSUME IInv, PeerCloses PROVE IInv'
  BY Zenon
<1>0. TypeOK /\ PeerTakes("close")
  BY Zenon DEF IInv, PeerCloses
<1> DEFINE id == Head(toPeer).id
<1>1. Takes(1) /\ toPeer' \in Seq(Actions) /\ id \in Jobs
  BY Zenon, <1>0, HeadIsAction
<1>2. UNCHANGED <<daemonVars, did>> /\ chatter' = chatter /\ opened' = opened \ {id}
  BY Zenon DEF PeerCloses
<1>3. wire \in Seq(Responses) /\ opened' \subseteq Jobs /\ chatter' \in 0 .. MaxChatter
  BY ZenonT(60), <1>0, <1>2 DEF TypeOK
<1>4. PICK n \in 0 .. Len(wire) : \/ wire' = SubSeq(wire, 1, n)
                                  \/ wire' = Append(SubSeq(wire, 1, n), Response("closed", id))
  BY Zenon DEF PeerCloses
<1> HIDE DEF id
<1> DEFINE v == SubSeq(wire, 1, n)
<1>5. v \in Seq(Responses) /\ Follows(n, wire, v)
  BY ZenonT(60), <1>3, PrefixFollows
<1>6. wire' = v \/ wire' = Append(v, Response("closed", id))
  BY Zenon, <1>4
<1> HIDE DEF v
<1>7. wire' \in Seq(Responses) /\ Follows(n, wire, wire')
  <2>1. Response("closed", id) \in Responses /\ Response("closed", id).byte.ch \notin Digits \cup {"s"}
    BY ZenonT(60), <1>1, ResponseIsResponse
  <2>2. Append(v, Response("closed", id)) \in Seq(Responses) /\ Follows(Len(v), v, Append(v, Response("closed", id)))
    BY ZenonT(60), <1>5, <2>1, AppendFollows
  <2>3. Follows(n, wire, Append(v, Response("closed", id)))
    BY ZenonT(60), <1>3, <1>5, <2>2, FollowsOn
  <2> QED
    BY ZenonT(60), <1>5, <1>6, <2>2, <2>3
<1> QED
  BY ZenonT(60), <1>1, <1>2, <1>3, <1>7, PeerQuiet

LEMMA PeerEndsStep ==
  ASSUME IInv, NEW id \in Jobs, PeerEnds(id)
  PROVE  IInv'
<1>0. TypeOK
  BY Zenon DEF IInv
<1>1. UNCHANGED <<daemonVars, did>> /\ toPeer' = toPeer /\ chatter' = chatter /\ opened' \subseteq opened
  BY Zenon DEF PeerEnds
<1>2. wire \in Seq(Responses) /\ opened' \subseteq Jobs /\ chatter' \in 0 .. MaxChatter /\ toPeer' \in Seq(Actions)
  BY ZenonT(60), <1>0, <1>1 DEF TypeOK
<1>3. Takes(0)
  BY ZenonT(60), <1>0, <1>1, SameCommands
<1>4. PICK t \in {"closed", "error"} : wire' = Append(wire, Response(t, id))
  BY Zenon DEF PeerEnds
<1>5. Response(t, id) \in Responses /\ Response(t, id).byte.ch \notin Digits \cup {"s"}
  BY Zenon, ResponseIsResponse
<1>6. wire' \in Seq(Responses) /\ Follows(Len(wire), wire, wire')
  BY ZenonT(60), <1>2, <1>4, <1>5, AppendFollows
<1> QED
  BY ZenonT(60), <1>1, <1>2, <1>3, <1>6, PeerQuiet

Joins(a, b, s) ==
    /\ s \in Seq(Responses) /\ Len(s) = Len(a) + Len(b)
    /\ \A i \in 1 .. Len(a) : s[i] = a[i]
    /\ \A i \in 1 .. Len(b) : s[Len(a) + i] = b[i]

LEMMA JoinResponses ==
  ASSUME NEW a \in Seq(Responses), NEW b \in Seq(Responses)
  PROVE  Joins(a, b, a \o b)
  BY DEF Joins

(* A byte of a background process among the responses. *)
Among(n, w, more) ==
    /\ n \in 0 .. Len(w) /\ Len(more) = Len(w) + 1
    /\ \A p \in 1 .. n : more[p] = w[p]
    /\ more[n + 1].byte.ch = "b"
    /\ \A p \in n + 2 .. Len(more) : more[p] = w[p - 1]

LEMMA AmongResponses ==
  ASSUME NEW w \in Seq(Responses), NEW n \in 0 .. Len(w), NEW b \in Seq(Responses), Len(b) = 1, b[1].byte.ch = "b"
  PROVE  LET more == SubSeq(w, 1, n) \o b \o SubSeq(w, n + 1, Len(w))
         IN  more \in Seq(Responses) /\ Among(n, w, more)
<1> DEFINE u == SubSeq(w, 1, n)
           v == SubSeq(w, n + 1, Len(w))
           ub == u \o b
           more == ub \o v
<1>1. n \in Nat /\ Len(w) \in Nat /\ n <= Len(w) /\ (\A i \in 1 .. n : w[i] \in Responses)
      /\ \A i \in n + 1 .. Len(w) : w[i] \in Responses
  OBVIOUS
<1>2. u \in Seq(Responses) /\ Len(u) = n /\ \A i \in 1 .. n : u[i] = w[i]
  BY <1>1, SubSeqProperties
<1>3. v \in Seq(Responses) /\ Len(v) = Len(w) - n /\ \A i \in 1 .. Len(w) - n : v[i] = w[n + i]
  <2>1. v \in Seq(Responses) /\ Len(v) = Len(w) - n /\ \A i \in 1 .. Len(w) - n : v[i] = w[(n + 1) + i - 1]
    BY <1>1, SubSeqProperties
  <2>2. \A i \in 1 .. Len(w) - n : (n + 1) + i - 1 = n + i
    BY <1>1
  <2> QED
    BY ZenonT(60), <2>1, <2>2
<1> HIDE DEF u, v
<1>4. /\ ub \in Seq(Responses) /\ Len(ub) = n + 1 /\ (\A i \in 1 .. n : ub[i] = u[i]) /\ ub[n + 1] = b[1]
  <2>1. Joins(u, b, ub)
    BY Zenon, <1>2, JoinResponses DEF ub
  <2> HIDE DEF ub
  <2>2. /\ ub \in Seq(Responses) /\ Len(ub) = n + 1 /\ (\A i \in 1 .. n : ub[i] = u[i])
        /\ \A i \in 1 .. 1 : ub[n + i] = b[i]
    BY ZenonT(60), <1>2, <2>1 DEF Joins
  <2> QED
    BY <2>2
<1> HIDE DEF ub
<1>5. /\ more \in Seq(Responses) /\ Len(more) = Len(w) + 1 /\ (\A i \in 1 .. n + 1 : more[i] = ub[i])
      /\ \A i \in 1 .. Len(w) - n : more[(n + 1) + i] = v[i]
  BY SMTT(60), <1>1, <1>3, <1>4
<1> HIDE DEF more
<1>6. ASSUME NEW p \in 1 .. n PROVE more[p] = w[p]
  <2>1. p \in 1 .. n + 1
    BY <1>1
  <2> QED
    BY ZenonT(60), <1>2, <1>4, <1>5, <2>1
<1>7. more[n + 1].byte.ch = "b"
  <2>1. n + 1 \in 1 .. n + 1
    BY <1>1
  <2> QED
    BY ZenonT(60), <1>4, <1>5, <2>1
<1>8. ASSUME NEW p \in n + 2 .. Len(more) PROVE more[p] = w[p - 1]
  <2>1. p - n - 1 \in 1 .. Len(w) - n /\ (n + 1) + (p - n - 1) = p /\ n + (p - n - 1) = p - 1
    BY <1>1, <1>5
  <2> QED
    BY ZenonT(60), <1>3, <1>5, <2>1
<1>9. Among(n, w, more)
  BY Zenon, <1>5, <1>6, <1>7, <1>8 DEF Among
<1> QED
  BY Zenon, <1>5, <1>9 DEF more, ub, u, v

LEMMA AmongInserts ==
  ASSUME NEW c \in Seq(Bytes), NEW w \in Seq(Responses), NEW more \in Seq(Responses), NEW n, Among(n, w, more),
         NEW text, IsText(c, w, text), NEW text2, IsText(c, more, text2)
  PROVE  Inserted(Len(c) + n, text, text2)
<1> DEFINE k == Len(c)
<1>1. k \in Nat /\ Len(w) \in Nat /\ Len(more) = Len(w) + 1 /\ n \in 0 .. Len(w) /\ n \in Nat
  BY SMTT(60) DEF Among
<1>2. /\ Len(text) = k + Len(w) /\ (\A p \in 1 .. k : text[p] = c[p])
      /\ \A p \in 1 .. Len(w) : text[k + p] = w[p].byte
  BY Zenon DEF IsText
<1>3. /\ Len(text2) = k + Len(more) /\ (\A p \in 1 .. k : text2[p] = c[p])
      /\ \A p \in 1 .. Len(more) : text2[k + p] = more[p].byte
  BY Zenon DEF IsText
<1> HIDE DEF k
<1>4. k + n \in 0 .. Len(text) /\ Len(text2) = Len(text) + 1
  BY SMTT(60), <1>1, <1>2, <1>3
<1>5. ASSUME NEW p \in 1 .. k + n PROVE text2[p] = text[p]
  <2>1. CASE p \in 1 .. k
    BY Zenon, <1>2, <1>3, <2>1
  <2>2. CASE p \notin 1 .. k
    <3>1. p - k \in 1 .. n /\ p - k \in 1 .. Len(w) /\ p - k \in 1 .. Len(more) /\ k + (p - k) = p
      BY <1>1, <2>2
    <3>2. more[p - k] = w[p - k]
      BY Zenon, <3>1 DEF Among
    <3> QED
      BY Zenon, <1>2, <1>3, <3>1, <3>2
  <2> QED
    BY Zenon, <2>1, <2>2
<1>6. text2[(k + n) + 1].ch = "b"
  <2>1. n + 1 \in 1 .. Len(more) /\ (k + n) + 1 = k + (n + 1)
    BY SMTT(30), <1>1
  <2> QED
    BY ZenonT(60), <1>3, <2>1 DEF Among
<1>7. ASSUME NEW p \in (k + n) + 2 .. Len(text2) PROVE text2[p] = text[p - 1]
  <2>1. /\ p - k \in n + 2 .. Len(more) /\ p - k \in 1 .. Len(more) /\ k + (p - k) = p
        /\ (p - k) - 1 \in 1 .. Len(w) /\ k + ((p - k) - 1) = p - 1
    BY SMTT(30), <1>1, <1>3
  <2>2. more[p - k] = w[(p - k) - 1]
    BY Zenon, <2>1 DEF Among
  <2>3. text2[p] = more[p - k].byte
    BY Zenon, <1>3, <2>1
  <2>4. text[p - 1] = w[(p - k) - 1].byte
    BY Zenon, <1>2, <2>1
  <2> QED
    BY ZenonT(60), <2>2, <2>3, <2>4
<1>8. Inserted(k + n, text, text2)
  BY ZenonT(60), <1>4, <1>5, <1>6, <1>7 DEF Inserted
<1> QED
  BY Zenon, <1>8 DEF k

LEMMA AmongKeepsIncoming ==
  ASSUME TypeOK, IncomingFits, wire' \in Seq(Responses), NEW n, Among(n, wire, wire'), toPeer' = toPeer,
         pc' = pc, job' = job, collected' = collected, did' = did, pc = "collecting" => did[job].out \in Seq(Bytes)
  PROVE  IncomingFits'
<1>1. /\ collected \in Seq(Bytes) /\ wire \in Seq(Responses) /\ Len(wire) \in Nat /\ Len(wire') \in Nat
  BY DEF TypeOK
<1> DEFINE text == collected \o Contents(wire)
           text2 == collected \o Contents(wire')
<1>2. IsText(collected, wire, text) /\ IsText(collected, wire', text2)
  BY Zenon, <1>1, TextOf
<1>3. Incoming = text /\ Incoming' = text2
  BY Zenon DEF Incoming
<1> HIDE DEF text, text2
<1>4. Inserted(Len(collected) + n, text, text2)
  BY Zenon, <1>1, <1>2, AmongInserts
<1>5. text \in Seq(Bytes) /\ text2 \in Seq(Bytes)
  BY Zenon, <1>2 DEF IsText
<1>6. ASSUME NEW p \in 1 .. Len(wire'), wire'[p].byte.ch = "s" PROVE wire'[p].byte.of <= job
  <2>1. PICK q \in 1 .. Len(wire) : wire'[p] = wire[q]
    <3>1. n \in 0 .. Len(wire) /\ Len(wire') = Len(wire) + 1
      BY Zenon DEF Among
    <3>2. p # n + 1
      BY Zenon, <1>6 DEF Among
    <3>3. CASE p \in 1 .. n
      <4>1. p \in 1 .. Len(wire)
        BY SMTT(30), <1>1, <3>1, <3>3
      <4> QED
        BY ZenonT(60), <3>3, <4>1 DEF Among
    <3>4. CASE p \in n + 2 .. Len(wire')
      <4>1. p - 1 \in 1 .. Len(wire)
        BY <1>1, <3>1, <3>4
      <4> QED
        BY Zenon, <3>4, <4>1 DEF Among
    <3> QED
      BY SMTT(60), <1>1, <3>1, <3>2, <3>3, <3>4
  <2> QED
    BY ZenonT(60), <1>6, <2>1 DEF IncomingFits
<1>7. ASSUME \/ pc \in {"opening", "draining"}
             \/ pc = "collecting" /\ \E i \in 1 .. Len(toPeer) : toPeer[i].type = "data"
      PROVE  Unmarked(text2, job)
  <2>2. Unmarked(text, job)
    BY ZenonT(60), <1>3, <1>7 DEF IncomingFits
  <2> QED
    BY ZenonT(60), <1>4, <1>5, <2>2, InsertedUnmarked
<1>8. ASSUME pc = "collecting" PROVE Fits(text2, job, did[job])
  <2>1. Fits(text, job, did[job])
    BY Zenon, <1>3, <1>8 DEF IncomingFits
  <2> QED
    BY ZenonT(60), <1>4, <1>5, <1>8, <2>1, InsertedFits
<1>9. pc # "collecting" => collected = <<>>
  BY Zenon DEF IncomingFits
<1> QED
  BY ZenonT(60), <1>3, <1>6, <1>7, <1>8, <1>9 DEF IncomingFits

LEMMA PeerChattersStep ==
  ASSUME IInv, NEW id \in Jobs, PeerChatters(id)
  PROVE  IInv'
<1>0. TypeOK /\ CommandsFit /\ IncomingFits /\ ResultsFit /\ CompletionIsOwn /\ StdoutExact
  BY Zenon DEF IInv
<1>1. UNCHANGED <<daemonVars, did>> /\ toPeer' = toPeer /\ opened' = opened /\ chatter' = chatter + 1 /\ chatter < MaxChatter
  BY Zenon DEF PeerChatters
<1>2. wire \in Seq(Responses) /\ opened' \subseteq Jobs /\ chatter' \in 0 .. MaxChatter /\ toPeer' \in Seq(Actions)
  BY <1>0, <1>1, JobsAssumption DEF TypeOK
<1>3. /\ pc' = pc /\ job' = job /\ kind' = kind /\ run' = run /\ tid' = tid /\ collected' = collected
      /\ result' = result /\ did' = did
  BY Zenon, <1>1 DEF daemonVars
<1> DEFINE b == Data(id, By(id, <<"b">>))
<1>4. PICK n \in 0 .. Len(wire) : wire' = SubSeq(wire, 1, n) \o b \o SubSeq(wire, n + 1, Len(wire))
  BY ZenonT(30) DEF PeerChatters
<1>5. b \in Seq(Responses) /\ Len(b) = 1 /\ b[1].byte.ch = "b"
  <2> DEFINE c == By(id, <<"b">>)
  <2>1. c = <<[ch |-> "b", of |-> id]>> /\ [ch |-> "b", of |-> id] \in Bytes
    BY JobsAreNat DEF By, Bytes, Letters
  <2> HIDE DEF c
  <2>2. c \in Seq(Bytes) /\ Len(c) = 1 /\ c[1].ch = "b"
    BY <2>1
  <2>3. Data(id, c) \in Seq(Responses) /\ Len(Data(id, c)) = Len(c) /\ \A p \in 1 .. Len(c) : Data(id, c)[p].byte = c[p]
    BY ZenonT(60), <2>2, DataIsResponses
  <2>4. Data(id, c) \in Seq(Responses) /\ Len(Data(id, c)) = 1 /\ Data(id, c)[1].byte.ch = "b"
    BY <2>2, <2>3
  <2> QED
    BY ZenonT(60), <2>4 DEF c
<1> HIDE DEF b
<1>6. wire' \in Seq(Responses) /\ Among(n, wire, wire')
  BY ZenonT(60), <1>2, <1>4, <1>5, AmongResponses
<1>7. TypeOK'
  BY ZenonT(60), <1>0, <1>2, <1>3, <1>6 DEF TypeOK
<1>8. CommandsFit'
  BY ZenonT(60), <1>0, <1>1, <1>3, SameCommands, TakesKeepsCommands
<1>9. IncomingFits'
  BY ZenonT(60), <1>0, <1>1, <1>3, <1>6, CurrentOutput, AmongKeepsIncoming
<1>10. ResultsFit' /\ CompletionIsOwn' /\ StdoutExact'
  BY Zenon, <1>0, <1>3 DEF ResultsFit, CompletionIsOwn, StdoutExact
<1> QED
  BY ZenonT(60), <1>7, <1>8, <1>9, <1>10 DEF IInv

LEMMA UnmarkedFits ==
  ASSUME NEW text, NEW j, Unmarked(text, j), NEW d
  PROVE  Fits(text, j, d)
  BY Zenon DEF Unmarked, Fits

LEMMA LettersAreBytes ==
  ASSUME NEW j \in Jobs, NEW s \in Seq({"x", "n"} \cup Digits)
  PROVE  By(j, s) \in Seq(Bytes)
<1>1. Len(s) \in Nat /\ \A i \in 1 .. Len(s) : s[i] \in {"x", "n"} \cup Digits
  OBVIOUS
<1>2. \A c \in {"x", "n"} \cup Digits : [ch |-> c, of |-> j] \in Bytes
  BY Zenon, JobsAreNat DEF Bytes, Letters
<1>3. \A i \in 1 .. Len(s) : [ch |-> s[i], of |-> j] \in Bytes
  BY ZenonT(60), <1>1, <1>2
<1> QED
  BY <1>1, <1>3 DEF By

MadeOf(more, w, T) ==
    \A p \in 1 .. Len(more) : \/ \E q \in 1 .. Len(w) : more[p] = w[q]
                              \/ \E q \in 1 .. Len(T) : more[p].byte = T[q]

LEMMA WireGoesOn ==
  ASSUME NEW c \in Seq(Bytes), NEW w \in Seq(Responses), NEW T \in Seq(Bytes), NEW id \in Jobs,
         NEW more, more = w \o Data(id, T), NEW text, IsText(c, w, text), NEW text2, IsText(c, more, text2)
  PROVE  GoesOn(text, T, text2) /\ MadeOf(more, w, T)
<1> DEFINE D == Data(id, T)
           k == Len(c)
           m == Len(w)
           t == Len(T)
<1>1. D \in Seq(Responses) /\ Len(D) = t /\ \A p \in 1 .. t : D[p].byte = T[p]
  BY Zenon, DataIsResponses
<1>w. more = w \o D
  BY Zenon
<1> HIDE DEF D
<1>2. /\ more \in Seq(Responses) /\ m \in Nat /\ t \in Nat /\ k \in Nat /\ Len(more) = m + t
      /\ \A p \in 1 .. m : more[p] = w[p]
      /\ \A p \in 1 .. t : more[m + p] = D[p]
  <2>1. Joins(w, D, more)
    BY ZenonT(60), <1>w, <1>1, JoinResponses
  <2>2. Len(w) \in Nat /\ Len(T) \in Nat /\ Len(c) \in Nat
    OBVIOUS
  <2> QED
    BY ZenonT(60), <1>1, <2>1, <2>2 DEF Joins
<1>3. /\ Len(text) = k + m /\ (\A p \in 1 .. k : text[p] = c[p])
      /\ \A p \in 1 .. m : text[k + p] = w[p].byte
  BY Zenon DEF IsText
<1>4. /\ Len(text2) = k + Len(more) /\ (\A p \in 1 .. k : text2[p] = c[p])
      /\ \A p \in 1 .. Len(more) : text2[k + p] = more[p].byte
  BY ZenonT(60) DEF IsText
<1> HIDE DEF k, m, t
<1>5. Len(text2) = Len(text) + t
  BY SMTT(60), <1>2, <1>3, <1>4
<1>6. ASSUME NEW i \in 1 .. Len(text) PROVE text2[i] = text[i]
  <2>1. CASE i \in 1 .. k
    BY ZenonT(60), <2>1, <1>3, <1>4
  <2>2. CASE i \notin 1 .. k
    <3>1. i - k \in 1 .. m /\ i - k \in 1 .. Len(more) /\ k + (i - k) = i
      BY SMTT(60), <2>2, <1>2, <1>3
    <3>2. text[k + (i - k)] = w[i - k].byte /\ text2[k + (i - k)] = more[i - k].byte /\ more[i - k] = w[i - k]
      BY ZenonT(60), <3>1, <1>2, <1>3, <1>4
    <3> QED
      BY ZenonT(60), <3>1, <3>2
  <2> QED
    BY ZenonT(60), <2>1, <2>2
<1>7. ASSUME NEW i \in 1 .. t PROVE text2[Len(text) + i] = T[i]
  <2>1. m + i \in 1 .. Len(more) /\ Len(text) + i = k + (m + i)
    BY SMTT(60), <1>2, <1>3
  <2>2. text2[k + (m + i)] = more[m + i].byte /\ more[m + i] = D[i] /\ D[i].byte = T[i]
    BY ZenonT(60), <2>1, <1>1, <1>2, <1>4
  <2> QED
    BY ZenonT(60), <2>1, <2>2
<1>8. ASSUME NEW p \in 1 .. Len(more)
      PROVE  (\E q \in 1 .. Len(w) : more[p] = w[q]) \/ (\E q \in 1 .. Len(T) : more[p].byte = T[q])
  <2>1. CASE p \in 1 .. m
    BY ZenonT(60), <2>1, <1>2 DEF m
  <2>2. CASE p \notin 1 .. m
    <3>1. p - m \in 1 .. t /\ m + (p - m) = p
      BY SMTT(30), <2>2, <1>2
    <3>2. more[m + (p - m)] = D[p - m] /\ D[p - m].byte = T[p - m]
      BY ZenonT(60), <3>1, <1>1, <1>2
    <3> QED
      BY ZenonT(60), <3>1, <3>2 DEF t
  <2> QED
    BY ZenonT(60), <2>1, <2>2
<1> QED
  BY ZenonT(60), <1>2, <1>5, <1>6, <1>7, <1>8 DEF GoesOn, MadeOf, t

LEMMA PeerRunsStep == IInv /\ PeerRuns => IInv'
<1> SUFFICES ASSUME IInv, PeerRuns PROVE IInv'
  BY Zenon
<1>0. TypeOK /\ CommandsFit /\ IncomingFits /\ ResultsFit /\ CompletionIsOwn /\ StdoutExact /\ PeerTakes("data")
  BY Zenon DEF IInv, PeerRuns
<1> DEFINE id == Head(toPeer).id
           j == Head(toPeer).job
<1>1. /\ Takes(1) /\ toPeer' \in Seq(Actions) /\ id \in Jobs /\ 1 \in 1 .. Len(toPeer) /\ id = toPeer[1].id
      /\ j = toPeer[1].job /\ toPeer[1].type = "data"
  BY ZenonT(60), <1>0, HeadIsAction
<1>2. UNCHANGED <<daemonVars, opened, chatter>>
  BY Zenon DEF PeerRuns
<1>3. wire \in Seq(Responses) /\ opened' \subseteq Jobs /\ chatter' \in 0 .. MaxChatter /\ collected \in Seq(Bytes)
  BY ZenonT(60), <1>0, <1>2 DEF TypeOK
<1>4. CASE id \notin opened
  <2>1. UNCHANGED <<did, wire>>
    BY Zenon, <1>4 DEF PeerRuns
  <2>2. wire' \in Seq(Responses) /\ Follows(Len(wire), wire, wire')
    BY ZenonT(60), <1>3, <2>1, SameWire
  <2> QED
    BY ZenonT(60), <1>1, <1>2, <1>3, <2>1, <2>2, PeerQuiet
<1>5. CASE id \in opened
  <2>1. PICK out \in Outputs, code \in Codes :
           /\ did' = [did EXCEPT ![j] = [out |-> By(j, out), code |-> By(j, code)]]
           /\ wire' = wire \o Data(id, Transcript(j, [out |-> out, code |-> code]))
    BY ZenonT(60), <1>5 DEF PeerRuns
  <2> HIDE DEF id, j
  <2>2. /\ j \in 1 .. job /\ result[j].kind # "done"
        /\ j = job => pc \notin {"opening", "draining"} /\ \A k \in 2 .. Len(toPeer) : toPeer[k].type # "data"
    BY SMTT(60), <1>0, <1>1 DEF CommandsFit
  <2>3. j \in Jobs /\ job \in Jobs /\ job \in Nat
    BY SMTT(60), <1>0, <2>2, JobsAssumption DEF TypeOK, Jobs
  <2>4. out \in Seq({"x", "n"}) /\ code \in Seq(Digits)
    BY ZenonT(60), JobsAssumption
  <2> DEFINE T == Transcript(j, [out |-> out, code |-> code])
             d == [out |-> By(j, out), code |-> By(j, code)]
             text == collected \o Contents(wire)
             text2 == collected \o Contents(wire')
  <2>5. LaidOut(T, j, out, code)
    BY ZenonT(60), <2>3, <2>4, TranscriptParts, JobsAreNat
  <2>6. T \in Seq(Bytes)
    BY Zenon, <2>5 DEF LaidOut
  <2>7. d \in [out : Seq(Bytes), code : Seq(Bytes)]
    <3>1. out \in Seq({"x", "n"} \cup Digits) /\ code \in Seq({"x", "n"} \cup Digits)
      BY <2>4
    <3> QED
      BY ZenonT(60), <2>3, <3>1, LettersAreBytes
  <2>8. wire' = wire \o Data(id, T) /\ did' = [did EXCEPT ![j] = d]
    BY ZenonT(60), <2>1
  <2> HIDE DEF T, d
  <2>9. wire' \in Seq(Responses)
    BY SMTT(60), <1>1, <1>3, <2>6, <2>8, DataIsResponses
  <2>10. IsText(collected, wire, text) /\ IsText(collected, wire', text2)
    BY ZenonT(60), <1>3, <2>9, TextOf
  <2>11. Incoming = text /\ Incoming' = text2
    BY Zenon, <1>2 DEF Incoming, daemonVars
  <2> HIDE DEF text, text2
  <2>12. GoesOn(text, T, text2) /\ MadeOf(wire', wire, T)
    BY ZenonT(60), <1>1, <1>3, <2>6, <2>8, <2>10, WireGoesOn
  <2>13. ASSUME NEW i \in 1 .. Len(T) PROVE T[i].of = j
    <3>1. ReadsAs(T, i, j, out, code)
      BY ZenonT(60), <2>3, <2>4, <2>5, TranscriptMarks, JobsAreNat
    <3> QED
      BY Zenon, <3>1 DEF ReadsAs
  <2>14. text \in Seq(Bytes) /\ text2 \in Seq(Bytes)
    BY ZenonT(60), <2>10 DEF IsText
  <2>15. /\ pc' = pc /\ job' = job /\ kind' = kind /\ run' = run /\ tid' = tid /\ collected' = collected
         /\ result' = result /\ DOMAIN did = Jobs
    BY ZenonT(60), <1>0, <1>2 DEF daemonVars, TypeOK
  <2>16. TypeOK'
    <3>1. did' \in [Jobs -> [out : Seq(Bytes), code : Seq(Bytes)]]
      BY ZenonT(60), <1>0, <2>3, <2>7, <2>8 DEF TypeOK
    <3> QED
      BY ZenonT(60), <1>0, <1>1, <1>3, <2>9, <2>15, <3>1 DEF TypeOK
  <2>17. CommandsFit'
    BY ZenonT(60), <1>0, <1>1, <2>15, TakesKeepsCommands
  <2>18. pc \in {"opening", "draining"} => Unmarked(text2, job)
    <3> SUFFICES ASSUME pc \in {"opening", "draining"} PROVE Unmarked(text2, job)
      BY Zenon
    <3>1. Unmarked(text, job) /\ \A i \in 1 .. Len(T) : T[i].of # job
      BY ZenonT(60), <1>0, <2>2, <2>11, <2>13 DEF IncomingFits
    <3> QED
      BY ZenonT(60), <3>1, <2>6, <2>12, <2>14, OthersUnmarked
  <2>19. pc = "collecting" => /\ Fits(text2, job, did'[job])
                              /\ (\E i \in 1 .. Len(toPeer') : toPeer'[i].type = "data") => Unmarked(text2, job)
    <3> SUFFICES ASSUME pc = "collecting"
                 PROVE  /\ Fits(text2, job, did'[job])
                        /\ (\E i \in 1 .. Len(toPeer') : toPeer'[i].type = "data") => Unmarked(text2, job)
      BY Zenon
    <3>1. Unmarked(text, job)
      BY ZenonT(60), <1>0, <1>1, <2>11 DEF IncomingFits
    <3>2. CASE j = job
      <4>1. did'[job] = d
        BY ZenonT(60), <2>3, <2>8, <2>15, <3>2
      <4>2. Fits(text2, job, d)
        BY ZenonT(60), <2>3, <2>4, <2>5, <2>12, <2>14, <3>1, <3>2, TranscriptFits DEF d
      <4>3. ASSUME NEW i \in 1 .. Len(toPeer') PROVE toPeer'[i].type # "data"
        <5>1. i + 1 \in 2 .. Len(toPeer) /\ toPeer'[i] = toPeer[i + 1]
          BY SMTT(60), <1>0, <1>1 DEF Takes, TypeOK
        <5> QED
          BY ZenonT(60), <2>2, <3>2, <5>1
      <4> QED
        BY ZenonT(60), <4>1, <4>2, <4>3
    <3>3. CASE j # job
      <4>1. \A i \in 1 .. Len(T) : T[i].of # job
        BY Zenon, <2>13, <3>3
      <4>2. Unmarked(text2, job)
        BY ZenonT(60), <4>1, <2>6, <2>12, <2>14, <3>1, OthersUnmarked
      <4> QED
        BY Zenon, <4>2, UnmarkedFits
    <3> QED
      BY ZenonT(60), <3>2, <3>3
  <2>20. \A p \in 1 .. Len(wire') : wire'[p].byte.ch = "s" => wire'[p].byte.of <= job
    <3> SUFFICES ASSUME NEW p \in 1 .. Len(wire'), wire'[p].byte.ch = "s" PROVE wire'[p].byte.of <= job
      BY Zenon
    <3>1. CASE \E q \in 1 .. Len(wire) : wire'[p] = wire[q]
      BY ZenonT(60), <1>0, <3>1 DEF IncomingFits
    <3>2. CASE \E q \in 1 .. Len(T) : wire'[p].byte = T[q]
      BY SMTT(60), <2>2, <2>3, <2>13, <3>2
    <3> QED
      BY ZenonT(60), <2>12, <3>1, <3>2 DEF MadeOf
  <2>21. IncomingFits'
    BY ZenonT(60), <1>0, <2>11, <2>15, <2>18, <2>19, <2>20 DEF IncomingFits
  <2>22. \A i \in Jobs : result'[i].kind = "done" => result[i].kind = "done" /\ result'[i] = result[i] /\ did'[i] = did[i]
    BY ZenonT(60), <2>2, <2>8, <2>15
  <2>23. ResultsFit'
    BY ZenonT(60), <1>0, <2>15 DEF ResultsFit
  <2>24. CompletionIsOwn'
    BY ZenonT(60), <1>0, <2>22 DEF CompletionIsOwn
  <2>25. StdoutExact'
    BY ZenonT(60), <1>0, <2>22 DEF StdoutExact
  <2> QED
    BY ZenonT(60), <2>16, <2>17, <2>21, <2>23, <2>24, <2>25 DEF IInv
<1> QED
  BY ZenonT(60), <1>4, <1>5

-----------------------------------------------------------------------------
(* The daemon. *)

(* What a step of the daemon does to the wire, ... *)
Reads == wire' = wire \/ (wire # <<>> /\ wire' = Tail(wire)) \/ wire' = <<>>

(* ... which is to lose bytes of it, ... *)
Loses == wire' \in Seq(Responses) /\ \A p \in 1 .. Len(wire') : \E q \in 1 .. Len(wire) : wire'[p] = wire[q]

(* ... to the actions it sends, which are no commands, ... *)
Tells ==
    \/ toPeer' = toPeer \/ toPeer' = <<>> \/ toPeer' = <<Action("open", job, 0)>>
    \/ tid # 0 /\ toPeer' = Append(toPeer, CloseAction)

Keeps ==
    /\ toPeer' \in Seq(Actions)
    /\ \A i \in 1 .. Len(toPeer') : toPeer'[i].type = "data" => i \in 1 .. Len(toPeer) /\ toPeer'[i] = toPeer[i]

(* ... and to the results. *)
Reports ==
    \/ result' = result
    \/ /\ result'[job].kind \in {"timed_out", "closed", "confused", "refused", "timeout"}
       /\ result' = [result EXCEPT ![job] = result'[job]]

LEMMA ReadsLoses ==
  ASSUME TypeOK, Reads
  PROVE  Loses
<1>1. wire \in Seq(Responses)
  BY Zenon DEF TypeOK
<1>2. CASE wire' = wire
  BY ZenonT(60), <1>1, <1>2 DEF Loses
<1>3. CASE wire # <<>> /\ wire' = Tail(wire)
  <2>1. wire' \in Seq(Responses) /\ Len(wire) \in Nat /\ Len(wire') = Len(wire) - 1
    BY <1>1, <1>3
  <2>2. ASSUME NEW p \in 1 .. Len(wire') PROVE \E q \in 1 .. Len(wire) : wire'[p] = wire[q]
    <3>1. p + 1 \in 1 .. Len(wire)
      BY <2>1
    <3>2. wire'[p] = wire[p + 1]
      BY <1>1, <1>3, <2>1
    <3> QED
      BY ZenonT(60), <3>1, <3>2
  <2> QED
    BY ZenonT(60), <2>1, <2>2 DEF Loses
<1>4. CASE wire' = <<>>
  BY <1>4 DEF Loses
<1> QED
  BY ZenonT(60), <1>2, <1>3, <1>4 DEF Reads

LEMMA TellsKeeps ==
  ASSUME TypeOK, job \in Jobs \/ toPeer' = toPeer, Tells
  PROVE  Keeps
<1>1. toPeer \in Seq(Actions) /\ Len(toPeer) \in Nat
  BY DEF TypeOK
<1>2. CASE toPeer' = toPeer
  BY Zenon, <1>1, <1>2 DEF Keeps
<1>3. CASE toPeer' = <<>>
  BY <1>3 DEF Keeps
<1>4. CASE job \in Jobs /\ toPeer' = <<Action("open", job, 0)>>
  <2>1. Action("open", job, 0) \in Actions /\ Action("open", job, 0).type # "data"
    BY SMTT(30), <1>4, JobsAssumption DEF Action, Actions
  <2> QED
    BY <1>4, <2>1 DEF Keeps
<1>5. CASE tid # 0 /\ toPeer' = Append(toPeer, CloseAction)
  <2>1. tid \in Jobs
    BY SMTT(60), <1>5, JobsAssumption DEF TypeOK, Jobs
  <2>2. CloseAction \in Actions /\ CloseAction.type # "data"
    BY SMTT(60), <2>1, JobsAssumption DEF CloseAction, Action, Actions
  <2>3. /\ toPeer' \in Seq(Actions) /\ Len(toPeer') = Len(toPeer) + 1 /\ toPeer'[Len(toPeer) + 1] = CloseAction
        /\ \A i \in 1 .. Len(toPeer) : toPeer'[i] = toPeer[i]
    BY SMTT(60), <1>1, <1>5, <2>2
  <2> QED
    BY SMTT(60), <1>1, <2>2, <2>3 DEF Keeps
<1> QED
  BY ZenonT(60), <1>2, <1>3, <1>4, <1>5 DEF Tells

LEMMA ReportsNoMore ==
  ASSUME TypeOK, job \in Jobs \/ result' = result, Reports
  PROVE  /\ DOMAIN result' = Jobs
         /\ \A j \in Jobs : result'[j].kind \in {"none", "done", "timed_out", "closed", "confused",
                                                 "refused", "timeout"}
         /\ \A j \in Jobs : result'[j].kind = "done" => result'[j] = result[j]
<1>1. DOMAIN result = Jobs
  BY Zenon DEF TypeOK
<1>2. CASE result' = result
  BY ZenonT(60), <1>2 DEF TypeOK
<1>3. CASE /\ job \in Jobs /\ result'[job].kind \in {"timed_out", "closed", "confused", "refused", "timeout"}
           /\ result' = [result EXCEPT ![job] = result'[job]]
  <2>1. DOMAIN result' = Jobs /\ \A j \in Jobs : result'[j] = IF j = job THEN result'[job] ELSE result[j]
    BY ZenonT(60), <1>1, <1>3
  <2> QED
    BY ZenonT(60), <1>3, <2>1 DEF TypeOK
<1> QED
  BY Zenon, <1>2, <1>3 DEF Reports

(* A step that neither starts a job, nor sends a command, nor completes one. *)
Quiet ==
    /\ Reads /\ Tells /\ Reports
    /\ job' = job /\ kind' = kind /\ run' \in {1, 2} /\ collected' = <<>> /\ did' = did /\ chatter' = chatter
    /\ opened' \subseteq opened
    /\ pc' \in {"idle", "opening", "draining", "shell"}
    /\ tid' \in 0 .. NumJobs /\ (pc' \in {"draining", "shell"} => tid' # 0)
    /\ pc = "idle" => pc' = "idle" /\ toPeer' = toPeer /\ result' = result
    /\ \/ pc' \notin {"opening", "draining"} \/ pc \in {"opening", "draining"}
       \/ wire' = <<>> /\ toPeer' = <<Action("open", job, 0)>>

LEMMA CurrentJob ==
  ASSUME TypeOK, pc # "idle"
  PROVE  job \in Jobs /\ job \in Nat
  BY JobsAssumption DEF TypeOK, Jobs

LEMMA QuietKeepsTypes ==
  ASSUME TypeOK, Quiet
  PROVE  TypeOK' /\ Loses /\ Keeps /\ \A j \in Jobs : result'[j].kind = "done" => result'[j] = result[j]
<1>1. job \in Jobs \/ (toPeer' = toPeer /\ result' = result /\ pc' = "idle")
  BY Zenon, CurrentJob DEF Quiet
<1>2. Loses
  BY Zenon, ReadsLoses DEF Quiet
<1>3. Keeps
  BY Zenon, <1>1, TellsKeeps DEF Quiet
<1>4. /\ DOMAIN result' = Jobs
      /\ \A j \in Jobs : result'[j].kind \in {"none", "done", "timed_out", "closed", "confused",
                                              "refused", "timeout"}
      /\ \A j \in Jobs : result'[j].kind = "done" => result'[j] = result[j]
  BY ZenonT(60), <1>1, ReportsNoMore DEF Quiet
<1>5. wire' \in Seq(Responses) /\ toPeer' \in Seq(Actions)
  BY ZenonT(60), <1>2, <1>3 DEF Loses, Keeps
<1>6. /\ pc' \in {"idle", "opening", "draining", "collecting", "shell"}
      /\ job' \in 0 .. NumJobs /\ kind' \in Kinds \cup {"none"} /\ run' \in {1, 2}
      /\ collected' \in Seq(Bytes)
      /\ did' \in [Jobs -> [out : Seq(Bytes), code : Seq(Bytes)]]
      /\ opened' \subseteq Jobs /\ chatter' \in 0 .. MaxChatter
  BY DEF Quiet, TypeOK
<1>7. tid' \in 0 .. NumJobs /\ (pc' \in {"draining", "collecting", "shell"} => tid' # 0)
  BY Zenon DEF Quiet
<1>8. pc' # "idle" => job' # 0
  BY <1>1, JobsAssumption DEF Quiet, Jobs
<1>9. TypeOK'
  BY ZenonT(60), <1>4, <1>5, <1>6, <1>7, <1>8 DEF TypeOK
<1> QED
  BY ZenonT(60), <1>2, <1>3, <1>4, <1>9

LEMMA QuietKeepsCommands ==
  ASSUME IInv, Quiet
  PROVE  CommandsFit'
<1>1. TypeOK /\ CommandsFit
  BY Zenon DEF IInv
<1>2. /\ Keeps /\ \A j \in Jobs : result'[j].kind = "done" => result'[j] = result[j]
  BY ZenonT(60), <1>1, QuietKeepsTypes
<1>3. job' = job /\ job \in 0 .. NumJobs /\ NumJobs \in Nat /\ toPeer' \in Seq(Actions) /\ toPeer \in Seq(Actions)
  BY ZenonT(60), <1>1, <1>2, JobsAssumption DEF Quiet, TypeOK, Keeps
<1>4. /\ Len(toPeer) \in Nat /\ Len(toPeer') \in Nat
      /\ \A i \in 1 .. Len(toPeer') : toPeer'[i].type = "data" => i \in 1 .. Len(toPeer) /\ toPeer'[i] = toPeer[i]
  BY SMTT(30), <1>2, <1>3 DEF Keeps
<1> SUFFICES ASSUME NEW i \in 1 .. Len(toPeer'), toPeer'[i].type = "data"
             PROVE  /\ toPeer'[i].job \in 1 .. job
                    /\ result'[toPeer'[i].job].kind # "done"
                    /\ toPeer'[i].job = job => /\ pc' \notin {"opening", "draining"}
                                               /\ \A k \in i + 1 .. Len(toPeer') : toPeer'[k].type # "data"
  BY ZenonT(60), <1>3 DEF CommandsFit
<1>5. i \in 1 .. Len(toPeer) /\ toPeer'[i] = toPeer[i]
  BY ZenonT(60), <1>4
<1>6. /\ toPeer[i].job \in 1 .. job
      /\ result[toPeer[i].job].kind # "done"
      /\ toPeer[i].job = job => /\ pc \notin {"opening", "draining"}
                                /\ \A k \in i + 1 .. Len(toPeer) : toPeer[k].type # "data"
  BY ZenonT(60), <1>1, <1>5 DEF CommandsFit
<1>7. toPeer[i].job \in Jobs
  BY SMTT(30), <1>3, <1>6 DEF Jobs
<1>8. toPeer'[i].job \in 1 .. job /\ result'[toPeer'[i].job].kind # "done"
  BY ZenonT(60), <1>2, <1>5, <1>6, <1>7
<1>9. ASSUME toPeer[i].job = job PROVE pc' \notin {"opening", "draining"}
  <2>1. toPeer' # <<Action("open", job, 0)>>
    BY SMTT(30) DEF Action
  <2> QED
    BY ZenonT(60), <1>6, <1>9, <2>1 DEF Quiet
<1>10. ASSUME toPeer[i].job = job, NEW k \in i + 1 .. Len(toPeer') PROVE toPeer'[k].type # "data"
  <2>1. k \in 1 .. Len(toPeer')
    BY SMTT(30), <1>4
  <2>2. CASE toPeer'[k].type = "data"
    <3>1. k \in 1 .. Len(toPeer) /\ toPeer'[k] = toPeer[k]
      BY ZenonT(60), <1>4, <2>1, <2>2
    <3>2. k \in i + 1 .. Len(toPeer)
      BY SMTT(60), <1>4, <3>1
    <3> QED
      BY ZenonT(60), <1>6, <1>10, <3>1, <3>2
  <2> QED
    BY ZenonT(60), <2>2
<1> QED
  BY ZenonT(60), <1>5, <1>8, <1>9, <1>10

LEMMA QuietStep ==
  ASSUME IInv, Quiet
  PROVE  IInv'
<1>1. TypeOK /\ IncomingFits /\ ResultsFit /\ CompletionIsOwn /\ StdoutExact
  BY Zenon DEF IInv
<1>2. TypeOK' /\ Loses /\ Keeps /\ \A j \in Jobs : result'[j].kind = "done" => result'[j] = result[j]
  BY ZenonT(60), <1>1, QuietKeepsTypes
<1>3. CommandsFit'
  BY Zenon, QuietKeepsCommands
<1>4. job' = job /\ did' = did /\ collected' = <<>> /\ pc' # "collecting" /\ (pc = "idle" => pc' = "idle")
  BY Zenon DEF Quiet
<1>5. collected \in Seq(Bytes) /\ wire \in Seq(Responses) /\ wire' \in Seq(Responses)
  BY ZenonT(60), <1>1, <1>2 DEF TypeOK, Loses
<1>6. \A p \in 1 .. Len(wire') : \E q \in 1 .. Len(wire) : wire'[p] = wire[q]
  BY ZenonT(60), <1>2 DEF Loses
<1>7. ASSUME pc' \in {"opening", "draining"} PROVE Unmarked(Incoming', job)
  <2> DEFINE text == collected \o Contents(wire)
             text2 == <<>> \o Contents(wire')
  <2>1. IsText(collected, wire, text) /\ IsText(<<>>, wire', text2)
    <3>1. <<>> \in Seq(Bytes)
      OBVIOUS
    <3> QED
      BY ZenonT(60), <1>5, <3>1, TextOf
  <2>2. Incoming = text /\ Incoming' = text2
    BY ZenonT(60), <1>4 DEF Incoming
  <2> HIDE DEF text, text2
  <2>3. /\ Len(text2) = Len(wire') /\ \A p \in 1 .. Len(wire') : text2[p] = wire'[p].byte
    BY SMTT(60), <1>5, <2>1 DEF IsText
  <2>4. CASE pc \in {"opening", "draining"}
    <3>1. Unmarked(text, job) /\ collected = <<>>
      BY ZenonT(60), <1>1, <2>2, <2>4 DEF IncomingFits
    <3>2. Len(text) = Len(wire) /\ \A p \in 1 .. Len(wire) : text[p] = wire[p].byte
      BY SMTT(60), <1>5, <2>1, <3>1 DEF IsText
    <3> QED
      BY SMTT(60), <1>6, <2>2, <2>3, <3>1, <3>2 DEF Unmarked
  <2>5. CASE wire' = <<>>
    BY SMTT(60), <2>2, <2>3, <2>5 DEF Unmarked
  <2> QED
    BY ZenonT(60), <1>7, <2>4, <2>5 DEF Quiet
<1>8. IncomingFits'
  BY ZenonT(60), <1>1, <1>4, <1>6, <1>7 DEF IncomingFits
<1>9. ResultsFit'
  BY ZenonT(60), <1>1, <1>2, <1>4 DEF ResultsFit
<1>10. CompletionIsOwn'
  BY ZenonT(60), <1>1, <1>2, <1>4 DEF CompletionIsOwn
<1>11. StdoutExact'
  BY ZenonT(60), <1>1, <1>2, <1>4 DEF StdoutExact
<1> QED
  BY ZenonT(60), <1>2, <1>3, <1>8, <1>9, <1>10, <1>11 DEF IInv

LEMMA ReportReports ==
  ASSUME TypeOK, pc # "idle", NEW r, r.kind \in {"timed_out", "closed", "confused", "refused", "timeout"}, Report(r)
  PROVE  Reports
<1>1. result' = [result EXCEPT ![job] = r] /\ DOMAIN result = Jobs /\ job \in Jobs
  BY ZenonT(60), CurrentJob DEF Report, TypeOK
<1>2. result'[job] = r
  BY ZenonT(60), <1>1
<1> QED
  BY ZenonT(60), <1>1, <1>2 DEF Reports

LEMMA IdleReceiveQuiet == IInv /\ IdleReceive => Quiet
<1> SUFFICES ASSUME IInv, IdleReceive PROVE Quiet
  BY Zenon
<1>1. TypeOK /\ collected = <<>>
  BY Zenon DEF IInv, IncomingFits, IdleReceive
<1> QED
  BY ZenonT(60), <1>1 DEF IdleReceive, Take, daemonVars, Quiet, Reads, Tells, Reports, TypeOK

LEMMA FailExecQuiet ==
  ASSUME IInv, pc \in {"opening", "draining", "collecting"},
         NEW class, NEW why \in {"confused", "refused", "timeout"},
         NEW w, w = wire \/ (wire # <<>> /\ w = Tail(wire)),
         NEW a, a = toPeer \/ (tid # 0 /\ a = Append(toPeer, CloseAction)),
         FailExec(class, why, w, a)
  PROVE  Quiet
<1>1. TypeOK
  BY Zenon DEF IInv
<1>2. CASE class = "lost" /\ run = 1
  BY ZenonT(60), <1>1, <1>2 DEF FailExec, FreshStream, Quiet, Reads, Tells, Reports, TypeOK
<1>3. CASE ~(class = "lost" /\ run = 1)
  <2>1. Report(Failed(why)) /\ wire' = w /\ toPeer' = a /\ UNCHANGED <<did, opened, chatter>>
    BY ZenonT(60), <1>3 DEF FailExec
  <2>2. Failed(why).kind = why
    BY Zenon DEF Failed, NoResult
  <2>3. Reports
    BY SMTT(60), <1>1, <2>1, <2>2, ReportReports
  <2> QED
    BY ZenonT(60), <1>1, <2>1, <2>3 DEF Report, Quiet, Reads, Tells, TypeOK
<1> QED
  BY ZenonT(60), <1>2, <1>3

LEMMA FailOpenQuiet ==
  ASSUME IInv, pc = "opening", NEW class, NEW why \in {"confused", "refused", "timeout"},
         NEW w, w = wire \/ (wire # <<>> /\ w = Tail(wire)), FailOpen(class, why, w)
  PROVE  Quiet
<1>1. CASE FailExec(class, why, w, toPeer)
  BY ZenonT(60), <1>1, FailExecQuiet
<1>2. CASE FailShell(class, w)
  <2>1. TypeOK /\ collected = <<>>
    BY Zenon DEF IInv, IncomingFits
  <2> QED
    BY ZenonT(60), <1>2, <2>1 DEF FailShell, FreshStream, Quiet, Reads, Tells, Reports, TypeOK
<1> QED
  BY ZenonT(60), <1>1, <1>2 DEF FailOpen

LEMMA OpenQuiet == IInv /\ (OpenSucceeds \/ OpenFails \/ OpenTimesOut) => Quiet
<1> SUFFICES ASSUME IInv, OpenSucceeds \/ OpenFails \/ OpenTimesOut PROVE Quiet
  BY Zenon
<1>1. TypeOK /\ (pc # "collecting" => collected = <<>>)
  BY Zenon DEF IInv, IncomingFits
<1>2. CASE OpenSucceeds
  <2>1. wire # <<>> /\ wire' = Tail(wire) /\ tid' = Head(wire).id /\ pc = "opening"
    BY ZenonT(60), <1>2 DEF OpenSucceeds, Next_is, Take
  <2>2. wire \in Seq(Responses)
    BY ZenonT(60), <1>1 DEF TypeOK
  <2>3. Head(wire) \in Responses
    BY <2>1, <2>2
  <2>4. tid' \in Jobs
    BY ZenonT(60), <2>1, <2>3, ResponseFields
  <2>5. tid' \in 0 .. NumJobs /\ tid' # 0
    BY <2>4, JobsAssumption DEF Jobs
  <2> QED
    BY ZenonT(60), <1>1, <1>2, <2>1, <2>5 DEF OpenSucceeds, Quiet, Reads, Tells, Reports, TypeOK
<1>3. CASE OpenFails
  <2>1. pc = "opening" /\ wire # <<>> /\ \E class, why : /\ why \in {"confused", "refused", "timeout"}
                                                         /\ FailOpen(class, why, Tail(wire))
    BY Zenon, <1>3 DEF OpenFails, Next_is
  <2> QED
    BY ZenonT(60), <2>1, FailOpenQuiet
<1>4. CASE OpenTimesOut
  BY ZenonT(60), <1>4, FailOpenQuiet DEF OpenTimesOut
<1> QED
  BY ZenonT(60), <1>2, <1>3, <1>4

LEMMA DrainQuiet == IInv /\ (DrainData \/ DrainClosed \/ DrainFails) => Quiet
<1> SUFFICES ASSUME IInv, DrainData \/ DrainClosed \/ DrainFails PROVE Quiet
  BY Zenon
<1>1. TypeOK /\ pc = "draining" /\ collected = <<>>
  BY Zenon DEF IInv, IncomingFits, DrainData, DrainClosed, DrainFails
<1>2. tid # 0
  BY ZenonT(60), <1>1 DEF TypeOK
<1>3. CASE DrainData
  BY ZenonT(60), <1>1, <1>3 DEF DrainData, Next_is, Take, daemonVars, Quiet, Reads, Tells, Reports, TypeOK
<1>4. CASE DrainClosed
  <2>1. Report(Failed("closed")) /\ Failed("closed").kind = "closed"
    BY ZenonT(60), <1>4 DEF DrainClosed, Failed, NoResult
  <2>2. Reports
    BY SMTT(60), <1>1, <2>1, ReportReports
  <2> QED
    BY ZenonT(60), <1>1, <1>4, <2>1, <2>2 DEF DrainClosed, Next_is, Take, Report, Quiet, Reads, Tells, TypeOK
<1>5. CASE DrainFails
  <2>1. wire # <<>> /\ \E class, why : /\ why \in {"confused", "refused", "timeout"}
                                       /\ FailExec(class, why, Tail(wire), Append(toPeer, CloseAction))
    BY ZenonT(60), <1>5 DEF DrainFails, Next_is
  <2> QED
    BY ZenonT(60), <1>1, <1>2, <2>1, FailExecQuiet
<1> QED
  BY Zenon, <1>3, <1>4, <1>5

LEMMA CollectQuiet == IInv /\ (CollectClosed \/ CollectFails \/ CollectTimesOut) => Quiet
<1> SUFFICES ASSUME IInv, CollectClosed \/ CollectFails \/ CollectTimesOut PROVE Quiet
  BY Zenon
<1>1. TypeOK /\ pc = "collecting"
  BY ZenonT(60) DEF IInv, CollectClosed, CollectFails, CollectTimesOut
<1>2. tid # 0
  BY ZenonT(60), <1>1 DEF TypeOK
<1>3. CASE CollectClosed
  <2> DEFINE r == [NoResult EXCEPT !.kind = "closed", !.stdout = Trim(collected)]
  <2>1. Report(r) /\ r.kind = "closed"
    BY ZenonT(60), <1>3 DEF CollectClosed, NoResult
  <2> HIDE DEF r
  <2>2. Reports
    BY SMTT(60), <1>1, <2>1, ReportReports
  <2> QED
    BY ZenonT(60), <1>1, <1>2, <1>3, <2>1, <2>2 DEF CollectClosed, Next_is, Take, Send, Report, Quiet, Reads, Tells, TypeOK
<1>4. CASE CollectFails
  <2>1. wire # <<>> /\ \E class, why : /\ why \in {"confused", "refused", "timeout"}
                                       /\ FailExec(class, why, Tail(wire), Append(toPeer, CloseAction))
    BY ZenonT(60), <1>4 DEF CollectFails, Next_is
  <2> QED
    BY ZenonT(60), <1>1, <1>2, <2>1, FailExecQuiet
<1>5. CASE CollectTimesOut
  <2> DEFINE r == [kind |-> "timed_out", stdout |-> parse_exec_output(collected, job).stdout,
                   code |-> parse_exec_output(collected, job).code,
                   strays |-> {collected[k].of : k \in Strays(collected, job)}]
  <2>1. Report(r) /\ Send(CloseAction) /\ UNCHANGED <<did, wire, opened, chatter>> /\ r.kind = "timed_out"
    BY ZenonT(30), <1>5 DEF CollectTimesOut, Complete
  <2> HIDE DEF r
  <2>2. Reports
    BY <1>1, <2>1, ReportReports
  <2> QED
    BY ZenonT(60), <1>1, <1>2, <2>1, <2>2 DEF Send, Report, Quiet, Reads, Tells, TypeOK
<1> QED
  BY Zenon, <1>3, <1>4, <1>5

LEMMA ShellQuietSteps == IInv /\ Shell => Quiet
<1> SUFFICES ASSUME IInv, Shell PROVE Quiet
  BY Zenon
<1>1. TypeOK /\ pc = "shell" /\ collected = <<>>
  BY ZenonT(30) DEF IInv, IncomingFits, Shell, ShellData, ShellEof, ShellTerminalEnds, ShellQuiet
<1>2. tid # 0
  BY ZenonT(60), <1>1 DEF TypeOK
<1>3. CASE ShellData
  BY ZenonT(60), <1>1, <1>2, <1>3 DEF ShellData, Next_is, Take, daemonVars, Quiet, Reads, Tells, Reports, TypeOK
<1>4. CASE ShellEof
  BY ZenonT(60), <1>1, <1>2, <1>4 DEF ShellEof, ShellEnd, Send, Quiet, Reads, Tells, Reports, TypeOK
<1>5. CASE ShellTerminalEnds
  BY ZenonT(60), <1>1, <1>2, <1>5 DEF ShellTerminalEnds, ShellEnd, Next_is, Take, Quiet, Reads, Tells, Reports, TypeOK
<1>6. CASE ShellQuiet
  BY ZenonT(60), <1>1, <1>2, <1>6 DEF ShellQuiet, ShellEnd, Quiet, Reads, Tells, Reports, TypeOK
<1> QED
  BY ZenonT(60), <1>3, <1>4, <1>5, <1>6 DEF Shell

(* A new command to the peer comes last. *)
LEMMA Appended ==
  ASSUME TypeOK, NEW a \in Actions, Send(a)
  PROVE  /\ toPeer' \in Seq(Actions) /\ Len(toPeer) \in Nat /\ Len(toPeer') = Len(toPeer) + 1
         /\ \A i \in 1 .. Len(toPeer) : toPeer'[i] = toPeer[i]
         /\ toPeer'[Len(toPeer) + 1] = a
<1>1. toPeer \in Seq(Actions) /\ toPeer' = Append(toPeer, a)
  BY Zenon DEF TypeOK, Send
<1> QED
  BY SMTT(30), <1>1

LEMMA StartStep ==
  ASSUME IInv, NEW k \in Kinds, Start(k)
  PROVE  IInv'
<1> DEFINE a == Action("open", job + 1, 0)
<1>1. TypeOK /\ CommandsFit /\ IncomingFits /\ ResultsFit /\ CompletionIsOwn /\ StdoutExact
  BY Zenon DEF IInv
<1>2. /\ pc = "idle" /\ job < NumJobs /\ pc' = "opening" /\ job' = job + 1 /\ kind' = k /\ run' = 1
      /\ Send(a) /\ tid' = tid /\ collected' = collected /\ result' = result /\ did' = did /\ wire' = wire
      /\ opened' = opened /\ chatter' = chatter
  BY ZenonT(60) DEF Start
<1>3. job \in Nat /\ job + 1 \in Jobs /\ NumJobs \in Nat /\ job + 1 \in 0 .. NumJobs
  BY SMTT(60), <1>1, <1>2, JobsAssumption DEF TypeOK, Jobs
<1>4. a \in Actions /\ a.type = "open"
  BY SMTT(30), <1>3, JobsAssumption DEF Action, Actions
<1> HIDE DEF a
<1>5. /\ toPeer' \in Seq(Actions) /\ Len(toPeer) \in Nat /\ Len(toPeer') = Len(toPeer) + 1
      /\ \A i \in 1 .. Len(toPeer) : toPeer'[i] = toPeer[i]
      /\ toPeer'[Len(toPeer) + 1] = a
  BY ZenonT(60), <1>1, <1>2, <1>4, Appended
<1>6. TypeOK'
  <2>1. /\ pc' \in {"idle", "opening", "draining", "collecting", "shell"} /\ pc' \notin {"draining", "collecting", "shell"}
        /\ kind' \in Kinds \cup {"none"} /\ run' \in {1, 2} /\ job' \in 0 .. NumJobs /\ job' # 0
    BY SMTT(60), <1>2, <1>3
  <2> QED
    BY ZenonT(60), <1>1, <1>2, <1>5, <2>1 DEF TypeOK
<1>7. CommandsFit'
  <2> SUFFICES ASSUME NEW i \in 1 .. Len(toPeer'), toPeer'[i].type = "data"
               PROVE  toPeer'[i].job \in 1 .. job + 1 /\ result[toPeer'[i].job].kind # "done" /\ toPeer'[i].job # job + 1
    BY ZenonT(60), <1>2 DEF CommandsFit
  <2>1. i \in 1 .. Len(toPeer) /\ toPeer'[i] = toPeer[i]
    BY SMTT(30), <1>4, <1>5
  <2>2. toPeer[i].job \in 1 .. job /\ result[toPeer[i].job].kind # "done"
    BY ZenonT(60), <1>1, <2>1 DEF CommandsFit
  <2> QED
    BY SMTT(60), <1>3, <2>1, <2>2
<1>8. Unmarked(Incoming', job + 1)
  <2>1. collected = <<>> /\ wire \in Seq(Responses) /\ <<>> \in Seq(Bytes)
    BY ZenonT(60), <1>1, <1>2 DEF IncomingFits, TypeOK
  <2> DEFINE text == <<>> \o Contents(wire)
  <2>2. Incoming' = text
    BY ZenonT(60), <1>2, <2>1 DEF Incoming
  <2>3. IsText(<<>>, wire, text)
    BY ZenonT(60), <2>1, TextOf
  <2> HIDE DEF text
  <2>4. Len(text) = Len(wire) /\ \A p \in 1 .. Len(wire) : text[p] = wire[p].byte
    BY <2>1, <2>3 DEF IsText
  <2> SUFFICES ASSUME NEW p \in 1 .. Len(wire), text[p] = Mark(job + 1) PROVE FALSE
    BY ZenonT(60), <2>2, <2>4 DEF Unmarked
  <2>5. wire[p].byte.ch = "s" /\ wire[p].byte.of = job + 1
    BY SMTT(30), <2>4 DEF Mark
  <2>6. job + 1 <= job
    BY ZenonT(60), <1>1, <2>5 DEF IncomingFits
  <2> QED
    BY SMTT(60), <1>3, <2>6
<1>9. \A p \in 1 .. Len(wire) : wire[p].byte.ch = "s" => wire[p].byte.of <= job + 1
  <2> SUFFICES ASSUME NEW p \in 1 .. Len(wire), wire[p].byte.ch = "s" PROVE wire[p].byte.of <= job + 1
    BY ZenonT(60)
  <2>1. wire \in Seq(Responses)
    BY ZenonT(60), <1>1 DEF TypeOK
  <2>2. wire[p] \in Responses
    BY SMTT(60), <2>1
  <2>3. wire[p].byte.of \in Nat
    BY SMTT(60), <2>2, JobsAssumption DEF Responses, Bytes, Letters, Jobs
  <2>4. wire[p].byte.of <= job
    BY Zenon, <1>1 DEF IncomingFits
  <2> QED
    BY SMTT(60), <1>3, <2>3, <2>4
<1>10. IncomingFits'
  BY ZenonT(60), <1>1, <1>2, <1>8, <1>9 DEF IncomingFits
<1>11. ResultsFit'
  <2> SUFFICES ASSUME NEW j \in Jobs, j > job + 1 \/ j = job + 1 PROVE result[j].kind # "done"
    BY ZenonT(60), <1>2 DEF ResultsFit
  <2>1. j > job
    BY SMTT(30), <1>3 DEF Jobs
  <2> QED
    BY ZenonT(60), <1>1, <2>1 DEF ResultsFit
<1>12. CompletionIsOwn' /\ StdoutExact'
  BY ZenonT(60), <1>1, <1>2 DEF CompletionIsOwn, StdoutExact
<1> QED
  BY ZenonT(60), <1>6, <1>7, <1>10, <1>11, <1>12 DEF IInv

LEMMA SendCommandStep == IInv /\ SendCommand => IInv'
<1> SUFFICES ASSUME IInv, SendCommand PROVE IInv'
  BY Zenon
<1> DEFINE a == Action("data", tid, job)
<1>1. TypeOK /\ CommandsFit /\ IncomingFits /\ ResultsFit /\ CompletionIsOwn /\ StdoutExact
  BY Zenon DEF IInv
<1>2. /\ pc = "draining" /\ pc' = "collecting" /\ Send(a) /\ job' = job /\ kind' = kind /\ run' = run /\ tid' = tid
      /\ collected' = collected /\ result' = result /\ did' = did /\ wire' = wire /\ opened' = opened
      /\ chatter' = chatter
  BY ZenonT(60) DEF SendCommand
<1>3. job \in Jobs /\ job \in Nat /\ job \in 0 .. NumJobs /\ job \in 1 .. job /\ tid \in Jobs /\ tid # 0
  <2>1. job \in Jobs /\ job \in Nat
    BY ZenonT(60), <1>1, <1>2, CurrentJob
  <2> QED
    BY SMTT(60), <1>1, <1>2, <2>1, JobsAssumption DEF TypeOK, Jobs
<1>4. a \in Actions /\ a.type = "data" /\ a.job = job
  BY ZenonT(60), <1>3 DEF Action, Actions
<1> HIDE DEF a
<1>5. /\ toPeer' \in Seq(Actions) /\ Len(toPeer) \in Nat /\ Len(toPeer') = Len(toPeer) + 1
      /\ \A i \in 1 .. Len(toPeer) : toPeer'[i] = toPeer[i]
      /\ toPeer'[Len(toPeer) + 1] = a
  BY ZenonT(60), <1>1, <1>2, <1>4, Appended
<1>6. TypeOK'
  <2>1. pc' \in {"idle", "opening", "draining", "collecting", "shell"} /\ job # 0
    BY ZenonT(60), <1>1, <1>2 DEF TypeOK
  <2> QED
    BY ZenonT(60), <1>1, <1>2, <1>3, <1>5, <2>1 DEF TypeOK
<1>7. CommandsFit'
  <2> SUFFICES ASSUME NEW i \in 1 .. Len(toPeer'), toPeer'[i].type = "data"
               PROVE  /\ toPeer'[i].job \in 1 .. job /\ result[toPeer'[i].job].kind # "done"
                      /\ toPeer'[i].job = job => \A k \in i + 1 .. Len(toPeer') : toPeer'[k].type # "data"
    BY ZenonT(60), <1>2 DEF CommandsFit
  <2>1. CASE i \in 1 .. Len(toPeer)
    <3>1. toPeer'[i] = toPeer[i]
      BY ZenonT(60), <1>5, <2>1
    <3>2. toPeer[i].job \in 1 .. job /\ result[toPeer[i].job].kind # "done" /\ toPeer[i].job # job
      BY ZenonT(60), <1>1, <1>2, <2>1, <3>1 DEF CommandsFit
    <3> QED
      BY ZenonT(60), <3>1, <3>2
  <2>2. CASE i \notin 1 .. Len(toPeer)
    <3>1. i = Len(toPeer) + 1 /\ i + 1 .. Len(toPeer') = {}
      BY <1>5, <2>2
    <3>2. toPeer'[i] = a
      BY ZenonT(60), <1>5, <3>1
    <3>3. result[job].kind # "done"
      BY ZenonT(60), <1>1, <1>2, <1>3 DEF ResultsFit
    <3> QED
      BY ZenonT(60), <1>3, <1>4, <3>1, <3>2, <3>3
  <2> QED
    BY ZenonT(60), <2>1, <2>2
<1>8. Incoming' = Incoming /\ Unmarked(Incoming, job)
  BY ZenonT(60), <1>1, <1>2 DEF IncomingFits, Incoming
<1>9. Fits(Incoming, job, did[job])
  BY ZenonT(60), <1>8, UnmarkedFits
<1>10. IncomingFits'
  BY ZenonT(60), <1>1, <1>2, <1>8, <1>9 DEF IncomingFits
<1>11. ResultsFit' /\ CompletionIsOwn' /\ StdoutExact'
  BY ZenonT(60), <1>1, <1>2 DEF ResultsFit, CompletionIsOwn, StdoutExact
<1> QED
  BY SMTT(60), <1>6, <1>7, <1>10, <1>11 DEF IInv

(* What a chunk moves from the wire to the collected bytes. *)
LEMMA ChunkSplits ==
  ASSUME NEW c \in Seq(Bytes), NEW w \in Seq(Responses), NEW n \in 1 .. Len(w),
         NEW text, IsText(c, w, text), NEW raw, IsText(c, SubSeq(w, 1, n), raw),
         NEW text2, IsText(raw, SubSeq(w, n + 1, Len(w)), text2)
  PROVE  Trails(Len(raw), text, raw) /\ Trails(Len(text), text, text2)
<1> DEFINE k == Len(c)
           m == Len(w)
           w1 == SubSeq(w, 1, n)
           w2 == SubSeq(w, n + 1, Len(w))
<1>1. k \in Nat /\ m \in Nat /\ n \in Nat /\ n <= m /\ n >= 1
  OBVIOUS
<1>2. Len(w1) = n /\ \A p \in 1 .. n : w1[p] = w[p]
  BY SMTT(60), <1>1
<1>3. Len(w2) = m - n /\ \A p \in 1 .. m - n : w2[p] = w[n + p]
  BY <1>1
<1>4. Len(text) = k + m /\ (\A p \in 1 .. k : text[p] = c[p]) /\ \A p \in 1 .. m : text[k + p] = w[p].byte
  BY Zenon DEF IsText
<1>5. Len(raw) = k + Len(w1) /\ (\A p \in 1 .. k : raw[p] = c[p]) /\ \A p \in 1 .. Len(w1) : raw[k + p] = w1[p].byte
  BY Zenon DEF IsText
<1>6. /\ Len(text2) = Len(raw) + Len(w2) /\ (\A p \in 1 .. Len(raw) : text2[p] = raw[p])
      /\ \A p \in 1 .. Len(w2) : text2[Len(raw) + p] = w2[p].byte
  BY ZenonT(60) DEF IsText
<1> HIDE DEF k, m, w1, w2
<1>7. Len(raw) = k + n /\ Len(text2) = k + m /\ Len(raw) \in Nat /\ Len(text) \in Nat
  BY SMTT(60), <1>1, <1>2, <1>3, <1>4, <1>5, <1>6
<1>8. ASSUME NEW p \in 1 .. Len(raw) PROVE raw[p] = text[p]
  <2>1. CASE p \in 1 .. k
    BY ZenonT(60), <2>1, <1>4, <1>5
  <2>2. CASE p \notin 1 .. k
    <3>1. p - k \in 1 .. n /\ p - k \in 1 .. m /\ k + (p - k) = p
      BY SMTT(60), <1>1, <1>7, <2>2
    <3>2. raw[k + (p - k)] = w1[p - k].byte /\ w1[p - k] = w[p - k] /\ text[k + (p - k)] = w[p - k].byte
      BY ZenonT(60), <3>1, <1>2, <1>4, <1>5
    <3> QED
      BY ZenonT(60), <3>1, <3>2
  <2> QED
    BY ZenonT(60), <2>1, <2>2
<1>9. ASSUME NEW p \in 1 .. Len(text) PROVE text2[p] = text[p]
  <2>1. CASE p \in 1 .. Len(raw)
    BY ZenonT(60), <2>1, <1>6, <1>8
  <2>2. CASE p \notin 1 .. Len(raw)
    <3>1. /\ p - (k + n) \in 1 .. m - n /\ Len(raw) + (p - (k + n)) = p
          /\ n + (p - (k + n)) \in 1 .. m /\ k + (n + (p - (k + n))) = p
      BY SMTT(60), <1>1, <1>4, <1>7, <2>2
    <3> DEFINE q == p - (k + n)
    <3>2. q \in 1 .. m - n /\ Len(raw) + q = p /\ n + q \in 1 .. m /\ k + (n + q) = p
      BY ZenonT(60), <3>1
    <3> HIDE DEF q
    <3>3. text2[Len(raw) + q] = w2[q].byte /\ w2[q] = w[n + q] /\ text[k + (n + q)] = w[n + q].byte
      BY ZenonT(60), <3>2, <1>3, <1>4, <1>6
    <3> QED
      BY ZenonT(60), <3>2, <3>3
  <2> QED
    BY ZenonT(60), <2>1, <2>2
<1>10. Trails(Len(raw), text, raw)
  <2>1. Len(raw) \in 0 .. Len(text) /\ Len(raw) <= Len(raw) /\ Len(raw) + 1 .. Len(raw) = {}
    BY SMTT(60), <1>1, <1>4, <1>7
  <2> QED
    BY ZenonT(60), <1>8, <2>1 DEF Trails
<1>11. Trails(Len(text), text, text2)
  <2>1. Len(text) \in 0 .. Len(text) /\ Len(text) <= Len(text2) /\ Len(text) + 1 .. Len(text2) = {}
    BY SMTT(60), <1>1, <1>4, <1>7
  <2> QED
    BY ZenonT(60), <1>9, <2>1 DEF Trails
<1> QED
  BY ZenonT(60), <1>10, <1>11

LEMMA ChunkText ==
  ASSUME NEW w \in Seq(Responses), NEW n \in 1 .. Len(w)
  PROVE  /\ SubSeq(w, 1, n) \in Seq(Responses) /\ SubSeq(w, n + 1, Len(w)) \in Seq(Responses)
         /\ Contents(SubSeq(w, 1, n)) = [p \in 1 .. n |-> w[p].byte]
         /\ \A p \in 1 .. Len(SubSeq(w, n + 1, Len(w))) : \E q \in 1 .. Len(w) : SubSeq(w, n + 1, Len(w))[p] = w[q]
<1> DEFINE w1 == SubSeq(w, 1, n)
           w2 == SubSeq(w, n + 1, Len(w))
<1>1. Len(w) \in Nat /\ n \in Nat /\ n <= Len(w) /\ n >= 1
  OBVIOUS
<1>2. w1 \in Seq(Responses) /\ Len(w1) = n /\ \A p \in 1 .. n : w1[p] = w[p]
  BY <1>1
<1>3. w2 \in Seq(Responses) /\ Len(w2) = Len(w) - n /\ \A p \in 1 .. Len(w) - n : w2[p] = w[n + p]
  BY <1>1
<1> HIDE DEF w1, w2
<1>4. Contents(w1) = [p \in 1 .. n |-> w[p].byte]
  BY ZenonT(60), <1>2 DEF Contents
<1>5. ASSUME NEW p \in 1 .. Len(w2) PROVE \E q \in 1 .. Len(w) : w2[p] = w[q]
  <2>1. n + p \in 1 .. Len(w) /\ p \in 1 .. Len(w) - n
    BY SMTT(60), <1>1, <1>3
  <2> QED
    BY ZenonT(60), <1>3, <2>1
<1> QED
  BY ZenonT(60), <1>2, <1>3, <1>4, <1>5 DEF w1, w2

LEMMA CollectDataStep ==
  ASSUME IInv, NEW n \in 1 .. Len(wire), CollectData(n)
  PROVE  IInv'
<1>1. TypeOK /\ CommandsFit /\ IncomingFits /\ ResultsFit /\ CompletionIsOwn /\ StdoutExact
  BY Zenon DEF IInv
<1>2. pc = "collecting" /\ wire' = SubSeq(wire, n + 1, Len(wire)) /\ did' = did /\ opened' = opened /\ chatter' = chatter
  BY Zenon DEF CollectData
<1>3. collected \in Seq(Bytes) /\ wire \in Seq(Responses) /\ tid # 0
  BY ZenonT(60), <1>1, <1>2 DEF TypeOK
<1>4. job \in Jobs /\ job \in Nat /\ did[job].out \in Seq(Bytes) /\ did[job].code \in Seq(Bytes)
  BY ZenonT(60), <1>1, <1>2, CurrentJob, CurrentOutput
<1> DEFINE w1 == SubSeq(wire, 1, n)
           raw == collected \o [p \in 1 .. n |-> wire[p].byte]
           text == collected \o Contents(wire)
           text2 == raw \o Contents(wire')
<1>5. /\ w1 \in Seq(Responses) /\ wire' \in Seq(Responses) /\ Contents(w1) = [p \in 1 .. n |-> wire[p].byte]
      /\ \A p \in 1 .. Len(wire') : \E q \in 1 .. Len(wire) : wire'[p] = wire[q]
  BY ZenonT(60), <1>2, <1>3, ChunkText
<1>6. \/ /\ find_sentinel_output(raw, job) # 0
         /\ Complete(raw, "done")
      \/ /\ collected' = raw
         /\ UNCHANGED <<pc, job, kind, run, tid, result, toPeer>>
  BY ZenonT(30) DEF CollectData
<1>7. Incoming = text
  BY Zenon DEF Incoming
<1>8. IsText(collected, wire, text)
  BY ZenonT(60), <1>3, TextOf
<1>9. IsText(collected, w1, raw)
  BY ZenonT(60), <1>3, <1>5, TextOf
<1>r. raw \in Seq(Bytes)
  BY Zenon, <1>9 DEF IsText
<1> HIDE DEF raw
<1>10. IsText(raw, wire', text2)
  BY ZenonT(60), <1>r, <1>5, TextOf
<1> HIDE DEF text, text2
<1>11. text \in Seq(Bytes) /\ text2 \in Seq(Bytes)
  BY Zenon, <1>8, <1>10 DEF IsText
<1>12. Trails(Len(raw), text, raw) /\ Trails(Len(text), text, text2)
  BY ZenonT(60), <1>2, <1>3, <1>8, <1>9, <1>10, ChunkSplits DEF w1
<1>13. Fits(text, job, did[job])
  BY ZenonT(60), <1>1, <1>2, <1>7 DEF IncomingFits
<1>14. (\E i \in 1 .. Len(toPeer) : toPeer[i].type = "data") => Unmarked(text, job)
  BY ZenonT(60), <1>1, <1>2, <1>7 DEF IncomingFits
<1>15. \A p \in 1 .. Len(wire') : wire'[p].byte.ch = "s" => wire'[p].byte.of <= job
  BY ZenonT(60), <1>1, <1>5 DEF IncomingFits
<1>16. CASE collected' = raw /\ UNCHANGED <<pc, job, kind, run, tid, result, toPeer>>
  <2>1. TypeOK'
    BY ZenonT(60), <1>1, <1>2, <1>5, <1>r, <1>16 DEF TypeOK
  <2>2. CommandsFit'
    BY ZenonT(60), <1>1, <1>16 DEF CommandsFit
  <2>3. Incoming' = text2
    BY ZenonT(60), <1>16 DEF Incoming, text2
  <2>4. Fits(text2, job, did[job])
    BY ZenonT(60), <1>4, <1>11, <1>12, <1>13, TrailsFits
  <2>5. Unmarked(text, job) => Unmarked(text2, job)
    BY ZenonT(60), <1>11, <1>12, TrailsUnmarked
  <2>6. IncomingFits'
    BY ZenonT(60), <1>2, <1>14, <1>15, <1>16, <2>3, <2>4, <2>5 DEF IncomingFits
  <2>7. ResultsFit' /\ CompletionIsOwn' /\ StdoutExact'
    BY ZenonT(60), <1>1, <1>2, <1>16 DEF ResultsFit, CompletionIsOwn, StdoutExact
  <2> QED
    BY ZenonT(60), <2>1, <2>2, <2>6, <2>7 DEF IInv
<1>17. CASE find_sentinel_output(raw, job) # 0 /\ Complete(raw, "done")
  <2> DEFINE x == parse_exec_output(raw, job)
             r == [kind |-> "done", stdout |-> x.stdout, code |-> x.code,
                   strays |-> {raw[k].of : k \in Strays(raw, job)}]
  <2>1. Fits(raw, job, did[job])
    BY ZenonT(60), <1>4, <1>r, <1>11, <1>12, <1>13, TrailsFits
  <2>2. Answers(x, raw, job, did[job]) /\ ~Unmarked(raw, job)
    BY ZenonT(60), <1>4, <1>r, <1>17, <2>1, ParsedFits
  <2>3. \A i \in 1 .. Len(toPeer) : toPeer[i].type # "data"
    <3>1. ~Unmarked(text, job)
      BY ZenonT(60), <1>r, <1>11, <1>12, <2>2, TrailsUnmarked
    <3> QED
      BY ZenonT(60), <1>14, <3>1
  <2>4. /\ result' = [result EXCEPT ![job] = r] /\ pc' = "idle" /\ collected' = <<>> /\ Send(CloseAction)
        /\ job' = job /\ kind' = kind /\ run' = run /\ tid' = tid
    BY ZenonT(60), <1>17 DEF Complete, Report
  <2>5. /\ r.kind = "done" /\ r.stdout = x.stdout /\ r.code = x.code
        /\ r.strays = {} => Strays(raw, job) = {}
    BY Zenon
  <2> HIDE DEF x, r
  <2>6. CloseAction \in Actions /\ CloseAction.type # "data"
    <3>1. tid \in Jobs
      BY SMTT(60), <1>1, <1>3, JobsAssumption DEF TypeOK, Jobs
    <3> QED
      BY SMTT(60), <3>1, JobsAssumption DEF CloseAction, Action, Actions
  <2>7. /\ toPeer' \in Seq(Actions) /\ Len(toPeer) \in Nat /\ Len(toPeer') = Len(toPeer) + 1
        /\ \A i \in 1 .. Len(toPeer) : toPeer'[i] = toPeer[i]
        /\ toPeer'[Len(toPeer) + 1] = CloseAction
    BY ZenonT(60), <1>1, <2>4, <2>6, Appended
  <2>8. \A i \in 1 .. Len(toPeer') : toPeer'[i].type # "data"
    BY SMTT(60), <2>3, <2>6, <2>7
  <2>9. DOMAIN result' = Jobs /\ \A j \in Jobs : result'[j] = IF j = job THEN r ELSE result[j]
    BY ZenonT(60), <1>1, <1>4, <2>4 DEF TypeOK
  <2>10. TypeOK'
    <3>1. \A j \in Jobs : result'[j].kind \in {"none", "done", "timed_out", "closed", "confused",
                                               "refused", "timeout"}
      BY ZenonT(60), <1>1, <2>5, <2>9 DEF TypeOK
    <3>2. /\ pc' \in {"idle", "opening", "draining", "collecting", "shell"} /\ pc' = "idle"
          /\ pc' \notin {"draining", "collecting", "shell"} /\ collected' \in Seq(Bytes)
      BY SMTT(30), <2>4
    <3> QED
      BY ZenonT(60), <1>1, <1>2, <1>5, <2>4, <2>7, <2>9, <3>1, <3>2 DEF TypeOK
  <2>11. CommandsFit'
    BY ZenonT(60), <2>8 DEF CommandsFit
  <2>12. IncomingFits'
    BY ZenonT(60), <1>15, <2>4 DEF IncomingFits
  <2>13. ResultsFit'
    BY SMTT(60), <1>1, <1>4, <2>4, <2>9 DEF ResultsFit
  <2>14. CompletionIsOwn'
    BY ZenonT(60), <1>1, <1>2, <2>2, <2>5, <2>9 DEF CompletionIsOwn, Answers
  <2>15. StdoutExact'
    BY ZenonT(60), <1>1, <1>2, <2>2, <2>5, <2>9 DEF StdoutExact, Answers
  <2> QED
    BY ZenonT(60), <2>10, <2>11, <2>12, <2>13, <2>14, <2>15 DEF IInv
<1> QED
  BY ZenonT(60), <1>6, <1>16, <1>17

-----------------------------------------------------------------------------
LEMMA InitIInv == Init => IInv
<1> SUFFICES ASSUME Init PROVE IInv
  BY ZenonT(60)
<1>1. TypeOK
  <2>1. <<>> \in Seq(Bytes) /\ <<>> \in Seq(Actions) /\ <<>> \in Seq(Responses)
    OBVIOUS
  <2>2. 0 \in 0 .. NumJobs /\ 0 \in 0 .. MaxChatter
    BY SMTT(30), JobsAssumption
  <2>3. did \in [Jobs -> [out : Seq(Bytes), code : Seq(Bytes)]]
    BY ZenonT(60), <2>1 DEF Init, NotRun
  <2>4. DOMAIN result = Jobs /\ \A j \in Jobs : result[j].kind = "none"
    BY Zenon DEF Init, NoResult
  <2> QED
    BY ZenonT(60), <2>1, <2>2, <2>3, <2>4 DEF Init, TypeOK
<1>2. \A j \in Jobs : result[j].kind # "done"
  BY ZenonT(60) DEF Init, NoResult
<1>3. CommandsFit /\ IncomingFits
  BY DEF Init, CommandsFit, IncomingFits
<1>4. ResultsFit /\ CompletionIsOwn /\ StdoutExact
  BY ZenonT(60), <1>2 DEF ResultsFit, CompletionIsOwn, StdoutExact
<1> QED
  BY ZenonT(60), <1>1, <1>3, <1>4 DEF IInv

LEMMA NextIInv == IInv /\ [Next]_vars => IInv'
<1> SUFFICES ASSUME IInv, [Next]_vars PROVE IInv'
  BY Zenon
<1>1. CASE Peer
  BY ZenonT(60), <1>1, PeerOpensStep, PeerRunsStep, PeerClosesStep, PeerEndsStep, PeerChattersStep DEF Peer
<1>2. CASE IdleReceive
  BY ZenonT(60), <1>2, IdleReceiveQuiet, QuietStep
<1>3. CASE Open
  BY ZenonT(60), <1>3, StartStep, OpenQuiet, QuietStep DEF Open
<1>4. CASE Exec
  <2>1. CASE DrainData \/ DrainClosed \/ DrainFails
    BY ZenonT(60), <2>1, DrainQuiet, QuietStep
  <2>2. CASE SendCommand
    BY ZenonT(60), <2>2, SendCommandStep
  <2>3. CASE \E n \in 1 .. Len(wire) : CollectData(n)
    BY SMTT(60), <2>3, CollectDataStep
  <2>4. CASE CollectClosed \/ CollectFails \/ CollectTimesOut
    BY Zenon, <2>4, CollectQuiet, QuietStep
  <2> QED
    BY ZenonT(60), <1>4, <2>1, <2>2, <2>3, <2>4 DEF Exec
<1>5. CASE Shell
  BY Zenon, <1>5, ShellQuietSteps, QuietStep
<1>6. CASE UNCHANGED vars
  <2>1. /\ UNCHANGED <<daemonVars, did>> /\ toPeer' = toPeer /\ wire' = wire /\ opened' = opened /\ chatter' = chatter
    BY ZenonT(60), <1>6 DEF vars, peerVars
  <2>2. TypeOK
    BY ZenonT(60) DEF IInv
  <2>3. Takes(0) /\ wire \in Seq(Responses) /\ toPeer' \in Seq(Actions) /\ opened' \subseteq Jobs
        /\ chatter' \in 0 .. MaxChatter
    BY ZenonT(60), <2>1, <2>2, SameCommands DEF TypeOK
  <2>4. wire' \in Seq(Responses) /\ Follows(Len(wire), wire, wire')
    BY ZenonT(60), <2>1, <2>3, SameWire
  <2> QED
    BY ZenonT(60), <2>1, <2>3, <2>4, PeerQuiet
<1> QED
  BY ZenonT(60), <1>1, <1>2, <1>3, <1>4, <1>5, <1>6 DEF Next

(* The inductive invariant of the terminals on one peer stream: what an exec  *)
(* of exec_command_inner (src/daemon.rs) has collected or is about to collect *)
(* shows the end of its own command or no end at all.                         *)
THEOREM Invariance == Spec => []IInv
<1>1. Init => IInv
  BY ZenonT(60), InitIInv
<1>2. IInv /\ [Next]_vars => IInv'
  BY ZenonT(60), NextIInv
<1> QED
  BY <1>1, <1>2, PTL DEF Spec

(* The variables keep their types, and a job that uses a terminal has one to  *)
(* close: close_terminal always names the id of a TerminalOpened.             *)
THEOREM TypeCorrect == Spec => []TypeOK
<1>1. IInv => TypeOK
  BY ZenonT(60) DEF IInv
<1> QED
  BY <1>1, Invariance, PTL

(* An exec that reports an exit code has seen the sentinel its own command    *)
(* printed (find_sentinel_output), for any number of jobs, any output, any    *)
(* cut into chunks, and whatever earlier jobs left on the stream.             *)
THEOREM CompletionCorrect == Spec => []CompletionIsOwn
<1>1. IInv => CompletionIsOwn
  BY ZenonT(60) DEF IInv
<1> QED
  BY <1>1, Invariance, PTL

(* parse_exec_output returns the complete lines the command printed, and      *)
(* nothing of the echo, of the prompt or of another job.                      *)
THEOREM StdoutCorrect == Spec => []StdoutExact
<1>1. IInv => StdoutExact
  BY Zenon DEF IInv
<1> QED
  BY <1>1, Invariance, PTL
=============================================================================
