------------------------ MODULE TerminalOutputProofs ------------------------
(***************************************************************************)
(* Lemmas about TerminalOutput: what the searches of the two parsers find, *)
(* and where the parts of a command's transcript are.                      *)
(***************************************************************************)
EXTENDS TerminalOutput, WellFoundedInduction, TLAPS

-----------------------------------------------------------------------------
(* Sequences.                                                              *)

LEMMA SeqEqual ==
  ASSUME NEW S, NEW s \in Seq(S), NEW t \in Seq(S), Len(s) = Len(t),
         \A i \in 1 .. Len(s) : s[i] = t[i]
  PROVE  s = t
  OBVIOUS

LEMMA SubSeqProperties ==
  ASSUME NEW S, NEW s, NEW m \in Int, NEW n \in Int, \A i \in m .. n : s[i] \in S
  PROVE  /\ SubSeq(s, m, n) \in Seq(S)
         /\ Len(SubSeq(s, m, n)) = IF m <= n THEN n - m + 1 ELSE 0
         /\ \A i \in 1 .. n - m + 1 : SubSeq(s, m, n)[i] = s[m + i - 1]
  OBVIOUS

-----------------------------------------------------------------------------
(* First and last positions.                                                  *)

LEMMA MinOf ==
  ASSUME NEW S, S \subseteq Nat, S # {}
  PROVE  Min(S) \in S /\ \A y \in S : Min(S) <= y
<1>1. \E x \in S : \A y \in S : <<y, x>> \notin OpToRel(<, Nat)
  BY Zenon, NatLessThanWellFounded, WFMin
<1>2. PICK x \in S : \A y \in S : <<y, x>> \notin OpToRel(<, Nat)
  BY Zenon, <1>1
<1>3a. \A y \in S : ~(y < x)
  BY Zenon, <1>2 DEF OpToRel
<1>3. \A y \in S : x <= y
  BY <1>3a
<1>4. \E z \in S : \A y \in S : z =< y
  BY Zenon, <1>3
<1> QED
  BY ZenonT(30), <1>4 DEF Min

LEMMA MaxOf ==
  ASSUME NEW S, NEW n \in Nat, S \subseteq 1 .. n, S # {}
  PROVE  Max(S) \in S /\ \A y \in S : Max(S) >= y
<1> DEFINE T == {n - x : x \in S}
<1>0. \A x \in S : n - x \in T
   BY Zenon
<1>0a. \A t \in T : \E x \in S : t = n - x
   BY Zenon
<1> HIDE DEF T
<1>1a. \A x \in S : n - x \in Nat
  OBVIOUS
<1>1. T \subseteq Nat /\ T # {}
  BY ZenonT(30), <1>0, <1>0a, <1>1a
<1>2. Min(T) \in T /\ \A y \in T : Min(T) <= y
  BY Zenon, <1>1, MinOf
<1>3. PICK x \in S : Min(T) = n - x
  BY Zenon, <1>2, <1>0a
<1>4. \A y \in S : x >= y
  BY <1>2, <1>3, <1>0
<1> QED
  BY ZenonT(30), <1>4 DEF Max

LEMMA MinIs ==
  ASSUME NEW S, S \subseteq Nat, NEW x \in S, \A y \in S : x <= y
  PROVE  Min(S) = x
<1>1. Min(S) \in S /\ Min(S) <= x
  BY ZenonT(30), MinOf
<1>2. x <= Min(S) /\ x \in Nat /\ Min(S) \in Nat
  BY ZenonT(30), <1>1
<1> QED
  BY <1>1, <1>2

LEMMA MaxIs ==
  ASSUME NEW S, NEW n \in Nat, S \subseteq 1 .. n, NEW x \in S, \A y \in S : y <= x
  PROVE  Max(S) = x
<1>1. Max(S) \in S /\ Max(S) >= x
  BY ZenonT(30), MaxOf
<1>2. \A y \in S : y \in Nat
  OBVIOUS
<1>3. Max(S) <= x /\ x \in Nat /\ Max(S) \in Nat
  BY ZenonT(30), <1>1, <1>2
<1> QED
  BY <1>1, <1>3

-----------------------------------------------------------------------------
(* What the parser finds.                                                     *)

LEMMA OccursAt ==
  ASSUME NEW s, NEW pat, NEW p \in 1 .. Len(s), NEW q, q = p + Len(pat) - 1, q <= Len(s),
         SubSeq(s, p, q) = pat
  PROVE  p \in Occurrences(pat, s)
  BY Zenon DEF Occurrences

LEMMA SentinelFound ==
  ASSUME NEW raw \in Seq(Bytes), NEW j, find_sentinel_output(raw, j) # 0
  PROVE  LET pos == find_sentinel_output(raw, j)
         IN  /\ pos \in 1 .. Len(raw) /\ pos + 2 <= Len(raw)
             /\ raw[pos] = Mark(j) /\ raw[pos + 1] = [ch |-> "t", of |-> j] /\ raw[pos + 2].ch \in Digits
<1> DEFINE found == {p \in Occurrences(Sentinel(j), raw) :
                       p + 2 <= Len(raw) /\ raw[p + 2].ch \in Digits}
           pos == find_sentinel_output(raw, j)
<1>1. found # {} /\ pos = Min(found)
  BY Zenon DEF find_sentinel_output
<1>2. found \subseteq Nat
  BY DEF Occurrences
<1> HIDE DEF pos
<1>3. pos \in found
  BY ZenonT(30), <1>1, <1>2, MinOf
<1>4. Len(Sentinel(j)) = 2 /\ Sentinel(j)[1] = Mark(j) /\ Sentinel(j)[2] = [ch |-> "t", of |-> j]
  BY DEF Sentinel, By, Mark
<1>5. /\ pos \in 1 .. Len(raw) /\ pos + 2 <= Len(raw) /\ raw[pos + 2].ch \in Digits
      /\ SubSeq(raw, pos, pos + 1) = Sentinel(j)
  BY <1>3, <1>4 DEF Occurrences
<1>6. SubSeq(raw, pos, pos + 1)[1] = raw[pos] /\ SubSeq(raw, pos, pos + 1)[2] = raw[pos + 1]
  BY <1>5, SubSeqProperties
<1> QED
  BY ZenonT(30), <1>4, <1>5, <1>6 DEF pos

(* The output starts behind the echoed echo command. *)
LEMMA EchoFound ==
  ASSUME NEW raw \in Seq(Bytes), NEW j, NEW start \in Nat, start > 7, start <= Len(raw),
         \A i \in 1 .. 5 : raw[start - 6 + i] = By(j, <<"q", "s", "t", "k", "n">>)[i],
         \A q \in 1 .. start - 5 : raw[q] # Mark(j)
  PROVE  OutputStart(raw, j) = start
<1> DEFINE echo == Occurrences(EchoCmd(j), raw)
           nl == {p \in Newlines(raw) : echo # {} /\ p >= Min(echo)}
<1>1. /\ raw[start - 5] = [ch |-> "q", of |-> j] /\ raw[start - 4] = [ch |-> "s", of |-> j]
      /\ raw[start - 3] = [ch |-> "t", of |-> j] /\ raw[start - 2] = [ch |-> "k", of |-> j]
      /\ raw[start - 1] = [ch |-> "n", of |-> j]
  BY SMTT(60) DEF By
<1>2. /\ Len(EchoCmd(j)) = 4 /\ EchoCmd(j) \in Seq(Bytes \cup {[ch |-> c, of |-> j] : c \in {"q", "s", "t", "k"}})
      /\ EchoCmd(j)[1] = [ch |-> "q", of |-> j] /\ EchoCmd(j)[2] = [ch |-> "s", of |-> j]
      /\ EchoCmd(j)[3] = [ch |-> "t", of |-> j] /\ EchoCmd(j)[4] = [ch |-> "k", of |-> j]
  BY DEF EchoCmd, By
<1>3. /\ Len(SubSeq(raw, start - 5, start - 2)) = 4
      /\ SubSeq(raw, start - 5, start - 2) \in Seq(Bytes)
      /\ \A i \in 1 .. 4 : SubSeq(raw, start - 5, start - 2)[i] = raw[start - 6 + i]
  BY SubSeqProperties
<1>4. SubSeq(raw, start - 5, start - 2) = EchoCmd(j)
  BY SMTT(60), <1>1, <1>2, <1>3
<1>5. start - 5 \in echo
  <2>1. /\ start - 2 = (start - 5) + Len(EchoCmd(j)) - 1
          /\ start - 5 \in 1 .. Len(raw) /\ start - 2 <= Len(raw)
    BY SMTT(60), <1>2
  <2> QED
    BY Zenon, <1>4, <2>1, OccursAt
<1>6. ASSUME NEW e \in echo PROVE e >= start - 5
  <2>1. e \in 1 .. Len(raw) /\ e + 3 <= Len(raw) /\ SubSeq(raw, e, e + 3) = EchoCmd(j)
    BY <1>2, <1>6 DEF Occurrences
  <2>2. SubSeq(raw, e, e + 3)[2] = raw[e + 1]
    BY SMTT(60), <2>1, SubSeqProperties
  <2>3. raw[e + 1] = Mark(j)
    BY Zenon, <1>2, <2>1, <2>2 DEF Mark
  <2> QED
    BY SMTT(60), <2>1, <2>3
<1>7. echo \subseteq Nat
  BY DEF Occurrences
<1>8. Min(echo) = start - 5 /\ echo # {}
  <2> HIDE DEF echo
  <2> QED
    BY ZenonT(30), <1>5, <1>6, <1>7, MinIs
<1>9. start - 1 \in nl
  BY SMTT(60), <1>1, <1>8 DEF Newlines
<1>10. \A p \in nl : p >= start - 1
  BY SMTT(60), <1>1, <1>8 DEF Newlines
<1>11. nl \subseteq Nat
  BY SMTT(60) DEF Newlines
<1>12. Min(nl) = start - 1
  <2> HIDE DEF nl
  <2> QED
    BY ZenonT(30), <1>9, <1>10, <1>11, MinIs
<1> QED
  BY <1>9, <1>12 DEF OutputStart

(* The line of the sentinel starts where the last line of the output does. *)
SameLine(raw, p, start, out) ==
    /\ SentinelLineStart(out, Len(out) + 1) \in 1 .. Len(out) + 1
    /\ SentinelLineStart(raw, p) = start - 1 + SentinelLineStart(out, Len(out) + 1)

LEMMA LineStartFound ==
  ASSUME NEW raw \in Seq(Bytes), NEW out \in Seq(Bytes), NEW start \in Nat, start > 7,
         NEW p, p = start + Len(out), p <= Len(raw), raw[start - 1].ch = "n",
         \A i \in 1 .. Len(out) : raw[start - 1 + i] = out[i]
  PROVE  SameLine(raw, p, start, out)
<1> USE DEF SameLine
<1> DEFINE nlRaw == {q \in Newlines(raw) : q < p}
           nlOut == {q \in Newlines(out) : q < Len(out) + 1}
<1>0. Len(out) \in Nat /\ Len(raw) \in Nat /\ p \in Nat
  OBVIOUS
<1>1. \A q \in nlOut : q \in 1 .. Len(out) /\ out[q].ch = "n" /\ start - 1 + q \in nlRaw
  BY SMTT(60), <1>0 DEF Newlines
<1>2. \A q \in nlRaw : q \in 1 .. Len(raw) /\ raw[q].ch = "n" /\ q < p
  BY Zenon DEF Newlines
<1>3. \A q \in nlRaw : q > start - 1 => q - (start - 1) \in nlOut
  BY SMTT(60), <1>0, <1>2 DEF Newlines
<1>4. start - 1 \in nlRaw
  BY <1>0 DEF Newlines
<1>5. nlRaw \subseteq 1 .. Len(raw) /\ nlOut \subseteq 1 .. Len(out)
  BY Zenon, <1>1, <1>2
<1>6. /\ SentinelLineStart(out, Len(out) + 1) = IF nlOut = {} THEN 1 ELSE Max(nlOut) + 1
      /\ SentinelLineStart(raw, p) = IF nlRaw = {} THEN 1 ELSE Max(nlRaw) + 1
  BY Zenon DEF SentinelLineStart
<1> HIDE DEF nlRaw, nlOut
<1>7. CASE nlOut = {}
  <2>1. \A q \in nlRaw : q <= start - 1
    BY <1>0, <1>2, <1>3, <1>7
  <2>2. Max(nlRaw) = start - 1
    BY ZenonT(30), <1>0, <1>4, <1>5, <2>1, MaxIs
  <2> QED
    BY <1>0, <1>4, <1>6, <1>7, <2>2
<1>8. CASE nlOut # {}
  <2>1. Max(nlOut) \in nlOut /\ \A q \in nlOut : Max(nlOut) >= q
    BY ZenonT(30), <1>0, <1>5, <1>8, MaxOf
  <2> DEFINE m == Max(nlOut)
  <2>2. m \in 1 .. Len(out) /\ start - 1 + m \in nlRaw
    BY Zenon, <1>1, <2>1
  <2>3. \A q \in nlOut : q <= m
    BY Zenon, <1>1, <2>1
  <2> HIDE DEF m
  <2>6. \A q \in nlRaw : q > start - 1 => q - (start - 1) <= m
    BY Zenon, <1>3, <2>3
  <2>7. \A q \in nlRaw : q <= start - 1 + m
    <3> SUFFICES ASSUME NEW q \in nlRaw PROVE q <= start - 1 + m
      BY Zenon
    <3>1. q \in Nat /\ m \in Nat /\ (q > start - 1 => q - (start - 1) <= m)
      BY SMTT(60), <1>2, <2>2, <2>6
    <3> QED
      BY <3>1
  <2>4. Max(nlRaw) = start - 1 + m
    BY ZenonT(30), <1>0, <1>5, <2>2, <2>7, MaxIs
  <2>5. SentinelLineStart(out, Len(out) + 1) = m + 1 /\ SentinelLineStart(raw, p) = start - 1 + m + 1
    BY Zenon, <1>4, <1>6, <1>8, <2>4 DEF m
  <2> QED
    BY SMTT(60), <1>0, <2>2, <2>5
<1> QED
  BY Zenon, <1>7, <1>8

LEMMA LinesFound ==
  ASSUME NEW raw \in Seq(Bytes), NEW out \in Seq(Bytes), NEW start \in Nat, start > 7,
         start - 1 + Len(out) <= Len(raw), NEW k \in 0 .. Len(out),
         \A i \in 1 .. Len(out) : raw[start - 1 + i] = out[i]
  PROVE  SubSeq(raw, start, start - 1 + k) = SubSeq(out, 1, k)
<1> DEFINE a == SubSeq(raw, start, start - 1 + k)
           b == SubSeq(out, 1, k)
<1>0. Len(out) \in Nat /\ Len(raw) \in Nat /\ k \in Nat
  OBVIOUS
<1>1. \A i \in start .. start - 1 + k : raw[i] \in Bytes
  BY <1>0
<1>2. a \in Seq(Bytes) /\ Len(a) = k /\ \A i \in 1 .. k : a[i] = raw[start + i - 1]
  BY <1>0, <1>1, SubSeqProperties
<1>3. \A i \in 1 .. k : out[i] \in Bytes
  BY <1>0
<1>4. b \in Seq(Bytes) /\ Len(b) = k /\ \A i \in 1 .. k : b[i] = out[i]
  BY <1>0, <1>3, SubSeqProperties
<1> HIDE DEF a, b
<1>5. \A i \in 1 .. k : a[i] = b[i]
  <2> SUFFICES ASSUME NEW i \in 1 .. k PROVE a[i] = b[i]
    BY Zenon
  <2>1. start + i - 1 = start - 1 + i /\ i \in 1 .. Len(out)
    BY <1>0
  <2> QED
    BY ZenonT(30), <1>2, <1>4, <2>1
<1>6. a = b
  BY <1>2, <1>4, <1>5
<1> QED
  BY Zenon, <1>6 DEF a, b

LEMMA DigitsFound ==
  ASSUME NEW raw \in Seq(Bytes), NEW code \in Seq(Bytes), NEW p \in 1 .. Len(raw), raw[p].ch \in Digits,
         \A q \in p .. Len(raw) : (\A k \in p .. q : raw[k].ch \in Digits) =>
            q - p + 1 \in 1 .. Len(code) /\ raw[q] = code[q - p + 1]
  PROVE  LET ds == DigitsFrom(raw, p)
         IN  ds # <<>> /\ ds = SubSeq(code, 1, Len(ds))
<1> DEFINE ends == {q \in p .. Len(raw) : raw[q].ch \notin Digits}
           last == IF ends = {} THEN Len(raw) ELSE Min(ends) - 1
           ds == DigitsFrom(raw, p)
<1>0. Len(code) \in Nat /\ Len(raw) \in Nat /\ p \in Nat
  OBVIOUS
<1>1. ds = SubSeq(raw, p, last)
  BY Zenon DEF DigitsFrom
<1>2. ends \subseteq p + 1 .. Len(raw) /\ \A q \in p .. Len(raw) : q \notin ends => raw[q].ch \in Digits
  BY SMTT(60), <1>0
<1>3. last \in p .. Len(raw) /\ \A q \in p .. last : raw[q].ch \in Digits
  <2> HIDE DEF ends
  <2>1. CASE ends = {}
    BY <1>0, <1>2, <2>1
  <2>2. CASE ends # {}
    <3>1. ends \subseteq Nat
      BY <1>0, <1>2
    <3>2. Min(ends) \in ends /\ \A y \in ends : Min(ends) <= y
      BY ZenonT(30), <2>2, <3>1, MinOf
    <3>3. Min(ends) \in p + 1 .. Len(raw) /\ last = Min(ends) - 1
      BY Zenon, <1>2, <2>2, <3>2
    <3> QED
      BY SMTT(60), <1>0, <1>2, <3>2, <3>3
  <2> QED
    BY Zenon, <2>1, <2>2
<1> HIDE DEF last, ds
<1>4. ds \in Seq(Bytes) /\ Len(ds) = last - p + 1 /\ \A i \in 1 .. last - p + 1 : ds[i] = raw[p + i - 1]
  <2>1. last \in Nat /\ \A i \in p .. last : raw[i] \in Bytes
    BY <1>0, <1>3
  <2> QED
    BY SMTT(60), <1>0, <1>1, <1>3, <2>1, SubSeqProperties
<1>5. \A i \in 1 .. Len(ds) : i \in 1 .. Len(code) /\ ds[i] = code[i]
  <2> SUFFICES ASSUME NEW i \in 1 .. Len(ds) PROVE i \in 1 .. Len(code) /\ ds[i] = code[i]
    BY Zenon
  <2>1. p + i - 1 \in p .. last /\ ds[i] = raw[p + i - 1] /\ (p + i - 1) - p + 1 = i
    BY <1>0, <1>3, <1>4
  <2>2. \A k \in p .. p + i - 1 : raw[k].ch \in Digits
    <3> SUFFICES ASSUME NEW k \in p .. p + i - 1 PROVE raw[k].ch \in Digits
      BY Zenon
    <3>1. k \in p .. last
      BY <1>0, <1>3, <2>1
    <3> QED
      BY Zenon, <1>3, <3>1
  <2>3. p + i - 1 \in p .. Len(raw)
    BY <1>0, <1>3, <2>1
  <2> QED
    BY Zenon, <2>1, <2>2, <2>3
<1>6. Len(ds) \in 1 .. Len(code)
  <2>1. Len(ds) \in Nat /\ Len(ds) >= 1
    BY <1>0, <1>3, <1>4
  <2> QED
    BY <1>5, <2>1
<1>7. /\ SubSeq(code, 1, Len(ds)) \in Seq(Bytes) /\ Len(SubSeq(code, 1, Len(ds))) = Len(ds)
      /\ \A i \in 1 .. Len(ds) : SubSeq(code, 1, Len(ds))[i] = code[i]
  <2>1. \A i \in 1 .. Len(ds) : code[i] \in Bytes
    BY <1>0, <1>6
  <2> QED
    BY <1>0, <1>6, <2>1, SubSeqProperties
<1>8. ds = SubSeq(code, 1, Len(ds))
  BY <1>4, <1>5, <1>7
<1>9. ds # <<>>
  BY <1>6
<1> QED
  BY Zenon, <1>8, <1>9 DEF ds

-----------------------------------------------------------------------------
(* The text an exec receives.                                                 *)

LEMMA ByParts ==
  ASSUME NEW j \in Nat, NEW s \in Seq(Letters)
  PROVE  /\ By(j, s) \in Seq(Bytes) /\ Len(By(j, s)) = Len(s)
         /\ \A i \in 1 .. Len(s) : By(j, s)[i] = [ch |-> s[i], of |-> j]
<1> DEFINE T == By(j, s)
<1>1. DOMAIN s = 1 .. Len(s) /\ Len(s) \in Nat /\ \A i \in 1 .. Len(s) : s[i] \in Letters
  OBVIOUS
<1>2. T = [i \in 1 .. Len(s) |-> [ch |-> s[i], of |-> j]]
  BY Zenon DEF By
<1> HIDE DEF T
<1>3. \A i \in 1 .. Len(s) : [ch |-> s[i], of |-> j] \in Bytes
  BY Zenon, <1>1 DEF Bytes, Letters
<1>4. T \in Seq(Bytes) /\ Len(T) = Len(s) /\ \A i \in 1 .. Len(s) : T[i] = [ch |-> s[i], of |-> j]
  BY <1>1, <1>2, <1>3
<1> QED
  BY Zenon, <1>4 DEF T

(* Where the five parts of a transcript are. *)
LEMMA JoinTwo ==
  ASSUME NEW C, NEW a \in Seq(C), NEW b \in Seq(C), NEW s, s = a \o b
  PROVE  /\ s \in Seq(C) /\ Len(s) = Len(a) + Len(b)
         /\ \A i \in 1 .. Len(a) : s[i] = a[i]
         /\ \A i \in 1 .. Len(b) : s[Len(a) + i] = b[i]
  OBVIOUS

FiveParts(e, out, m, code, p, s) ==
    /\ s \in Seq(Letters) /\ Len(s) = Len(e) + Len(out) + Len(m) + Len(code) + Len(p)
    /\ \A i \in 1 .. Len(e) : s[i] = e[i]
    /\ \A i \in 1 .. Len(out) : s[Len(e) + i] = out[i]
    /\ \A i \in 1 .. Len(m) : s[Len(e) + Len(out) + i] = m[i]
    /\ \A i \in 1 .. Len(code) : s[Len(e) + Len(out) + Len(m) + i] = code[i]
    /\ \A i \in 1 .. Len(p) : s[Len(e) + Len(out) + Len(m) + Len(code) + i] = p[i]

LEMMA JoinFive ==
  ASSUME NEW e \in Seq(Letters), NEW out \in Seq(Letters), NEW m \in Seq(Letters), NEW code \in Seq(Letters),
         NEW p \in Seq(Letters),
         NEW a, a = e \o out, NEW b, b = a \o m, NEW d, d = b \o code, NEW s, s = d \o p
  PROVE  FiveParts(e, out, m, code, p, s)
<1>1. /\ a \in Seq(Letters) /\ Len(a) = Len(e) + Len(out)
      /\ \A i \in 1 .. Len(e) : a[i] = e[i]
      /\ \A i \in 1 .. Len(out) : a[Len(e) + i] = out[i]
  BY JoinTwo
<1>2. /\ b \in Seq(Letters) /\ Len(b) = Len(a) + Len(m)
      /\ \A i \in 1 .. Len(a) : b[i] = a[i]
      /\ \A i \in 1 .. Len(m) : b[Len(a) + i] = m[i]
  BY SMTT(60), <1>1, JoinTwo
<1>3. /\ d \in Seq(Letters) /\ Len(d) = Len(b) + Len(code)
      /\ \A i \in 1 .. Len(b) : d[i] = b[i]
      /\ \A i \in 1 .. Len(code) : d[Len(b) + i] = code[i]
  BY SMTT(60), <1>2, JoinTwo
<1>4. /\ s \in Seq(Letters) /\ Len(s) = Len(d) + Len(p)
      /\ \A i \in 1 .. Len(d) : s[i] = d[i]
      /\ \A i \in 1 .. Len(p) : s[Len(d) + i] = p[i]
  BY SMTT(60), <1>3, JoinTwo
<1>5. Len(e) \in Nat /\ Len(out) \in Nat /\ Len(m) \in Nat /\ Len(code) \in Nat /\ Len(p) \in Nat
  OBVIOUS
<1>6. Len(b) = Len(e) + Len(out) + Len(m) /\ Len(d) = Len(e) + Len(out) + Len(m) + Len(code)
  BY Zenon, <1>1, <1>2, <1>3
<1>7. Len(s) = Len(e) + Len(out) + Len(m) + Len(code) + Len(p)
  BY Zenon, <1>4, <1>6
<1>8. \A i \in 1 .. Len(e) + Len(out) : s[i] = a[i]
  <2>1. \A i \in 1 .. Len(e) + Len(out) : i \in 1 .. Len(a) /\ i \in 1 .. Len(b) /\ i \in 1 .. Len(d)
    BY <1>1, <1>5, <1>6
  <2> QED
    BY ZenonT(60), <1>2, <1>3, <1>4, <2>1
<1>9. \A i \in 1 .. Len(e) : s[i] = e[i]
  <2>1. \A i \in 1 .. Len(e) : i \in 1 .. Len(e) + Len(out)
    BY <1>5
  <2> QED
    BY Zenon, <1>1, <1>8, <2>1
<1>10. \A i \in 1 .. Len(out) : s[Len(e) + i] = out[i]
  <2>1. \A i \in 1 .. Len(out) : Len(e) + i \in 1 .. Len(e) + Len(out)
    BY <1>5
  <2> QED
    BY Zenon, <1>1, <1>8, <2>1
<1>11. \A i \in 1 .. Len(m) : s[Len(e) + Len(out) + i] = m[i]
  <2>1. \A i \in 1 .. Len(m) : Len(a) + i \in 1 .. Len(b) /\ Len(a) + i \in 1 .. Len(d)
    BY SMTT(60), <1>1, <1>5, <1>6
  <2>2. \A i \in 1 .. Len(m) : s[Len(a) + i] = m[i]
    BY ZenonT(60), <1>2, <1>3, <1>4, <2>1
  <2>3. Len(a) = Len(e) + Len(out)
    BY Zenon, <1>1
  <2> QED
    BY ZenonT(60), <2>2, <2>3
<1>12. \A i \in 1 .. Len(code) : s[Len(e) + Len(out) + Len(m) + i] = code[i]
  <2>1. \A i \in 1 .. Len(code) : Len(b) + i \in 1 .. Len(d)
    BY <1>5, <1>6
  <2> QED
    BY ZenonT(60), <1>3, <1>4, <1>6, <2>1
<1>13. \A i \in 1 .. Len(p) : s[Len(e) + Len(out) + Len(m) + Len(code) + i] = p[i]
  BY ZenonT(60), <1>4, <1>6
<1> QED
  BY ZenonT(60), <1>4, <1>7, <1>9, <1>10, <1>11, <1>12, <1>13 DEF FiveParts

Spelled(s, out, code) ==
    LET o == Len(out)
        c == Len(code)
    IN  /\ s \in Seq(Letters) /\ Len(s) = 11 + o + c
        /\ s[1] = "e" /\ s[2] = "n" /\ s[3] = "q" /\ s[4] = "s" /\ s[5] = "t" /\ s[6] = "k" /\ s[7] = "n"
        /\ \A i \in 1 .. o : s[7 + i] = out[i]
        /\ s[8 + o] = "s" /\ s[9 + o] = "t"
        /\ \A i \in 1 .. c : s[9 + o + i] = code[i]
        /\ s[10 + o + c] = "n" /\ s[11 + o + c] = "p"

LEMMA LetterParts ==
  ASSUME NEW out \in Seq({"x", "n"}), NEW code \in Seq(Digits)
  PROVE  Spelled(<<"e", "n", "q", "s", "t", "k", "n">> \o out \o <<"s", "t">> \o code \o <<"n", "p">>, out, code)
<1> DEFINE e == <<"e", "n", "q", "s", "t", "k", "n">>
           m == <<"s", "t">>
           p == <<"n", "p">>
           a == e \o out
           b == a \o m
           d == b \o code
           s == d \o p
           o == Len(out)
           c == Len(code)
<1>2. e \in Seq(Letters) /\ m \in Seq(Letters) /\ p \in Seq(Letters)
  BY DEF Letters
<1>3. out \in Seq(Letters) /\ code \in Seq(Letters) /\ o \in Nat /\ c \in Nat
  BY DEF Letters
<1>4. /\ e[1] = "e" /\ e[2] = "n" /\ e[3] = "q" /\ e[4] = "s" /\ e[5] = "t" /\ e[6] = "k" /\ e[7] = "n"
      /\ m[1] = "s" /\ m[2] = "t" /\ p[1] = "n" /\ p[2] = "p"
      /\ Len(e) = 7 /\ Len(m) = 2 /\ Len(p) = 2
  BY Zenon
<1>1. a = e \o out /\ b = a \o m /\ d = b \o code /\ s = d \o p
  BY Zenon
<1> HIDE DEF e, m, p, a, b, d, s
<1>5. FiveParts(e, out, m, code, p, s)
  BY Zenon, <1>1, <1>2, <1>3, JoinFive
<1> HIDE DEF o, c
<1>6. /\ Len(s) = 7 + o + 2 + c + 2
      /\ \A i \in 1 .. 7 : s[i] = e[i]
      /\ \A i \in 1 .. o : s[7 + i] = out[i]
      /\ \A i \in 1 .. 2 : s[7 + o + i] = m[i]
      /\ \A i \in 1 .. c : s[7 + o + 2 + i] = code[i]
      /\ \A i \in 1 .. 2 : s[7 + o + 2 + c + i] = p[i]
  BY ZenonT(60), <1>4, <1>5 DEF FiveParts, o, c
<1>7. /\ 7 + o + 1 = 8 + o /\ 7 + o + 2 = 9 + o /\ 9 + o + c + 1 = 10 + o + c /\ 9 + o + c + 2 = 11 + o + c
      /\ 1 \in 1 .. 7 /\ 2 \in 1 .. 7 /\ 3 \in 1 .. 7 /\ 4 \in 1 .. 7 /\ 5 \in 1 .. 7 /\ 6 \in 1 .. 7 /\ 7 \in 1 .. 7
      /\ 1 \in 1 .. 2 /\ 2 \in 1 .. 2
  BY <1>3
<1>8. s[1] = "e" /\ s[2] = "n" /\ s[3] = "q" /\ s[4] = "s" /\ s[5] = "t" /\ s[6] = "k" /\ s[7] = "n"
  BY ZenonT(60), <1>4, <1>6, <1>7
<1>9. s[7 + o + 1] = "s" /\ s[7 + o + 2] = "t" /\ s[7 + o + 2 + c + 1] = "n" /\ s[7 + o + 2 + c + 2] = "p"
  BY ZenonT(60), <1>4, <1>6, <1>7
<1>10. s[8 + o] = "s" /\ s[9 + o] = "t" /\ s[10 + o + c] = "n" /\ s[11 + o + c] = "p"
  BY <1>3, <1>9
<1>11. \A i \in 1 .. c : s[9 + o + i] = code[i]
  BY <1>3, <1>6
<1>12. Len(s) = 11 + o + c
  BY <1>3, <1>6
<1>13. s \in Seq(Letters)
  BY Zenon, <1>5 DEF FiveParts
<1>14. Spelled(s, out, code)
  BY Zenon, <1>6, <1>8, <1>10, <1>11, <1>12, <1>13 DEF Spelled, o, c
<1> QED
  BY Zenon, <1>14 DEF e, m, p, a, b, d, s

(* What is where in the transcript of a command. *)
LaidOut(T, j, out, code) ==
    LET o == Len(out)
        c == Len(code)
    IN  /\ T \in Seq(Bytes) /\ Len(T) = 11 + o + c
        /\ T[1] = [ch |-> "e", of |-> j] /\ T[2] = [ch |-> "n", of |-> j] /\ T[3] = [ch |-> "q", of |-> j]
        /\ T[4] = [ch |-> "s", of |-> j] /\ T[5] = [ch |-> "t", of |-> j] /\ T[6] = [ch |-> "k", of |-> j]
        /\ T[7] = [ch |-> "n", of |-> j]
        /\ \A i \in 1 .. o : T[7 + i] = [ch |-> out[i], of |-> j]
        /\ T[8 + o] = [ch |-> "s", of |-> j] /\ T[9 + o] = [ch |-> "t", of |-> j]
        /\ \A i \in 1 .. c : T[9 + o + i] = [ch |-> code[i], of |-> j]
        /\ T[10 + o + c] = [ch |-> "n", of |-> j] /\ T[11 + o + c] = [ch |-> "p", of |-> j]

LEMMA TranscriptParts ==
  ASSUME NEW j \in Nat, NEW out \in Seq({"x", "n"}), NEW code \in Seq(Digits)
  PROVE  LaidOut(Transcript(j, [out |-> out, code |-> code]), j, out, code)
<1> DEFINE s == <<"e", "n", "q", "s", "t", "k", "n">> \o out \o <<"s", "t">> \o code \o <<"n", "p">>
           o == Len(out)
           c == Len(code)
           T == By(j, s)
<1>0. Spelled(s, out, code)
  BY Zenon, LetterParts
<1>2. Transcript(j, [out |-> out, code |-> code]) = T
  BY Zenon DEF Transcript
<1>3. o \in Nat /\ c \in Nat
  OBVIOUS
<1> HIDE DEF s
<1>1. /\ s \in Seq(Letters) /\ Len(s) = 11 + o + c
      /\ s[1] = "e" /\ s[2] = "n" /\ s[3] = "q" /\ s[4] = "s" /\ s[5] = "t" /\ s[6] = "k" /\ s[7] = "n"
      /\ \A i \in 1 .. o : s[7 + i] = out[i]
      /\ s[8 + o] = "s" /\ s[9 + o] = "t"
      /\ \A i \in 1 .. c : s[9 + o + i] = code[i]
      /\ s[10 + o + c] = "n" /\ s[11 + o + c] = "p"
  BY Zenon, <1>0 DEF Spelled
<1> HIDE DEF o, c
<1>4. /\ T \in Seq(Bytes) /\ Len(T) = Len(s)
      /\ \A i \in 1 .. Len(s) : T[i] = [ch |-> s[i], of |-> j]
  BY ZenonT(60), <1>1, ByParts
<1> HIDE DEF T
<1>5. /\ 1 \in 1 .. Len(s) /\ 2 \in 1 .. Len(s) /\ 3 \in 1 .. Len(s) /\ 4 \in 1 .. Len(s)
      /\ 5 \in 1 .. Len(s) /\ 6 \in 1 .. Len(s) /\ 7 \in 1 .. Len(s)
      /\ \A i \in 1 .. o : 7 + i \in 1 .. Len(s)
      /\ 8 + o \in 1 .. Len(s) /\ 9 + o \in 1 .. Len(s)
      /\ \A i \in 1 .. c : 9 + o + i \in 1 .. Len(s)
      /\ 10 + o + c \in 1 .. Len(s) /\ 11 + o + c \in 1 .. Len(s)
  BY <1>1, <1>3
<1>6. /\ T[1] = [ch |-> "e", of |-> j] /\ T[2] = [ch |-> "n", of |-> j] /\ T[3] = [ch |-> "q", of |-> j]
      /\ T[4] = [ch |-> "s", of |-> j] /\ T[5] = [ch |-> "t", of |-> j] /\ T[6] = [ch |-> "k", of |-> j]
      /\ T[7] = [ch |-> "n", of |-> j]
  BY ZenonT(60), <1>1, <1>4, <1>5
<1>7. \A i \in 1 .. o : T[7 + i] = [ch |-> out[i], of |-> j]
  BY ZenonT(60), <1>1, <1>4, <1>5
<1>8. \A i \in 1 .. c : T[9 + o + i] = [ch |-> code[i], of |-> j]
  BY ZenonT(60), <1>1, <1>4, <1>5
<1>9. /\ T[8 + o] = [ch |-> "s", of |-> j] /\ T[9 + o] = [ch |-> "t", of |-> j]
      /\ T[10 + o + c] = [ch |-> "n", of |-> j] /\ T[11 + o + c] = [ch |-> "p", of |-> j]
  BY ZenonT(60), <1>1, <1>4, <1>5
<1>10. Len(T) = 11 + o + c
  BY Zenon, <1>1, <1>4
<1>11. LaidOut(T, j, out, code)
  BY Zenon, <1>4, <1>6, <1>7, <1>8, <1>9, <1>10 DEF LaidOut, o, c
<1> QED
  BY Zenon, <1>2, <1>11

(* Which bytes of a transcript are sentinels and digits. *)
ReadsAs(T, i, j, out, code) ==
    /\ T[i].of = j
    /\ T[i].ch = "s" => i = 4 \/ i = 8 + Len(out)
    /\ T[i].ch \in Digits => i \in 10 + Len(out) .. 9 + Len(out) + Len(code)

LEMMA TranscriptMarks ==
  ASSUME NEW j \in Nat, NEW out \in Seq({"x", "n"}), NEW code \in Seq(Digits),
         NEW T, LaidOut(T, j, out, code), NEW i \in 1 .. Len(T)
  PROVE  ReadsAs(T, i, j, out, code)
<1> USE DEF ReadsAs
<1> DEFINE o == Len(out)
           c == Len(code)
<1>1. o \in Nat /\ c \in Nat /\ (\A k \in 1 .. o : out[k] \in {"x", "n"}) /\ \A k \in 1 .. c : code[k] \in Digits
  OBVIOUS
<1>2. "s" \notin Digits /\ \A x \in {"e", "n", "q", "s", "t", "k", "p", "x"} : x \notin Digits
  BY Zenon DEF Digits
<1>3. /\ Len(T) = 11 + o + c
      /\ T[1] = [ch |-> "e", of |-> j] /\ T[2] = [ch |-> "n", of |-> j] /\ T[3] = [ch |-> "q", of |-> j]
      /\ T[4] = [ch |-> "s", of |-> j] /\ T[5] = [ch |-> "t", of |-> j] /\ T[6] = [ch |-> "k", of |-> j]
      /\ T[7] = [ch |-> "n", of |-> j]
  BY Zenon DEF LaidOut
<1>4. /\ \A k \in 1 .. o : T[7 + k] = [ch |-> out[k], of |-> j]
      /\ T[8 + o] = [ch |-> "s", of |-> j] /\ T[9 + o] = [ch |-> "t", of |-> j]
      /\ \A k \in 1 .. c : T[9 + o + k] = [ch |-> code[k], of |-> j]
      /\ T[10 + o + c] = [ch |-> "n", of |-> j] /\ T[11 + o + c] = [ch |-> "p", of |-> j]
  BY Zenon DEF LaidOut
<1> HIDE DEF o, c
<1>5. CASE i \in 1 .. 7
  <2>1. i = 1 \/ i = 2 \/ i = 3 \/ i = 4 \/ i = 5 \/ i = 6 \/ i = 7
    BY <1>5
  <2>2. T[i].of = j /\ T[i].ch \in {"e", "n", "q", "s", "t", "k"} /\ (T[i].ch = "s" => i = 4)
    BY SMTT(60), <1>3, <2>1
  <2> QED
    BY Zenon, <1>2, <2>2
<1>6. CASE i \in 8 .. 7 + o
  <2>1. i - 7 \in 1 .. o /\ 7 + (i - 7) = i
    BY <1>1, <1>6
  <2>2. T[i] = [ch |-> out[i - 7], of |-> j]
    BY Zenon, <1>4, <2>1
  <2>3. T[i].of = j /\ T[i].ch \in {"x", "n"}
    BY <1>1, <2>1, <2>2
  <2> QED
    BY Zenon, <1>2, <2>3
<1>7. CASE i = 8 + o \/ i = 9 + o \/ i = 10 + o + c \/ i = 11 + o + c
  <2>1. T[i].of = j /\ T[i].ch \in {"s", "t", "n", "p"} /\ (T[i].ch = "s" => i = 8 + o)
    BY SMTT(60), <1>4, <1>7
  <2> QED
    BY Zenon, <1>2, <2>1 DEF o
<1>8. CASE i \in 10 + o .. 9 + o + c
  <2>1. i - (9 + o) \in 1 .. c /\ 9 + o + (i - (9 + o)) = i
    BY <1>1, <1>8
  <2>2. T[i] = [ch |-> code[i - (9 + o)], of |-> j]
    BY ZenonT(60), <1>4, <2>1
  <2>3. T[i].of = j /\ T[i].ch \in Digits
    BY SMTT(60), <1>1, <2>1, <2>2
  <2> QED
    BY Zenon, <1>2, <1>8, <2>3 DEF o, c
<1>9. i \in 1 .. 7 \/ i \in 8 .. 7 + o \/ i = 8 + o \/ i = 9 + o \/ i \in 10 + o .. 9 + o + c
      \/ i = 10 + o + c \/ i = 11 + o + c
  BY <1>1, <1>3
<1> QED
  BY Zenon, <1>5, <1>6, <1>7, <1>8, <1>9

-----------------------------------------------------------------------------
(* The parser of src/main.rs.                                                 *)

(* What the loop over the lines has kept of the first i characters. *)
PicksOut(g, s, S, n) ==
    /\ g = [i \in 0 .. n |-> g[i]] /\ g[0] = <<>>
    /\ \A i \in 1 .. n : g[i] = IF i \in S THEN Append(g[i - 1], s[i]) ELSE g[i - 1]

LEMMA PickedIs ==
  ASSUME NEW n \in Nat, NEW s, Len(s) = n, NEW S, NEW g, PicksOut(g, s, S, n)
  PROVE  Picked(s, S) = g[n]
<1> DEFINE Step(h) == [i \in 0 .. n |-> IF i = 0 THEN <<>>
                                        ELSE IF i \in S THEN Append(h[i - 1], s[i]) ELSE h[i - 1]]
           f == CHOOSE h : h = Step(h)
<1>0. g[0] = <<>> /\ \A i \in 1 .. n : g[i] = IF i \in S THEN Append(g[i - 1], s[i]) ELSE g[i - 1]
  BY Zenon DEF PicksOut
<1>1. Picked(s, S) = f[n]
  BY Zenon DEF Picked
<1>2. g = Step(g)
  <2>1. \A i \in 0 .. n : i # 0 => i \in 1 .. n
    OBVIOUS
  <2>2. \A i \in 0 .. n : g[i] = IF i = 0 THEN <<>> ELSE IF i \in S THEN Append(g[i - 1], s[i]) ELSE g[i - 1]
    BY Zenon, <1>0, <2>1
  <2> QED
    BY Zenon, <2>2 DEF PicksOut
<1>3. f = Step(f)
  BY Zenon, <1>2
<1>4. \A i \in 0 .. n : f[i] = IF i = 0 THEN <<>> ELSE IF i \in S THEN Append(f[i - 1], s[i]) ELSE f[i - 1]
  BY Zenon, <1>3
<1> HIDE DEF f
<1> DEFINE Wrong == {i \in 0 .. n : f[i] # g[i]}
<1>5. ASSUME Wrong # {} PROVE FALSE
  <2>1. Wrong \subseteq Nat
    OBVIOUS
  <2>2. Min(Wrong) \in Wrong /\ \A k \in Wrong : Min(Wrong) <= k
    BY Zenon, <1>5, <2>1, MinOf
  <2>3. PICK i \in Wrong : \A k \in Wrong : i <= k
    BY Zenon, <2>2
  <2>4. CASE i = 0
    BY Zenon, <1>0, <1>4, <2>3, <2>4
  <2>5. CASE i # 0
    <3>1. i \in 1 .. n /\ i \in 0 .. n /\ i - 1 \in 0 .. n /\ ~(i <= i - 1)
      BY <2>3, <2>5
    <3>2. f[i - 1] = g[i - 1]
      BY Zenon, <2>3, <3>1
    <3>3. f[i] = IF i \in S THEN Append(f[i - 1], s[i]) ELSE f[i - 1]
      BY Zenon, <1>4, <2>5, <3>1
    <3>4. g[i] = IF i \in S THEN Append(g[i - 1], s[i]) ELSE g[i - 1]
      BY Zenon, <1>0, <3>1
    <3>5. f[i] # g[i]
      BY Zenon, <2>3
    <3>6. CASE i \in S
      <4>1. f[i] = Append(f[i - 1], s[i]) /\ g[i] = Append(g[i - 1], s[i])
        BY Zenon, <3>3, <3>4, <3>6
      <4> QED
        BY Zenon, <3>2, <3>5, <4>1
    <3>7. CASE i \notin S
      BY Zenon, <3>2, <3>3, <3>4, <3>5, <3>7
    <3> QED
      BY Zenon, <3>6, <3>7
  <2> QED
    BY Zenon, <2>4, <2>5
<1>6. n \in 0 .. n
  OBVIOUS
<1> QED
  BY Zenon, <1>1, <1>5, <1>6

(* Everything but the positions from a + 1 to b. *)
Without(s, a, b, n) == [k \in 1 .. n |-> s[IF k <= a THEN k ELSE k + (b - a)]]

(* How many of the first i positions those are. *)
Left(i, a, b) == IF i <= a THEN i ELSE IF i <= b THEN a ELSE i - (b - a)

LEMMA PickedAround ==
  ASSUME NEW s \in Seq(Bytes), NEW a \in Nat, NEW b \in Nat, a <= b, b <= Len(s), NEW S,
         \A i \in 1 .. Len(s) : i \in S <=> i \notin a + 1 .. b
  PROVE  Picked(s, S) = Without(s, a, b, Len(s) - (b - a))
<1> DEFINE n == Len(s)
           g == [i \in 0 .. n |-> Without(s, a, b, Left(i, a, b))]
<1>1. n \in Nat /\ b <= n /\ \A i \in 1 .. n : s[i] \in Bytes
  OBVIOUS
<1> HIDE DEF n
<1>2. ASSUME NEW i \in 0 .. n
      PROVE  /\ Left(i, a, b) \in 0 .. n
             /\ \A k \in 1 .. Left(i, a, b) : (IF k <= a THEN k ELSE k + (b - a)) \in 1 .. n
  BY <1>1 DEF Left
<1>3. ASSUME NEW i \in 0 .. n
      PROVE  /\ Without(s, a, b, Left(i, a, b)) \in Seq(Bytes)
             /\ Len(Without(s, a, b, Left(i, a, b))) = Left(i, a, b)
             /\ \A k \in 1 .. Left(i, a, b) :
                   Without(s, a, b, Left(i, a, b))[k] = s[IF k <= a THEN k ELSE k + (b - a)]
  <2> DEFINE m == Left(i, a, b)
             At(k) == IF k <= a THEN k ELSE k + (b - a)
             w == [k \in 1 .. m |-> s[At(k)]]
  <2>1. m \in Nat /\ \A k \in 1 .. m : At(k) \in 1 .. n
    BY <1>2
  <2> HIDE DEF m, At
  <2>2. \A k \in 1 .. m : s[At(k)] \in Bytes
    BY Zenon, <1>1, <2>1
  <2>3. w \in Seq(Bytes) /\ Len(w) = m /\ \A k \in 1 .. m : w[k] = s[At(k)]
    BY <2>1, <2>2
  <2> QED
    BY Zenon, <2>3 DEF Without, m, At
<1>4. \A i \in 0 .. n : g[i] = Without(s, a, b, Left(i, a, b))
  BY Zenon
<1>5. g = [i \in 0 .. n |-> g[i]]
  BY Zenon
<1> HIDE DEF g
<1>6. g[0] = <<>>
  <2>1. 0 \in 0 .. n /\ Left(0, a, b) = 0
    BY <1>1 DEF Left
  <2>2. g[0] \in Seq(Bytes) /\ Len(g[0]) = 0
    BY Zenon, <1>3, <1>4, <2>1
  <2> QED
    BY <2>2
<1>7. ASSUME NEW i \in 1 .. n PROVE g[i] = IF i \in S THEN Append(g[i - 1], s[i]) ELSE g[i - 1]
  <2>1. i \in 0 .. n /\ i - 1 \in 0 .. n /\ s[i] \in Bytes
    BY <1>1
  <2>2. CASE i \in S
    <3>1. i \notin a + 1 .. b
      BY Zenon, <2>2 DEF n
    <3> DEFINE m == Left(i - 1, a, b)
               t == g[i - 1]
               u == Append(t, s[i])
    <3>2. Left(i, a, b) = m + 1 /\ (IF m + 1 <= a THEN m + 1 ELSE m + 1 + (b - a)) = i /\ m \in Nat
      BY <1>1, <3>1 DEF Left
    <3>3. t \in Seq(Bytes) /\ Len(t) = m /\ \A k \in 1 .. m : t[k] = s[IF k <= a THEN k ELSE k + (b - a)]
      BY Zenon, <1>3, <1>4, <2>1
    <3>4. /\ g[i] \in Seq(Bytes) /\ Len(g[i]) = Left(i, a, b)
          /\ \A k \in 1 .. Left(i, a, b) : g[i][k] = s[IF k <= a THEN k ELSE k + (b - a)]
      BY Zenon, <1>3, <1>4, <2>1
    <3> HIDE DEF m, t
    <3>5. u \in Seq(Bytes) /\ Len(u) = m + 1 /\ (\A k \in 1 .. m : u[k] = t[k]) /\ u[m + 1] = s[i]
      BY <2>1, <3>3
    <3> HIDE DEF u
    <3>6. ASSUME NEW k \in 1 .. m + 1 PROVE u[k] = g[i][k]
      <4>1. CASE k \in 1 .. m
        BY ZenonT(60), <3>2, <3>3, <3>4, <3>5, <3>6, <4>1
      <4>2. CASE k = m + 1
        <5>1. g[i][m + 1] = s[IF m + 1 <= a THEN m + 1 ELSE m + 1 + (b - a)]
          BY Zenon, <3>2, <3>4, <3>6, <4>2
        <5> QED
          BY Zenon, <3>2, <3>5, <4>2, <5>1
      <4>3. k \in 1 .. m \/ k = m + 1
        BY <3>2
      <4> QED
        BY Zenon, <4>1, <4>2, <4>3
    <3>7. Len(u) = Len(g[i]) /\ \A k \in 1 .. Len(u) : u[k] = g[i][k]
      BY Zenon, <3>2, <3>4, <3>5, <3>6
    <3>8. u = g[i]
      BY Zenon, <3>4, <3>5, <3>7, SeqEqual
    <3> QED
      BY Zenon, <2>2, <3>8 DEF u, t
  <2>3. CASE i \notin S
    <3>1. i \in a + 1 .. b
      BY Zenon, <2>3 DEF n
    <3>2. Left(i, a, b) = Left(i - 1, a, b)
      BY <3>1 DEF Left
    <3> QED
      BY Zenon, <1>4, <2>1, <2>3, <3>2
  <2> QED
    BY Zenon, <2>2, <2>3
<1>8. PicksOut(g, s, S, n)
  BY Zenon, <1>5, <1>6, <1>7 DEF PicksOut
<1>9. Picked(s, S) = g[n]
  BY Zenon, <1>1, <1>8, PickedIs DEF n
<1>10. n \in 0 .. n /\ Left(n, a, b) = n - (b - a)
  BY <1>1 DEF Left
<1> QED
  BY Zenon, <1>4, <1>9, <1>10 DEF n

(* Where the line of a position starts. *)
LEMMA LineStartIs ==
  ASSUME NEW s \in Seq(Bytes), NEW p \in Nat, NEW q \in 1 .. Len(s), q < p, s[q].ch = "n",
         \A i \in q + 1 .. Len(s) : i < p => s[i].ch # "n"
  PROVE  LineStart(s, p) = q + 1
<1> DEFINE nl == {i \in Newlines(s) : i < p}
<1>1. q \in nl /\ nl \subseteq 1 .. Len(s) /\ Len(s) \in Nat
  BY DEF Newlines
<1>2. \A i \in nl : i <= q
  BY DEF Newlines
<1>3. LineStart(s, p) = IF nl = {} THEN 1 ELSE Max(nl) + 1
  BY Zenon DEF LineStart, SentinelLineStart
<1> HIDE DEF nl
<1>4. Max(nl) = q
  BY Zenon, <1>1, <1>2, MaxIs
<1> QED
  BY Zenon, <1>1, <1>3, <1>4

LEMMA FirstLine ==
  ASSUME NEW s \in Seq(Bytes), NEW p \in Nat, \A i \in 1 .. Len(s) : i < p => s[i].ch # "n"
  PROVE  LineStart(s, p) = 1
<1>1. {i \in Newlines(s) : i < p} = {}
  BY Zenon DEF Newlines
<1> QED
  BY Zenon, <1>1 DEF LineStart, SentinelLineStart

LEMMA LaterLine ==
  ASSUME NEW s \in Seq(Bytes), NEW p \in Nat, NEW q \in 1 .. Len(s), q < p, s[q].ch = "n"
  PROVE  LineStart(s, p) > q
<1> DEFINE nl == {i \in Newlines(s) : i < p}
<1>1. q \in nl /\ nl \subseteq 1 .. Len(s) /\ Len(s) \in Nat
  BY DEF Newlines
<1>2. LineStart(s, p) = IF nl = {} THEN 1 ELSE Max(nl) + 1
  BY Zenon DEF LineStart, SentinelLineStart
<1> HIDE DEF nl
<1>3. Max(nl) \in nl /\ Max(nl) >= q
  BY Zenon, <1>1, MaxOf
<1>4. \A i \in 1 .. Len(s) : i \in Nat
  OBVIOUS
<1>5. Max(nl) \in Nat /\ LineStart(s, p) = Max(nl) + 1
  BY Zenon, <1>1, <1>2, <1>3, <1>4
<1> QED
  BY <1>3, <1>5

(* A command's transcript up to its sentinel: all lines but that of the echo  *)
(* command are kept.                                                          *)
Heard(s, j, out) ==
    LET o == Len(out)
    IN  /\ s \in Seq(Bytes) /\ Len(s) = 7 + o
        /\ s[1] = [ch |-> "e", of |-> j] /\ s[2] = [ch |-> "n", of |-> j] /\ s[3] = [ch |-> "q", of |-> j]
        /\ s[4] = [ch |-> "s", of |-> j] /\ s[5] = [ch |-> "t", of |-> j] /\ s[6] = [ch |-> "k", of |-> j]
        /\ s[7] = [ch |-> "n", of |-> j]
        /\ \A i \in 1 .. o : s[7 + i] = [ch |-> out[i], of |-> j]

LEMMA EchoIsThere ==
  ASSUME NEW j \in Nat, NEW out \in Seq({"x", "n"}), NEW s, Heard(s, j, out)
  PROVE  Occurrences(EchoCmd(j), s) = {3}
<1> DEFINE o == Len(out)
           echo == Occurrences(EchoCmd(j), s)
<1>1. o \in Nat /\ \A i \in 1 .. o : out[i] \in {"x", "n"}
  OBVIOUS
<1>2. /\ s \in Seq(Bytes) /\ Len(s) = 7 + o
      /\ s[1] = [ch |-> "e", of |-> j] /\ s[2] = [ch |-> "n", of |-> j] /\ s[3] = [ch |-> "q", of |-> j]
      /\ s[4] = [ch |-> "s", of |-> j] /\ s[5] = [ch |-> "t", of |-> j] /\ s[6] = [ch |-> "k", of |-> j]
      /\ s[7] = [ch |-> "n", of |-> j]
      /\ \A i \in 1 .. o : s[7 + i] = [ch |-> out[i], of |-> j]
  BY Zenon DEF Heard
<1>3. /\ Len(EchoCmd(j)) = 4 /\ EchoCmd(j)[1] = [ch |-> "q", of |-> j] /\ EchoCmd(j)[2] = [ch |-> "s", of |-> j]
      /\ EchoCmd(j)[3] = [ch |-> "t", of |-> j] /\ EchoCmd(j)[4] = [ch |-> "k", of |-> j]
      /\ EchoCmd(j) \in Seq(Bytes)
  <2>1. <<"q", "s", "t", "k">> \in Seq(Letters)
    BY DEF Letters
  <2>2. EchoCmd(j) \in Seq(Bytes)
    BY Zenon, <2>1, ByParts DEF EchoCmd
  <2> QED
    BY <2>2 DEF EchoCmd, By
<1> HIDE DEF o
<1>4. 3 \in echo
  <2> DEFINE t == SubSeq(s, 3, 6)
  <2>1. \A i \in 3 .. 6 : s[i] \in Bytes
    BY <1>1, <1>2
  <2>2. t \in Seq(Bytes) /\ Len(t) = 4 /\ t[1] = s[3] /\ t[2] = s[4] /\ t[3] = s[5] /\ t[4] = s[6]
    BY <2>1, SubSeqProperties
  <2> HIDE DEF t
  <2>3. \A i \in 1 .. 4 : t[i] = EchoCmd(j)[i]
    <3> SUFFICES ASSUME NEW i \in 1 .. 4 PROVE t[i] = EchoCmd(j)[i]
      BY Zenon
    <3>1. i = 1 \/ i = 2 \/ i = 3 \/ i = 4
      OBVIOUS
    <3> QED
      BY Zenon, <1>2, <1>3, <2>2, <3>1
  <2>4. t = EchoCmd(j)
    BY Zenon, <1>3, <2>2, <2>3, SeqEqual
  <2>5. 3 \in 1 .. Len(s) /\ 6 = 3 + Len(EchoCmd(j)) - 1 /\ 6 <= Len(s)
    BY <1>1, <1>2, <1>3
  <2> QED
    BY Zenon, <2>4, <2>5, OccursAt DEF t
<1>5. ASSUME NEW e \in echo PROVE e = 3
  <2>1. e \in 1 .. Len(s) /\ e + 3 <= Len(s) /\ SubSeq(s, e, e + 3) = EchoCmd(j)
    BY <1>3, <1>5 DEF Occurrences
  <2>2. SubSeq(s, e, e + 3)[1] = s[e]
    BY <1>2, <2>1, SubSeqProperties
  <2>3. s[e] = [ch |-> "q", of |-> j]
    BY Zenon, <1>3, <2>1, <2>2
  <2>4. ASSUME e \in 8 .. Len(s) PROVE FALSE
    <3>1. e - 7 \in 1 .. o /\ 7 + (e - 7) = e
      BY <1>1, <1>2, <2>4
    <3>2. s[e] = [ch |-> out[e - 7], of |-> j] /\ out[e - 7] \in {"x", "n"}
      BY Zenon, <1>1, <1>2, <3>1
    <3> QED
      BY <2>3, <3>2
  <2>6. e # 1 /\ e # 2 /\ e # 4 /\ e # 5 /\ e # 6 /\ e # 7
    BY <1>2, <2>3
  <2> QED
    BY <2>1, <2>4, <2>6
<1> QED
  BY Zenon, <1>4, <1>5

LEMMA EchoLine ==
  ASSUME NEW j \in Nat, NEW out \in Seq({"x", "n"}), NEW s, Heard(s, j, out), NEW p \in 1 .. Len(s)
  PROVE  LineStart(s, p) = LineStart(s, 3) <=> p \in 3 .. 7
<1>1. Len(out) \in Nat /\ s \in Seq(Bytes) /\ Len(s) = 7 + Len(out)
  BY DEF Heard
<1>2. /\ s[1].ch # "n" /\ s[2].ch = "n" /\ s[3].ch # "n" /\ s[4].ch # "n" /\ s[5].ch # "n" /\ s[6].ch # "n"
      /\ s[7].ch = "n"
  BY DEF Heard
<1>3. /\ p \in Nat /\ 3 \in Nat /\ 2 \in 1 .. Len(s) /\ 7 \in 1 .. Len(s) /\ 2 < 3 /\ 2 + 1 = 3
      /\ (p \in 1 .. 2 \/ p \in 3 .. 7 \/ 7 < p)
      /\ (7 < p => p \notin 3 .. 7) /\ (p \in 1 .. 2 => p \notin 3 .. 7)
      /\ \A i \in 3 .. 6 : i = 3 \/ i = 4 \/ i = 5 \/ i = 6
  BY <1>1
<1>4. ASSUME NEW q \in 3 .. 7 PROVE LineStart(s, q) = 3
  <2>1. q \in Nat /\ 2 < q /\ \A i \in 2 + 1 .. Len(s) : i < q => i \in 3 .. 6
    BY <1>1
  <2>2. \A i \in 2 + 1 .. Len(s) : i < q => s[i].ch # "n"
    BY Zenon, <1>2, <1>3, <2>1
  <2> QED
    BY Zenon, <1>1, <1>2, <1>3, <2>1, <2>2, LineStartIs
<1>5. LineStart(s, 3) = 3
  <2>1. 3 \in 3 .. 7
    OBVIOUS
  <2> QED
    BY Zenon, <1>4, <2>1
<1>6. CASE p \in 1 .. 2
  <2>1. \A i \in 1 .. Len(s) : i < p => i = 1
    BY <1>1, <1>6
  <2>2. LineStart(s, p) = 1
    BY Zenon, <1>1, <1>2, <1>3, <2>1, FirstLine
  <2>3. 1 # 3
    OBVIOUS
  <2> QED
    BY Zenon, <1>3, <1>5, <1>6, <2>2, <2>3
<1>7. CASE 7 < p
  <2>1. LineStart(s, p) > 7
    BY Zenon, <1>1, <1>2, <1>3, <1>7, LaterLine
  <2>2. ~(3 > 7)
    OBVIOUS
  <2> QED
    BY Zenon, <1>3, <1>5, <1>7, <2>1, <2>2
<1>8. CASE p \in 3 .. 7
  BY Zenon, <1>4, <1>5, <1>8
<1> QED
  BY Zenon, <1>3, <1>6, <1>7, <1>8

LEMMA KeptDirect ==
  ASSUME NEW j \in Nat, NEW out \in Seq({"x", "n"}), NEW s, Heard(s, j, out)
  PROVE  KeptLines(s, j) = By(j, <<"e", "n">>) \o By(j, out)
<1> DEFINE o == Len(out)
           echo == Occurrences(EchoCmd(j), s)
           dropped == {p \in DOMAIN s : \E e \in echo : LineStart(s, p) = LineStart(s, e)}
           S == DOMAIN s \ dropped
           head == By(j, <<"e", "n">>)
           tail == By(j, out)
           w == Without(s, 2, 7, 2 + o)
           t == head \o tail
<1>1. o \in Nat /\ out \in Seq(Letters) /\ <<"e", "n">> \in Seq(Letters)
  BY DEF Letters
<1>2. /\ s \in Seq(Bytes) /\ Len(s) = 7 + o
      /\ s[1] = [ch |-> "e", of |-> j] /\ s[2] = [ch |-> "n", of |-> j]
      /\ \A i \in 1 .. o : s[7 + i] = [ch |-> out[i], of |-> j]
  BY Zenon DEF Heard
<1> HIDE DEF o
<1>3. echo = {3} /\ DOMAIN s = 1 .. Len(s)
  <2>1. DOMAIN s = 1 .. Len(s)
    BY <1>2
  <2> QED
    BY Zenon, <2>1, EchoIsThere
<1>4. \A i \in 1 .. Len(s) : i \in S <=> i \notin 2 + 1 .. 7
  <2>1. 2 + 1 = 3
    OBVIOUS
  <2>2. ASSUME NEW i \in 1 .. Len(s) PROVE LineStart(s, i) = LineStart(s, 3) <=> i \in 3 .. 7
    BY Zenon, EchoLine
  <2> QED
    BY Zenon, <1>3, <2>1, <2>2
<1>5. KeptLines(s, j) = Picked(s, S)
  BY Zenon DEF KeptLines
<1> HIDE DEF S
<1>6. 2 \in Nat /\ 7 \in Nat /\ 2 <= 7 /\ 7 <= Len(s) /\ Len(s) - (7 - 2) = 2 + o
  BY <1>1, <1>2
<1>7. KeptLines(s, j) = w
  <2>1. Picked(s, S) = Without(s, 2, 7, Len(s) - (7 - 2))
    BY ZenonT(60), <1>2, <1>4, <1>6, PickedAround
  <2> QED
    BY Zenon, <1>5, <1>6, <2>1
<1>8. head = By(j, <<"e", "n">>) /\ tail = By(j, out) /\ t = head \o tail
  BY Zenon
<1> HIDE DEF head, tail, t
<1>9. head \in Seq(Bytes) /\ Len(head) = 2 /\ head[1] = s[1] /\ head[2] = s[2]
  <2> DEFINE h == <<"e", "n">>
  <2>1. Len(h) = 2 /\ h[1] = "e" /\ h[2] = "n" /\ 1 \in 1 .. 2 /\ 2 \in 1 .. 2
    OBVIOUS
  <2>2. h \in Seq(Letters) /\ head = By(j, h)
    BY Zenon, <1>1, <1>8
  <2> HIDE DEF h
  <2>3. head \in Seq(Bytes) /\ Len(head) = Len(h) /\ \A i \in 1 .. Len(h) : head[i] = [ch |-> h[i], of |-> j]
    <3>1. By(j, h) \in Seq(Bytes) /\ Len(By(j, h)) = Len(h) /\ \A i \in 1 .. Len(h) : By(j, h)[i] = [ch |-> h[i], of |-> j]
      BY Zenon, <2>2, ByParts
    <3> QED
      BY Zenon, <2>2, <3>1
  <2> QED
    BY Zenon, <1>2, <2>1, <2>3
<1>10. tail \in Seq(Bytes) /\ Len(tail) = o /\ \A i \in 1 .. o : tail[i] = s[7 + i]
  <2>1. tail \in Seq(Bytes) /\ Len(tail) = o /\ \A i \in 1 .. o : tail[i] = [ch |-> out[i], of |-> j]
    <3>1. /\ By(j, out) \in Seq(Bytes) /\ Len(By(j, out)) = Len(out)
          /\ \A i \in 1 .. Len(out) : By(j, out)[i] = [ch |-> out[i], of |-> j]
      BY Zenon, <1>1, ByParts
    <3> QED
      BY Zenon, <1>8, <3>1 DEF o
  <2> QED
    BY Zenon, <1>2, <2>1
<1>11. /\ t \in Seq(Bytes) /\ Len(t) = 2 + o /\ t[1] = s[1] /\ t[2] = s[2]
       /\ \A i \in 1 .. o : t[2 + i] = s[7 + i]
  <2>1. /\ t \in Seq(Bytes) /\ Len(t) = Len(head) + Len(tail)
        /\ \A i \in 1 .. Len(head) : t[i] = head[i]
        /\ \A i \in 1 .. Len(tail) : t[Len(head) + i] = tail[i]
    <3>1. head \in Seq(Bytes) /\ tail \in Seq(Bytes) /\ t = head \o tail
      BY Zenon, <1>8, <1>9, <1>10
    <3> QED
      BY <3>1, JoinTwo
  <2>2. 1 \in 1 .. 2 /\ 2 \in 1 .. 2
    OBVIOUS
  <2> QED
    BY Zenon, <1>9, <1>10, <2>1, <2>2
<1>12. w \in Seq(Bytes) /\ Len(w) = 2 + o /\ \A i \in 1 .. 2 + o : w[i] = s[IF i <= 2 THEN i ELSE i + (7 - 2)]
  <2> DEFINE At(i) == IF i <= 2 THEN i ELSE i + (7 - 2)
             v == [i \in 1 .. 2 + o |-> s[At(i)]]
  <2>1. \A i \in 1 .. 2 + o : At(i) \in 1 .. Len(s)
    BY <1>1, <1>2
  <2>2. \A i \in 1 .. Len(s) : s[i] \in Bytes
    BY <1>2
  <2> HIDE DEF At
  <2>3. \A i \in 1 .. 2 + o : s[At(i)] \in Bytes
    BY Zenon, <2>1, <2>2
  <2>4. v \in Seq(Bytes) /\ Len(v) = 2 + o /\ \A i \in 1 .. 2 + o : v[i] = s[At(i)]
    BY <1>1, <2>3
  <2> QED
    BY Zenon, <2>4 DEF Without, At
<1> HIDE DEF w
<1>13. ASSUME NEW i \in 1 .. 2 + o PROVE w[i] = t[i]
  <2>1. (i = 1 \/ i = 2 \/ i - 2 \in 1 .. o) /\ (i - 2 \in 1 .. o => ~(i <= 2) /\ 2 + (i - 2) = i /\ i + (7 - 2) = 7 + (i - 2))
    BY <1>1
  <2>2. 1 <= 2 /\ 2 <= 2
    OBVIOUS
  <2>3. CASE i = 1
    BY Zenon, <1>11, <1>12, <2>2, <2>3
  <2>4. CASE i = 2
    BY Zenon, <1>11, <1>12, <2>2, <2>4
  <2>5. CASE i - 2 \in 1 .. o
    <3>1. t[2 + (i - 2)] = s[7 + (i - 2)]
      BY Zenon, <1>11, <2>5
    <3>2. w[i] = s[i + (7 - 2)]
      BY Zenon, <1>12, <2>1, <2>5
    <3> QED
      BY Zenon, <2>1, <2>5, <3>1, <3>2
  <2> QED
    BY Zenon, <2>1, <2>3, <2>4, <2>5
<1>14. w = t
  BY Zenon, <1>11, <1>12, <1>13, SeqEqual
<1> QED
  BY Zenon, <1>7, <1>14, <1>8

(* A part of a text that starts where the text does. *)
Begins(raw, text) == Len(raw) <= Len(text) /\ \A i \in 1 .. Len(raw) : raw[i] = text[i]

(* Without a command there is no sentinel, in what has arrived so far either. *)
LEMMA NoiseHasNoSentinel ==
  ASSUME NEW text, text \in Seq(Bytes), OnlyNoise(text), NEW raw \in Seq(Bytes), Begins(raw, text)
  PROVE  find_direct_sentinel_output(raw, 1) = 0
<1> DEFINE pos == find_sentinel_output(raw, 1)
<1>1. SUFFICES ASSUME pos # 0 PROVE FALSE
  BY Zenon DEF find_direct_sentinel_output
<1>2. pos \in 1 .. Len(raw) /\ raw[pos] = Mark(1)
  BY Zenon, <1>1, SentinelFound
<1> HIDE DEF pos
<1>3. pos \in DOMAIN text
  BY <1>2 DEF Begins
<1>4. text[pos] = Mark(1) /\ text[pos].of = 0
  BY Zenon, <1>2, <1>3 DEF Begins, OnlyNoise
<1> QED
  BY <1>4 DEF Mark

(* What has arrived of a text with one transcript in it. *)
Arrived(raw, text, k, T, j, out, code) ==
    /\ k \in Nat /\ text \in Seq(Bytes) /\ raw \in Seq(Bytes) /\ LaidOut(T, j, out, code)
    /\ Len(raw) <= Len(text) /\ k + Len(T) <= Len(text)
    /\ \A i \in 1 .. Len(raw) : i \notin k + 1 .. k + Len(T) => raw[i].of = 0
    /\ \A i \in 1 .. Len(T) : k + i <= Len(raw) => raw[k + i] = T[i]

LEMMA ArrivedIs ==
  ASSUME NEW text \in Seq(Bytes), NEW k \in Nat, NEW T, LiesBehind(text, k, T), NEW raw \in Seq(Bytes),
         Begins(raw, text), NEW j, NEW out, NEW code, LaidOut(T, j, out, code)
  PROVE  Arrived(raw, text, k, T, j, out, code)
<1>1. /\ k + Len(T) <= Len(text)
      /\ \A i \in DOMAIN text : i \notin k + 1 .. k + Len(T) => text[i].of = 0
      /\ \A i \in 1 .. Len(T) : text[k + i] = T[i]
  BY Zenon DEF LiesBehind
<1>2. Len(raw) <= Len(text) /\ \A i \in 1 .. Len(raw) : raw[i] = text[i]
  BY Zenon DEF Begins
<1>3. /\ DOMAIN text = 1 .. Len(text) /\ Len(raw) \in Nat /\ Len(text) \in Nat
      /\ \A i \in 1 .. Len(raw) : i \in 1 .. Len(text)
  BY <1>2
<1>4. \A i \in 1 .. Len(raw) : i \notin k + 1 .. k + Len(T) => raw[i].of = 0
  BY Zenon, <1>1, <1>2, <1>3
<1>5. \A i \in 1 .. Len(T) : k + i <= Len(raw) => k + i \in 1 .. Len(raw)
  BY SMTT(60), <1>3 DEF LaidOut
<1>6. \A i \in 1 .. Len(T) : k + i <= Len(raw) => raw[k + i] = T[i]
  BY Zenon, <1>1, <1>2, <1>5
<1> QED
  BY Zenon, <1>1, <1>2, <1>4, <1>6 DEF Arrived

(* The sentinel that is found is the one behind the output, not the one in    *)
(* the echo of the command.                                                   *)
LEMMA SentinelPlace ==
  ASSUME NEW j \in Nat, j # 0, NEW out \in Seq({"x", "n"}), NEW code \in Seq(Digits),
         NEW raw, NEW text, NEW k, NEW T, Arrived(raw, text, k, T, j, out, code),
         find_sentinel_output(raw, j) # 0
  PROVE  find_sentinel_output(raw, j) = k + 8 + Len(out) /\ k + 10 + Len(out) <= Len(raw)
<1> DEFINE o == Len(out)
           c == Len(code)
           pos == find_sentinel_output(raw, j)
<1>1. o \in Nat /\ c \in Nat
  OBVIOUS
<1>2. /\ k \in Nat /\ raw \in Seq(Bytes) /\ LaidOut(T, j, out, code)
      /\ \A i \in 1 .. Len(raw) : i \notin k + 1 .. k + Len(T) => raw[i].of = 0
      /\ \A i \in 1 .. Len(T) : k + i <= Len(raw) => raw[k + i] = T[i]
  BY Zenon DEF Arrived
<1>3. /\ pos \in 1 .. Len(raw) /\ pos + 2 <= Len(raw)
      /\ raw[pos] = Mark(j) /\ raw[pos + 2].ch \in Digits
  BY Zenon, <1>2, SentinelFound
<1>4. Len(T) = 11 + o + c /\ T[6] = [ch |-> "k", of |-> j]
  BY Zenon, <1>2 DEF LaidOut
<1> HIDE DEF o, c, pos
<1>5. raw[pos].of = j /\ raw[pos].ch = "s"
  BY <1>3 DEF Mark
<1>6. pos \in k + 1 .. k + Len(T)
  BY Zenon, <1>2, <1>3, <1>5
<1>7. pos - k \in 1 .. Len(T) /\ k + (pos - k) = pos /\ k + (pos - k) <= Len(raw)
  BY <1>1, <1>2, <1>3, <1>4, <1>6
<1>8. T[pos - k].ch = "s"
  BY Zenon, <1>2, <1>5, <1>7
<1>9. pos - k = 4 \/ pos - k = 8 + o
  <2>1. ReadsAs(T, pos - k, j, out, code)
    BY Zenon, <1>2, <1>7, TranscriptMarks
  <2> QED
    BY Zenon, <1>8, <2>1 DEF ReadsAs, o
<1>10. pos - k # 4
  <2> SUFFICES ASSUME pos - k = 4 PROVE FALSE
    BY Zenon
  <2>1. 6 \in 1 .. Len(T) /\ k + 6 = pos + 2 /\ k + 6 <= Len(raw)
    BY <1>1, <1>2, <1>3, <1>4, <1>6
  <2>2. raw[pos + 2] = [ch |-> "k", of |-> j]
    BY Zenon, <1>2, <1>4, <2>1
  <2>3. "k" \notin Digits
    BY DEF Digits
  <2> QED
    BY <1>3, <2>2, <2>3
<1>11. pos - k = 8 + o
  BY Zenon, <1>9, <1>10
<1>12. k \in Nat /\ Len(raw) \in Nat /\ pos \in 1 .. Len(raw) /\ pos + 2 <= Len(raw)
  BY <1>2, <1>3
<1>13. pos = k + 8 + o /\ k + 10 + o <= Len(raw)
  BY <1>1, <1>11, <1>12
<1> QED
  BY Zenon, <1>13 DEF o, pos

LEMMA DirectCode ==
  ASSUME NEW j \in Nat, NEW out \in Seq({"x", "n"}), NEW code \in Seq(Digits),
         NEW raw, NEW text, NEW k, NEW T, Arrived(raw, text, k, T, j, out, code),
         NEW p, p = k + 10 + Len(out), p <= Len(raw), raw[p].ch \in Digits
  PROVE  LET ds == DigitsFrom(raw, p)
         IN  ds # <<>> /\ ds = SubSeq(By(j, code), 1, Len(ds))
<1> DEFINE o == Len(out)
           c == Len(code)
           d == By(j, code)
<1>1. o \in Nat /\ c \in Nat /\ code \in Seq(Letters)
  BY DEF Letters
<1>2. /\ k \in Nat /\ raw \in Seq(Bytes) /\ LaidOut(T, j, out, code)
      /\ \A i \in 1 .. Len(T) : k + i <= Len(raw) => raw[k + i] = T[i]
  BY Zenon DEF Arrived
<1>3. /\ Len(T) = 11 + o + c
      /\ \A i \in 1 .. c : T[9 + o + i] = [ch |-> code[i], of |-> j]
      /\ T[10 + o + c] = [ch |-> "n", of |-> j]
  BY Zenon, <1>2 DEF LaidOut
<1>4. d = By(j, code)
  BY Zenon
<1> HIDE DEF d
<1>5. d \in Seq(Bytes) /\ Len(d) = c /\ \A i \in 1 .. c : d[i] = [ch |-> code[i], of |-> j]
  <2>1. /\ By(j, code) \in Seq(Bytes) /\ Len(By(j, code)) = Len(code)
        /\ \A i \in 1 .. Len(code) : By(j, code)[i] = [ch |-> code[i], of |-> j]
    BY Zenon, <1>1, ByParts
  <2> QED
    BY Zenon, <1>4, <2>1 DEF c
<1>6. p = k + 10 + o
  BY Zenon DEF o
<1> HIDE DEF o, c
<1>7. p \in 1 .. Len(raw) /\ Len(raw) \in Nat
  BY <1>1, <1>2, <1>6
<1>8. k \in Nat /\ Len(T) = 11 + o + c
  BY Zenon, <1>2, <1>3
<1>9. ASSUME NEW q \in p .. Len(raw), \A x \in p .. q : raw[x].ch \in Digits
      PROVE  q - p + 1 \in 1 .. Len(d) /\ raw[q] = d[q - p + 1]
  <2>1. q - p + 1 <= c
    <3> SUFFICES ASSUME q - p + 1 > c PROVE FALSE
      BY <1>1, <1>7
    <3>1. p + c \in p .. q /\ k + (10 + o + c) = p + c /\ 10 + o + c \in 1 .. Len(T) /\ p + c <= Len(raw)
      BY SMTT(60), <1>1, <1>6, <1>7, <1>8
    <3>2. raw[p + c] = [ch |-> "n", of |-> j]
      BY Zenon, <1>2, <1>3, <3>1
    <3>3. raw[p + c].ch \in Digits
      BY Zenon, <1>9, <3>1
    <3>4. "n" \notin Digits
      BY DEF Digits
    <3> QED
      BY <3>2, <3>3, <3>4
  <2>2. /\ q - p + 1 \in 1 .. c /\ 9 + o + (q - p + 1) \in 1 .. Len(T) /\ k + (9 + o + (q - p + 1)) = q
        /\ k + (9 + o + (q - p + 1)) <= Len(raw)
    <3>1. o \in Nat /\ c \in Nat /\ k \in Nat /\ p \in Nat /\ q \in Nat /\ p <= q /\ q <= Len(raw)
      BY <1>1, <1>7, <1>8
    <3>2. k + (9 + o + (q - p + 1)) = q /\ q - p + 1 \in 1 .. c
      BY SMTT(60), <1>6, <2>1, <3>1
    <3>3. 9 + o + (q - p + 1) \in 1 .. Len(T)
      BY <1>8, <3>1, <3>2
    <3> QED
      BY Zenon, <3>1, <3>2, <3>3
  <2>3. raw[q] = T[9 + o + (q - p + 1)]
    BY Zenon, <1>2, <2>2
  <2> QED
    BY Zenon, <1>3, <1>5, <2>2, <2>3
<1>10. LET ds == DigitsFrom(raw, p) IN ds # <<>> /\ ds = SubSeq(d, 1, Len(ds))
  BY Zenon, <1>2, <1>5, <1>7, <1>9, DigitsFound
<1> QED
  BY Zenon, <1>4, <1>10

LEMMA DirectHeard ==
  ASSUME NEW j \in Nat, j # 0, NEW out \in Seq({"x", "n"}), NEW code \in Seq(Digits),
         NEW raw, NEW text, NEW k, NEW T, Arrived(raw, text, k, T, j, out, code),
         k + 10 + Len(out) <= Len(raw), \A i \in DOMAIN raw : raw[i].of = j
  PROVE  k = 0 /\ Heard(SubSeq(raw, 1, 7 + Len(out)), j, out)
<1> DEFINE o == Len(out)
           s == SubSeq(raw, 1, 7 + o)
<1>1. o \in Nat /\ Len(code) \in Nat
  OBVIOUS
<1>2. /\ k \in Nat /\ raw \in Seq(Bytes) /\ LaidOut(T, j, out, code)
      /\ \A i \in 1 .. Len(raw) : i \notin k + 1 .. k + Len(T) => raw[i].of = 0
      /\ \A i \in 1 .. Len(T) : k + i <= Len(raw) => raw[k + i] = T[i]
  BY Zenon DEF Arrived
<1>3. /\ Len(T) = 11 + o + Len(code)
      /\ T[1] = [ch |-> "e", of |-> j] /\ T[2] = [ch |-> "n", of |-> j] /\ T[3] = [ch |-> "q", of |-> j]
      /\ T[4] = [ch |-> "s", of |-> j] /\ T[5] = [ch |-> "t", of |-> j] /\ T[6] = [ch |-> "k", of |-> j]
      /\ T[7] = [ch |-> "n", of |-> j]
      /\ \A i \in 1 .. o : T[7 + i] = [ch |-> out[i], of |-> j]
  BY Zenon, <1>2 DEF LaidOut
<1>4. k + 10 + o <= Len(raw) /\ DOMAIN raw = 1 .. Len(raw) /\ Len(raw) \in Nat
  BY <1>2
<1> HIDE DEF o
<1>5. k = 0
  <2> SUFFICES ASSUME k # 0 PROVE FALSE
    BY Zenon
  <2>1. 1 \in 1 .. Len(raw) /\ 1 \notin k + 1 .. k + Len(T)
    BY <1>1, <1>2, <1>4
  <2>2. raw[1].of = 0 /\ raw[1].of = j
    BY Zenon, <1>2, <1>4, <2>1
  <2> QED
    BY Zenon, <2>2
<1>6. \A i \in 1 .. 7 + o : i \in 1 .. Len(T) /\ i \in 1 .. Len(raw) /\ k + i = i /\ k + i <= Len(raw)
  BY <1>1, <1>3, <1>4, <1>5
<1>7. \A i \in 1 .. 7 + o : raw[i] = T[i]
  BY Zenon, <1>2, <1>6
<1>8. \A i \in 1 .. Len(raw) : raw[i] \in Bytes
  BY <1>2
<1>9. s \in Seq(Bytes) /\ Len(s) = 7 + o /\ \A i \in 1 .. 7 + o : s[i] = raw[i]
  <2>1. \A i \in 1 .. 7 + o : raw[i] \in Bytes
    BY Zenon, <1>6, <1>8
  <2> DEFINE m == 7 + o
  <2>2. m \in Nat /\ 1 \in Int /\ m \in Int /\ m - 1 + 1 = m /\ (IF 1 <= m THEN m - 1 + 1 ELSE 0) = m /\ \A i \in 1 .. m : 1 + i - 1 = i
    BY <1>1
  <2>3. \A i \in 1 .. m : raw[i] \in Bytes
    BY Zenon, <2>1
  <2> HIDE DEF m
  <2>4. /\ SubSeq(raw, 1, m) \in Seq(Bytes)
        /\ Len(SubSeq(raw, 1, m)) = IF 1 <= m THEN m - 1 + 1 ELSE 0
        /\ \A i \in 1 .. m - 1 + 1 : SubSeq(raw, 1, m)[i] = raw[1 + i - 1]
    BY <2>2, <2>3, SubSeqProperties
  <2> QED
    BY Zenon, <2>2, <2>4 DEF m
<1> HIDE DEF s
<1>10. \A i \in 1 .. 7 + o : s[i] = T[i]
  BY Zenon, <1>7, <1>9
<1>11. /\ 1 \in 1 .. 7 + o /\ 2 \in 1 .. 7 + o /\ 3 \in 1 .. 7 + o /\ 4 \in 1 .. 7 + o /\ 5 \in 1 .. 7 + o
       /\ 6 \in 1 .. 7 + o /\ 7 \in 1 .. 7 + o /\ \A i \in 1 .. o : 7 + i \in 1 .. 7 + o
  BY <1>1
<1>12. /\ s[1] = [ch |-> "e", of |-> j] /\ s[2] = [ch |-> "n", of |-> j] /\ s[3] = [ch |-> "q", of |-> j]
       /\ s[4] = [ch |-> "s", of |-> j] /\ s[5] = [ch |-> "t", of |-> j] /\ s[6] = [ch |-> "k", of |-> j]
       /\ s[7] = [ch |-> "n", of |-> j]
  BY Zenon, <1>3, <1>10, <1>11
<1>13. \A i \in 1 .. o : s[7 + i] = [ch |-> out[i], of |-> j]
  BY Zenon, <1>3, <1>10, <1>11
<1>14. Heard(s, j, out)
  BY Zenon, <1>9, <1>12, <1>13 DEF Heard, o
<1> QED
  BY Zenon, <1>5, <1>14 DEF s, o

(* What parse_direct_exec_output returns once the sentinel has arrived.       *)
LEMMA DirectParsed ==
  ASSUME NEW j \in Nat, j # 0, NEW out \in Seq({"x", "n"}), NEW code \in Seq(Digits),
         NEW raw, NEW text, NEW k, NEW T, Arrived(raw, text, k, T, j, out, code),
         find_direct_sentinel_output(raw, j) # 0
  PROVE  LET r == parse_direct_exec_output(raw, j)
         IN  /\ r.code # <<>> /\ r.code = SubSeq(By(j, code), 1, Len(r.code))
             /\ (\A i \in DOMAIN raw : raw[i].of = j) => r.stdout = Trim(By(j, <<"e", "n">>) \o By(j, out))
<1> DEFINE o == Len(out)
           pos == find_direct_sentinel_output(raw, j)
           before == SubSeq(raw, 1, pos - 1)
           r == parse_direct_exec_output(raw, j)
<1>1. pos = k + 8 + o /\ k + 10 + o <= Len(raw)
  BY Zenon, SentinelPlace DEF find_direct_sentinel_output
<1>2. o \in Nat /\ k \in Nat /\ raw \in Seq(Bytes)
  BY DEF Arrived
<1>3. raw[pos + 2].ch \in Digits
  BY Zenon, <1>2, SentinelFound DEF find_direct_sentinel_output
<1>4. r = [stdout |-> Trim(KeptLines(before, j)), code |-> DigitsFrom(raw, pos + 2)]
  BY Zenon DEF parse_direct_exec_output
<1> HIDE DEF pos, r
<1>5. r.stdout = Trim(KeptLines(before, j)) /\ r.code = DigitsFrom(raw, pos + 2)
  BY Zenon, <1>4
<1>6. pos + 2 = k + 10 + o /\ pos + 2 <= Len(raw) /\ (k = 0 => pos - 1 = 7 + o)
  BY <1>1, <1>2
<1>7. r.code # <<>> /\ r.code = SubSeq(By(j, code), 1, Len(r.code))
  <2>1. LET ds == DigitsFrom(raw, pos + 2) IN ds # <<>> /\ ds = SubSeq(By(j, code), 1, Len(ds))
    BY <1>3, <1>6, DirectCode DEF o
  <2> QED
    BY Zenon, <1>5, <2>1
<1>8. ASSUME \A i \in DOMAIN raw : raw[i].of = j
      PROVE  r.stdout = Trim(By(j, <<"e", "n">>) \o By(j, out))
  <2>1. k = 0 /\ Heard(SubSeq(raw, 1, 7 + o), j, out)
    BY Zenon, <1>1, <1>8, DirectHeard
  <2>2. Heard(before, j, out)
    BY Zenon, <1>6, <2>1
  <2>3. KeptLines(before, j) = By(j, <<"e", "n">>) \o By(j, out)
    BY Zenon, <2>2, KeptDirect
  <2> QED
    BY Zenon, <1>5, <2>3
<1> QED
  BY Zenon, <1>7, <1>8 DEF r

=============================================================================
