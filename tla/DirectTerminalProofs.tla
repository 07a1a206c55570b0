------------------------ MODULE DirectTerminalProofs ------------------------
(***************************************************************************)
(* Proofs about DirectTerminal: that input arrives as it was typed, that   *)
(* the terminal is closed and that what a session or a text session shows  *)
(* is what the terminal printed, for any number of inputs and any output.  *)
(* Module DirectOutputProofs is about the output of an exec.               *)
(***************************************************************************)
EXTENDS DirectTerminal, WellFoundedInduction, TLAPS

-----------------------------------------------------------------------------
(* Sequences.                                                                 *)

LEMMA LenProperties ==
  ASSUME NEW S, NEW seq \in Seq(S)
  PROVE  Len(seq) \in Nat /\ seq \in [1 .. Len(seq) -> S] /\ DOMAIN seq = 1 .. Len(seq)
  OBVIOUS

LEMMA ConcatProperties ==
  ASSUME NEW S, NEW s1 \in Seq(S), NEW s2 \in Seq(S)
  PROVE  /\ s1 \o s2 \in Seq(S) /\ Len(s1 \o s2) = Len(s1) + Len(s2)
         /\ \A i \in 1 .. Len(s1) + Len(s2) :
               (s1 \o s2)[i] = IF i <= Len(s1) THEN s1[i] ELSE s2[i - Len(s1)]
  OBVIOUS

LEMMA ConcatAssociative ==
  ASSUME NEW S, NEW s \in Seq(S), NEW t \in Seq(S), NEW u \in Seq(S)
  PROVE  (s \o t) \o u = s \o (t \o u)
  OBVIOUS

LEMMA SubSeqProperties ==
  ASSUME NEW S, NEW s, NEW m \in Int, NEW n \in Int, \A i \in m .. n : s[i] \in S
  PROVE  /\ SubSeq(s, m, n) \in Seq(S)
         /\ Len(SubSeq(s, m, n)) = IF m <= n THEN n - m + 1 ELSE 0
         /\ \A i \in 1 .. n - m + 1 : SubSeq(s, m, n)[i] = s[m + i - 1]
  OBVIOUS

-----------------------------------------------------------------------------
(* What happens to the sequences.                                             *)

(* The first n responses are taken off the wire. *)
Advances(n) ==
    /\ wire' \in Seq(Responses) /\ Len(wire') = Len(wire) - n
    /\ \A p \in 1 .. Len(wire') : wire'[p] = wire[p + n]

(* Responses of terminal id, of types T, are added to the wire. *)
Grows(id, T) ==
    /\ wire' \in Seq(Responses) /\ Len(wire') >= Len(wire)
    /\ \A p \in 1 .. Len(wire) : wire'[p] = wire[p]
    /\ \A p \in Len(wire) + 1 .. Len(wire') : wire'[p].id = id /\ wire'[p].type \in T

LEMMA Stays ==
  ASSUME wire \in Seq(Responses), wire' = wire
  PROVE  Advances(0)
  BY DEF Advances

LEMMA TailAdvances ==
  ASSUME wire \in Seq(Responses), wire # <<>>, wire' = Tail(wire)
  PROVE  Advances(1)
  BY DEF Advances

LEMMA ChunkAdvances ==
  ASSUME wire \in Seq(Responses), NEW n \in 1 .. Len(wire), wire' = SubSeq(wire, n + 1, Len(wire))
  PROVE  Advances(n)
<1>1. Len(wire) \in Nat /\ n \in Nat /\ n + 1 \in 1 .. Len(wire) + 1
  OBVIOUS
<1>2. wire' \in Seq(Responses) /\ Len(wire') = Len(wire) - n
  BY <1>1, SubSeqProperties
<1>3. \A p \in 1 .. Len(wire') : wire'[p] = wire[p + n]
  BY <1>1, <1>2, SubSeqProperties
<1> QED
  BY ZenonT(60), <1>2, <1>3 DEF Advances

LEMMA ConcatGrows ==
  ASSUME wire \in Seq(Responses), NEW id, NEW T, NEW more \in Seq(Responses),
         wire' = wire \o more,
         \A p \in 1 .. Len(more) : more[p].id = id /\ more[p].type \in T
  PROVE  Grows(id, T) /\ Len(wire') = Len(wire) + Len(more)
  BY DEF Grows

(* Bytes are bytes. *)
LEMMA ByIsBytes ==
  ASSUME NEW j \in Nat,
         NEW s \in Seq(Digits \cup {"e", "n", "q", "s", "t", "k", "p", "b", "x", "-"})
  PROVE  By(j, s) \in Seq(Bytes)
  BY DEF By, Bytes, Letters

LEMMA DataIsResponses ==
  ASSUME NEW id \in {1, 2}, NEW bytes \in Seq(Bytes)
  PROVE  /\ Data(id, bytes) \in Seq(Responses)
         /\ Len(Data(id, bytes)) = Len(bytes)
         /\ \A p \in 1 .. Len(bytes) : Data(id, bytes)[p].id = id /\ Data(id, bytes)[p].type = "data"
<1> DEFINE d == Data(id, bytes)
<1>1. DOMAIN bytes = 1 .. Len(bytes) /\ Len(bytes) \in Nat /\ \A p \in 1 .. Len(bytes) : bytes[p] \in Bytes
  OBVIOUS
<1>2. d = [p \in 1 .. Len(bytes) |-> [type |-> "data", id |-> id, byte |-> bytes[p]]]
  BY Zenon, <1>1 DEF Data
<1>3. \A p \in 1 .. Len(bytes) : [type |-> "data", id |-> id, byte |-> bytes[p]] \in Responses
  BY Zenon, <1>1 DEF Responses
<1> HIDE DEF d
<1>4. d \in Seq(Responses) /\ Len(d) = Len(bytes)
  BY <1>1, <1>2, <1>3
<1>5. \A p \in 1 .. Len(bytes) : d[p].id = id /\ d[p].type = "data"
  BY Zenon, <1>2
<1> QED
  BY Zenon, <1>4, <1>5 DEF d

LEMMA ResponseIsResponses ==
  ASSUME NEW id \in {1, 2}, NEW t \in {"opened", "closed", "error"}
  PROVE  /\ Response(t, id) \in Seq(Responses)
         /\ Len(Response(t, id)) = 1
         /\ Response(t, id)[1].id = id /\ Response(t, id)[1].type = t
  BY DEF Response, Responses, Bytes, Letters

LEMMA TranscriptIsBytes ==
  ASSUME NEW out \in Seq({"x", "n"}), NEW code \in Seq(Digits)
  PROVE  Transcript(1, [out |-> out, code |-> code]) \in Seq(Bytes)
<1> DEFINE C == Digits \cup {"e", "n", "q", "s", "t", "k", "p", "b", "x", "-"}
<1>1. out \in Seq(C) /\ code \in Seq(C)
  OBVIOUS
<1>2. <<"e", "n", "q", "s", "t", "k", "n">> \in Seq(C) /\ <<"s", "t">> \in Seq(C) /\ <<"n", "p">> \in Seq(C)
  OBVIOUS
<1> HIDE DEF C
<1>3. <<"e", "n", "q", "s", "t", "k", "n">> \o out \o <<"s", "t">> \o code \o <<"n", "p">> \in Seq(C)
  BY <1>1, <1>2
<1> QED
  BY Zenon, <1>3, ByIsBytes DEF Transcript, C

-----------------------------------------------------------------------------
(* The client.                                                                *)

Places == {"connecting", "probing", "opening", "draining", "collecting", "session",
           "ready", "gathering", "done"}

InMode(p) ==
    /\ p \in Places
    /\ p \in {"draining", "collecting"} => mode = "exec"
    /\ p \in {"probing", "session"} => mode = "session"
    /\ p \in {"ready", "gathering"} => mode = "text"

(* Places where ReportsFit speaks of terminals that are not ours. *)
Watching == Trying \cup {"draining", "collecting", "session"}

(* A step of the client that keeps its terminal: it receives n responses and  *)
(* may drop a recv.                                                           *)
Moves(n) ==
    /\ pc # "done" /\ n \in 0 .. Len(wire) /\ Advances(n)
    /\ mode' = mode /\ tid' = tid
    /\ UNCHANGED <<ran, opened, unasked>>
    /\ stream' = stream \/ (stream = "up" /\ stream' = "desynced")
    /\ InMode(pc') /\ pc' # "connecting"
    /\ pc' \in Trying => pc \in Trying
    /\ pc \in Trying => pc' \in Trying \cup {"done"}
    /\ stream' = "up" /\ pc' \in Watching => pc \in Watching /\ \A p \in 1 .. n : wire[p].type = "data"

LEMMA WhatIsLeft ==
  ASSUME TypeOK, NEW n, Moves(n), NEW p \in DOMAIN wire'
  PROVE  p + n \in DOMAIN wire /\ wire'[p] = wire[p + n]
<1>1. DOMAIN wire = 1 .. Len(wire) /\ Len(wire) \in Nat
  BY DEF TypeOK
<1>2. /\ DOMAIN wire' = 1 .. Len(wire') /\ Len(wire') = Len(wire) - n /\ n \in 0 .. Len(wire)
      /\ \A i \in 1 .. Len(wire') : wire'[i] = wire[i + n]
  BY DEF Moves, Advances
<1>3. p \in 1 .. Len(wire')
  BY Zenon, <1>2
<1>4. p + n \in 1 .. Len(wire)
  BY <1>1, <1>2, <1>3
<1> QED
  BY Zenon, <1>1, <1>2, <1>3, <1>4

LEMMA MoveKeepsFresh ==
  ASSUME TypeOK, NEW n, Moves(n), NEW id, Fresh(id)
  PROVE  Fresh(id)'
<1>1. \A p \in DOMAIN wire' : wire'[p].id # id
  BY Zenon, WhatIsLeft DEF Fresh
<1> QED
  BY Zenon, <1>1 DEF Moves, Fresh

LEMMA MoveKeepsReports ==
  ASSUME TypeOK, ReportsFit, NEW n, Moves(n)
  PROVE  ReportsFit'
<1>1. /\ wire \in Seq(Responses) /\ Len(wire) \in Nat /\ n \in 0 .. Len(wire)
      /\ wire' \in Seq(Responses) /\ Len(wire') = Len(wire) - n
      /\ \A p \in 1 .. Len(wire') : wire'[p] = wire[p + n]
      /\ DOMAIN wire = 1 .. Len(wire) /\ DOMAIN wire' = 1 .. Len(wire')
      /\ opened' = opened /\ tid' = tid
  BY DEF TypeOK, Moves, Advances
<1>2. \A p \in DOMAIN wire' : wire'[p].type = "closed" => wire'[p].id \notin opened'
  BY <1>1, WhatIsLeft DEF ReportsFit
<1>3. ASSUME stream' = "up", pc' \in Watching
      PROVE  /\ \A id \in opened \ {tid} : \E q \in DOMAIN wire' : wire'[q].type = "opened" /\ wire'[q].id = id
             /\ \A p \in DOMAIN wire' : wire'[p].type = "closed" /\ wire'[p].id # tid =>
                   \E q \in 1 .. p - 1 : wire'[q].type = "opened" /\ wire'[q].id = wire'[p].id
  <2>1. stream = "up" /\ pc \in Watching /\ \A p \in 1 .. n : wire[p].type = "data"
    BY Zenon, <1>3 DEF Moves
  <2>2. /\ \A id \in opened \ {tid} : \E q \in 1 .. Len(wire) : wire[q].type = "opened" /\ wire[q].id = id
        /\ \A p \in 1 .. Len(wire) : wire[p].type = "closed" /\ wire[p].id # tid =>
              \E q \in 1 .. p - 1 : wire[q].type = "opened" /\ wire[q].id = wire[p].id
    BY Zenon, <1>1, <2>1 DEF ReportsFit, Watching
  <2>3. ASSUME NEW id \in opened \ {tid}
        PROVE  \E q \in DOMAIN wire' : wire'[q].type = "opened" /\ wire'[q].id = id
    <3>1. PICK q \in 1 .. Len(wire) : wire[q].type = "opened" /\ wire[q].id = id
      BY Zenon, <2>2, <2>3
    <3>2. q \notin 1 .. n
      BY Zenon, <2>1, <3>1
    <3>3. q - n \in 1 .. Len(wire') /\ wire'[q - n] = wire[q]
      BY <1>1, <3>1, <3>2
    <3> QED
      BY Zenon, <1>1, <3>1, <3>3
  <2>4. ASSUME NEW p \in DOMAIN wire', wire'[p].type = "closed", wire'[p].id # tid
        PROVE  \E q \in 1 .. p - 1 : wire'[q].type = "opened" /\ wire'[q].id = wire'[p].id
    <3>1. p + n \in 1 .. Len(wire) /\ wire'[p] = wire[p + n]
      BY <1>1, <2>4
    <3>2. PICK q \in 1 .. (p + n) - 1 : wire[q].type = "opened" /\ wire[q].id = wire[p + n].id
      BY Zenon, <2>2, <2>4, <3>1
    <3>3. q \notin 1 .. n
      BY Zenon, <2>1, <3>2
    <3>4. q - n \in 1 .. p - 1 /\ q - n \in 1 .. Len(wire') /\ wire'[q - n] = wire[q]
      BY <1>1, <3>1, <3>2, <3>3
    <3> QED
      BY Zenon, <3>1, <3>2, <3>4
  <2> QED
    BY Zenon, <2>3, <2>4
<1> QED
  BY Zenon, <1>1, <1>2, <1>3 DEF ReportsFit, Watching

LEMMA QuietKeepsOpens ==
  ASSUME TypeOK, OpensOnce, NEW n, Moves(n), toPeer' = toPeer, pc' = "probing" => pc = "connecting"
  PROVE  OpensOnce'
<1>1. \A id : Fresh(id) => Fresh(id)'
  BY Zenon, MoveKeepsFresh
<1> QED
  BY Zenon, <1>1 DEF OpensOnce, Moves, Trying, TypeOK

LEMMA SendKeepsOpens ==
  ASSUME TypeOK, OpensOnce, NEW n, Moves(n), NEW a \in Actions, toPeer' = Append(toPeer, a),
         \/ a.type = "open" /\ a.id = 2 /\ pc \in {"connecting", "probing"} /\ pc' = "opening"
         \/ /\ a.type # "open" /\ a.id = tid /\ tid # 0 /\ pc' \notin Trying
            /\ a.type = "close" => pc' = "done"
  PROVE  OpensOnce'
<1>1. \A id : Fresh(id) => Fresh(id)'
  BY Zenon, MoveKeepsFresh
<1>2. /\ toPeer \in Seq(Actions) /\ Len(toPeer) \in Nat /\ DOMAIN toPeer = 1 .. Len(toPeer)
      /\ DOMAIN toPeer' = 1 .. Len(toPeer) + 1 /\ toPeer'[Len(toPeer) + 1] = a
      /\ \A i \in 1 .. Len(toPeer) : toPeer'[i] = toPeer[i]
  BY DEF TypeOK
<1>3. CASE a.type = "open"
  <2>1. Len(toPeer) = 0 /\ Fresh(2)' /\ tid = 0
    BY Zenon, <1>1, <1>3 DEF OpensOnce, Trying
  <2> QED
    BY <1>1, <1>2, <1>3, <2>1 DEF OpensOnce, Moves, Trying
<1>4. CASE a.type # "open"
  BY <1>1, <1>2, <1>4 DEF OpensOnce, Moves, Trying
<1> QED
  BY Zenon, <1>3, <1>4

(* What is queued between the reader task and the session. *)
StdinFits ==
    /\ Len(stdin) <= typed
    /\ \A k \in DOMAIN stdin : stdin[k] = typed - Len(stdin) + k
    /\ mode = "text" => stdin = <<>>

LEMMA QuietKeepsInput ==
  ASSUME TypeOK, InputFits, NEW n, Moves(n), UNCHANGED <<toPeer, typed, stdin>>,
         pc' # "done" => (pc' = "collecting" <=> pc = "collecting")
  PROVE  InputFits'
<1>1. Unopened' = Unopened
  BY Zenon DEF Unopened
<1>2. pc' # "done" => Given' = Given
  BY Zenon DEF Given, Moves
<1>3. pc' \in Trying => pc' # "done"
  BY Zenon DEF Trying
<1>4. stream' # "broken" => stream # "broken"
  BY Zenon DEF Moves
<1> QED
  BY Zenon, <1>1, <1>2, <1>3, <1>4 DEF InputFits, Moves

LEMMA AppendedAction ==
  ASSUME NEW q \in Seq(Actions), NEW a \in Actions
  PROVE  /\ Append(q, a) \in Seq(Actions) /\ Len(q) \in Nat /\ DOMAIN q = 1 .. Len(q)
         /\ Len(Append(q, a)) = Len(q) + 1
         /\ DOMAIN Append(q, a) = 1 .. Len(q) + 1 /\ Append(q, a)[Len(q) + 1] = a
         /\ \A i \in 1 .. Len(q) : Append(q, a)[i] = q[i]
  OBVIOUS

(* The call returns: the terminal is closed, or not. *)
LEMMA ReturnKeepsInput ==
  ASSUME TypeOK, InputFits, NEW n, Moves(n), StdinFits', pc' = "done", toPeer' = toPeer
  PROVE  InputFits'
<1>1. Unopened' = Unopened
  BY Zenon DEF Unopened
<1>2. pc' \notin Trying /\ (stream' # "broken" => stream # "broken")
  BY Zenon DEF Trying, Moves
<1> QED
  BY Zenon, <1>1, <1>2 DEF InputFits, StdinFits, Moves

LEMMA CloseKeepsInput ==
  ASSUME TypeOK, InputFits, NEW n, Moves(n), StdinFits', pc' = "done",
         NEW a \in Actions, a.type = "close", toPeer' = Append(toPeer, a)
  PROVE  InputFits'
<1>1. /\ Len(toPeer) \in Nat /\ DOMAIN toPeer = 1 .. Len(toPeer)
      /\ DOMAIN toPeer' = 1 .. Len(toPeer) + 1 /\ toPeer'[Len(toPeer) + 1] = a
      /\ \A i \in 1 .. Len(toPeer) : toPeer'[i] = toPeer[i]
  BY AppendedAction DEF TypeOK
<1>2. stream' # "broken" => stream # "broken"
  BY Zenon DEF Moves
<1>3. pc' \notin Trying
  BY Zenon DEF Trying
<1>4. Unopened' = Unopened
  <2>1. CASE toPeer = <<>>
    BY <1>1, <2>1 DEF Unopened
  <2>2. CASE toPeer # <<>>
    <3>1. 1 \in 1 .. Len(toPeer) /\ toPeer'[1] = toPeer[1] /\ toPeer' # <<>>
      BY <1>1, <2>2 DEF TypeOK
    <3> QED
      BY Zenon, <2>2, <3>1 DEF Unopened
  <2> QED
    BY Zenon, <2>1, <2>2
<1>5. ASSUME tid \in opened, stream # "broken", NEW i \in DOMAIN toPeer', toPeer'[i].type = "data"
      PROVE  toPeer'[i].input = Len(ran) + i - Unopened
  <2>1. i \in 1 .. Len(toPeer)
    BY <1>1, <1>5
  <2> QED
    BY Zenon, <1>1, <1>5, <2>1 DEF InputFits
<1> QED
  BY Zenon, <1>2, <1>3, <1>4, <1>5 DEF InputFits, StdinFits, Moves

(* The next input is sent. *)
LEMMA DataKeepsInput ==
  ASSUME TypeOK, OpensOnce, InputFits, NEW n, Moves(n), StdinFits', pc' \notin Trying, pc \notin Trying,
         NEW a \in Actions, a.type = "data", toPeer' = Append(toPeer, a),
         a.input = Given + 1, Given' = Given + 1
  PROVE  InputFits'
<1>1. /\ toPeer \in Seq(Actions) /\ Len(toPeer) \in Nat /\ DOMAIN toPeer = 1 .. Len(toPeer)
      /\ Len(toPeer') = Len(toPeer) + 1 /\ Len(ran) \in Nat
      /\ DOMAIN toPeer' = 1 .. Len(toPeer) + 1 /\ toPeer'[Len(toPeer) + 1] = a
      /\ \A i \in 1 .. Len(toPeer) : toPeer'[i] = toPeer[i]
  BY DEF TypeOK
<1>2. stream' # "broken" => stream # "broken"
  BY Zenon DEF Moves
<1>3. Unopened' = Unopened /\ Unopened \in {0, 1}
  BY <1>1 DEF Unopened
<1>4. pc # "done"
  BY Zenon DEF Moves
<1>5. ASSUME tid \in opened, stream # "broken"
      PROVE  /\ \A i \in DOMAIN toPeer' :
                   toPeer'[i].type = "data" => toPeer'[i].input = Len(ran) + i - Unopened
             /\ Given' = Len(ran) + Len(toPeer') - Unopened
  <2>1. Given = Len(ran) + Len(toPeer) - Unopened
    BY Zenon, <1>4, <1>5 DEF InputFits
  <2>2. \A i \in 1 .. Len(toPeer) :
           toPeer[i].type = "data" => toPeer[i].input = Len(ran) + i - Unopened
    BY Zenon, <1>1, <1>5 DEF InputFits
  <2>3. a.input = Len(ran) + (Len(toPeer) + 1) - Unopened
    BY <1>1, <1>3, <2>1
  <2>4. Given' = Len(ran) + Len(toPeer') - Unopened
    BY <1>1, <1>3, <2>1
  <2> QED
    BY <1>1, <2>2, <2>3, <2>4
<1> QED
  BY Zenon, <1>2, <1>3, <1>5 DEF InputFits, StdinFits, Moves

(* The terminal is asked for: nothing has been sent before. *)
LEMMA OpenKeepsInput ==
  ASSUME TypeOK, OpensOnce, InputFits, NEW n, Moves(n), UNCHANGED <<typed, stdin>>,
         pc \in Trying, pc' \in Trying
  PROVE  InputFits'
<1>1. tid = 0 /\ 0 \notin opened
  BY DEF OpensOnce, TypeOK
<1>2. Given' = Given
  BY Zenon DEF Given, Moves, Trying
<1> QED
  BY Zenon, <1>1, <1>2 DEF InputFits, Moves

(* The steps of the client, by what they send. *)

LEMMA MoveKeepsTypes ==
  ASSUME TypeOK, NEW n, Moves(n), toPeer' \in Seq(Actions), typed' \in Nat, stdin' \in Seq(Nat)
  PROVE  TypeOK'
  BY Zenon DEF TypeOK, Moves, InMode, Places, Advances

LEMMA QuietStep ==
  ASSUME IInv, NEW n, Moves(n), UNCHANGED <<toPeer, typed, stdin, result>>, pc' # "done",
         pc' = "probing" => pc = "connecting",
         pc' = "collecting" <=> pc = "collecting"
  PROVE  IInv'
<1>1. TypeOK'
  BY Zenon, MoveKeepsTypes DEF IInv, TypeOK
<1>2. OpensOnce'
  BY Zenon, QuietKeepsOpens DEF IInv
<1>3. ReportsFit'
  BY Zenon, MoveKeepsReports DEF IInv
<1>4. InputFits'
  BY Zenon, QuietKeepsInput DEF IInv
<1>5. /\ pc # "done" /\ ran' = ran
  BY Zenon DEF Moves
<1> QED
  BY Zenon, <1>1, <1>2, <1>3, <1>4, <1>5 DEF IInv, InputIsWhatWasTyped, TerminalIsClosed

LEMMA ReturnStep ==
  ASSUME IInv, NEW n, Moves(n), UNCHANGED <<toPeer, typed>>, stdin' \in Seq(Nat), StdinFits',
         pc' = "done", result'.kind = "eof" => stdin' = <<>>, TerminalIsClosed'
  PROVE  IInv'
<1>1. TypeOK'
  BY Zenon, MoveKeepsTypes DEF IInv, TypeOK
<1>2. OpensOnce'
  BY Zenon, QuietKeepsOpens DEF IInv
<1>3. ReportsFit'
  BY Zenon, MoveKeepsReports DEF IInv
<1>4. InputFits'
  BY Zenon, ReturnKeepsInput DEF IInv
<1>5. ran' = ran
  BY Zenon DEF Moves
<1> QED
  BY Zenon, <1>1, <1>2, <1>3, <1>4, <1>5 DEF IInv, InputIsWhatWasTyped

LEMMA CloseStep ==
  ASSUME IInv, NEW n, Moves(n), UNCHANGED <<typed, stdin>>, tid # 0,
         toPeer' = Append(toPeer, CloseAction),
         pc' = "done", result'.kind = "eof" => stdin = <<>>
  PROVE  IInv'
<1>1. CloseAction \in Actions /\ CloseAction.type = "close" /\ CloseAction.id = tid
  BY DEF IInv, TypeOK, CloseAction, Action, Actions
<1>2. /\ toPeer' \in Seq(Actions)
      /\ Len(toPeer) + 1 \in DOMAIN toPeer' /\ toPeer'[Len(toPeer) + 1] = CloseAction
  BY <1>1, AppendedAction DEF IInv, TypeOK
<1>3. TypeOK'
  BY Zenon, <1>2, MoveKeepsTypes DEF IInv, TypeOK
<1>4. OpensOnce'
  <2>1. pc' \notin Trying
    BY Zenon DEF Trying
  <2> QED
    BY Zenon, <1>1, <2>1, SendKeepsOpens DEF IInv
<1>5. ReportsFit'
  BY Zenon, MoveKeepsReports DEF IInv
<1>6. InputFits'
  <2>1. StdinFits'
    BY Zenon DEF StdinFits, IInv, InputFits, Moves
  <2> QED
    BY Zenon, <1>1, <2>1, CloseKeepsInput DEF IInv
<1>7. ran' = ran /\ tid' = tid
  BY Zenon DEF Moves
<1>8. TerminalIsClosed'
  BY Zenon, <1>1, <1>2, <1>7 DEF TerminalIsClosed
<1> QED
  BY ZenonT(60), <1>3, <1>4, <1>5, <1>6, <1>7, <1>8 DEF IInv, InputIsWhatWasTyped

LEMMA OpenStep ==
  ASSUME IInv, NEW n, Moves(n), UNCHANGED <<typed, stdin, result>>,
         pc \in {"connecting", "probing"}, pc' = "opening",
         toPeer' = Append(toPeer, [type |-> "open", id |-> 2, input |-> 0])
  PROVE  IInv'
<1> DEFINE a == [type |-> "open", id |-> 2, input |-> 0]
<1>1. a \in Actions /\ a.type = "open" /\ a.id = 2
  BY Zenon DEF Actions
<1> HIDE DEF a
<1>2. toPeer' = Append(toPeer, a)
  BY Zenon DEF a
<1>3. toPeer' \in Seq(Actions)
  BY <1>1, <1>2, AppendedAction DEF IInv, TypeOK
<1>4. TypeOK'
  BY Zenon, <1>3, MoveKeepsTypes DEF IInv, TypeOK
<1>5. OpensOnce'
  BY Zenon, <1>1, <1>2, SendKeepsOpens DEF IInv
<1>6. ReportsFit'
  BY Zenon, MoveKeepsReports DEF IInv
<1>7. InputFits'
  BY Zenon, OpenKeepsInput DEF IInv, Trying
<1>8. ran' = ran /\ pc # "done"
  BY Zenon DEF Moves
<1> QED
  BY Zenon, <1>4, <1>5, <1>6, <1>7, <1>8 DEF IInv, InputIsWhatWasTyped, TerminalIsClosed

LEMMA DataStep ==
  ASSUME IInv, NEW n, Moves(n), result' = result, tid # 0,
         typed' \in Nat, stdin' \in Seq(Nat), StdinFits',
         pc \notin Trying, pc' \notin Trying, pc' # "done",
         toPeer' = Append(toPeer, Action("data", Given + 1)), Given \in Nat, Given' = Given + 1
  PROVE  IInv'
<1> DEFINE a == Action("data", Given + 1)
<1>1. a \in Actions /\ a.type = "data" /\ a.id = tid /\ a.input = Given + 1
  BY DEF IInv, TypeOK, Action, Actions
<1> HIDE DEF a
<1>2. toPeer' = Append(toPeer, a)
  BY Zenon DEF a
<1>3. toPeer' \in Seq(Actions)
  BY <1>1, <1>2, AppendedAction DEF IInv, TypeOK
<1>4. TypeOK'
  BY Zenon, <1>3, MoveKeepsTypes DEF IInv
<1>5. OpensOnce'
  BY Zenon, <1>1, <1>2, SendKeepsOpens DEF IInv
<1>6. ReportsFit'
  BY Zenon, MoveKeepsReports DEF IInv
<1>7. InputFits'
  BY Zenon, <1>1, <1>2, DataKeepsInput DEF IInv
<1>8. ran' = ran /\ pc # "done"
  BY Zenon DEF Moves
<1> QED
  BY Zenon, <1>4, <1>5, <1>6, <1>7, <1>8 DEF IInv, InputIsWhatWasTyped, TerminalIsClosed

LEMMA FailEnds ==
  ASSUME NEW why, Fail(why)
  PROVE  pc' = "done" /\ result'.kind = why /\ UNCHANGED <<mode, tid>>
  BY Zenon DEF Fail, Return, NoResult

(* The stream of a step, a recv that may be dropped included. *)
StreamStep == stream' = stream \/ (stream = "up" /\ stream' = "desynced")

WireStep == wire' = wire \/ (wire # <<>> /\ wire' = Tail(wire))

LEMMA DoneMoves ==
  ASSUME TypeOK, pc # "done", pc' = "done", UNCHANGED <<mode, tid, ran, opened, unasked>>,
         StreamStep, WireStep
  PROVE  \E n : Moves(n)
<1>1. pc' \notin Trying /\ pc' \notin Watching /\ InMode(pc')
  BY Zenon DEF Trying, Watching, InMode, Places
<1>2. CASE wire' = wire
  <2>1. Advances(0) /\ 0 \in 0 .. Len(wire)
    BY <1>2, Stays DEF TypeOK
  <2>2. Moves(0)
    BY Zenon, <1>1, <2>1 DEF Moves, StreamStep
  <2> QED
    BY Zenon, <2>2
<1>3. CASE wire # <<>> /\ wire' = Tail(wire)
  <2>1. Advances(1) /\ 1 \in 0 .. Len(wire)
    BY <1>3, TailAdvances DEF TypeOK
  <2>2. Moves(1)
    BY Zenon, <1>1, <2>1 DEF Moves, StreamStep
  <2> QED
    BY Zenon, <2>2
<1> QED
  BY Zenon, <1>2, <1>3 DEF WireStep

LEMMA StdinStays ==
  ASSUME IInv, UNCHANGED <<mode, typed, stdin>>
  PROVE  StdinFits' /\ stdin' \in Seq(Nat)
  BY Zenon DEF IInv, InputFits, StdinFits, TypeOK

(* A call that returns without a word. *)
LEMMA Returns ==
  ASSUME IInv, pc # "done", pc' = "done", UNCHANGED <<mode, tid, ran, opened, unasked, toPeer>>,
         StreamStep, WireStep, UNCHANGED <<typed, stdin>>,
         result'.kind = "eof" => stdin = <<>>,
         tid = 0 \/ stream = "broken" \/ (mode = "session" /\ result'.kind = "error") \/ tid \notin opened
  PROVE  IInv'
<1>1. PICK n : Moves(n)
  BY Zenon, DoneMoves DEF IInv
<1>2. TerminalIsClosed'
  BY Zenon DEF TerminalIsClosed, StreamStep
<1> QED
  BY Zenon, <1>1, <1>2, StdinStays, ReturnStep

(* One that closes the terminal if it can. *)
LEMMA Closes ==
  ASSUME IInv, pc # "done", pc \notin Trying, pc' = "done", UNCHANGED <<mode, tid, ran, opened, unasked>>,
         StreamStep, WireStep, UNCHANGED <<typed, stdin>>,
         result'.kind = "eof" => stdin = <<>>, Send(CloseAction)
  PROVE  IInv'
<1>1. CASE stream = "broken"
  BY Zenon, <1>1, Returns DEF Send
<1>2. CASE stream # "broken"
  <2>1. PICK n : Moves(n)
    BY Zenon, DoneMoves DEF IInv
  <2>2. tid # 0
    BY Zenon DEF IInv, OpensOnce
  <2> QED
    BY Zenon, <1>2, <2>1, <2>2, CloseStep DEF Send
<1> QED
  BY Zenon, <1>1, <1>2

(* Opening the terminal. *)

(* A step that receives nothing and goes on. *)
LEMMA WaitMoves ==
  ASSUME TypeOK, pc # "done", UNCHANGED <<mode, tid, ran, opened, unasked, wire>>, StreamStep,
         InMode(pc'), pc' # "connecting", pc' \in Trying <=> pc \in Trying,
         pc' \in Watching => pc \in Watching
  PROVE  Moves(0)
<1>1. Advances(0) /\ 0 \in 0 .. Len(wire)
  BY Stays DEF TypeOK
<1> QED
  BY <1>1 DEF Moves, StreamStep

LEMMA ConnectedStep ==
  ASSUME IInv, Connected
  PROVE  IInv'
<1>1. pc = "connecting" /\ UNCHANGED <<stream, wire, typed, stdin, ran, opened, unasked>>
  BY Zenon DEF Connected, Keep, inputVars, peerVars
<1>2. CASE mode = "session"
  <2>1. pc' = "probing" /\ UNCHANGED <<mode, tid, result, toPeer>>
    BY Zenon, <1>2 DEF Connected, Goto
  <2>2. Moves(0)
    BY Zenon, <1>1, <1>2, <2>1, WaitMoves DEF IInv, InMode, Places, Trying, Watching, StreamStep
  <2> QED
    BY Zenon, <1>1, <2>1, <2>2, QuietStep
<1>3. CASE mode # "session" /\ CanSend
  <2>1. /\ pc' = "opening" /\ UNCHANGED <<mode, tid, result>>
        /\ toPeer' = Append(toPeer, [type |-> "open", id |-> 2, input |-> 0])
    BY Zenon, <1>3 DEF Connected, Goto, CanSend, Send
  <2>2. Moves(0)
    BY Zenon, <1>1, <2>1, WaitMoves DEF IInv, InMode, Places, Trying, Watching, StreamStep
  <2> QED
    BY Zenon, <1>1, <2>1, <2>2, OpenStep
<1>4. CASE mode # "session" /\ ~CanSend
  <2>1. Fail("error") /\ toPeer' = toPeer /\ stream = "broken"
    BY Zenon, <1>4 DEF Connected, CanSend
  <2>2. pc' = "done" /\ result'.kind = "error" /\ UNCHANGED <<mode, tid>>
    BY Zenon, <2>1, FailEnds
  <2> QED
    BY Zenon, <1>1, <2>1, <2>2, Returns DEF StreamStep, WireStep
<1> QED
  BY Zenon, <1>2, <1>3, <1>4

LEMMA TakeKinds ==
  ASSUME NEW types, Unexpected(types)
  PROVE  StreamStep /\ WireStep /\ toPeer' = toPeer
  BY Zenon DEF Unexpected, Next_is, Take, RecvFails, StreamStep, WireStep

LEMMA DropKinds ==
  ASSUME DropRecv
  PROVE  StreamStep /\ WireStep /\ wire' = wire
  BY Zenon DEF DropRecv, StreamStep, WireStep

LEMMA OpenFailsStep ==
  ASSUME IInv, ConnectFails \/ ProbeFails \/ OpenFails
  PROVE  IInv'
<1>1. pc \in Trying /\ pc # "done" /\ Fail("error") /\ UNCHANGED <<typed, stdin, ran, opened, unasked>>
  BY Zenon DEF ConnectFails, ProbeFails, OpenFails, Keep, inputVars, peerVars, Trying
<1>2. StreamStep /\ WireStep /\ toPeer' = toPeer
  <2>1. CASE ConnectFails
    BY Zenon, <2>1 DEF ConnectFails, StreamStep, WireStep
  <2>2. CASE ProbeFails
    BY Zenon, <2>2, TakeKinds DEF ProbeFails
  <2>3. CASE OpenFails
    BY Zenon, <2>3, TakeKinds, DropKinds DEF OpenFails
  <2> QED
    BY Zenon, <2>1, <2>2, <2>3
<1>3. pc' = "done" /\ result'.kind = "error" /\ UNCHANGED <<mode, tid>>
  BY Zenon, <1>1, FailEnds
<1>4. tid = 0
  BY Zenon, <1>1 DEF IInv, OpensOnce
<1> QED
  BY ZenonT(60), <1>1, <1>2, <1>3, <1>4, Returns

LEMMA ProbeTimesOutStep ==
  ASSUME IInv, ProbeTimesOut
  PROVE  IInv'
<1>1. /\ pc = "probing" /\ UNCHANGED <<typed, stdin, ran, opened, unasked>>
      /\ StreamStep /\ WireStep /\ wire' = wire
  BY Zenon, DropKinds DEF ProbeTimesOut, Keep, inputVars, peerVars
<1>2. CASE CanSend
  <2>1. /\ pc' = "opening" /\ UNCHANGED <<mode, tid, result>>
        /\ toPeer' = Append(toPeer, [type |-> "open", id |-> 2, input |-> 0])
    BY Zenon, <1>2 DEF ProbeTimesOut, Goto, CanSend, Send
  <2>2. Moves(0)
    BY Zenon, <1>1, <2>1, WaitMoves DEF IInv, InMode, Places, Trying, Watching
  <2> QED
    BY Zenon, <1>1, <2>1, <2>2, OpenStep
<1>3. CASE ~CanSend
  <2>1. Fail("error") /\ toPeer' = toPeer /\ stream = "broken"
    BY ZenonT(60), <1>3 DEF ProbeTimesOut, CanSend, Send
  <2>2. pc' = "done" /\ result'.kind = "error" /\ UNCHANGED <<mode, tid>>
    BY Zenon, <2>1, FailEnds
  <2> QED
    BY Zenon, <1>1, <2>1, <2>2, Returns
<1> QED
  BY Zenon, <1>2, <1>3

(* The terminal is taken.  Nothing but its open has been sent, and nothing    *)
(* has run: whether it is open at the peer or not, the first input is next.   *)
LEMMA TakeOpenedStep ==
  ASSUME IInv, NEW next, TakeOpened(next), pc \in {"probing", "opening"},
         next \in {"draining", "session", "ready"},
         next = "draining" <=> mode = "exec", next = "session" <=> mode = "session"
  PROVE  IInv'
<1>1. /\ stream = "up" /\ wire # <<>> /\ wire[1].type = "opened" /\ tid' = wire[1].id /\ pc' = next
      /\ wire' = Tail(wire) /\ wire \in Seq(Responses) /\ Len(wire) \in Nat
      /\ UNCHANGED <<stream, toPeer, mode, result, typed, stdin, ran, opened, unasked>>
  BY DEF TakeOpened, Next_is, Take, Keep, inputVars, peerVars, IInv, TypeOK
<1>2. /\ wire' \in Seq(Responses) /\ Len(wire') = Len(wire) - 1 /\ Len(wire) >= 1
      /\ DOMAIN wire = 1 .. Len(wire) /\ DOMAIN wire' = 1 .. Len(wire')
      /\ \A p \in 1 .. Len(wire') : wire'[p] = wire[p + 1]
      /\ wire[1] \in Responses
  BY <1>1
<1>3. tid = 0 /\ pc \in Trying /\ tid' \in {1, 2} /\ pc # "done"
  BY ZenonT(60), <1>1, <1>2 DEF IInv, OpensOnce, Trying, Responses
<1>4. TypeOK'
  BY <1>1, <1>2, <1>3 DEF IInv, TypeOK
<1>5. \A p \in DOMAIN wire' : p + 1 \in DOMAIN wire /\ wire'[p] = wire[p + 1]
  BY <1>2
<1>6. OpensOnce'
  <2>1. \A id : Fresh(id) => Fresh(id)'
    BY <1>1, <1>2, <1>5 DEF Fresh
  <2> QED
    BY SMTT(60), <1>1, <1>3, <2>1 DEF IInv, OpensOnce, Trying
<1>7. ReportsFit'
  <2>1. \A p \in DOMAIN wire' : wire'[p].type = "closed" => wire'[p].id \notin opened'
    BY <1>1, <1>5 DEF IInv, ReportsFit
  <2>2. ASSUME NEW id \in opened \ {tid'}
        PROVE  \E q \in DOMAIN wire' : wire'[q].type = "opened" /\ wire'[q].id = id
    <3>1. PICK q \in DOMAIN wire : wire[q].type = "opened" /\ wire[q].id = id
      <4>1. id \in opened \ {tid}
        BY <1>3 DEF IInv, TypeOK
      <4> QED
        BY Zenon, <1>1, <1>3, <4>1 DEF IInv, ReportsFit
    <3>2. q - 1 \in DOMAIN wire' /\ wire'[q - 1] = wire[q]
      BY <1>1, <1>2, <3>1
    <3> QED
      BY Zenon, <3>1, <3>2
  <2>3. ASSUME NEW p \in DOMAIN wire', wire'[p].type = "closed", wire'[p].id # tid'
        PROVE  \E q \in 1 .. p - 1 : wire'[q].type = "opened" /\ wire'[q].id = wire'[p].id
    <3>1. p + 1 \in DOMAIN wire /\ wire'[p] = wire[p + 1] /\ wire[p + 1].id # tid
      <4>1. p + 1 \in DOMAIN wire /\ wire'[p] = wire[p + 1]
        BY Zenon, <1>5, <2>3
      <4>2. wire[p + 1] \in Responses
        BY <1>1, <4>1
      <4>3. wire[p + 1].id \in {1, 2}
        BY Zenon, <4>2 DEF Responses
      <4> QED
        BY <1>3, <4>1, <4>3
    <3>2. PICK q \in 1 .. (p + 1) - 1 : wire[q].type = "opened" /\ wire[q].id = wire[p + 1].id
      BY <1>1, <1>3, <2>3, <3>1 DEF IInv, ReportsFit
    <3>3. q # 1
      BY Zenon, <1>1, <2>3, <3>1, <3>2
    <3>4. q - 1 \in 1 .. p - 1 /\ wire'[q - 1] = wire[q]
      BY <1>2, <3>2, <3>3
    <3> QED
      BY Zenon, <3>1, <3>2, <3>4
  <2> QED
    BY Zenon, <1>1, <2>1, <2>2, <2>3 DEF ReportsFit
<1>8. InputFits'
  <2>1. Given' = 0
    BY Zenon, <1>1, <1>3 DEF IInv, InputFits, Given
  <2>2. ran = <<>> /\ \A i \in DOMAIN toPeer : toPeer[i].type = "open" /\ i = 1
    BY Zenon, <1>3 DEF IInv, OpensOnce
  <2>3. Len(ran) = 0 /\ Unopened' = Len(toPeer)
    <3>1. toPeer \in Seq(Actions) /\ DOMAIN toPeer = 1 .. Len(toPeer) /\ Len(toPeer) \in Nat
      BY DEF IInv, TypeOK
    <3>2. Len(toPeer) \in {0, 1}
      BY <2>2, <3>1
    <3> QED
      BY <1>1, <2>2, <3>1, <3>2 DEF Unopened
  <2>4. Len(toPeer) \in Nat
    BY DEF IInv, TypeOK
  <2> QED
    BY <1>1, <2>1, <2>2, <2>3, <2>4 DEF IInv, InputFits
<1>9. pc' # "done"
  BY Zenon, <1>1
<1> QED
  BY ZenonT(60), <1>1, <1>3, <1>4, <1>6, <1>7, <1>8, <1>9 DEF IInv, InputIsWhatWasTyped, TerminalIsClosed

LEMMA OpenKeepsIInv ==
  ASSUME IInv, Open
  PROVE  IInv'
<1>1. ASSUME ProbeOpened PROVE IInv'
  <2>1. TakeOpened("session") /\ pc = "probing" /\ mode = "session"
    BY Zenon, <1>1 DEF ProbeOpened, IInv, TypeOK
  <2> QED
    BY Zenon, <2>1, TakeOpenedStep
<1>2. ASSUME OpenSucceeds PROVE IInv'
  <2>1. pc = "opening" /\ mode \in {"exec", "session", "text"}
    BY Zenon, <1>2 DEF OpenSucceeds, IInv, TypeOK
  <2>2. CASE mode = "exec"
    <3>1. TakeOpened("draining")
      BY Zenon, <1>2, <2>2 DEF OpenSucceeds
    <3> QED
      BY Zenon, <2>1, <2>2, <3>1, TakeOpenedStep
  <2>3. CASE mode = "session"
    <3>1. TakeOpened("session")
      BY Zenon, <1>2, <2>3 DEF OpenSucceeds
    <3> QED
      BY Zenon, <2>1, <2>3, <3>1, TakeOpenedStep
  <2>4. CASE mode = "text"
    <3>1. TakeOpened("ready")
      BY Zenon, <1>2, <2>4 DEF OpenSucceeds
    <3> QED
      BY Zenon, <2>1, <2>4, <3>1, TakeOpenedStep
  <2> QED
    BY Zenon, <2>1, <2>2, <2>3, <2>4
<1> QED
  BY Zenon, <1>1, <1>2, ConnectedStep, OpenFailsStep, ProbeTimesOutStep DEF Open

(* What is received. *)

(* Data is received, and the call goes on. *)
LEMMA DataMoves ==
  ASSUME TypeOK, pc \notin {"done", "connecting"}, UNCHANGED <<mode, pc, tid, ran, opened, unasked, stream>>,
         NEW n \in 1 .. Len(wire), wire' = SubSeq(wire, n + 1, Len(wire)),
         \A p \in 1 .. n : wire[p].type = "data"
  PROVE  Moves(n)
<1>1. n \in 0 .. Len(wire)
  BY DEF TypeOK
<1>2. wire \in Seq(Responses)
  BY Zenon DEF TypeOK
<1>3. Advances(n)
  BY Zenon, <1>2, ChunkAdvances
<1> QED
  BY Zenon, <1>1, <1>3 DEF Moves, TypeOK, InMode, Places

LEMMA ChunkGoesOn ==
  ASSUME IInv, pc \notin {"done", "connecting", "probing"}, UNCHANGED <<mode, pc, tid, result, toPeer>>,
         NEW n \in 1 .. Len(wire), Chunk(n), Keep
  PROVE  IInv'
<1>1. UNCHANGED <<ran, opened, unasked, stream, typed, stdin>>
  BY Zenon DEF Keep, inputVars, peerVars, Chunk
<1>2. Moves(n)
  BY Zenon, <1>1, DataMoves DEF IInv, Chunk
<1> QED
  BY Zenon, <1>1, <1>2, QuietStep

LEMMA ChunkWire ==
  ASSUME TypeOK, NEW n \in 1 .. Len(wire), Chunk(n), pc # "done", pc' = "done",
         UNCHANGED <<mode, tid, ran, opened, unasked>>
  PROVE  Moves(n)
<1>1. Advances(n) /\ n \in 0 .. Len(wire)
  BY ChunkAdvances DEF TypeOK, Chunk
<1>2. pc' \notin Trying /\ pc' \notin Watching /\ InMode(pc')
  BY Zenon DEF Trying, Watching, InMode, Places
<1> QED
  BY Zenon, <1>1, <1>2 DEF Moves, Chunk

(* What is reported closed at the head of the wire is our terminal.           *)
LEMMA ClosedIsOurs ==
  ASSUME IInv, Next_is("closed"), pc \in Watching
  PROVE  tid \notin opened
<1>1. stream = "up" /\ 1 \in DOMAIN wire /\ wire[1].type = "closed"
  BY DEF IInv, TypeOK, Next_is
<1>2. wire[1].id = tid
  <2>1. ~ \E q \in 1 .. 1 - 1 : wire[q].type = "opened" /\ wire[q].id = wire[1].id
    OBVIOUS
  <2> QED
    BY Zenon, <1>1, <2>1 DEF IInv, ReportsFit, Watching
<1> QED
  BY Zenon, <1>1, <1>2 DEF IInv, ReportsFit

LEMMA ClosedReturns ==
  ASSUME IInv, DrainClosed \/ SessionClosed
  PROVE  IInv'
<1>1. /\ Next_is("closed") /\ Take /\ Keep /\ Fail("closed") /\ pc \in Watching /\ pc # "done"
  BY Zenon DEF DrainClosed, SessionClosed, Watching
<1>2. tid \notin opened
  BY Zenon, <1>1, ClosedIsOurs
<1>3. pc' = "done" /\ result'.kind = "closed" /\ UNCHANGED <<mode, tid>>
  BY Zenon, <1>1, FailEnds
<1>4. StreamStep /\ WireStep /\ UNCHANGED <<toPeer, typed, stdin, ran, opened, unasked>>
  BY Zenon, <1>1 DEF Take, Next_is, Keep, inputVars, peerVars, StreamStep, WireStep
<1> QED
  BY Zenon, <1>1, <1>2, <1>3, <1>4, Returns

LEMMA ExecKeepsIInv ==
  ASSUME IInv, Exec
  PROVE  IInv'
<1>1. ASSUME DrainData PROVE IInv'
  <2>1. /\ pc = "draining" /\ wire # <<>> /\ wire[1].type = "data" /\ wire' = Tail(wire) /\ Keep
        /\ UNCHANGED <<mode, pc, tid, result, toPeer, stream>>
    BY <1>1 DEF DrainData, Next_is, Take, clientVars
  <2>2. UNCHANGED <<typed, stdin, ran, opened, unasked>>
    BY Zenon, <2>1 DEF Keep, inputVars, peerVars
  <2>3. Advances(1) /\ 1 \in 0 .. Len(wire)
    BY <2>1, TailAdvances DEF IInv, TypeOK
  <2>4. Moves(1)
    <3>1. \A p \in 1 .. 1 : wire[p].type = "data"
      BY <2>1
    <3> QED
      BY ZenonT(60), <2>1, <2>2, <2>3, <3>1 DEF Moves, IInv, TypeOK, InMode, Places, Trying, Watching
  <2> QED
    BY Zenon, <2>1, <2>2, <2>4, QuietStep
<1>2. ASSUME DrainFails \/ CollectFails PROVE IInv'
  <2>1. /\ pc \in {"draining", "collecting"} /\ Fail("error") /\ Send(CloseAction) /\ Keep
        /\ StreamStep /\ WireStep
    BY Zenon, <1>2 DEF DrainFails, CollectFails, Next_is, StreamStep, WireStep
  <2>2. pc' = "done" /\ result'.kind = "error" /\ UNCHANGED <<mode, tid>>
    BY Zenon, <2>1, FailEnds
  <2>3. pc # "done" /\ pc \notin Trying /\ UNCHANGED <<typed, stdin, ran, opened, unasked>>
    BY Zenon, <2>1 DEF Trying, Keep, inputVars, peerVars
  <2> QED
    BY Zenon, <2>1, <2>2, <2>3, Closes
<1>3. ASSUME SendCommand PROVE IInv'
  <2>1. pc = "draining" /\ StreamStep /\ WireStep /\ wire' = wire /\ UNCHANGED <<typed, stdin, ran, opened, unasked>>
    BY Zenon, <1>3, DropKinds DEF SendCommand, Keep, inputVars, peerVars
  <2>2. mode = "exec" /\ tid # 0
    BY Zenon, <2>1 DEF IInv, TypeOK, OpensOnce, Trying
  <2>3. CASE CanSend
    <3>1. pc' = "collecting" /\ UNCHANGED <<mode, tid, result>> /\ toPeer' = Append(toPeer, Action("data", 1))
      BY Zenon, <1>3, <2>3 DEF SendCommand, Goto, CanSend, Send
    <3>2. Moves(0)
      BY Zenon, <2>1, <2>2, <3>1, WaitMoves DEF IInv, InMode, Places, Trying, Watching
    <3>3. Given = 0 /\ Given' = 1 /\ 0 + 1 = 1
      BY <2>1, <2>2, <3>1 DEF Given
    <3>4. pc \notin Trying /\ pc' \notin Trying /\ typed' \in Nat
      BY ZenonT(60), <2>1, <3>1 DEF Trying, IInv, TypeOK
    <3> QED
      BY ZenonT(60), <2>1, <2>2, <3>1, <3>2, <3>3, <3>4, StdinStays, DataStep
  <2>4. CASE ~CanSend
    <3>1. Fail("error") /\ toPeer' = toPeer /\ stream = "broken"
      BY ZenonT(60), <1>3, <2>4 DEF SendCommand, CanSend, Send
    <3>2. pc' = "done" /\ result'.kind = "error" /\ UNCHANGED <<mode, tid>>
      BY Zenon, <3>1, FailEnds
    <3> QED
      BY Zenon, <2>1, <3>1, <3>2, Returns
  <2> QED
    BY Zenon, <2>3, <2>4
<1>4. ASSUME NEW n \in 1 .. Len(wire), CollectData(n) PROVE IInv'
  <2> DEFINE raw == collected \o Received(n)
  <2>1. pc = "collecting" /\ Chunk(n) /\ Keep /\ stream = "up"
    BY Zenon, <1>4 DEF CollectData, Chunk
  <2>2. CASE find_direct_sentinel_output(raw, 1) # 0
    <3>1. Complete(raw, "done")
      BY Zenon, <1>4, <2>2 DEF CollectData
    <3>2. /\ pc' = "done" /\ result'.kind = "done" /\ UNCHANGED <<mode, tid>>
          /\ toPeer' = Append(toPeer, CloseAction)
      BY Zenon, <2>1, <3>1 DEF Complete, Return, Send
    <3>3. UNCHANGED <<typed, stdin, ran, opened, unasked>>
      BY Zenon, <2>1 DEF Keep, inputVars, peerVars
    <3>4. Moves(n)
      BY ZenonT(60), <2>1, <3>2, <3>3, ChunkWire DEF IInv
    <3>5. tid # 0
      BY Zenon, <2>1 DEF IInv, OpensOnce, Trying
    <3> QED
      BY ZenonT(60), <3>2, <3>3, <3>4, <3>5, CloseStep
  <2>3. CASE ~(find_direct_sentinel_output(raw, 1) # 0)
    <3>1. UNCHANGED <<mode, pc, tid, result, toPeer>>
      BY Zenon, <1>4, <2>3 DEF CollectData
    <3> QED
      BY Zenon, <2>1, <3>1, ChunkGoesOn
  <2> QED
    BY Zenon, <2>2, <2>3
<1>5. ASSUME CollectClosed PROVE IInv'
  <2>1. /\ pc = "collecting" /\ Send(CloseAction) /\ StreamStep /\ WireStep
        /\ UNCHANGED <<typed, stdin, ran, opened, unasked>>
    BY Zenon, <1>5 DEF CollectClosed, Next_is, StreamStep, WireStep, Keep, inputVars, peerVars
  <2>2. pc' = "done" /\ result'.kind = "closed" /\ UNCHANGED <<mode, tid>>
    BY Zenon, <1>5 DEF CollectClosed, Return, NoResult
  <2>3. pc # "done" /\ pc \notin Trying
    BY Zenon, <2>1 DEF Trying
  <2> QED
    BY Zenon, <2>1, <2>2, <2>3, Closes
<1>6. ASSUME CollectTimesOut PROVE IInv'
  <2>1. /\ pc = "collecting" /\ StreamStep /\ WireStep
        /\ UNCHANGED <<typed, stdin, ran, opened, unasked>>
    BY Zenon, <1>6, DropKinds DEF CollectTimesOut, Keep, inputVars, peerVars
  <2>2. pc' = "done" /\ result'.kind = "timed_out" /\ UNCHANGED <<mode, tid>> /\ Send(CloseAction)
    BY Zenon, <1>6 DEF CollectTimesOut, Complete, Return
  <2>3. pc # "done" /\ pc \notin Trying
    BY Zenon, <2>1 DEF Trying
  <2> QED
    BY Zenon, <2>1, <2>2, <2>3, Closes
<1> QED
  BY Zenon, <1>1, <1>2, <1>3, <1>4, <1>5, <1>6, ClosedReturns DEF Exec

LEMMA UserTypesStep ==
  ASSUME IInv, UserTypes
  PROVE  IInv'
<1>1. /\ mode = "session" /\ pc # "done" /\ typed' = typed + 1 /\ stdin' = Append(stdin, typed + 1)
      /\ UNCHANGED <<mode, pc, tid, result, stream, toPeer, wire, ran, opened, unasked>>
  BY Zenon DEF UserTypes, clientVars, peerVars
<1>2. /\ typed \in Nat /\ stdin \in Seq(Nat) /\ Len(stdin) \in Nat /\ Len(stdin) <= typed
      /\ DOMAIN stdin = 1 .. Len(stdin)
      /\ \A k \in 1 .. Len(stdin) : stdin[k] = typed - Len(stdin) + k
  BY DEF IInv, TypeOK, InputFits
<1>3. /\ stdin' \in Seq(Nat) /\ Len(stdin') = Len(stdin) + 1 /\ DOMAIN stdin' = 1 .. Len(stdin) + 1
      /\ stdin'[Len(stdin) + 1] = typed + 1
      /\ \A k \in 1 .. Len(stdin) : stdin'[k] = stdin[k]
  BY <1>1, <1>2
<1>4. TypeOK'
  BY SMTT(60), <1>1, <1>2, <1>3 DEF IInv, TypeOK
<1>5. OpensOnce' /\ ReportsFit'
  BY <1>1 DEF IInv, OpensOnce, ReportsFit, Fresh
<1>6. Len(stdin') <= typed' /\ \A k \in DOMAIN stdin' : stdin'[k] = typed' - Len(stdin') + k
  BY <1>1, <1>2, <1>3
<1>7. Given' = Given /\ Unopened' = Unopened
  BY <1>1, <1>2, <1>3 DEF Given, Unopened
<1>8. InputFits'
  BY ZenonT(60), <1>1, <1>6, <1>7 DEF IInv, InputFits
<1> QED
  BY ZenonT(60), <1>1, <1>4, <1>5, <1>8 DEF IInv, InputIsWhatWasTyped, TerminalIsClosed

LEMMA SessionInputStep ==
  ASSUME IInv, SessionInput
  PROVE  IInv'
<1>1. /\ pc = "session" /\ stdin # <<>> /\ stdin' = Tail(stdin) /\ StreamStep /\ WireStep /\ wire' = wire
      /\ UNCHANGED <<typed, ran, opened, unasked>> /\ Send(Action("data", Head(stdin)))
  BY Zenon, DropKinds DEF SessionInput, peerVars
<1>2. mode = "session" /\ tid # 0
  BY ZenonT(60), <1>1 DEF IInv, TypeOK, OpensOnce, Trying
<1>3. /\ typed \in Nat /\ stdin \in Seq(Nat) /\ Len(stdin) \in Nat /\ Len(stdin) <= typed
      /\ DOMAIN stdin = 1 .. Len(stdin) /\ Len(stdin) >= 1
      /\ \A k \in 1 .. Len(stdin) : stdin[k] = typed - Len(stdin) + k
  BY SMTT(60), <1>1 DEF IInv, TypeOK, InputFits
<1>4. /\ stdin' \in Seq(Nat) /\ Len(stdin') = Len(stdin) - 1 /\ DOMAIN stdin' = 1 .. Len(stdin')
      /\ \A k \in 1 .. Len(stdin') : stdin'[k] = stdin[k + 1]
  BY <1>1, <1>3
<1>5. /\ Len(stdin') <= typed' /\ typed' \in Nat
      /\ \A k \in DOMAIN stdin' : stdin'[k] = typed' - Len(stdin') + k
  <2>1. typed' = typed
    BY Zenon, <1>1
  <2>2. Len(stdin') <= typed' /\ typed' \in Nat
    BY <1>3, <1>4, <2>1
  <2>3. ASSUME NEW k \in DOMAIN stdin'
        PROVE  stdin'[k] = typed' - Len(stdin') + k
    <3>1. k \in 1 .. Len(stdin) - 1
      BY Zenon, <1>4, <2>3
    <3>2. k \in Nat /\ k + 1 \in 1 .. Len(stdin)
      BY <1>3, <3>1
    <3>3. stdin[k + 1] = typed - Len(stdin) + (k + 1)
      BY Zenon, <1>3, <3>2
    <3>4. typed - Len(stdin) + (k + 1) = typed - (Len(stdin) - 1) + k
      BY <1>3, <3>2
    <3> QED
      BY Zenon, <1>4, <2>1, <2>3, <3>1, <3>3, <3>4
  <2> QED
    BY Zenon, <2>2, <2>3
<1>6. CASE CanSend
  <2>1. UNCHANGED <<mode, pc, tid, result>> /\ toPeer' = Append(toPeer, Action("data", Head(stdin)))
    BY Zenon, <1>1, <1>6 DEF SessionInput, clientVars, CanSend, Send
  <2>2. Given = typed - Len(stdin) /\ Given' = typed - Len(stdin')
    BY Zenon, <1>1, <1>2, <2>1 DEF Given
  <2>3. Given \in Nat /\ Given' = Given + 1 /\ Head(stdin) = Given + 1
    BY <1>3, <1>4, <2>2
  <2>4. StdinFits' /\ typed' \in Nat
    BY Zenon, <1>2, <1>5, <2>1 DEF StdinFits
  <2>5. Moves(0)
    BY Zenon, <1>1, <1>2, <2>1, WaitMoves DEF IInv, InMode, Places, Trying, Watching
  <2>6. pc \notin Trying /\ pc' \notin Trying /\ pc' # "done"
    BY Zenon, <1>1, <2>1 DEF Trying
  <2> QED
    BY Zenon, <1>2, <1>4, <2>1, <2>3, <2>4, <2>5, <2>6, DataStep
<1>7. CASE ~CanSend
  <2>1. Fail("error") /\ toPeer' = toPeer /\ stream = "broken"
    BY Zenon, <1>1, <1>7 DEF SessionInput, CanSend, Send
  <2>2. pc' = "done" /\ result'.kind = "error" /\ UNCHANGED <<mode, tid>>
    BY Zenon, <2>1, FailEnds
  <2>3. StdinFits'
    BY Zenon, <1>2, <1>5, <2>2 DEF StdinFits
  <2>4. PICK n : Moves(n)
    BY ZenonT(60), <1>1, <2>2, DoneMoves DEF IInv
  <2>5. TerminalIsClosed'
    BY Zenon, <1>1, <2>1 DEF TerminalIsClosed, StreamStep
  <2> QED
    BY Zenon, <1>1, <1>4, <2>1, <2>2, <2>3, <2>4, <2>5, ReturnStep
<1> QED
  BY Zenon, <1>6, <1>7

LEMMA SessionKeepsIInv ==
  ASSUME IInv, Session
  PROVE  IInv'
<1>1. ASSUME UserEnds PROVE IInv'
  BY <1>1 DEF UserEnds, clientVars, peerVars, IInv, TypeOK, OpensOnce, Fresh, ReportsFit, InputFits, Given,
              Unopened, InputIsWhatWasTyped, TerminalIsClosed
<1>2. ASSUME SessionEof PROVE IInv'
  <2>1. /\ pc = "session" /\ stdin = <<>> /\ StreamStep /\ WireStep /\ Send(CloseAction) /\ Fail("eof")
        /\ UNCHANGED <<typed, stdin, ran, opened, unasked>>
    BY Zenon, <1>2, DropKinds DEF SessionEof, Keep, inputVars, peerVars
  <2>2. pc' = "done" /\ UNCHANGED <<mode, tid>>
    BY Zenon, <2>1, FailEnds
  <2>3. pc # "done" /\ pc \notin Trying
    BY Zenon, <2>1 DEF Trying
  <2> QED
    BY Zenon, <2>1, <2>2, <2>3, Closes
<1>3. ASSUME NEW n \in 1 .. Len(wire), SessionData(n) PROVE IInv'
  <2>1. pc = "session" /\ Chunk(n) /\ Keep /\ UNCHANGED <<mode, pc, tid, result, toPeer>>
    BY Zenon, <1>3 DEF SessionData
  <2> QED
    BY Zenon, <2>1, ChunkGoesOn
<1>4. ASSUME SessionFails PROVE IInv'
  <2>1. /\ pc = "session" /\ StreamStep /\ WireStep /\ toPeer' = toPeer /\ Fail("error")
        /\ UNCHANGED <<typed, stdin, ran, opened, unasked>>
    BY Zenon, <1>4, TakeKinds, DropKinds DEF SessionFails, Keep, inputVars, peerVars
  <2>2. pc' = "done" /\ result'.kind = "error" /\ UNCHANGED <<mode, tid>>
    BY Zenon, <2>1, FailEnds
  <2>3. mode = "session"
    BY ZenonT(60), <2>1 DEF IInv, TypeOK
  <2> QED
    BY Zenon, <2>1, <2>2, <2>3, Returns
<1> QED
  BY ZenonT(60), <1>1, <1>2, <1>3, <1>4, UserTypesStep, SessionInputStep, ClosedReturns DEF Session

LEMMA TextExecStep ==
  ASSUME IInv, text_exec
  PROVE  IInv'
<1>1. /\ pc = "ready" /\ typed' = typed + 1 /\ Send(Action("data", typed + 1))
      /\ UNCHANGED <<mode, tid, result, stdin, stream, wire, ran, opened, unasked>>
  BY ZenonT(60) DEF text_exec, Back, peerVars
<1>2. mode = "text" /\ tid # 0 /\ stdin = <<>> /\ Len(stdin) = 0 /\ typed \in Nat
  BY ZenonT(60), <1>1 DEF IInv, TypeOK, OpensOnce, Trying, InputFits
<1>3. StdinFits' /\ typed' \in Nat /\ stdin' \in Seq(Nat)
  BY <1>1, <1>2 DEF StdinFits
<1>4. CASE CanSend
  <2>1. pc' = "gathering" /\ toPeer' = Append(toPeer, Action("data", typed + 1))
    BY Zenon, <1>1, <1>4 DEF text_exec, Back, CanSend, Send
  <2>2. Given = typed /\ Given' = typed + 1
    BY <1>1, <1>2 DEF Given
  <2>3. Moves(0)
    BY Zenon, <1>1, <1>2, <2>1, WaitMoves DEF IInv, InMode, Places, Trying, Watching, StreamStep
  <2>4. pc \notin Trying /\ pc' \notin Trying /\ pc' # "done"
    BY Zenon, <1>1, <2>1 DEF Trying
  <2> QED
    BY ZenonT(60), <1>1, <1>2, <1>3, <2>1, <2>2, <2>3, <2>4, DataStep
<1>5. CASE ~CanSend
  <2>1. pc' = "ready" /\ toPeer' = toPeer /\ stream = "broken"
    BY Zenon, <1>1, <1>5 DEF text_exec, Back, CanSend, Send
  <2>2. TypeOK'
    BY ZenonT(60), <1>1, <1>3, <2>1 DEF IInv, TypeOK
  <2>3. OpensOnce' /\ ReportsFit'
    BY ZenonT(60), <1>1, <2>1 DEF IInv, OpensOnce, ReportsFit, Fresh
  <2>4. InputFits'
    BY Zenon, <1>1, <1>3, <2>1 DEF InputFits, StdinFits, Trying
  <2> QED
    BY ZenonT(60), <1>1, <2>1, <2>2, <2>3, <2>4 DEF IInv, InputIsWhatWasTyped, TerminalIsClosed
<1> QED
  BY Zenon, <1>4, <1>5

LEMMA TextReturnsStep ==
  ASSUME IInv, TextIdle \/ TextClosed \/ TextFails \/ TextTimesOut
  PROVE  IInv'
<1>1. /\ pc = "gathering" /\ pc' = "ready" /\ UNCHANGED <<mode, tid, result>>
      /\ UNCHANGED <<typed, stdin, ran, opened, unasked>>
  BY Zenon DEF TextIdle, TextClosed, TextFails, TextTimesOut, Back, Keep, inputVars, peerVars
<1>2. StreamStep /\ WireStep /\ toPeer' = toPeer
  <2>1. CASE TextIdle \/ TextTimesOut
    BY Zenon, <2>1, DropKinds DEF TextIdle, TextTimesOut
  <2>2. CASE TextClosed
    BY Zenon, <2>2 DEF TextClosed, Next_is, Take, StreamStep, WireStep
  <2>3. CASE TextFails
    BY Zenon, <2>3, TakeKinds DEF TextFails
  <2> QED
    BY Zenon, <2>1, <2>2, <2>3
<1>3. mode = "text"
  BY Zenon, <1>1 DEF IInv, TypeOK
<1>4. InMode(pc') /\ pc' \notin Watching /\ pc' \notin Trying /\ pc \notin Trying
  BY Zenon, <1>1, <1>3 DEF InMode, Places, Watching, Trying
<1>5. \E n : Moves(n)
  <2>1. CASE wire' = wire
    <3>1. Advances(0) /\ 0 \in 0 .. Len(wire)
      BY <2>1, Stays DEF IInv, TypeOK
    <3>2. Moves(0)
      BY Zenon, <1>1, <1>2, <1>4, <3>1 DEF Moves, StreamStep
    <3> QED
      BY Zenon, <3>2
  <2>2. CASE wire # <<>> /\ wire' = Tail(wire)
    <3>1. Advances(1) /\ 1 \in 0 .. Len(wire)
      BY <2>2, TailAdvances DEF IInv, TypeOK
    <3>2. Moves(1)
      BY Zenon, <1>1, <1>2, <1>4, <3>1 DEF Moves, StreamStep
    <3> QED
      BY Zenon, <3>2
  <2> QED
    BY Zenon, <1>2, <2>1, <2>2 DEF WireStep
<1> QED
  BY Zenon, <1>1, <1>2, <1>5, QuietStep

LEMMA TextKeepsIInv ==
  ASSUME IInv, Text
  PROVE  IInv'
<1>1. ASSUME text_disconnect PROVE IInv'
  <2>1. /\ pc = "ready" /\ Send(CloseAction) /\ StreamStep /\ WireStep /\ (Fail("eof") \/ Fail("error"))
        /\ UNCHANGED <<typed, stdin, ran, opened, unasked>>
    BY Zenon, <1>1 DEF text_disconnect, StreamStep, WireStep, Keep, inputVars, peerVars
  <2>2. pc' = "done" /\ UNCHANGED <<mode, tid>>
    BY ZenonT(60), <2>1, FailEnds
  <2>3. pc # "done" /\ pc \notin Trying /\ stdin = <<>>
    BY ZenonT(60), <2>1 DEF Trying, IInv, TypeOK, InputFits
  <2> QED
    BY Zenon, <2>1, <2>2, <2>3, Closes
<1>2. ASSUME NEW n \in 1 .. Len(wire), TextData(n) PROVE IInv'
  <2>1. pc = "gathering" /\ Chunk(n) /\ Keep /\ UNCHANGED <<mode, pc, tid, result, toPeer>>
    BY Zenon, <1>2 DEF TextData
  <2> QED
    BY Zenon, <2>1, ChunkGoesOn
<1> QED
  BY Zenon, <1>1, <1>2, TextExecStep, TextReturnsStep DEF Text

-----------------------------------------------------------------------------
(* The peer.                                                                  *)

(* What the peer never touches. *)
Local == UNCHANGED <<mode, pc, tid, result, typed, stdin>>

LEMMA GrowKeepsFresh ==
  ASSUME TypeOK, NEW id, NEW T, Grows(id, T), tid' = tid, opened' \subseteq opened \cup {id},
         NEW j, j # id, Fresh(j)
  PROVE  Fresh(j)'
<1>1. DOMAIN wire = 1 .. Len(wire) /\ Len(wire) \in Nat
  BY DEF TypeOK
<1>2. DOMAIN wire' = 1 .. Len(wire') /\ Len(wire') \in Nat /\ Len(wire') >= Len(wire)
  BY DEF Grows
<1>3. ASSUME NEW p \in DOMAIN wire' PROVE wire'[p].id # j
  <2>1. p \in 1 .. Len(wire) \/ p \in Len(wire) + 1 .. Len(wire')
    BY SMTT(30), <1>1, <1>2, <1>3
  <2> QED
    BY Zenon, <1>1, <2>1 DEF Grows, Fresh
<1> QED
  BY Zenon, <1>3 DEF Fresh

(* Reports stay in place when more is printed, a terminal is opened or ends. *)
LEMMA GrowKeepsReports ==
  ASSUME TypeOK, ReportsFit, NEW id \in {1, 2}, NEW T, Grows(id, T), UNCHANGED <<pc, tid>>,
         stream' = stream, opened' \subseteq opened \cup {id},
         "closed" \in T => id \in opened /\ id \notin opened',
         id \in opened' => id \in opened \/ Fresh(id),
         id \in opened' \ opened =>
            Len(wire) + 1 \in DOMAIN wire' /\ wire'[Len(wire) + 1].type = "opened"
  PROVE  ReportsFit'
<1>1. DOMAIN wire = 1 .. Len(wire) /\ Len(wire) \in Nat
  BY DEF TypeOK
<1>2. DOMAIN wire' = 1 .. Len(wire') /\ Len(wire') \in Nat /\ Len(wire') >= Len(wire)
  BY DEF Grows
<1>3. \A p \in DOMAIN wire : p \in DOMAIN wire' /\ wire'[p] = wire[p]
  BY <1>1, <1>2 DEF Grows
<1>4. \A p \in DOMAIN wire' : p \in DOMAIN wire \/ (wire'[p].id = id /\ wire'[p].type \in T /\ p > Len(wire))
  <2>1. ASSUME NEW p \in DOMAIN wire', p \notin DOMAIN wire PROVE p \in Len(wire) + 1 .. Len(wire') /\ p > Len(wire)
    BY <1>1, <1>2, <2>1
  <2> QED
    BY Zenon, <2>1 DEF Grows
<1>5. ASSUME NEW p \in DOMAIN wire', wire'[p].type = "closed" PROVE wire'[p].id \notin opened'
  <2>1. CASE p \in DOMAIN wire
    <3>1. wire[p].id \notin opened /\ wire'[p] = wire[p]
      BY Zenon, <1>3, <1>5, <2>1 DEF ReportsFit
    <3>2. Fresh(id) => wire[p].id # id
      BY Zenon, <2>1 DEF Fresh
    <3> QED
      BY Zenon, <3>1, <3>2
  <2>2. CASE p \notin DOMAIN wire
    BY Zenon, <1>4, <1>5, <2>2
  <2> QED
    BY Zenon, <2>1, <2>2
<1>6. ASSUME stream = "up", pc \in Watching
      PROVE  /\ \A j \in opened' \ {tid} : \E q \in DOMAIN wire' : wire'[q].type = "opened" /\ wire'[q].id = j
             /\ \A p \in DOMAIN wire' : wire'[p].type = "closed" /\ wire'[p].id # tid =>
                   \E q \in 1 .. p - 1 : wire'[q].type = "opened" /\ wire'[q].id = wire'[p].id
  <2>1. /\ \A j \in opened \ {tid} : \E q \in DOMAIN wire : wire[q].type = "opened" /\ wire[q].id = j
        /\ \A p \in DOMAIN wire : wire[p].type = "closed" /\ wire[p].id # tid =>
              \E q \in 1 .. p - 1 : wire[q].type = "opened" /\ wire[q].id = wire[p].id
    BY Zenon, <1>6 DEF ReportsFit, Watching
  <2>2. ASSUME NEW j \in opened' \ {tid}
        PROVE  \E q \in DOMAIN wire' : wire'[q].type = "opened" /\ wire'[q].id = j
    <3>1. CASE j \in opened
      BY <1>3, <2>1, <3>1
    <3>2. CASE j \notin opened
      <4>1. j = id /\ Len(wire) + 1 \in DOMAIN wire' /\ wire'[Len(wire) + 1].type = "opened"
        BY Zenon, <3>2
      <4>2. Len(wire) + 1 \notin DOMAIN wire
        BY <1>1
      <4> QED
        BY Zenon, <1>4, <4>1, <4>2
    <3> QED
      BY Zenon, <3>1, <3>2
  <2>3. ASSUME NEW p \in DOMAIN wire', wire'[p].type = "closed", wire'[p].id # tid
        PROVE  \E q \in 1 .. p - 1 : wire'[q].type = "opened" /\ wire'[q].id = wire'[p].id
    <3>1. CASE p \in DOMAIN wire
      <4>1. PICK q \in 1 .. p - 1 : wire[q].type = "opened" /\ wire[q].id = wire[p].id
        BY ZenonT(60), <1>3, <2>1, <2>3, <3>1
      <4>2. q \in DOMAIN wire
        BY <1>1, <3>1
      <4> QED
        BY Zenon, <1>3, <3>1, <4>1, <4>2
    <3>2. CASE p \notin DOMAIN wire
      <4>1. wire'[p].id = id /\ id \in opened \ {tid} /\ p > Len(wire) /\ p \in Nat
        BY <1>2, <1>4, <2>3, <3>2
      <4>2. PICK q \in DOMAIN wire : wire[q].type = "opened" /\ wire[q].id = id
        BY Zenon, <2>1, <4>1
      <4>3. q \in 1 .. p - 1
        BY <1>1, <4>1
      <4> QED
        BY Zenon, <1>3, <4>1, <4>2, <4>3
    <3> QED
      BY Zenon, <3>1, <3>2
  <2> QED
    BY Zenon, <2>2, <2>3
<1> QED
  BY Zenon, <1>5, <1>6 DEF ReportsFit, Watching

LEMMA PromptIsBytes ==
  ASSUME NEW prompt \in {<<>>, <<"p">>}
  PROVE  By(0, prompt) \in Seq(Bytes)
<1> DEFINE C == Digits \cup {"e", "n", "q", "s", "t", "k", "p", "b", "x", "-"}
<1>1. "p" \in C
  BY Zenon
<1> HIDE DEF C
<1>2. <<>> \in Seq(C) /\ <<"p">> \in Seq(C)
  BY <1>1
<1>3. By(0, <<>>) \in Seq(Bytes) /\ By(0, <<"p">>) \in Seq(Bytes)
  BY Zenon, <1>2, ByIsBytes DEF C
<1> QED
  BY Zenon, <1>3

LEMMA OneThenMore ==
  ASSUME NEW S, NEW r \in Seq(S), NEW d \in Seq(S), Len(r) = 1
  PROVE  /\ r \o d \in Seq(S) /\ Len(r \o d) = 1 + Len(d) /\ (r \o d)[1] = r[1]
         /\ \A p \in 2 .. Len(r \o d) : (r \o d)[p] = d[p - 1] /\ p - 1 \in 1 .. Len(d)
<1>1. Len(d) \in Nat /\ r \o d \in Seq(S) /\ Len(r \o d) = 1 + Len(d)
  BY SMTT(60), ConcatProperties
<1>2. 1 \in 1 .. 1 + Len(d) /\ 1 <= Len(r)
  BY <1>1
<1>3. (r \o d)[1] = r[1]
  BY <1>2, ConcatProperties
<1>4. ASSUME NEW p \in 2 .. 1 + Len(d) PROVE (r \o d)[p] = d[p - 1] /\ p - 1 \in 1 .. Len(d)
  <2>1. p \in 1 .. Len(r) + Len(d) /\ ~(p <= Len(r))
    BY <1>1, <1>4
  <2>2. (r \o d)[p] = d[p - Len(r)]
    BY Zenon, <2>1, ConcatProperties
  <2> QED
    BY <1>1, <1>4, <2>2
<1> QED
  BY Zenon, <1>1, <1>3, <1>4

LEMMA OpensGrows ==
  ASSUME TypeOK, NEW id \in {1, 2}, Opens(id)
  PROVE  \/ /\ opened' = opened \cup {id} /\ Grows(id, {"opened", "data"})
            /\ Len(wire) + 1 \in DOMAIN wire' /\ wire'[Len(wire) + 1].type = "opened"
         \/ opened' = opened /\ Grows(id, {"error"})
<1>1. wire \in Seq(Responses) /\ Len(wire) \in Nat
  BY DEF TypeOK
<1>2. ASSUME opened' = opened \cup {id}, NEW prompt \in {<<>>, <<"p">>},
             wire' = wire \o Response("opened", id) \o Data(id, By(0, prompt))
      PROVE  /\ Grows(id, {"opened", "data"})
             /\ Len(wire) + 1 \in DOMAIN wire' /\ wire'[Len(wire) + 1].type = "opened"
  <2> DEFINE r == Response("opened", id)
             d == Data(id, By(0, prompt))
             more == r \o d
  <2>1. r \in Seq(Responses) /\ Len(r) = 1 /\ r[1].id = id /\ r[1].type = "opened"
    BY Zenon, ResponseIsResponses
  <2>2. /\ d \in Seq(Responses) /\ Len(d) \in Nat
        /\ \A p \in 1 .. Len(d) : d[p].id = id /\ d[p].type = "data"
    BY PromptIsBytes, DataIsResponses
  <2>3. wire' = (wire \o r) \o d
    BY Zenon, <1>2
  <2> HIDE DEF r, d
  <2>4. wire' = wire \o more
    BY SMTT(60), <1>1, <2>1, <2>2, <2>3, ConcatAssociative
  <2>5. /\ more \in Seq(Responses) /\ Len(more) = 1 + Len(d) /\ more[1] = r[1]
        /\ \A p \in 2 .. Len(more) : more[p] = d[p - 1] /\ p - 1 \in 1 .. Len(d)
    BY Zenon, <2>1, <2>2, OneThenMore
  <2> HIDE DEF more
  <2>6. \A p \in 1 .. Len(more) : more[p].id = id /\ more[p].type \in {"opened", "data"}
    <3>1. ASSUME NEW p \in 1 .. Len(more) PROVE p = 1 \/ p \in 2 .. Len(more)
      BY <2>2, <2>5
    <3>2. more[1].id = id /\ more[1].type = "opened"
      BY Zenon, <2>1, <2>5
    <3>3. \A p \in 2 .. Len(more) : more[p].id = id /\ more[p].type = "data"
      BY Zenon, <2>2, <2>5
    <3> QED
      BY Zenon, <3>1, <3>2, <3>3
  <2>7. Grows(id, {"opened", "data"})
    BY ZenonT(60), <1>1, <2>4, <2>5, <2>6, ConcatGrows
  <2>8. Len(wire) + 1 \in DOMAIN wire' /\ wire'[Len(wire) + 1] = more[1]
    BY <1>1, <2>2, <2>4, <2>5
  <2> QED
    BY Zenon, <2>1, <2>5, <2>7, <2>8
<1>3. ASSUME wire' = wire \o Response("error", id)
      PROVE  Grows(id, {"error"})
  <2>1. /\ Response("error", id) \in Seq(Responses) /\ Len(Response("error", id)) = 1
        /\ Response("error", id)[1].id = id /\ Response("error", id)[1].type = "error"
    BY Zenon, ResponseIsResponses
  <2>2. \A p \in 1 .. 1 : p = 1
    OBVIOUS
  <2> QED
    BY Zenon, <1>1, <1>3, <2>1, <2>2, ConcatGrows
<1> QED
  BY Zenon, <1>2, <1>3 DEF Opens

(* The peer takes an action. *)
LEMMA Taken ==
  ASSUME TypeOK, NEW t, PeerTakes(t)
  PROVE  /\ toPeer # <<>> /\ 1 \in DOMAIN toPeer /\ Head(toPeer) = toPeer[1] /\ toPeer[1].type = t
         /\ toPeer[1] \in Actions /\ toPeer' \in Seq(Actions) /\ Len(toPeer) \in Nat /\ Len(toPeer') = Len(toPeer) - 1
         /\ DOMAIN toPeer = 1 .. Len(toPeer) /\ DOMAIN toPeer' = 1 .. Len(toPeer')
         /\ \A i \in DOMAIN toPeer' : i + 1 \in DOMAIN toPeer /\ toPeer'[i] = toPeer[i + 1]
         /\ \A i \in DOMAIN toPeer : i = 1 \/ (i - 1 \in DOMAIN toPeer' /\ toPeer'[i - 1] = toPeer[i])
  BY SMTT(60) DEF TypeOK, PeerTakes

LEMMA TakenKeepsOpens ==
  ASSUME IInv, NEW t, PeerTakes(t), Local, unasked' = unasked,
         Fresh(1) => Fresh(1)', tid = 0 => ran' = ran
  PROVE  /\ OpensOnce' /\ Unopened' = 0
         /\ \A i \in DOMAIN toPeer' : toPeer'[i].type # "open"
<1>1. /\ toPeer # <<>> /\ DOMAIN toPeer' = 1 .. Len(toPeer') /\ Len(toPeer') \in Nat
      /\ \A i \in DOMAIN toPeer' : i + 1 \in DOMAIN toPeer /\ toPeer'[i] = toPeer[i + 1] /\ i + 1 # 1
      /\ toPeer' \in Seq(Actions)
  BY Taken DEF IInv
<1>2. \A i \in DOMAIN toPeer' : toPeer'[i].type # "open"
  BY Zenon, <1>1 DEF IInv, OpensOnce
<1>3. Unopened' = 0
  BY SMTT(60), <1>1, <1>2 DEF Unopened
<1>4. OpensOnce'
  BY SMTT(60), <1>1, <1>2 DEF IInv, OpensOnce, Local, Trying
<1> QED
  BY Zenon, <1>2, <1>3, <1>4

LEMMA TakenKeepsClosed ==
  ASSUME IInv, NEW t, t # "close", PeerTakes(t), Local, stream' = stream,
         tid \in opened' => tid \in opened
  PROVE  TerminalIsClosed'
<1>1. /\ toPeer[1].type # "close"
      /\ \A i \in DOMAIN toPeer : i = 1 \/ (i - 1 \in DOMAIN toPeer' /\ toPeer'[i - 1] = toPeer[i])
  BY Zenon, Taken DEF IInv
<1> QED
  BY Zenon, <1>1 DEF IInv, TerminalIsClosed, Local

LEMMA PeerKeepsTypes ==
  ASSUME TypeOK, Local, stream' = stream, toPeer' \in Seq(Actions), wire' \in Seq(Responses),
         ran' \in Seq(Nat), opened' \subseteq {1, 2}
  PROVE  TypeOK'
  BY Zenon DEF TypeOK, Local

(* A step that takes no action: something is printed, opened or ended. *)
LEMMA AddStep ==
  ASSUME IInv, Local, stream' = stream, UNCHANGED <<toPeer, ran>>,
         NEW id \in {1, 2}, NEW T, Grows(id, T), opened' \subseteq opened \cup {id},
         unasked' = unasked \/ (unasked' /\ id = 1),
         \/ id \in opened
         \/ id = 1 /\ unasked' /\ Fresh(1) /\ "closed" \notin T,
         "closed" \in T => id \notin opened',
         id \in opened' \ opened =>
            Len(wire) + 1 \in DOMAIN wire' /\ wire'[Len(wire) + 1].type = "opened"
  PROVE  IInv'
<1>1. tid \in opened' => tid \in opened
  BY Zenon DEF Fresh
<1>2. TypeOK'
  BY ZenonT(60), PeerKeepsTypes DEF IInv, TypeOK, Grows
<1>3. ReportsFit'
  BY Zenon, GrowKeepsReports DEF IInv, Local
<1>4. \A j : Fresh(j) /\ j # id => Fresh(j)'
  BY Zenon, GrowKeepsFresh DEF IInv, Local
<1>5. OpensOnce'
  <2>1. ~unasked' => Fresh(1)'
    <3>1. ASSUME ~unasked' PROVE ~unasked /\ Fresh(1) /\ id # 1
      BY SMTT(60), <3>1 DEF IInv, OpensOnce, Fresh
    <3> QED
      BY ZenonT(60), <1>4, <3>1
  <2>2. Fresh(2) => Fresh(2)'
    BY SMTT(30), <1>4 DEF Fresh
  <2> QED
    BY ZenonT(60), <2>1, <2>2 DEF IInv, OpensOnce, Local
<1>6. InputFits'
  BY ZenonT(60), <1>1 DEF IInv, InputFits, Given, Unopened, Local
<1>7. TerminalIsClosed'
  BY Zenon, <1>1 DEF IInv, TerminalIsClosed, Local
<1> QED
  BY ZenonT(60), <1>2, <1>3, <1>5, <1>6, <1>7 DEF IInv, InputIsWhatWasTyped, Local

LEMMA PeerOpensUnaskedStep ==
  ASSUME IInv, PeerOpensUnasked
  PROVE  IInv'
<1>1. /\ ~unasked /\ unasked' /\ Opens(1) /\ Local /\ stream' = stream /\ UNCHANGED <<toPeer, ran>>
  BY ZenonT(60) DEF PeerOpensUnasked, clientVars, inputVars, Local
<1>2. Fresh(1)
  BY ZenonT(60), <1>1 DEF IInv, OpensOnce
<1>3. \/ /\ opened' = opened \cup {1} /\ Grows(1, {"opened", "data"})
         /\ Len(wire) + 1 \in DOMAIN wire' /\ wire'[Len(wire) + 1].type = "opened"
      \/ opened' = opened /\ Grows(1, {"error"})
  BY Zenon, <1>1, OpensGrows DEF IInv
<1>4. CASE /\ opened' = opened \cup {1} /\ Grows(1, {"opened", "data"})
           /\ Len(wire) + 1 \in DOMAIN wire' /\ wire'[Len(wire) + 1].type = "opened"
  <2>1. "closed" \notin {"opened", "data"}
    BY Zenon
  <2> QED
    BY ZenonT(60), <1>1, <1>2, <1>4, <2>1, AddStep
<1>5. CASE opened' = opened /\ Grows(1, {"error"})
  <2>1. "closed" \notin {"error"}
    BY Zenon
  <2> QED
    BY ZenonT(60), <1>1, <1>2, <1>5, <2>1, AddStep
<1> QED
  BY ZenonT(60), <1>3, <1>4, <1>5

LEMMA PeerEndsStep ==
  ASSUME IInv, PeerEnds
  PROVE  IInv'
<1>1. /\ Local /\ stream' = stream /\ UNCHANGED <<toPeer, ran, unasked>>
  BY Zenon DEF PeerEnds, clientVars, inputVars, Local
<1>2. PICK id \in opened, t \in {"closed", "error"} : opened' = opened \ {id} /\ wire' = wire \o Response(t, id)
  BY Zenon DEF PeerEnds
<1>3. id \in {1, 2} /\ wire \in Seq(Responses)
  BY Zenon DEF IInv, TypeOK
<1>4. /\ Response(t, id) \in Seq(Responses) /\ Len(Response(t, id)) = 1
      /\ Response(t, id)[1].id = id /\ Response(t, id)[1].type = t
  BY ZenonT(60), <1>3, ResponseIsResponses
<1>5. Grows(id, {"closed", "error"})
  <2>1. \A p \in 1 .. 1 : p = 1
    OBVIOUS
  <2> QED
    BY Zenon, <1>2, <1>3, <1>4, <2>1, ConcatGrows
<1> QED
  BY ZenonT(60), <1>1, <1>2, <1>3, <1>5, AddStep

LEMMA PeerChattersStep ==
  ASSUME IInv, PeerChatters
  PROVE  IInv'
<1>1. /\ Local /\ stream' = stream /\ UNCHANGED <<toPeer, ran, unasked, opened>>
  BY Zenon DEF PeerChatters, clientVars, inputVars, Local
<1>2. PICK id \in opened : wire' = wire \o Data(id, By(0, <<"b">>))
  BY Zenon DEF PeerChatters, Prints
<1>3. id \in {1, 2} /\ wire \in Seq(Responses)
  BY Zenon DEF IInv, TypeOK
<1>4. By(0, <<"b">>) \in Seq(Bytes)
  <2> DEFINE C == Digits \cup {"e", "n", "q", "s", "t", "k", "p", "b", "x", "-"}
  <2>1. "b" \in C
    BY Zenon
  <2> HIDE DEF C
  <2>2. <<"b">> \in Seq(C)
    BY <2>1
  <2> QED
    BY Zenon, <2>2, ByIsBytes DEF C
<1>5. Grows(id, {"data"})
  BY Zenon, <1>2, <1>3, <1>4, DataIsResponses, ConcatGrows
<1>6. "closed" \notin {"data"}
  BY Zenon
<1> QED
  BY ZenonT(60), <1>1, <1>2, <1>3, <1>5, <1>6, AddStep

LEMMA PeerOpensStep ==
  ASSUME IInv, PeerOpens, stream # "broken"
  PROVE  IInv'
<1>1. /\ PeerTakes("open") /\ Opens(2) /\ Local /\ stream' = stream /\ UNCHANGED <<ran, unasked>>
  BY Zenon DEF PeerOpens, clientVars, inputVars, Local
<1>2. /\ 1 \in DOMAIN toPeer /\ toPeer[1].type = "open" /\ toPeer # <<>>
      /\ toPeer' \in Seq(Actions) /\ Len(toPeer) \in Nat /\ Len(toPeer') = Len(toPeer) - 1
      /\ DOMAIN toPeer' = 1 .. Len(toPeer')
      /\ \A i \in DOMAIN toPeer' : i + 1 \in DOMAIN toPeer /\ toPeer'[i] = toPeer[i + 1]
  BY ZenonT(60), <1>1, Taken DEF IInv
<1>3. Fresh(2)
  BY ZenonT(60), <1>2 DEF IInv, OpensOnce
<1>4. \/ /\ opened' = opened \cup {2} /\ Grows(2, {"opened", "data"})
         /\ Len(wire) + 1 \in DOMAIN wire' /\ wire'[Len(wire) + 1].type = "opened"
      \/ opened' = opened /\ Grows(2, {"error"})
  BY Zenon, <1>1, OpensGrows DEF IInv
<1>5. PICK T : /\ Grows(2, T) /\ "closed" \notin T /\ opened' \subseteq opened \cup {2}
               /\ 2 \in opened' \ opened =>
                     Len(wire) + 1 \in DOMAIN wire' /\ wire'[Len(wire) + 1].type = "opened"
  <2>1. "closed" \notin {"opened", "data"} /\ "closed" \notin {"error"}
    BY Zenon
  <2> QED
    BY Zenon, <1>4, <2>1
<1>6. tid \in opened' => tid \in opened
  BY ZenonT(60), <1>3, <1>5 DEF Fresh
<1>7. TypeOK'
  BY ZenonT(60), <1>1, <1>2, <1>5, PeerKeepsTypes DEF IInv, TypeOK, Grows
<1>8. ReportsFit'
  BY ZenonT(60), <1>1, <1>3, <1>5, GrowKeepsReports DEF IInv, Local
<1>9. Fresh(1) => Fresh(1)'
  BY <1>1, <1>5, GrowKeepsFresh DEF IInv, Local
<1>10. OpensOnce' /\ Unopened' = 0
  BY ZenonT(60), <1>1, <1>9, TakenKeepsOpens
<1>11. InputFits'
  <2>1. ASSUME tid \in opened
        PROVE  /\ \A i \in DOMAIN toPeer' : toPeer'[i].type = "data" => toPeer'[i].input = Len(ran) + i - 0
               /\ pc # "done" => Given = Len(ran) + Len(toPeer') - 0
    <3>1. Unopened = 1 /\ Len(ran) \in Nat
      BY <1>2 DEF Unopened, IInv, TypeOK
    <3>2. /\ \A i \in DOMAIN toPeer : toPeer[i].type = "data" => toPeer[i].input = Len(ran) + i - 1
          /\ pc # "done" => Given = Len(ran) + Len(toPeer) - 1
      BY ZenonT(60), <2>1, <3>1 DEF IInv, InputFits
    <3>3. ASSUME NEW i \in DOMAIN toPeer', toPeer'[i].type = "data"
          PROVE  toPeer'[i].input = Len(ran) + i - 0
      <4>1. toPeer'[i].input = Len(ran) + (i + 1) - 1
        BY Zenon, <1>2, <3>2, <3>3
      <4>2. i \in Nat
        BY <1>2
      <4> QED
        BY <3>1, <4>1, <4>2
    <3>4. pc # "done" => Given = Len(ran) + Len(toPeer') - 0
      BY <1>2, <3>1, <3>2
    <3> QED
      BY ZenonT(60), <3>3, <3>4
  <2>2. Given' = Given
    BY Zenon, <1>1 DEF Given, Local
  <2> QED
    BY ZenonT(60), <1>1, <1>6, <1>10, <2>1, <2>2 DEF IInv, InputFits, Local
<1>12. TerminalIsClosed'
  BY Zenon, <1>1, <1>6, TakenKeepsClosed
<1> QED
  BY ZenonT(60), <1>1, <1>7, <1>8, <1>10, <1>11, <1>12 DEF IInv, InputIsWhatWasTyped, Local

(* The input that arrives at an open terminal is the next one. *)
LEMMA PeerRunsStep ==
  ASSUME IInv, PeerRuns, stream # "broken"
  PROVE  IInv'
<1>1. /\ PeerTakes("data") /\ Local /\ stream' = stream /\ UNCHANGED <<opened, unasked>>
  BY Zenon DEF PeerRuns, clientVars, inputVars, Local
<1>2. /\ 1 \in DOMAIN toPeer /\ toPeer[1].type = "data" /\ toPeer # <<>> /\ Head(toPeer) = toPeer[1]
      /\ toPeer[1] \in Actions
      /\ toPeer' \in Seq(Actions) /\ Len(toPeer) \in Nat /\ Len(toPeer') = Len(toPeer) - 1
      /\ DOMAIN toPeer' = 1 .. Len(toPeer')
      /\ \A i \in DOMAIN toPeer' : i + 1 \in DOMAIN toPeer /\ toPeer'[i] = toPeer[i + 1]
  BY ZenonT(60), <1>1, Taken DEF IInv
<1>3. toPeer[1].id = tid /\ tid # 0
  BY ZenonT(60), <1>2 DEF IInv, OpensOnce
<1>4. TerminalIsClosed'
  BY Zenon, <1>1, TakenKeepsClosed
<1>5. CASE tid \notin opened
  <2>1. UNCHANGED <<ran, wire>>
    BY Zenon, <1>2, <1>3, <1>5 DEF PeerRuns
  <2>2. TypeOK'
    BY ZenonT(60), <1>1, <1>2, <2>1, PeerKeepsTypes DEF IInv, TypeOK
  <2>3. ReportsFit'
    BY ZenonT(60), <1>1, <2>1 DEF IInv, ReportsFit, Local
  <2>4. OpensOnce'
    <3>1. Fresh(1) => Fresh(1)'
      BY Zenon, <1>1, <2>1 DEF Fresh, Local
    <3> QED
      BY Zenon, <1>1, <1>3, <3>1, TakenKeepsOpens
  <2>5. InputFits'
    BY ZenonT(60), <1>1, <1>5 DEF IInv, InputFits, Local, Given
  <2> QED
    BY ZenonT(60), <1>1, <1>4, <2>1, <2>2, <2>3, <2>4, <2>5 DEF IInv, InputIsWhatWasTyped, Local
<1>6. CASE tid \in opened
  <2>1. ran' = Append(ran, toPeer[1].input)
    BY ZenonT(60), <1>2, <1>3, <1>6 DEF PeerRuns
  <2>2. tid \in {1, 2} /\ wire \in Seq(Responses) /\ ran \in Seq(Nat) /\ Len(ran) \in Nat /\ toPeer[1].input \in Nat
    BY SMTT(60), <1>2, <1>3 DEF IInv, TypeOK, Actions
  <2>3. PICK bytes \in Seq(Bytes) : wire' = wire \o Data(tid, bytes)
    <3>1. CASE mode = "exec"
      <4>1. PICK out \in Outputs, code \in Codes :
               wire' = wire \o Data(tid, Transcript(1, [out |-> out, code |-> code]))
        BY Zenon, <1>2, <1>3, <1>6, <3>1 DEF PeerRuns, Prints
      <4>2. out \in Seq({"x", "n"}) /\ code \in Seq(Digits)
        BY Zenon, DirectAssumption
      <4> QED
        BY Zenon, <4>1, <4>2, TranscriptIsBytes
    <3>2. CASE mode # "exec"
      <4>1. wire' = wire \o Data(tid, By(toPeer[1].input, <<"e", "x">>))
        BY Zenon, <1>2, <1>3, <1>6, <3>2 DEF PeerRuns, Prints
      <4>2. By(toPeer[1].input, <<"e", "x">>) \in Seq(Bytes)
        <5> DEFINE C == Digits \cup {"e", "n", "q", "s", "t", "k", "p", "b", "x", "-"}
        <5>1. "e" \in C /\ "x" \in C
          BY Zenon
        <5> HIDE DEF C
        <5>2. <<"e", "x">> \in Seq(C)
          BY <5>1
        <5> QED
          BY Zenon, <2>2, <5>2, ByIsBytes DEF C
      <4> QED
        BY Zenon, <4>1, <4>2
    <3> QED
      BY Zenon, <3>1, <3>2
  <2>4. Grows(tid, {"data"})
    BY Zenon, <2>2, <2>3, DataIsResponses, ConcatGrows
  <2>5. TypeOK'
    <3>1. ran' \in Seq(Nat)
      BY <2>1, <2>2
    <3>2. wire' \in Seq(Responses)
      BY Zenon, <2>4 DEF Grows
    <3>3. opened' \subseteq {1, 2} /\ TypeOK
      BY ZenonT(60), <1>1 DEF IInv, TypeOK
    <3> QED
      BY ZenonT(60), <1>1, <1>2, <3>1, <3>2, <3>3, PeerKeepsTypes
  <2>6. ReportsFit'
    <3>1. "closed" \notin {"data"}
      BY Zenon
    <3> QED
      BY ZenonT(60), <1>1, <1>6, <2>2, <2>4, <3>1, GrowKeepsReports DEF IInv, Local
  <2>7. Fresh(1) => Fresh(1)'
    <3>1. Fresh(1) => 1 # tid
      BY Zenon DEF Fresh
    <3> QED
      BY ZenonT(60), <1>1, <2>4, <3>1, GrowKeepsFresh DEF IInv, Local
  <2>8. OpensOnce' /\ Unopened' = 0
    BY ZenonT(60), <1>1, <1>3, <2>7, TakenKeepsOpens
  <2>9. Unopened = 0
    BY ZenonT(60), <1>2 DEF Unopened
  <2>10. /\ \A i \in DOMAIN toPeer : toPeer[i].type = "data" => toPeer[i].input = Len(ran) + i - 0
         /\ pc # "done" => Given = Len(ran) + Len(toPeer) - 0
    BY ZenonT(60), <1>6, <2>9 DEF IInv, InputFits
  <2>11. toPeer[1].input = Len(ran) + 1
    BY SMTT(60), <1>2, <2>2, <2>10
  <2>12. \A k \in DOMAIN ran' : ran'[k] = k
    <3>1. \A k \in 1 .. Len(ran) : ran[k] = k
      BY <2>2 DEF IInv, InputIsWhatWasTyped
    <3> QED
      BY <2>1, <2>2, <2>11, <3>1
  <2>13. Len(ran') = Len(ran) + 1
    BY SMTT(30), <2>1, <2>2
  <2>14. InputFits'
    <3>1. ASSUME NEW i \in DOMAIN toPeer', toPeer'[i].type = "data"
          PROVE  toPeer'[i].input = Len(ran') + i - 0
      <4>1. toPeer'[i].input = Len(ran) + (i + 1) - 0
        BY Zenon, <1>2, <2>10, <3>1
      <4>2. i \in Nat
        BY <1>2
      <4> QED
        BY <2>2, <2>13, <4>1, <4>2
    <3>2. pc # "done" => Given = Len(ran') + Len(toPeer') - 0
      BY <1>2, <2>2, <2>10, <2>13
    <3>3. Given' = Given
      BY Zenon, <1>1 DEF Given, Local
    <3> QED
      BY ZenonT(60), <1>1, <2>8, <3>1, <3>2, <3>3 DEF IInv, InputFits, Local
  <2> QED
    BY ZenonT(60), <1>1, <1>4, <2>5, <2>6, <2>8, <2>12, <2>14 DEF IInv, InputIsWhatWasTyped, Local
<1> QED
  BY Zenon, <1>5, <1>6

LEMMA MoreThenOne ==
  ASSUME NEW S, NEW k \in Seq(S), NEW r \in Seq(S), Len(r) = 1
  PROVE  /\ k \o r \in Seq(S) /\ DOMAIN (k \o r) = 1 .. Len(k) + 1
         /\ \A p \in 1 .. Len(k) : (k \o r)[p] = k[p]
         /\ (k \o r)[Len(k) + 1] = r[1]
<1>1. Len(k) \in Nat /\ k \o r \in Seq(S) /\ Len(k \o r) = Len(k) + 1
  <2>1. k \o r \in Seq(S) /\ Len(k \o r) = Len(k) + Len(r)
    BY Zenon, ConcatProperties
  <2> QED
    BY <2>1
<1>2. DOMAIN (k \o r) = 1 .. Len(k) + 1
  BY Zenon, <1>1, LenProperties
<1>3. ASSUME NEW p \in 1 .. Len(k) PROVE (k \o r)[p] = k[p]
  <2>1. p \in 1 .. Len(k) + Len(r) /\ p <= Len(k)
    BY <1>1, <1>3
  <2> QED
    BY Zenon, <2>1, ConcatProperties
<1>4. (k \o r)[Len(k) + 1] = r[1]
  <2>1. Len(k) + 1 \in 1 .. Len(k) + Len(r) /\ ~(Len(k) + 1 <= Len(k)) /\ (Len(k) + 1) - Len(k) = 1
    BY <1>1
  <2> QED
    BY <2>1, ConcatProperties
<1> QED
  BY Zenon, <1>1, <1>2, <1>3, <1>4

LEMMA PeerClosesStep ==
  ASSUME IInv, PeerCloses
  PROVE  IInv'
<1>1. /\ PeerTakes("close") /\ Local /\ stream' = stream /\ UNCHANGED <<ran, unasked>>
  BY Zenon DEF PeerCloses, clientVars, inputVars, Local
<1>2. /\ 1 \in DOMAIN toPeer /\ toPeer[1].type = "close" /\ Head(toPeer) = toPeer[1] /\ toPeer' \in Seq(Actions)
  BY ZenonT(60), <1>1, Taken DEF IInv
<1>3. toPeer[1].id = tid /\ tid # 0 /\ pc = "done" /\ tid \in {1, 2}
  BY <1>2 DEF IInv, OpensOnce, TypeOK
<1>4. opened' = opened \ {tid}
  BY Zenon, <1>2, <1>3 DEF PeerCloses
<1>5. PICK n \in 0 .. Len(wire) :
         wire' = SubSeq(wire, 1, n) \/ wire' = SubSeq(wire, 1, n) \o Response("closed", tid)
  BY Zenon, <1>2, <1>3 DEF PeerCloses
<1>6. /\ wire \in Seq(Responses) /\ Len(wire) \in Nat /\ DOMAIN wire = 1 .. Len(wire)
  BY DEF IInv, TypeOK
<1>7. /\ wire' \in Seq(Responses)
      /\ \A p \in DOMAIN wire' : (p \in DOMAIN wire /\ wire'[p] = wire[p]) \/ wire'[p].id = tid
  <2> DEFINE kept == SubSeq(wire, 1, n)
  <2>1. /\ kept \in Seq(Responses) /\ Len(kept) = n /\ \A p \in 1 .. n : kept[p] = wire[p] /\ p \in DOMAIN wire
    BY <1>6, SubSeqProperties
  <2> HIDE DEF kept
  <2>2. CASE wire' = kept
    BY <2>1, <2>2
  <2>3. CASE wire' = kept \o Response("closed", tid)
    <3> DEFINE r == Response("closed", tid)
    <3>1. r \in Seq(Responses) /\ Len(r) = 1 /\ r[1].id = tid
      BY ZenonT(60), <1>3, ResponseIsResponses
    <3> HIDE DEF r
    <3>2. wire' = kept \o r
      BY Zenon, <2>3 DEF r
    <3>3. /\ wire' \in Seq(Responses) /\ DOMAIN wire' = 1 .. n + 1
          /\ \A p \in 1 .. n : wire'[p] = kept[p]
          /\ wire'[n + 1] = r[1]
      BY ZenonT(60), <2>1, <3>1, <3>2, MoreThenOne
    <3>4. ASSUME NEW p \in DOMAIN wire' PROVE p \in 1 .. n \/ p = n + 1
      BY <3>3, <3>4
    <3> QED
      BY ZenonT(60), <2>1, <3>1, <3>3, <3>4
  <2> QED
    BY Zenon, <1>5, <2>2, <2>3 DEF kept
<1>8. TypeOK'
  BY Zenon, <1>1, <1>2, <1>4, <1>7, PeerKeepsTypes DEF IInv, TypeOK
<1>9. ReportsFit'
  <2>1. \A p \in DOMAIN wire' : wire'[p].type = "closed" => wire'[p].id \notin opened'
    BY Zenon, <1>4, <1>7 DEF IInv, ReportsFit
  <2> QED
    BY Zenon, <1>1, <1>3, <2>1 DEF ReportsFit, Local, Trying
<1>10. OpensOnce'
  <2>1. Fresh(1) => Fresh(1)'
    BY ZenonT(60), <1>1, <1>4, <1>7 DEF Fresh, Local
  <2> QED
    BY Zenon, <1>1, <1>3, <2>1, TakenKeepsOpens
<1>11. InputFits'
  BY ZenonT(60), <1>1, <1>4 DEF IInv, InputFits, Local, Given
<1>12. TerminalIsClosed'
  BY ZenonT(60), <1>1, <1>4 DEF TerminalIsClosed, Local
<1> QED
  BY ZenonT(60), <1>1, <1>8, <1>9, <1>10, <1>11, <1>12 DEF IInv, InputIsWhatWasTyped, Local

LEMMA SameKeepsIInv ==
  ASSUME IInv, Local, UNCHANGED <<stream, toPeer, wire, ran, opened, unasked>>
  PROVE  IInv'
<1>1. TypeOK'
  BY ZenonT(60) DEF Local, IInv, TypeOK
<1>2. OpensOnce'
  <2>1. \A id : Fresh(id)' <=> Fresh(id)
    BY ZenonT(60) DEF Local, Fresh
  <2> QED
    BY ZenonT(60), <2>1 DEF Local, IInv, OpensOnce
<1>3. ReportsFit'
  BY SMTT(60) DEF Local, IInv, ReportsFit
<1>4. InputFits'
  BY Zenon DEF Local, IInv, InputFits, Given, Unopened
<1> QED
  BY ZenonT(60), <1>1, <1>2, <1>3, <1>4 DEF Local, IInv, InputIsWhatWasTyped, TerminalIsClosed

LEMMA PeerKeepsIInv ==
  ASSUME IInv, Peer
  PROVE  IInv'
<1>1. ASSUME Noise PROVE IInv'
  <2>1. Local /\ UNCHANGED <<stream, toPeer, wire, ran, opened, unasked>>
    BY ZenonT(60), <1>1 DEF Noise, clientVars, inputVars, Local
  <2> QED
    BY Zenon, <2>1, SameKeepsIInv
<1>2. ASSUME StreamBreaks PROVE IInv'
  <2>1. /\ stream' = "broken" /\ pc # "done"
        /\ UNCHANGED <<mode, pc, tid, result, typed, stdin, toPeer, wire, ran, opened, unasked>>
    BY Zenon, <1>2 DEF StreamBreaks, clientVars, inputVars, peerVars
  <2> QED
    BY ZenonT(60), <2>1 DEF IInv, TypeOK, OpensOnce, Fresh, ReportsFit, InputFits, Given, Unopened,
                InputIsWhatWasTyped, TerminalIsClosed
<1> QED
  BY ZenonT(60), <1>1, <1>2, PeerOpensUnaskedStep, PeerOpensStep, PeerRunsStep, PeerClosesStep, PeerEndsStep,
     PeerChattersStep DEF Peer

-----------------------------------------------------------------------------
(* Results. *)

LEMMA InitIInv == Init => IInv
<1> SUFFICES ASSUME Init PROVE IInv
  BY Zenon
<1>1. /\ mode \in {"exec", "session", "text"} /\ pc = "connecting" /\ tid = 0 /\ result.kind = "none"
      /\ typed = 0 /\ stdin = <<>> /\ stream = "up" /\ toPeer = <<>> /\ wire = <<>> /\ ran = <<>> /\ opened = {}
  BY Zenon, DirectAssumption DEF Init, NoResult
<1>2. TypeOK
  BY SMTT(30), <1>1 DEF TypeOK
<1>3. OpensOnce /\ ReportsFit
  BY <1>1 DEF OpensOnce, ReportsFit, Fresh, Trying
<1>4. InputFits
  <2>1. Len(stdin) = 0 /\ DOMAIN stdin = {} /\ tid \notin opened
    BY <1>1
  <2>2. Given = 0
    <3>1. pc # "collecting" /\ typed = 0 /\ Len(stdin) = 0
      BY ZenonT(60), <1>1, <2>1
    <3>2. 0 - 0 = 0
      OBVIOUS
    <3> QED
      BY <3>1, <3>2, Zenon DEF Given
  <2>3. Len(stdin) <= typed
    BY <1>1, <2>1
  <2> QED
    BY <1>1, <2>1, <2>2, <2>3, Zenon DEF InputFits
<1> QED
  BY <1>1, <1>2, <1>3, <1>4 DEF IInv, InputIsWhatWasTyped, TerminalIsClosed

LEMMA StepIInv == IInv /\ [Next]_vars => IInv'
<1>1. ASSUME IInv, UNCHANGED vars PROVE IInv'
  BY Zenon, <1>1, SameKeepsIInv DEF vars, clientVars, inputVars, peerVars, Local
<1> QED
  BY ZenonT(60), <1>1, PeerKeepsIInv, OpenKeepsIInv, ExecKeepsIInv, SessionKeepsIInv, TextKeepsIInv DEF Next

(* The invariant holds whatever is typed, printed, dropped or timed out, in   *)
(* direct_exec, run_terminal_session and the text session alike.              *)
THEOREM Invariance == Spec => []IInv
  BY InitIInv, StepIInv, PTL DEF Spec

(* Every place belongs to its mode, and what travels is well formed.          *)
THEOREM TypeCorrect == Spec => []TypeOK
<1>1. IInv => TypeOK
  BY ZenonT(60) DEF IInv
<1> QED
  BY <1>1, Invariance, PTL

(* The remote shell reads the chunks that run_terminal_session forwards, and  *)
(* the commands of text_exec, in the order they were typed and without gaps,  *)
(* for any number of them; a session that ends with its input has sent all.   *)
THEOREM InputCorrect == Spec => []InputIsWhatWasTyped
<1>1. IInv => InputIsWhatWasTyped
  BY ZenonT(60) DEF IInv
<1> QED
  BY <1>1, Invariance, PTL

(* direct_exec and text_disconnect, and a session that ends regularly, leave  *)
(* no terminal open on a stream that works: it is gone or its close is sent.  *)
THEOREM ClosedCorrect == Spec => []TerminalIsClosed
<1>1. IInv => TerminalIsClosed
  BY Zenon DEF IInv
<1> QED
  BY <1>1, Invariance, PTL

-----------------------------------------------------------------------------
(* Sequences.                                                                 *)

LEMMA SeqEqual ==
  ASSUME NEW S, NEW s \in Seq(S), NEW t \in Seq(S), Len(s) = Len(t),
         \A i \in 1 .. Len(s) : s[i] = t[i]
  PROVE  s = t
  OBVIOUS

LEMMA ConcatEmptySeq ==
  ASSUME NEW S, NEW seq \in Seq(S)
  PROVE  seq \o <<>> = seq /\ <<>> \o seq = seq
  OBVIOUS

LEMMA SubSeqEmpty ==
  ASSUME NEW s, NEW m \in Int, NEW n \in Int, n < m
  PROVE  SubSeq(s, m, n) = <<>>
  OBVIOUS

-----------------------------------------------------------------------------
(* What is shown: the output received and the output on the wire together     *)
(* stay what the terminals printed.                                           *)

LEMMA Least ==
  ASSUME NEW S, S \subseteq Nat, S # {}
  PROVE  \E x \in S : \A y \in S : x <= y
<1>1. \E x \in S : \A y \in S : <<y, x>> \notin OpToRel(<, Nat)
  BY Zenon, NatLessThanWellFounded, WFMin
<1>2. PICK x \in S : \A y \in S : <<y, x>> \notin OpToRel(<, Nat)
  BY Zenon, <1>1
<1>3. \A y \in S : ~(y < x)
  BY Zenon, <1>2 DEF OpToRel
<1> QED
  BY SMT, <1>3

Step(h, w, n) == [q \in 0 .. n |-> IF q = 0 THEN 0 ELSE h[q - 1] + IsOutput(w, q)]

Counting(h, w, n) == h = Step(h, w, n) /\ \A q \in 0 .. n : h[q] \in Nat

LEMMA OutputIsNat ==
  ASSUME NEW w, NEW q
  PROVE  IsOutput(w, q) \in Nat
  BY SMT DEF IsOutput

LEMMA CountingSteps ==
  ASSUME NEW h, NEW w, NEW n \in Nat, Counting(h, w, n)
  PROVE  h[0] = 0 /\ \A q \in 1 .. n : h[q] = h[q - 1] + IsOutput(w, q)
<1>1. \A q \in 0 .. n : h[q] = IF q = 0 THEN 0 ELSE h[q - 1] + IsOutput(w, q)
  BY Zenon DEF Counting, Step
<1>2. 0 \in 0 .. n /\ \A q \in 1 .. n : q \in 0 .. n /\ q # 0
  BY SMT
<1> QED
  BY Zenon, <1>1, <1>2

(* The responses can be counted ... *)
LEMMA CountingExists ==
  ASSUME NEW w, NEW n \in Nat
  PROVE  \E h : Counting(h, w, n)
<1> DEFINE Wrong == {m \in Nat : ~\E h : Counting(h, w, m)}
<1>1. ASSUME Wrong # {} PROVE FALSE
  <2>1. PICK m \in Wrong : \A k \in Wrong : m <= k
    BY Zenon, <1>1, Least
  <2>2. CASE m = 0
    <3> DEFINE h == [q \in 0 .. 0 |-> 0]
    <3>1. \A q \in 0 .. 0 : q = 0
      BY SMT
    <3>2. \A q \in 0 .. 0 : (IF q = 0 THEN 0 ELSE h[q - 1] + IsOutput(w, q)) = 0 /\ h[q] = 0
      BY Zenon, <3>1
    <3>3. h = Step(h, w, 0)
      BY Zenon, <3>2 DEF Step
    <3>4. 0 \in Nat
      BY SMT
    <3>5. Counting(h, w, 0)
      BY Zenon, <3>2, <3>3, <3>4 DEF Counting
    <3> QED
      BY Zenon, <2>1, <2>2, <3>5
  <2>3. CASE m # 0
    <3>1. m \in Nat /\ m - 1 \in Nat /\ ~(m <= m - 1)
      BY SMT, <2>1, <2>3
    <3>2. PICK h : Counting(h, w, m - 1)
      BY Zenon, <2>1, <3>1
    <3> DEFINE g == [q \in 0 .. m |-> IF q = m THEN h[m - 1] + IsOutput(w, m) ELSE h[q]]
    <3>3. h[0] = 0 /\ \A q \in 1 .. m - 1 : h[q] = h[q - 1] + IsOutput(w, q)
      BY Zenon, <3>1, <3>2, CountingSteps
    <3>4. \A q \in 0 .. m - 1 : h[q] \in Nat
      BY Zenon, <3>2 DEF Counting
    <3>5. ASSUME NEW q \in 0 .. m
          PROVE  g[q] \in Nat /\ g[q] = IF q = 0 THEN 0 ELSE g[q - 1] + IsOutput(w, q)
      <4>1. CASE q = 0
        <5>1. q # m /\ 0 \in Nat
          BY SMT, <3>1, <4>1, <2>3
        <5> QED
          BY Zenon, <3>3, <4>1, <5>1
      <4>2. CASE q = m
        <5>1. q # 0 /\ q - 1 \in 0 .. m /\ q - 1 # m /\ m - 1 \in 0 .. m - 1
          BY SMTT(60), <3>1, <4>2, <2>3
        <5>2. g[q - 1] = h[m - 1] /\ g[q] = h[m - 1] + IsOutput(w, m)
          BY ZenonT(60), <4>2, <5>1
        <5>3. h[m - 1] + IsOutput(w, m) \in Nat
          BY SMTT(60), <3>4, <5>1, OutputIsNat
        <5> QED
          BY ZenonT(60), <4>2, <5>1, <5>2, <5>3
      <4>3. CASE q # 0 /\ q # m
        <5>1. q \in 1 .. m - 1 /\ q \in 0 .. m - 1 /\ q - 1 \in 0 .. m /\ q - 1 # m
          BY SMT, <3>1, <4>3
        <5>2. g[q - 1] = h[q - 1] /\ g[q] = h[q]
          BY Zenon, <4>3, <5>1
        <5> HIDE DEF g
        <5> QED
          BY ZenonT(60), <3>3, <3>4, <4>3, <5>1, <5>2
      <4> QED
        BY Zenon, <4>1, <4>2, <4>3
    <3>6. g = Step(g, w, m)
      <4>1. g = [q \in 0 .. m |-> g[q]]
        BY Zenon
      <4> HIDE DEF g
      <4> QED
        BY Zenon, <3>5, <4>1 DEF Step
    <3> HIDE DEF g
    <3>7. Counting(g, w, m)
      BY Zenon, <3>5, <3>6 DEF Counting
    <3> QED
      BY Zenon, <2>1, <3>7
  <2> QED
    BY Zenon, <2>2, <2>3
<1> QED
  BY Zenon, <1>1

(* ... in only one way. *)
LEMMA CountingUnique ==
  ASSUME NEW w, NEW n \in Nat, NEW m \in Nat, n <= m, NEW h, NEW g, Counting(h, w, n), Counting(g, w, m)
  PROVE  h[n] = g[n]
<1> DEFINE Wrong == {q \in 0 .. n : h[q] # g[q]}
<1>1. /\ h[0] = 0 /\ \A q \in 1 .. n : h[q] = h[q - 1] + IsOutput(w, q)
      /\ g[0] = 0 /\ \A q \in 1 .. m : g[q] = g[q - 1] + IsOutput(w, q)
  BY Zenon, CountingSteps
<1>2. ASSUME Wrong # {} PROVE FALSE
  <2>1. Wrong \subseteq Nat
    BY SMT
  <2>2. PICK q \in Wrong : \A k \in Wrong : q <= k
    BY Zenon, <1>2, <2>1, Least
  <2>3. q # 0
    BY Zenon, <1>1, <2>2
  <2>4. q \in 1 .. n /\ q \in 1 .. m /\ q - 1 \in 0 .. n /\ ~(q <= q - 1)
    BY SMT, <2>2, <2>3
  <2>5. h[q - 1] = g[q - 1]
    BY Zenon, <2>2, <2>4
  <2> QED
    BY ZenonT(60), <1>1, <2>2, <2>4, <2>5
<1>3. n \in 0 .. n
  BY SMT
<1> QED
  BY Zenon, <1>2, <1>3

LEMMA CountIs ==
  ASSUME NEW w, NEW n \in Nat
  PROVE  \E h : Counting(h, w, n) /\ DataCount(w, n) = h[n]
<1> DEFINE f == CHOOSE h : h = Step(h, w, n)
<1>1. DataCount(w, n) = f[n]
  BY Zenon DEF DataCount, Step
<1>2. PICK h : Counting(h, w, n)
  BY Zenon, CountingExists
<1>3. f = Step(f, w, n)
  BY Zenon, <1>2 DEF Counting
<1> HIDE DEF f
<1> DEFINE Wrong == {q \in 0 .. n : f[q] \notin Nat}
<1>4. \A q \in 0 .. n : f[q] = IF q = 0 THEN 0 ELSE f[q - 1] + IsOutput(w, q)
  BY Zenon, <1>3 DEF Step
<1>5. ASSUME Wrong # {} PROVE FALSE
  <2>1. Wrong \subseteq Nat
    BY SMT
  <2>2. PICK q \in Wrong : \A k \in Wrong : q <= k
    BY Zenon, <1>5, <2>1, Least
  <2>3. 0 \in Nat
    BY SMT
  <2>4. q # 0 /\ q \in 0 .. n
    BY Zenon, <1>4, <2>2, <2>3
  <2>5. q - 1 \in 0 .. n /\ ~(q <= q - 1)
    BY SMT, <2>4
  <2>6. f[q - 1] \in Nat /\ f[q] = f[q - 1] + IsOutput(w, q)
    BY ZenonT(60), <1>4, <2>2, <2>4, <2>5
  <2>7. f[q] \in Nat
    BY SMT, <2>6, OutputIsNat
  <2> QED
    BY Zenon, <2>2, <2>7
<1>6. Counting(f, w, n)
  BY Zenon, <1>3, <1>5 DEF Counting
<1> QED
  BY Zenon, <1>1, <1>6

LEMMA CountGrows ==
  ASSUME NEW w
  PROVE  /\ DataCount(w, 0) = 0
         /\ \A n \in Nat : DataCount(w, n) \in Nat
         /\ \A n \in Nat : DataCount(w, n + 1) = DataCount(w, n) + IsOutput(w, n + 1)
<1>1. DataCount(w, 0) = 0
  <2>1. 0 \in Nat
    BY SMT
  <2>2. PICK h : Counting(h, w, 0) /\ DataCount(w, 0) = h[0]
    BY Zenon, <2>1, CountIs
  <2> QED
    BY Zenon, <2>1, <2>2, CountingSteps
<1>2. ASSUME NEW n \in Nat PROVE DataCount(w, n) \in Nat
  <2>1. n \in 0 .. n
    BY SMT
  <2> QED
    BY Zenon, <2>1, CountIs DEF Counting
<1>3. ASSUME NEW n \in Nat PROVE DataCount(w, n + 1) = DataCount(w, n) + IsOutput(w, n + 1)
  <2>1. PICK h : Counting(h, w, n) /\ DataCount(w, n) = h[n]
    BY Zenon, CountIs
  <2> DEFINE m == n + 1
  <2>2. m \in Nat /\ n <= m /\ m \in 1 .. m /\ m - 1 = n
    BY SMT
  <2> HIDE DEF m
  <2>3. PICK g : Counting(g, w, m) /\ DataCount(w, m) = g[m]
    BY Zenon, <2>2, CountIs
  <2>4. h[n] = g[n]
    BY SMTT(60), <2>1, <2>2, <2>3, CountingUnique
  <2>5. g[m] = g[m - 1] + IsOutput(w, m)
    BY ZenonT(60), <2>2, <2>3, CountingSteps
  <2>6. DataCount(w, m) = DataCount(w, n) + IsOutput(w, m)
    BY ZenonT(60), <2>1, <2>2, <2>3, <2>4, <2>5
  <2> QED
    BY Zenon, <2>6 DEF m
<1> QED
  BY Zenon, <1>1, <1>2, <1>3

LEMMA CountIsNat ==
  ASSUME NEW w, NEW n \in Nat
  PROVE  DataCount(w, n) \in Nat
  BY Zenon, CountGrows

(* The p responses of v are those of w behind the first n; the count goes on. *)
Behind(v, w, n, p) == \A q \in 1 .. p : v[q] = w[q + n]

LEMMA CountGoesOn ==
  ASSUME NEW w, NEW v, NEW n \in Nat, NEW p \in Nat, Behind(v, w, n, p)
  PROVE  DataCount(w, n + p) = DataCount(w, n) + DataCount(v, p)
<1> DEFINE Wrong == {q \in 0 .. p : DataCount(w, n + q) # DataCount(w, n) + DataCount(v, q)}
<1>1. ASSUME Wrong # {} PROVE FALSE
  <2>1. Wrong \subseteq Nat
    BY SMT
  <2>2. PICK q \in Wrong : \A k \in Wrong : q <= k
    BY ZenonT(60), <1>1, <2>1, Least
  <2>3. CASE q = 0
    <3>1. DataCount(w, n) \in Nat /\ DataCount(v, 0) = 0
      BY Zenon, CountGrows
    <3>2. n + 0 = n /\ DataCount(w, n) + 0 = DataCount(w, n)
      BY SMT, <3>1
    <3> QED
      BY ZenonT(60), <2>2, <2>3, <3>1, <3>2
  <2>4. CASE q # 0
    <3>1. /\ q - 1 \in Nat /\ q - 1 \in 0 .. p /\ n + (q - 1) \in Nat /\ (q - 1) + 1 = q /\ ~(q <= q - 1)
          /\ (n + (q - 1)) + 1 = n + q /\ q \in 1 .. p /\ q + n = n + q
      BY SMT, <2>2, <2>4
    <3>2. DataCount(w, n + (q - 1)) = DataCount(w, n) + DataCount(v, q - 1)
      BY Zenon, <2>2, <3>1
    <3>3. /\ DataCount(w, (n + (q - 1)) + 1) = DataCount(w, n + (q - 1)) + IsOutput(w, (n + (q - 1)) + 1)
          /\ DataCount(v, (q - 1) + 1) = DataCount(v, q - 1) + IsOutput(v, (q - 1) + 1)
      BY Zenon, <3>1, CountGrows
    <3>4. IsOutput(w, n + q) = IsOutput(v, q)
      BY Zenon, <3>1 DEF IsOutput, Behind
    <3>5. DataCount(w, n) \in Nat /\ DataCount(v, q - 1) \in Nat /\ IsOutput(v, q) \in Nat
      BY ZenonT(60), <3>1, CountGrows, OutputIsNat
    <3>6. /\ DataCount(w, n + q) = (DataCount(w, n) + DataCount(v, q - 1)) + IsOutput(v, q)
          /\ DataCount(v, q) = DataCount(v, q - 1) + IsOutput(v, q)
      BY ZenonT(60), <3>1, <3>2, <3>3, <3>4
    <3>7. DataCount(w, n + q) = DataCount(w, n) + DataCount(v, q)
      BY SMT, <3>5, <3>6
    <3> QED
      BY Zenon, <2>2, <3>7
  <2> QED
    BY Zenon, <2>3, <2>4
<1>2. p \in 0 .. p
  BY SMT
<1> QED
  BY Zenon, <1>1, <1>2

LEMMA SameOutput ==
  ASSUME NEW w, NEW v, NEW n \in Nat, \A q \in 1 .. n : w[q] = v[q]
  PROVE  DataCount(w, n) = DataCount(v, n)
<1>1. 0 \in Nat /\ 0 + n = n /\ \A q \in 1 .. n : q + 0 = q
  BY SMT
<1>2. DataCount(w, 0 + n) = DataCount(w, 0) + DataCount(v, n)
  <2>1. Behind(v, w, 0, n)
    BY Zenon, <1>1 DEF Behind
  <2> QED
    BY SMT, <1>1, <2>1, CountGoesOn
<1>3. DataCount(w, 0) = 0 /\ DataCount(v, n) \in Nat
  BY Zenon, CountGrows
<1> QED
  BY SMTT(60), <1>1, <1>2, <1>3

(* Of n responses that are all output, all are counted. *)
LEMMA AllOutput ==
  ASSUME NEW w, NEW n \in Nat, \A q \in 1 .. n : w[q].type = "data"
  PROVE  DataCount(w, n) = n
<1> DEFINE Wrong == {q \in 0 .. n : DataCount(w, q) # q}
<1>1. ASSUME Wrong # {} PROVE FALSE
  <2>1. Wrong \subseteq Nat
    BY SMT
  <2>2. PICK q \in Wrong : \A k \in Wrong : q <= k
    BY Zenon, <1>1, <2>1, Least
  <2>3. q # 0
    BY Zenon, <2>2, CountGrows
  <2>4. q - 1 \in Nat /\ q - 1 \in 0 .. n /\ (q - 1) + 1 = q /\ ~(q <= q - 1) /\ q \in 1 .. n
    BY SMT, <2>2, <2>3
  <2>5. DataCount(w, q - 1) = q - 1 /\ DataCount(w, (q - 1) + 1) = DataCount(w, q - 1) + IsOutput(w, (q - 1) + 1)
    BY ZenonT(60), <2>2, <2>4, CountGrows
  <2>6. IsOutput(w, q) = 1
    BY Zenon, <2>4 DEF IsOutput
  <2>7. DataCount(w, q) = q
    BY ZenonT(60), <2>4, <2>5, <2>6
  <2> QED
    BY Zenon, <2>2, <2>7
<1>2. n \in 0 .. n
  BY SMT
<1> QED
  BY ZenonT(60), <1>1, <1>2

LEMMA NothingYet ==
  ASSUME NEW w
  PROVE  DataCount(w, 0) = 0
  BY Zenon, CountGrows

LEMMA NoOutput ==
  ASSUME NEW w, w[1].type # "data"
  PROVE  DataCount(w, 1) = 0
<1>1. 0 \in Nat /\ 0 + 1 = 1 /\ 0 + 0 = 0
  BY SMT
<1>2. DataCount(w, 0) = 0 /\ DataCount(w, 0 + 1) = DataCount(w, 0) + IsOutput(w, 0 + 1)
  BY Zenon, <1>1, CountGrows
<1>3. IsOutput(w, 1) = 0
  BY Zenon DEF IsOutput
<1> QED
  BY ZenonT(60), <1>1, <1>2, <1>3

LEMMA CountIsBounded ==
  ASSUME NEW w \in Seq(Responses), NEW p \in 1 .. Len(w)
  PROVE  /\ DataCount(w, p) \in Nat /\ DataCount(w, Len(w)) \in Nat /\ DataCount(w, p) <= DataCount(w, Len(w))
         /\ w[p].type = "data" => DataCount(w, p) >= 1
<1> DEFINE rest == Len(w) - p
           v == [q \in 1 .. rest |-> w[q + p]]
<1>1. p \in Nat /\ Len(w) \in Nat /\ rest \in Nat /\ p + rest = Len(w)
  BY SMT
<1> HIDE DEF rest
<1>2. DataCount(w, p + rest) = DataCount(w, p) + DataCount(v, rest)
  <2>1. Behind(v, w, p, rest)
    BY Zenon DEF Behind
  <2> HIDE DEF v
  <2> QED
    BY SMT, <1>1, <2>1, CountGoesOn
<1> HIDE DEF v
<1>3. DataCount(w, p) \in Nat /\ DataCount(w, Len(w)) \in Nat /\ DataCount(v, rest) \in Nat
  BY Zenon, <1>1, CountGrows
<1>4. DataCount(w, p) <= DataCount(w, Len(w))
  BY SMTT(60), <1>1, <1>2, <1>3
<1>5. ASSUME w[p].type = "data" PROVE DataCount(w, p) >= 1
  <2>1. p - 1 \in Nat /\ (p - 1) + 1 = p
    BY SMT
  <2>2. DataCount(w, p - 1) \in Nat /\ DataCount(w, (p - 1) + 1) = DataCount(w, p - 1) + IsOutput(w, (p - 1) + 1)
    BY Zenon, <2>1, CountGrows
  <2>3. IsOutput(w, p) = 1
    BY Zenon, <1>5 DEF IsOutput
  <2>4. DataCount(w, p) = DataCount(w, p - 1) + 1
    BY ZenonT(60), <2>1, <2>2, <2>3
  <2> QED
    BY SMT, <2>2, <2>4
<1> QED
  BY ZenonT(60), <1>3, <1>4, <1>5

LEMMA ReadingAdvances ==
  ASSUME NEW k \in Seq(Bytes), NEW o \in Seq(Bytes), NEW w \in Seq(Responses), Reading(k, o, w),
         NEW n \in 0 .. Len(w), NEW v \in Seq(Responses), Len(v) = Len(w) - n,
         \A p \in 1 .. Len(v) : v[p] = w[p + n],
         NEW m \in Seq(Bytes), Len(m) = Len(k) + DataCount(w, n), \A p \in 1 .. Len(m) : m[p] = o[p]
  PROVE  Reading(m, o, v)
<1>1. n \in Nat /\ Len(v) \in Nat /\ Len(w) \in Nat /\ n + Len(v) = Len(w) /\ Len(k) \in Nat
  BY SMTT(60)
<1>2. DataCount(w, n) \in Nat /\ \A p \in Nat : DataCount(v, p) \in Nat
  BY ZenonT(60), <1>1, CountIsNat
<1>3. \A p \in 0 .. Len(v) : DataCount(w, n + p) = DataCount(w, n) + DataCount(v, p)
  <2>1. ASSUME NEW p \in 0 .. Len(v) PROVE p \in Nat /\ \A q \in 1 .. p : q \in 1 .. Len(v)
    BY SMT, <1>1
  <2>2. \A p \in 0 .. Len(v) : Behind(v, w, n, p)
    BY Zenon, <2>1 DEF Behind
  <2> QED
    BY SMTT(60), <1>1, <2>1, <2>2, CountGoesOn
<1>4. DataCount(w, Len(w)) = DataCount(w, n) + DataCount(v, Len(v))
  <2>1. Len(v) \in 0 .. Len(v)
    BY <1>1
  <2> QED
    BY ZenonT(60), <1>1, <1>3, <2>1
<1>5. Len(o) = Len(m) + DataCount(v, Len(v))
  <2>1. Len(o) = Len(k) + DataCount(w, Len(w))
    BY Zenon DEF Reading
  <2> QED
    BY SMTT(60), <1>1, <1>2, <1>4, <2>1
<1>6. ASSUME NEW p \in 1 .. Len(v), v[p].type = "data" PROVE v[p].byte = o[Len(m) + DataCount(v, p)]
  <2>1. n + p \in 1 .. Len(w) /\ w[n + p] = v[p] /\ p \in 0 .. Len(v) /\ p \in Nat
    BY <1>1
  <2>2. w[n + p].byte = o[Len(k) + DataCount(w, n + p)]
    BY ZenonT(60), <1>6, <2>1 DEF Reading
  <2>3. Len(k) + DataCount(w, n + p) = Len(m) + DataCount(v, p)
    <3>1. DataCount(w, n + p) = DataCount(w, n) + DataCount(v, p)
      BY <1>3, <2>1, Zenon
    <3>2. DataCount(v, p) \in Nat
      BY <1>2, <2>1, Zenon
    <3> QED
      BY SMTT(60), <1>1, <1>2, <3>1, <3>2
  <2> QED
    BY Zenon, <2>1, <2>2, <2>3
<1> QED
  BY ZenonT(60), <1>5, <1>6 DEF Reading

(* A response that is no output is received. *)
LEMMA ReadingSkips ==
  ASSUME NEW k \in Seq(Bytes), NEW o \in Seq(Bytes), NEW w \in Seq(Responses), Reading(k, o, w),
         w # <<>>, w[1].type # "data"
  PROVE  Reading(k, o, Tail(w))
<1>1. /\ Tail(w) \in Seq(Responses) /\ Len(Tail(w)) = Len(w) - 1 /\ 1 \in 0 .. Len(w) /\ Len(k) \in Nat
      /\ \A p \in 1 .. Len(Tail(w)) : Tail(w)[p] = w[p + 1]
  OBVIOUS
<1>2. Len(k) = Len(k) + DataCount(w, 1)
  BY <1>1, NoOutput
<1>3. \A p \in 1 .. Len(k) : k[p] = o[p]
  BY ZenonT(60) DEF Reading
<1> QED
  BY ZenonT(60), <1>1, <1>2, <1>3, ReadingAdvances

(* A chunk is received. *)
LEMMA ReadingTakes ==
  ASSUME NEW k \in Seq(Bytes), NEW o \in Seq(Bytes), NEW w \in Seq(Responses), Reading(k, o, w),
         NEW n \in 1 .. Len(w), \A p \in 1 .. n : w[p].type = "data",
         NEW r \in Seq(Bytes), r = [p \in 1 .. n |-> w[p].byte]
  PROVE  Reading(k \o r, o, SubSeq(w, n + 1, Len(w)))
<1> DEFINE v == SubSeq(w, n + 1, Len(w))
           m == k \o r
<1>1. n \in Nat /\ Len(w) \in Nat /\ Len(k) \in Nat /\ n \in 0 .. Len(w) /\ Len(r) = n /\ \A p \in 1 .. n : r[p] = w[p].byte
  OBVIOUS
<1>2. v \in Seq(Responses) /\ Len(v) = Len(w) - n
  BY <1>1, SubSeqProperties
<1>3. \A p \in 1 .. Len(v) : v[p] = w[p + n]
  BY SMTT(60), <1>1, <1>2, SubSeqProperties
<1>4. m \in Seq(Bytes) /\ Len(m) = Len(k) + n
  BY SMTT(60), <1>1, ConcatProperties
<1>5. \A p \in 1 .. Len(k) + n : m[p] = IF p <= Len(k) THEN k[p] ELSE r[p - Len(k)]
  BY <1>1, ConcatProperties
<1>6. \A p \in 1 .. n : DataCount(w, p) = p
  BY <1>1, AllOutput
<1>7. ASSUME NEW p \in 1 .. Len(m) PROVE m[p] = o[p]
  <2>1. CASE p <= Len(k)
    BY SMTT(60), <1>1, <1>4, <1>5, <2>1 DEF Reading
  <2>2. CASE p > Len(k)
    <3> DEFINE i == p - Len(k)
    <3>1. i \in 1 .. n /\ i \in 1 .. Len(w) /\ Len(k) + i = p
      BY SMTT(60), <1>1, <1>4, <2>2
    <3>2. m[p] = w[i].byte
      BY SMTT(60), <1>1, <1>4, <1>5, <2>2, <3>1
    <3>3. w[i].byte = o[Len(k) + DataCount(w, i)]
      BY ZenonT(60), <3>1 DEF Reading
    <3> QED
      BY ZenonT(60), <1>6, <3>1, <3>2, <3>3
  <2> QED
    BY SMTT(60), <1>1, <1>4, <2>1, <2>2
<1>8. DataCount(w, n) = n
  BY <1>1, <1>6
<1> HIDE DEF v, m
<1>9. Reading(m, o, v)
  BY ZenonT(60), <1>1, <1>2, <1>3, <1>4, <1>7, <1>8, ReadingAdvances
<1> QED
  BY ZenonT(60), <1>9 DEF m, v
(* What the peer adds to the wire is what it printed. *)
LEMMA ReadingGrows ==
  ASSUME NEW k \in Seq(Bytes), NEW o \in Seq(Bytes), NEW w \in Seq(Responses), Reading(k, o, w),
         NEW b \in Seq(Bytes), NEW v \in Seq(Responses), Reading(<<>>, b, v)
  PROVE  Reading(k, o \o b, w \o v)
<1> DEFINE x == w \o v
           y == o \o b
<1>1. Len(k) \in Nat /\ Len(o) \in Nat /\ Len(b) \in Nat /\ Len(w) \in Nat /\ Len(v) \in Nat
  OBVIOUS
<1>2. Len(x) = Len(w) + Len(v) /\ \A p \in 1 .. Len(w) : x[p] = w[p]
  BY <1>1, ConcatProperties
<1>3. \A p \in 1 .. Len(v) : v[p] = x[p + Len(w)]
  <2> SUFFICES ASSUME NEW p \in 1 .. Len(v) PROVE v[p] = x[p + Len(w)]
    BY Zenon
  <2>1. p + Len(w) \in 1 .. Len(w) + Len(v) /\ ~(p + Len(w) <= Len(w)) /\ (p + Len(w)) - Len(w) = p
    BY <1>1
  <2>2. x[p + Len(w)] = IF p + Len(w) <= Len(w) THEN w[p + Len(w)] ELSE v[(p + Len(w)) - Len(w)]
    BY <2>1, ConcatProperties
  <2> HIDE DEF x
  <2> QED
    BY ZenonT(60), <2>1, <2>2
<1>4. Len(y) = Len(o) + Len(b) /\ \A p \in 1 .. Len(o) : y[p] = o[p]
  BY <1>1, ConcatProperties
<1>5. \A p \in 1 .. Len(b) : y[Len(o) + p] = b[p]
  <2> SUFFICES ASSUME NEW p \in 1 .. Len(b) PROVE y[Len(o) + p] = b[p]
    BY ZenonT(60)
  <2>1. Len(o) + p \in 1 .. Len(o) + Len(b) /\ ~(Len(o) + p <= Len(o)) /\ (Len(o) + p) - Len(o) = p
    BY <1>1
  <2>2. y[Len(o) + p] = IF Len(o) + p <= Len(o) THEN o[Len(o) + p] ELSE b[(Len(o) + p) - Len(o)]
    BY ZenonT(60), <2>1, ConcatProperties
  <2> HIDE DEF y
  <2> QED
    BY ZenonT(60), <2>1, <2>2
<1> HIDE DEF x, y
<1>6. \A p \in 0 .. Len(v) : DataCount(x, Len(w) + p) = DataCount(w, Len(w)) + DataCount(v, p)
  <2> SUFFICES ASSUME NEW p \in 0 .. Len(v)
               PROVE  DataCount(x, Len(w) + p) = DataCount(w, Len(w)) + DataCount(v, p)
    BY ZenonT(60)
  <2>1. p \in Nat /\ \A q \in 1 .. p : v[q] = x[q + Len(w)]
    BY SMTT(60), <1>1, <1>3
  <2>2. DataCount(x, Len(w) + p) = DataCount(x, Len(w)) + DataCount(v, p)
    <3>1. Behind(v, x, Len(w), p)
      BY Zenon, <2>1 DEF Behind
    <3> QED
      BY SMTT(60), <1>1, <2>1, <3>1, CountGoesOn
  <2>3. DataCount(x, Len(w)) = DataCount(w, Len(w))
    BY ZenonT(60), <1>1, <1>2, SameOutput
  <2> QED
    BY ZenonT(60), <2>2, <2>3
<1>7. /\ Len(o) = Len(k) + DataCount(w, Len(w)) /\ DataCount(w, Len(w)) \in Nat
      /\ Len(b) = DataCount(v, Len(v)) /\ DataCount(v, Len(v)) \in Nat
      /\ \A p \in 1 .. Len(v) : v[p].type = "data" => v[p].byte = b[DataCount(v, p)]
  <2>1. DataCount(w, Len(w)) \in Nat /\ \A p \in Nat : DataCount(v, p) \in Nat
    BY ZenonT(60), <1>1, CountIsNat
  <2>2. Len(<<>>) = 0
    BY ZenonT(60)
  <2>3. Len(b) = 0 + DataCount(v, Len(v))
    BY ZenonT(60), <2>2 DEF Reading
  <2>4. \A p \in 1 .. Len(v) : v[p].type = "data" => v[p].byte = b[0 + DataCount(v, p)]
    BY ZenonT(60), <2>2 DEF Reading
  <2>5. \A p \in 1 .. Len(v) : 0 + DataCount(v, p) = DataCount(v, p)
    BY <2>1
  <2>6. Len(o) = Len(k) + DataCount(w, Len(w))
    BY Zenon DEF Reading
  <2>7. Len(b) = DataCount(v, Len(v)) /\ DataCount(v, Len(v)) \in Nat
    BY SMTT(60), <1>1, <2>1, <2>3
  <2>8. \A p \in 1 .. Len(v) : v[p].type = "data" => v[p].byte = b[DataCount(v, p)]
    BY <2>4, <2>5, ZenonT(60)
  <2> QED
    BY <2>1, <2>6, <2>7, <2>8, ZenonT(60)
<1>8. Len(y) = Len(k) + DataCount(x, Len(x))
  <2>1. Len(v) \in 0 .. Len(v)
    BY <1>1
  <2>2. DataCount(x, Len(x)) = DataCount(w, Len(w)) + DataCount(v, Len(v))
    BY ZenonT(60), <1>2, <1>6, <2>1
  <2> QED
    BY SMTT(60), <1>1, <1>4, <1>7, <2>2
<1>9. \A p \in 1 .. Len(k) : k[p] = y[p]
  <2>1. \A p \in 1 .. Len(k) : k[p] = o[p] /\ p \in 1 .. Len(o)
    BY SMTT(60), <1>1, <1>7 DEF Reading
  <2> QED
    BY ZenonT(60), <1>4, <2>1
<1>10. ASSUME NEW p \in 1 .. Len(x), x[p].type = "data" PROVE x[p].byte = y[Len(k) + DataCount(x, p)]
  <2>1. CASE p <= Len(w)
    <3>1. p \in 1 .. Len(w) /\ p \in Nat /\ x[p] = w[p]
      BY SMTT(60), <1>1, <1>2, <2>1
    <3>2. DataCount(x, p) = DataCount(w, p)
      BY SMTT(60), <1>1, <1>2, <3>1, SameOutput
    <3>3. DataCount(w, p) \in Nat /\ DataCount(w, p) >= 1 /\ DataCount(w, p) <= DataCount(w, Len(w))
      BY Zenon, <1>10, <3>1, CountIsBounded
    <3>4. Len(k) + DataCount(w, p) \in 1 .. Len(o)
      BY SMTT(60), <1>1, <1>7, <3>3
    <3>5. w[p].byte = o[Len(k) + DataCount(w, p)]
      BY ZenonT(60), <1>10, <3>1 DEF Reading
    <3> QED
      BY ZenonT(60), <1>4, <3>1, <3>2, <3>4, <3>5
  <2>2. CASE p > Len(w)
    <3> DEFINE i == p - Len(w)
    <3>1. i \in 1 .. Len(v) /\ i \in 0 .. Len(v) /\ p = Len(w) + i /\ p = i + Len(w)
      BY SMTT(60), <1>1, <1>2, <2>2
    <3> HIDE DEF i
    <3>2. x[p] = v[i] /\ DataCount(x, p) = DataCount(w, Len(w)) + DataCount(v, i)
      BY ZenonT(60), <1>3, <1>6, <3>1
    <3>3. DataCount(v, i) \in Nat /\ DataCount(v, i) >= 1 /\ DataCount(v, i) <= DataCount(v, Len(v))
      BY ZenonT(60), <1>10, <3>1, <3>2, CountIsBounded
    <3>4. DataCount(v, i) \in 1 .. Len(b) /\ Len(k) + DataCount(x, p) = Len(o) + DataCount(v, i)
      BY SMTT(60), <1>1, <1>7, <3>2, <3>3
    <3>5. v[i].byte = b[DataCount(v, i)]
      BY ZenonT(60), <1>7, <1>10, <3>1, <3>2
    <3> QED
      BY ZenonT(60), <1>5, <3>2, <3>4, <3>5
  <2> QED
    BY SMTT(60), <1>1, <1>2, <2>1, <2>2
<1>11. Reading(k, y, x)
  BY ZenonT(60), <1>8, <1>9, <1>10 DEF Reading
<1> QED
  BY ZenonT(60), <1>11 DEF x, y

LEMMA ReadingData ==
  ASSUME NEW id \in {1, 2}, NEW b \in Seq(Bytes)
  PROVE  Reading(<<>>, b, Data(id, b))
<1> DEFINE v == Data(id, b)
<1>1. Len(b) \in Nat /\ DOMAIN b = 1 .. Len(b) /\ Len(<<>>) = 0
  OBVIOUS
<1>2. v \in Seq(Responses) /\ Len(v) = Len(b) /\ \A p \in 1 .. Len(b) : v[p].type = "data"
  BY ZenonT(60), DataIsResponses
<1>3. \A p \in 1 .. Len(b) : v[p].byte = b[p]
  BY ZenonT(60), <1>1 DEF Data
<1> HIDE DEF v
<1>4. \A p \in 0 .. Len(b) : DataCount(v, p) = p
  BY SMTT(60), <1>1, <1>2, AllOutput
<1>5. Len(b) = 0 + DataCount(v, Len(v)) /\ \A p \in 1 .. Len(b) : 0 + DataCount(v, p) = p
  BY SMTT(60), <1>1, <1>2, <1>4
<1>6. Reading(<<>>, b, v)
  BY SMTT(60), <1>1, <1>2, <1>3, <1>5 DEF Reading
<1> QED
  BY ZenonT(60), <1>6 DEF v

LEMMA ReadingReply ==
  ASSUME NEW id \in {1, 2}, NEW t \in {"opened", "closed", "error"}
  PROVE  Reading(<<>>, <<>>, Response(t, id))
<1> DEFINE v == Response(t, id)
<1>1. Len(v) = 1 /\ v[1].type # "data" /\ Len(<<>>) = 0
  BY ZenonT(60), ResponseIsResponses
<1> HIDE DEF v
<1>2. DataCount(v, 1) = 0
  BY ZenonT(60), <1>1, NoOutput
<1>3. Reading(<<>>, <<>>, v)
  BY <1>1, <1>2 DEF Reading
<1> QED
  BY Zenon, <1>3 DEF v

(* Output that was not sent is lost. *)
LEMMA ReadingLoses ==
  ASSUME NEW k \in Seq(Bytes), NEW o \in Seq(Bytes), NEW w \in Seq(Responses), Reading(k, o, w),
         NEW n \in 0 .. Len(w), \A p \in n + 1 .. Len(w) : w[p].type = "data"
  PROVE  /\ Reading(k, SubSeq(o, 1, Len(o) - (Len(w) - n)), SubSeq(w, 1, n))
         /\ SubSeq(w, 1, n) \in Seq(Responses)
         /\ SubSeq(o, 1, Len(o) - (Len(w) - n)) \in Seq(Bytes)
<1> DEFINE lost == Len(w) - n
           rest == SubSeq(w, n + 1, Len(w))
           x == SubSeq(w, 1, n)
           y == SubSeq(o, 1, Len(o) - lost)
<1>1. n \in Nat /\ Len(w) \in Nat /\ Len(k) \in Nat /\ Len(o) \in Nat /\ lost \in Nat /\ n + lost = Len(w)
  OBVIOUS
<1>2. x \in Seq(Responses) /\ Len(x) = n /\ \A p \in 1 .. n : x[p] = w[p]
  <2>1. \A p \in 1 .. n : w[p] \in Responses
    BY <1>1
  <2> QED
    BY SMTT(60), <1>1, <2>1, SubSeqProperties
<1>3. \A p \in 1 .. lost : rest[p] = w[p + n]
  <2>1. \A p \in n + 1 .. Len(w) : w[p] \in Responses
    BY SMTT(60), <1>1
  <2>2. \A p \in 1 .. Len(w) - (n + 1) + 1 : rest[p] = w[(n + 1) + p - 1]
    BY SMTT(60), <1>1, <2>1, SubSeqProperties
  <2>3. \A p \in 1 .. lost : p \in 1 .. Len(w) - (n + 1) + 1 /\ (n + 1) + p - 1 = p + n
    BY <1>1
  <2> HIDE DEF rest
  <2> QED
    BY ZenonT(60), <2>2, <2>3
<1> HIDE DEF x, y, rest, lost
<1>4. \A p \in 1 .. lost : rest[p].type = "data"
  <2>1. \A p \in 1 .. lost : p + n \in n + 1 .. Len(w)
    BY <1>1
  <2> QED
    BY SMTT(60), <1>3, <2>1
<1>5. DataCount(rest, lost) = lost
  BY ZenonT(60), <1>1, <1>4, AllOutput
<1>6. DataCount(w, n + lost) = DataCount(w, n) + DataCount(rest, lost)
  <2>1. n \in Nat /\ lost \in Nat
    BY Zenon, <1>1
  <2>2. Behind(rest, w, n, lost)
    BY ZenonT(60), <1>3 DEF Behind
  <2> QED
    BY SMTT(60), <2>1, <2>2, CountGoesOn
<1>7. \A p \in 0 .. n : DataCount(x, p) = DataCount(w, p)
  BY SMTT(60), <1>1, <1>2, SameOutput
<1>8. DataCount(w, n) \in Nat /\ Len(o) = Len(k) + DataCount(w, Len(w))
  BY ZenonT(60), <1>1, CountIsNat DEF Reading
<1>9. Len(o) - lost = Len(k) + DataCount(w, n) /\ Len(o) - lost \in Nat /\ Len(o) - lost <= Len(o)
  <2>1. DataCount(w, Len(w)) = DataCount(w, n) + lost
    BY <1>1, <1>5, <1>6, ZenonT(60)
  <2> QED
    BY SMTT(60), <1>1, <1>8, <2>1
<1>10. y \in Seq(Bytes) /\ Len(y) = Len(o) - lost /\ \A p \in 1 .. Len(o) - lost : y[p] = o[p]
  <2>1. \A p \in 1 .. Len(o) - lost : o[p] \in Bytes
    BY SMTT(60), <1>1, <1>9
  <2> DEFINE l == Len(o) - lost
  <2>2. l \in Nat /\ \A p \in 1 .. l : o[p] \in Bytes
    BY ZenonT(60), <1>9, <2>1
  <2> HIDE DEF l
  <2>3. SubSeq(o, 1, l) \in Seq(Bytes) /\ Len(SubSeq(o, 1, l)) = l /\ \A p \in 1 .. l : SubSeq(o, 1, l)[p] = o[p]
    BY SMTT(60), <2>2, SubSeqProperties
  <2> QED
    BY ZenonT(60), <2>3 DEF y, l
<1>11. Len(y) = Len(k) + DataCount(x, Len(x))
  BY SMTT(60), <1>1, <1>2, <1>7, <1>9, <1>10
<1>12. \A p \in 1 .. Len(k) : k[p] = y[p]
  BY SMTT(60), <1>1, <1>8, <1>9, <1>10 DEF Reading
<1>13. ASSUME NEW p \in 1 .. Len(x), x[p].type = "data" PROVE x[p].byte = y[Len(k) + DataCount(x, p)]
  <2>1. p \in 1 .. n /\ p \in 0 .. n /\ p \in 1 .. Len(w) /\ x[p] = w[p] /\ DataCount(x, p) = DataCount(w, p)
    BY SMTT(60), <1>1, <1>2, <1>7
  <2>2. w[p].byte = o[Len(k) + DataCount(w, p)]
    BY ZenonT(60), <1>13, <2>1 DEF Reading
  <2>3. x[p].type = "data" => DataCount(x, p) >= 1
    BY ZenonT(60), <1>2, CountIsBounded
  <2>4. DataCount(x, p) \in Nat /\ DataCount(x, Len(x)) \in Nat /\ DataCount(x, p) <= DataCount(x, Len(x))
    BY ZenonT(60), <1>2, CountIsBounded
  <2>5. Len(k) + DataCount(x, p) \in 1 .. Len(y)
    BY SMTT(60), <1>1, <1>11, <1>13, <2>3, <2>4
  <2> QED
    BY ZenonT(60), <1>10, <2>1, <2>2, <2>5
<1>14. Reading(k, y, x)
  BY ZenonT(60), <1>11, <1>12, <1>13 DEF Reading
<1> QED
  BY ZenonT(60), <1>2, <1>10, <1>14 DEF x, y, lost
LEMMA ShownTypes ==
  ASSUME IInv, ShownFits
  PROVE  /\ shown \in Seq(Bytes) /\ collected \in Seq(Bytes) /\ printed \in Seq(Bytes)
         /\ shown \o collected \in Seq(Bytes) /\ wire \in Seq(Responses) /\ toPeer \in Seq(Actions)
         /\ opened \subseteq {1, 2}
<1>1. shown \in Seq(Bytes) /\ collected \in Seq(Bytes) /\ printed \in Seq(Bytes)
  BY ZenonT(60) DEF ShownFits
<1>2. wire \in Seq(Responses) /\ toPeer \in Seq(Actions) /\ opened \subseteq {1, 2}
  BY ZenonT(60) DEF IInv, TypeOK
<1> QED
  BY ZenonT(60), <1>1, <1>2, ConcatProperties

(* The peer's steps: the client keeps what it has. *)
LEMMA PeerShows ==
  ASSUME IInv, ShownFits, UNCHANGED clientVars, printed' \in Seq(Bytes),
         Reading(shown \o collected, printed, wire) => Reading(shown \o collected, printed', wire')
  PROVE  ShownFits'
<1>1. UNCHANGED <<mode, pc, tid, collected, shown, erred>>
  BY ZenonT(60) DEF clientVars
<1> QED
  BY <1>1, Zenon DEF ShownFits

LEMMA PrintsShows ==
  ASSUME IInv, ShownFits, UNCHANGED clientVars, NEW id \in {1, 2}, NEW b \in Seq(Bytes), Prints(id, b)
  PROVE  ShownFits'
<1>1. wire' = wire \o Data(id, b) /\ printed' = printed \o b
  BY ZenonT(60) DEF Prints
<1>2. printed' \in Seq(Bytes)
  BY ZenonT(60), <1>1, ShownTypes, ConcatProperties
<1>3. Reading(shown \o collected, printed, wire) => Reading(shown \o collected, printed', wire')
  BY ZenonT(60), <1>1, ShownTypes, DataIsResponses, ReadingData, ReadingGrows
<1> QED
  BY ZenonT(60), <1>2, <1>3, PeerShows

LEMMA RepliesShows ==
  ASSUME IInv, ShownFits, UNCHANGED clientVars, NEW id \in {1, 2}, NEW t \in {"opened", "closed", "error"},
         wire' = wire \o Response(t, id), printed' = printed
  PROVE  ShownFits'
<1>1. printed \o <<>> = printed
  BY ZenonT(60), ShownTypes, ConcatEmptySeq
<1>2. <<>> \in Seq(Bytes)
  OBVIOUS
<1>3. ASSUME Reading(shown \o collected, printed, wire) PROVE Reading(shown \o collected, printed', wire')
  <2>1. Reading(shown \o collected, printed \o <<>>, wire \o Response(t, id))
    BY ZenonT(60), <1>2, <1>3, ShownTypes, ResponseIsResponses, ReadingReply, ReadingGrows
  <2> QED
    BY ZenonT(60), <1>1, <2>1
<1> QED
  BY ZenonT(60), <1>3, ShownTypes, PeerShows

LEMMA OpensShows ==
  ASSUME IInv, ShownFits, UNCHANGED clientVars, NEW id \in {1, 2}, Opens(id)
  PROVE  ShownFits'
<1>1. CASE wire' = wire \o Response("error", id) /\ UNCHANGED <<opened, printed>>
  BY ZenonT(60), <1>1, RepliesShows
<1>2. ASSUME NEW prompt \in {<<>>, <<"p">>}, wire' = wire \o Response("opened", id) \o Data(id, By(0, prompt)),
             printed' = printed \o By(0, prompt)
      PROVE  ShownFits'
  <2> DEFINE b == By(0, prompt)
             r == Response("opened", id)
  <2>1. b \in Seq(Bytes) /\ Data(id, b) \in Seq(Responses) /\ r \in Seq(Responses) /\ <<>> \in Seq(Bytes)
    BY SMTT(60), PromptIsBytes, DataIsResponses, ResponseIsResponses
  <2>2. Reading(<<>>, b, Data(id, b)) /\ Reading(<<>>, <<>>, r)
    BY ZenonT(60), <2>1, ReadingData, ReadingReply
  <2>3. wire' = (wire \o r) \o Data(id, b) /\ printed' = printed \o b
    BY ZenonT(60), <1>2
  <2> HIDE DEF b, r
  <2>4. printed' \in Seq(Bytes) /\ wire \o r \in Seq(Responses) /\ printed \o <<>> = printed
    BY ZenonT(60), <2>1, <2>3, ShownTypes, ConcatProperties, ConcatEmptySeq
  <2>5. ASSUME Reading(shown \o collected, printed, wire) PROVE Reading(shown \o collected, printed', wire')
    <3>1. Reading(shown \o collected, printed \o <<>>, wire \o r)
      BY ZenonT(60), <2>1, <2>2, <2>5, ShownTypes, ReadingGrows
    <3>2. Reading(shown \o collected, printed, wire \o r)
      BY ZenonT(60), <2>4, <3>1
    <3>3. Reading(shown \o collected, printed \o b, (wire \o r) \o Data(id, b))
      BY ZenonT(60), <2>1, <2>2, <2>4, <3>2, ShownTypes, ReadingGrows
    <3> QED
      BY ZenonT(60), <2>3, <3>3
  <2> QED
    BY ZenonT(60), <2>4, <2>5, PeerShows
<1> QED
  BY ZenonT(60), <1>1, <1>2 DEF Opens

LEMMA HeadIsAction ==
  ASSUME IInv, NEW t, PeerTakes(t)
  PROVE  Head(toPeer) \in Actions
  BY DEF IInv, TypeOK, PeerTakes

LEMMA PeerRunsShows ==
  ASSUME IInv, ShownFits, PeerRuns
  PROVE  ShownFits'
<1>1. UNCHANGED clientVars /\ PeerTakes("data")
  BY Zenon DEF PeerRuns
<1> DEFINE a == Head(toPeer)
<1>2. a.id \in {1, 2} /\ a.input \in Nat
  BY Zenon, <1>1, HeadIsAction DEF Actions
<1>3. CASE wire' = wire /\ printed' = printed
  BY ZenonT(60), <1>1, <1>3, ShownTypes, PeerShows
<1>4. ASSUME NEW out \in Outputs, NEW code \in Codes,
             Prints(a.id, Transcript(1, [out |-> out, code |-> code]))
      PROVE  ShownFits'
  <2>1. Transcript(1, [out |-> out, code |-> code]) \in Seq(Bytes)
    BY ZenonT(60), TranscriptIsBytes, DirectAssumption
  <2> QED
    BY ZenonT(60), <1>1, <1>2, <1>4, <2>1, PrintsShows
<1>5. CASE Prints(a.id, By(a.input, <<"e", "x">>))
  <2>1. <<"e", "x">> \in Seq(Digits \cup {"e", "n", "q", "s", "t", "k", "p", "b", "x", "-"})
    OBVIOUS
  <2>2. By(a.input, <<"e", "x">>) \in Seq(Bytes)
    BY ZenonT(60), <1>2, <2>1, ByIsBytes
  <2> QED
    BY ZenonT(60), <1>1, <1>2, <1>5, <2>2, PrintsShows
<1>6. \/ wire' = wire /\ printed' = printed
      \/ \E out \in Outputs, code \in Codes : Prints(a.id, Transcript(1, [out |-> out, code |-> code]))
      \/ Prints(a.id, By(a.input, <<"e", "x">>))
  BY Zenon DEF PeerRuns
<1> QED
  BY Zenon, <1>3, <1>4, <1>5, <1>6

LEMMA PeerClosesShows ==
  ASSUME IInv, ShownFits, PeerCloses
  PROVE  ShownFits'
<1>1. UNCHANGED clientVars /\ PeerTakes("close")
  BY ZenonT(60) DEF PeerCloses
<1> DEFINE id == Head(toPeer).id
           k == shown \o collected
<1>2. id \in {1, 2}
  BY ZenonT(60), <1>1, HeadIsAction DEF Actions
<1>3. PICK n \in 0 .. Len(wire) :
         /\ \A p \in n + 1 .. Len(wire) : wire[p].type = "data" /\ wire[p].id = id
         /\ printed' = SubSeq(printed, 1, Len(printed) - (Len(wire) - n))
         /\ \/ wire' = SubSeq(wire, 1, n)
            \/ id \in opened /\ wire' = SubSeq(wire, 1, n) \o Response("closed", id)
  BY Zenon DEF PeerCloses
<1>4. \A p \in n + 1 .. Len(wire) : wire[p].type = "data"
  BY <1>3, ZenonT(60)
<1>5. CASE Reading(k, printed, wire)
  <2>1. /\ Reading(k, printed', SubSeq(wire, 1, n))
        /\ SubSeq(wire, 1, n) \in Seq(Responses) /\ printed' \in Seq(Bytes)
    BY ZenonT(60), <1>3, <1>4, <1>5, ShownTypes, ReadingLoses
  <2>2. CASE wire' = SubSeq(wire, 1, n)
    BY ZenonT(60), <1>1, <2>1, <2>2, PeerShows
  <2>3. CASE wire' = SubSeq(wire, 1, n) \o Response("closed", id)
    <3>1. printed' \o <<>> = printed' /\ <<>> \in Seq(Bytes)
      BY <2>1, ConcatEmptySeq
    <3>2. Reading(<<>>, <<>>, Response("closed", id)) /\ Response("closed", id) \in Seq(Responses)
      BY ZenonT(60), <1>2, ReadingReply, ResponseIsResponses
    <3>3. Reading(k, printed' \o <<>>, SubSeq(wire, 1, n) \o Response("closed", id))
      BY ZenonT(60), <2>1, <3>1, <3>2, ShownTypes, ReadingGrows
    <3>4. Reading(k, printed', wire')
      BY ZenonT(60), <2>3, <3>1, <3>3
    <3> QED
      BY ZenonT(60), <1>1, <2>1, <3>4, PeerShows
  <2> QED
    BY ZenonT(60), <1>3, <2>2, <2>3
<1>6. CASE ~Reading(k, printed, wire)
  <2>1. \A i \in 1 .. Len(printed) - (Len(wire) - n) : i \in 1 .. Len(printed)
    BY ShownTypes
  <2>2. Len(printed) - (Len(wire) - n) \in Int /\ \A i \in 1 .. Len(printed) : printed[i] \in Bytes
    BY SMTT(60), ShownTypes
  <2>3. printed' \in Seq(Bytes)
    BY SMTT(60), <1>3, <2>1, <2>2, SubSeqProperties
  <2> QED
    BY ZenonT(60), <1>1, <1>6, <2>3, PeerShows
<1> QED
  BY ZenonT(60), <1>5, <1>6

LEMMA PeerKeepsShown ==
  ASSUME IInv, ShownFits, Peer
  PROVE  ShownFits'
<1>1. CASE PeerOpensUnasked
  BY ZenonT(60), <1>1, OpensShows DEF PeerOpensUnasked
<1>2. CASE PeerOpens
  BY ZenonT(60), <1>2, OpensShows DEF PeerOpens
<1>3. CASE PeerEnds
  <2>1. PICK id \in opened, t \in {"closed", "error"} : wire' = wire \o Response(t, id)
    BY ZenonT(60), <1>3 DEF PeerEnds
  <2>2. id \in {1, 2} /\ t \in {"opened", "closed", "error"} /\ UNCHANGED clientVars /\ printed' = printed
    BY ZenonT(60), <1>3, ShownTypes DEF PeerEnds
  <2> QED
    BY ZenonT(60), <2>1, <2>2, RepliesShows
<1>4. CASE PeerChatters
  <2>1. PICK id \in opened : Prints(id, By(0, <<"b">>))
    BY ZenonT(60), <1>4 DEF PeerChatters
  <2>2. <<"b">> \in Seq(Digits \cup {"e", "n", "q", "s", "t", "k", "p", "b", "x", "-"})
    OBVIOUS
  <2>3. id \in {1, 2} /\ By(0, <<"b">>) \in Seq(Bytes) /\ UNCHANGED clientVars
    BY ZenonT(60), <1>4, <2>2, ShownTypes, ByIsBytes DEF PeerChatters
  <2> QED
    BY ZenonT(60), <2>1, <2>3, PrintsShows
<1>5. CASE Noise \/ StreamBreaks
  <2>1. UNCHANGED clientVars /\ wire' = wire /\ printed' = printed
    BY ZenonT(60), <1>5 DEF Noise, StreamBreaks, peerVars
  <2> QED
    BY ZenonT(60), <2>1, ShownTypes, PeerShows
<1> QED
  BY ZenonT(60), <1>1, <1>2, <1>3, <1>4, <1>5, PeerRunsShows, PeerClosesShows DEF Peer
(* The client's steps: nothing is received ... *)
LEMMA StayShows ==
  ASSUME IInv, ShownFits, pc \notin {"done", "gathering"}, pc' # "gathering", wire' = wire,
         UNCHANGED <<mode, tid, collected, shown, erred, printed>>
  PROVE  ShownFits'
  BY Zenon DEF ShownFits

(* ... or a response that is no output, or that nobody will show. *)
LEMMA SkipShows ==
  ASSUME IInv, ShownFits, pc \notin {"done", "gathering"}, pc' # "gathering", wire # <<>>, wire' = Tail(wire),
         UNCHANGED <<mode, collected, shown, erred, printed>>, tid' = tid \/ (tid = 0 /\ tid' # 0),
         wire[1].type # "data" \/ (tid' = 0 /\ pc' = "done") \/ mode = "exec"
  PROVE  ShownFits'
<1>1. ASSUME Reading(shown \o collected, printed, wire), wire[1].type # "data"
      PROVE  Reading(shown \o collected, printed, wire')
  BY ZenonT(60), <1>1, ShownTypes, ReadingSkips
<1>2. /\ shown' \in Seq(Bytes) /\ collected' \in Seq(Bytes) /\ printed' \in Seq(Bytes)
      /\ mode' # "exec" => collected' = <<>>
      /\ tid' = 0 => shown' = <<>>
  BY ZenonT(60) DEF ShownFits
<1>3. mode # "exec" /\ ~erred => Reading(shown \o collected, printed, wire)
  BY Zenon DEF ShownFits
<1> QED
  BY <1>1, <1>2, <1>3, ZenonT(60) DEF ShownFits

LEMMA TakenIsHead ==
  ASSUME IInv, NEW t, Next_is(t)
  PROVE  wire # <<>> /\ wire[1].type = t /\ wire[1].id \in {1, 2}
<1>1. wire \in Seq(Responses) /\ wire # <<>> /\ Head(wire).type = t
  BY ZenonT(60) DEF IInv, TypeOK, Next_is
<1>2. Head(wire) = wire[1] /\ wire[1] \in Responses
  BY <1>1
<1> QED
  BY ZenonT(60), <1>1, <1>2 DEF Responses

LEMMA FailShows ==
  ASSUME NEW why, Fail(why)
  PROVE  pc' = "done" /\ UNCHANGED <<mode, tid, collected, shown, erred>>
  BY ZenonT(60) DEF Fail, Return

LEMMA KeepShows ==
  ASSUME Keep
  PROVE  printed' = printed
  BY ZenonT(60) DEF Keep, peerVars

LEMMA OpenKeepsShown ==
  ASSUME IInv, ShownFits, Open
  PROVE  ShownFits'
<1>1. CASE Connected \/ ConnectFails \/ ProbeTimesOut
  <2>1. pc \notin {"done", "gathering"} /\ wire' = wire /\ printed' = printed
    BY ZenonT(60), <1>1, KeepShows DEF Connected, ConnectFails, ProbeTimesOut, DropRecv
  <2>2. pc' \in {"probing", "opening", "done"} /\ UNCHANGED <<mode, tid, collected, shown, erred>>
    BY ZenonT(60), <1>1, FailShows DEF Connected, ConnectFails, ProbeTimesOut, Goto
  <2> QED
    BY ZenonT(60), <2>1, <2>2, StayShows
<1>2. ASSUME NEW next, next # "gathering", pc \in {"probing", "opening"}, TakeOpened(next) PROVE ShownFits'
  <2>1. wire # <<>> /\ wire[1].type # "data" /\ Head(wire) = wire[1] /\ wire[1].id \in {1, 2}
    BY SMTT(60), <1>2, TakenIsHead, ShownTypes DEF TakeOpened
  <2>2. /\ wire' = Tail(wire) /\ printed' = printed /\ pc' = next /\ tid' = wire[1].id
        /\ UNCHANGED <<mode, collected, shown, erred>>
    BY ZenonT(60), <1>2, <2>1, KeepShows DEF TakeOpened, Take
  <2>3. tid = 0
    BY ZenonT(60), <1>2 DEF IInv, OpensOnce, Trying
  <2> QED
    BY ZenonT(60), <1>2, <2>1, <2>2, <2>3, SkipShows
<1>3. CASE ProbeFails \/ OpenFails
  <2>1. /\ pc \in {"probing", "opening"} /\ pc' = "done" /\ printed' = printed
        /\ UNCHANGED <<mode, tid, collected, shown, erred>>
    BY ZenonT(60), <1>3, KeepShows, FailShows DEF ProbeFails, OpenFails
  <2>2. tid = 0
    BY ZenonT(60), <2>1 DEF IInv, OpensOnce, Trying
  <2>3. wire' = wire \/ (wire # <<>> /\ wire' = Tail(wire))
    BY ZenonT(60), <1>3 DEF ProbeFails, OpenFails, Unexpected, RecvFails, DropRecv, Next_is, Take
  <2> QED
    BY ZenonT(60), <2>1, <2>2, <2>3, StayShows, SkipShows
<1>4. CASE OpenSucceeds
  <2>1. mode \in {"exec", "session", "text"}
    BY ZenonT(60) DEF IInv, TypeOK
  <2>2. pc = "opening" /\ \E next \in {"draining", "session", "ready"} : TakeOpened(next)
    BY ZenonT(60), <1>4, <2>1 DEF OpenSucceeds
  <2> QED
    BY ZenonT(60), <1>2, <2>2
<1>5. CASE ProbeOpened
  BY ZenonT(60), <1>2, <1>5 DEF ProbeOpened
<1> QED
  BY ZenonT(60), <1>1, <1>3, <1>4, <1>5 DEF Open

LEMMA ReceivedIsBytes ==
  ASSUME IInv, NEW n \in 1 .. Len(wire)
  PROVE  Received(n) \in Seq(Bytes) /\ Received(n) = [p \in 1 .. n |-> wire[p].byte]
<1>1. wire \in Seq(Responses) /\ n \in Nat
  BY DEF IInv, TypeOK
<1>2. \A p \in 1 .. n : wire[p].byte \in Bytes
  <2>1. \A p \in 1 .. n : wire[p] \in Responses
    BY SMTT(60), <1>1
  <2> QED
    BY ZenonT(60), <2>1 DEF Responses
<1> QED
  BY SMTT(60), <1>1, <1>2 DEF Received

(* An exec shows nothing. *)
LEMMA ExecKeepsShown ==
  ASSUME IInv, ShownFits, Exec
  PROVE  ShownFits'
<1>1. pc \in {"draining", "collecting"}
  BY ZenonT(60) DEF Exec, DrainData, DrainClosed, DrainFails, SendCommand, CollectData, CollectClosed, CollectFails,
         CollectTimesOut
<1>2. mode = "exec" /\ tid # 0
  BY SMTT(60), <1>1 DEF IInv, TypeOK, OpensOnce, Trying
<1>3. UNCHANGED <<mode, tid, shown, printed>> /\ collected' \in Seq(Bytes)
  <2>1. CASE DrainData
    BY ZenonT(60), <2>1, KeepShows, ShownTypes DEF DrainData, clientVars
  <2>2. CASE DrainClosed \/ DrainFails \/ CollectFails
    BY ZenonT(60), <2>2, KeepShows, FailShows, ShownTypes DEF DrainClosed, DrainFails, CollectFails
  <2>3. CASE SendCommand
    BY ZenonT(60), <2>3, KeepShows, FailShows, ShownTypes DEF SendCommand, Goto
  <2>4. ASSUME NEW n \in 1 .. Len(wire), CollectData(n)
        PROVE  UNCHANGED <<mode, tid, shown, printed>> /\ collected' \in Seq(Bytes)
    <3>1. collected \o Received(n) \in Seq(Bytes)
      BY ZenonT(60), ShownTypes, ReceivedIsBytes, ConcatProperties
    <3>2. printed' = printed
      BY ZenonT(60), <2>4, KeepShows DEF CollectData
    <3>3. \/ UNCHANGED <<mode, tid, collected, shown>>
          \/ collected' = collected \o Received(n) /\ UNCHANGED <<mode, tid, shown>>
      BY ZenonT(60), <2>4 DEF CollectData, Complete, Return
    <3> QED
      BY ZenonT(60), <3>1, <3>2, <3>3, ShownTypes
  <2>5. CASE CollectClosed \/ CollectTimesOut
    BY ZenonT(60), <2>5, KeepShows, ShownTypes DEF CollectClosed, CollectTimesOut, Complete, Return
  <2> QED
    BY ZenonT(60), <2>1, <2>2, <2>3, <2>4, <2>5 DEF Exec
<1>4. printed \in Seq(Bytes) /\ shown \in Seq(Bytes)
  BY ZenonT(60), ShownTypes
<1> QED
  BY <1>2, <1>3, <1>4, ZenonT(60) DEF ShownFits

LEMMA SessionKeepsShown ==
  ASSUME IInv, ShownFits, Session
  PROVE  ShownFits'
<1>1. ASSUME NEW n \in 1 .. Len(wire), SessionData(n) PROVE ShownFits'
  <2>1. /\ pc = "session" /\ Chunk(n) /\ shown' = shown \o Received(n) /\ printed' = printed
        /\ UNCHANGED <<mode, pc, tid, collected, erred>>
    BY ZenonT(60), <1>1, KeepShows DEF SessionData
  <2>2. mode = "session" /\ tid # 0
    BY ZenonT(60), <2>1 DEF IInv, TypeOK, OpensOnce, Trying
  <2>3. collected = <<>>
    BY ZenonT(60), <2>1, <2>2 DEF ShownFits
  <2>4. /\ shown \o collected = shown /\ shown' \o collected' = shown'
        /\ shown' \in Seq(Bytes) /\ Received(n) \in Seq(Bytes)
    BY SMTT(60), <2>1, <2>3, ShownTypes, ReceivedIsBytes, ConcatProperties, ConcatEmptySeq
  <2>5. \A p \in 1 .. n : wire[p].type = "data"
    BY Zenon, <2>1 DEF Chunk
  <2>6. wire' = SubSeq(wire, n + 1, Len(wire))
    BY ZenonT(60), <2>1 DEF Chunk
  <2>7. ASSUME Reading(shown, printed, wire) PROVE Reading(shown', printed, wire')
    BY ZenonT(60), <2>1, <2>4, <2>5, <2>6, <2>7, ShownTypes, ReceivedIsBytes, ReadingTakes
  <2> QED
    BY <2>1, <2>2, <2>3, <2>4, <2>7, ZenonT(60) DEF ShownFits
<1>2. CASE UserTypes \/ UserEnds
  <2>1. mode = "session" /\ pc # "done" /\ wire' = wire /\ printed' = printed /\ UNCHANGED clientVars
    BY ZenonT(60), <1>2 DEF UserTypes, UserEnds, peerVars
  <2>2. pc # "gathering"
    BY ZenonT(60), <2>1 DEF IInv, TypeOK
  <2> QED
    BY ZenonT(60), <2>1, <2>2, StayShows DEF clientVars
<1>3. CASE SessionInput \/ SessionEof
  <2>1. pc = "session" /\ wire' = wire /\ printed' = printed
    BY ZenonT(60), <1>3, KeepShows DEF SessionInput, SessionEof, DropRecv, peerVars
  <2>2. pc' \in {"session", "done"} /\ UNCHANGED <<mode, tid, collected, shown, erred>>
    BY ZenonT(60), <1>3, <2>1, FailShows DEF SessionInput, SessionEof, clientVars
  <2> QED
    BY ZenonT(60), <2>1, <2>2, StayShows
<1>4. CASE SessionClosed \/ SessionFails
  <2>1. /\ pc = "session" /\ pc' = "done" /\ printed' = printed
        /\ UNCHANGED <<mode, tid, collected, shown, erred>>
    BY ZenonT(60), <1>4, KeepShows, FailShows DEF SessionClosed, SessionFails
  <2>2. wire' = wire \/ \E t \in {"closed", "error", "opened"} : Next_is(t) /\ wire' = Tail(wire)
    BY ZenonT(60), <1>4 DEF SessionClosed, SessionFails, Unexpected, RecvFails, DropRecv, Take
  <2>3. wire' = wire \/ (wire # <<>> /\ wire' = Tail(wire) /\ wire[1].type # "data")
    BY ZenonT(60), <2>2, TakenIsHead
  <2> QED
    BY ZenonT(60), <2>1, <2>3, StayShows, SkipShows
<1> QED
  BY ZenonT(60), <1>1, <1>2, <1>3, <1>4 DEF Session

LEMMA Joined ==
  ASSUME NEW s \in Seq(Bytes), NEW t \in Seq(Bytes), NEW u \in Seq(Bytes)
  PROVE  (s \o t) \o u = s \o (t \o u)
  BY SMTT(60), ConcatAssociative

LEMMA TextKeepsShown ==
  ASSUME IInv, ShownFits, Text
  PROVE  ShownFits'
<1>1. CASE text_disconnect
  <2>1. pc = "ready" /\ wire' = wire /\ printed' = printed /\ pc' = "done" /\ UNCHANGED <<mode, tid, collected, shown, erred>>
    BY ZenonT(60), <1>1, KeepShows, FailShows DEF text_disconnect
  <2> QED
    BY ZenonT(60), <2>1, StayShows
<1>2. CASE text_exec
  <2>1. /\ pc = "ready" /\ pc' \in {"ready", "gathering"} /\ wire' = wire /\ collected' = <<>>
        /\ UNCHANGED <<mode, tid, shown, printed>> /\ (erred' = erred \/ erred' = TRUE)
    BY ZenonT(60), <1>2 DEF text_exec, Back, peerVars
  <2>2. mode = "text"
    BY ZenonT(60), <2>1 DEF IInv, TypeOK
  <2>3. collected = <<>>
    BY ZenonT(60), <2>1, <2>2 DEF ShownFits
  <2>4. shown' = shown /\ collected' = collected /\ printed' = printed /\ wire' = wire /\ tid' = tid /\ mode' = "text"
    BY ZenonT(60), <2>1, <2>2, <2>3
  <2>5. /\ shown \in Seq(Bytes) /\ collected \in Seq(Bytes) /\ printed \in Seq(Bytes)
        /\ tid = 0 => shown = <<>>
        /\ ~erred => Reading(shown \o collected, printed, wire)
    BY <2>1, <2>2, ZenonT(60) DEF ShownFits
  <2>6. ~erred' => ~erred
    BY <2>1, ZenonT(60)
  <2>7. (~erred => Reading(shown \o collected, printed, wire))
        => (~erred' => Reading(shown' \o collected', printed', wire'))
    BY <2>4, <2>6, ZenonT(60)
  <2> QED
    BY <2>3, <2>4, <2>5, <2>7, ZenonT(60) DEF ShownFits
<1>3. ASSUME NEW n \in 1 .. Len(wire), TextData(n) PROVE ShownFits'
  <2>1. /\ pc = "gathering" /\ Chunk(n) /\ collected' = collected \o Received(n) /\ printed' = printed
        /\ UNCHANGED <<mode, pc, tid, shown, erred>>
    BY ZenonT(60), <1>3, KeepShows DEF TextData
  <2>2. collected' \in Seq(Bytes) /\ Received(n) \in Seq(Bytes)
    BY ZenonT(60), <2>1, ShownTypes, ReceivedIsBytes, ConcatProperties
  <2>3. shown' \o collected' = (shown \o collected) \o Received(n)
    <3>1. shown \in Seq(Bytes) /\ collected \in Seq(Bytes) /\ Received(n) \in Seq(Bytes)
      BY ZenonT(60), <2>2, ShownTypes
    <3>2. (shown \o collected) \o Received(n) = shown \o (collected \o Received(n))
      BY ZenonT(60), <3>1, Joined
    <3> QED
      BY <2>1, <3>2, ZenonT(60)
  <2>4. wire' = SubSeq(wire, n + 1, Len(wire)) /\ \A p \in 1 .. n : wire[p].type = "data"
    BY ZenonT(60), <2>1 DEF Chunk
  <2>5. ASSUME Reading(shown \o collected, printed, wire) PROVE Reading(shown' \o collected', printed, wire')
    BY ZenonT(60), <2>2, <2>3, <2>4, <2>5, ShownTypes, ReceivedIsBytes, ReadingTakes
  <2> QED
    BY <2>1, <2>2, <2>5, ZenonT(60) DEF ShownFits
<1>4. CASE TextIdle \/ TextClosed
  <2>1. /\ pc = "gathering" /\ pc' = "ready" /\ shown' = shown \o collected /\ collected' = <<>> /\ printed' = printed
        /\ UNCHANGED <<mode, tid, erred>>
    BY ZenonT(60), <1>4, KeepShows DEF TextIdle, TextClosed, Back
  <2>2. tid # 0
    BY ZenonT(60), <2>1 DEF IInv, OpensOnce, Trying
  <2>3. wire' = wire \/ (Next_is("closed") /\ wire' = Tail(wire))
    BY ZenonT(60), <1>4 DEF TextIdle, TextClosed, DropRecv, Take
  <2>4. wire' = wire \/ (wire # <<>> /\ wire' = Tail(wire) /\ wire[1].type # "data")
    BY SMTT(60), <2>3, TakenIsHead
  <2>5. shown' \in Seq(Bytes) /\ shown' \o collected' = shown \o collected /\ collected' \in Seq(Bytes)
    BY SMTT(60), <2>1, ShownTypes, ConcatEmptySeq
  <2>6. ASSUME Reading(shown \o collected, printed, wire) PROVE Reading(shown' \o collected', printed, wire')
    BY ZenonT(60), <2>4, <2>5, <2>6, ShownTypes, ReadingSkips
  <2> QED
    BY <2>1, <2>2, <2>5, <2>6, ZenonT(60) DEF ShownFits
<1>5. CASE TextFails \/ TextTimesOut
  <2>1. /\ pc = "gathering" /\ collected' = <<>> /\ erred' = TRUE /\ UNCHANGED <<mode, tid, shown, printed>>
    BY ZenonT(60), <1>5, KeepShows DEF TextFails, TextTimesOut, Back
  <2>2. tid # 0 /\ <<>> \in Seq(Bytes)
    BY SMTT(60), <2>1 DEF IInv, OpensOnce, Trying
  <2> QED
    BY <2>1, <2>2, ZenonT(60) DEF ShownFits
<1> QED
  BY Zenon, <1>1, <1>2, <1>3, <1>4, <1>5 DEF Text

LEMMA ShownIsRead ==
  ASSUME IInv, ShownFits
  PROVE  ShownIsPrefix
<1> SUFFICES ASSUME mode \in {"session", "text"}, ~erred
             PROVE  Len(shown) <= Len(printed) /\ shown = SubSeq(printed, 1, Len(shown))
  BY Zenon DEF ShownIsPrefix
<1> DEFINE k == shown \o collected
<1>1. shown \in Seq(Bytes) /\ collected \in Seq(Bytes) /\ printed \in Seq(Bytes) /\ k \in Seq(Bytes)
  BY ZenonT(60), ShownTypes
<1>2. CASE tid = 0
  <2>1. shown = <<>> /\ Len(shown) = 0
    BY ZenonT(60), <1>2 DEF ShownFits
  <2>2. SubSeq(printed, 1, 0) = <<>>
    BY SubSeqEmpty
  <2> QED
    BY SMTT(60), <1>1, <2>1, <2>2
<1>3. CASE tid # 0
  <2>1. Reading(k, printed, wire)
    BY <1>3, ZenonT(60) DEF ShownFits
  <2>2. Len(k) = Len(shown) + Len(collected) /\ \A p \in 1 .. Len(shown) : k[p] = shown[p]
    BY SMTT(60), <1>1, ConcatProperties
  <2>3. wire \in Seq(Responses) /\ Len(wire) \in Nat
    BY ShownTypes
  <2>4. DataCount(wire, Len(wire)) \in Nat
    BY ZenonT(60), <2>3, CountIsNat
  <2> HIDE DEF k
  <2>5. Len(shown) \in Nat /\ Len(collected) \in Nat /\ Len(printed) \in Nat
    BY SMTT(60), <1>1
  <2>6. Len(printed) = Len(k) + DataCount(wire, Len(wire)) /\ \A p \in 1 .. Len(k) : k[p] = printed[p]
    BY ZenonT(60), <2>1 DEF Reading
  <2>7. Len(shown) <= Len(printed) /\ \A p \in 1 .. Len(shown) : p \in 1 .. Len(k) /\ shown[p] = printed[p]
    BY SMTT(60), <2>2, <2>4, <2>5, <2>6
  <2>8. \A p \in 1 .. Len(shown) : printed[p] \in Bytes
    BY SMTT(60), <1>1, <2>5, <2>7
  <2>9. /\ SubSeq(printed, 1, Len(shown)) \in Seq(Bytes) /\ Len(SubSeq(printed, 1, Len(shown))) = Len(shown)
        /\ \A p \in 1 .. Len(shown) : SubSeq(printed, 1, Len(shown))[p] = printed[p]
    BY SMTT(60), <2>5, <2>8, SubSeqProperties
  <2>10. \A p \in 1 .. Len(shown) : shown[p] = SubSeq(printed, 1, Len(shown))[p]
    BY <2>7, <2>9, ZenonT(60)
  <2> QED
    BY ZenonT(60), <1>1, <2>7, <2>9, <2>10, SeqEqual
<1> QED
  BY ZenonT(60), <1>2, <1>3

LEMMA StepShownFits == IInv /\ ShownFits /\ [Next]_vars => ShownFits'
<1>1. ASSUME IInv, ShownFits, UNCHANGED vars PROVE ShownFits'
  BY ZenonT(60), <1>1, ShownTypes, PeerShows DEF vars, peerVars
<1> QED
  BY ZenonT(60), <1>1, PeerKeepsShown, OpenKeepsShown, ExecKeepsShown, SessionKeepsShown, TextKeepsShown DEF Next

LEMMA InitShownFits == Init => ShownFits
<1> SUFFICES ASSUME Init PROVE ShownFits
  BY ZenonT(60)
<1>1. shown = <<>> /\ collected = <<>> /\ printed = <<>> /\ wire = <<>> /\ <<>> \in Seq(Bytes) /\ Len(<<>>) = 0
  BY DEF Init
<1>2. <<>> \o <<>> = <<>>
  OBVIOUS
<1>3. Reading(<<>>, <<>>, <<>>)
  BY <1>1, NothingYet DEF Reading
<1> QED
  BY ZenonT(60), <1>1, <1>2, <1>3 DEF ShownFits

(* What run_terminal_session writes to stdout, and what the text_execs of a   *)
(* text session return one after another, is what the terminal printed, from  *)
(* the beginning and without a gap, for any output and any number of inputs,  *)
(* although keys and timeouts drop the recv they race with.                   *)
THEOREM ShownCorrect == Spec => []ShownIsPrefix
<1>1. IInv /\ ShownFits => ShownIsPrefix
  BY ZenonT(60), ShownIsRead
<1>2. Spec => []ShownFits
  BY InitShownFits, StepShownFits, Invariance, PTL DEF Spec
<1> QED
  BY <1>1, <1>2, Invariance, PTL
=============================================================================
