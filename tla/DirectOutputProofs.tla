------------------------- MODULE DirectOutputProofs -------------------------
(***************************************************************************)
(* Proof about DirectTerminal: that an exec on a connection of its own     *)
(* returns what its command printed and its exit code, for any output, any *)
(* noise around it and any way it is cut into chunks.                      *)
(***************************************************************************)
EXTENDS DirectTerminal, TerminalOutputProofs

-----------------------------------------------------------------------------
(* Sequences.                                                                 *)

LEMMA ConcatProperties ==
  ASSUME NEW S, NEW s1 \in Seq(S), NEW s2 \in Seq(S)
  PROVE  /\ s1 \o s2 \in Seq(S) /\ Len(s1 \o s2) = Len(s1) + Len(s2)
         /\ \A i \in 1 .. Len(s1) + Len(s2) :
               (s1 \o s2)[i] = IF i <= Len(s1) THEN s1[i] ELSE s2[i - Len(s1)]
  OBVIOUS

LEMMA BytesAssociative ==
  ASSUME NEW s \in Seq(Bytes), NEW t \in Seq(Bytes), NEW u \in Seq(Bytes)
  PROVE  (s \o t) \o u = s \o (t \o u)
  OBVIOUS

LEMMA ConcatEmptySeq ==
  ASSUME NEW S, NEW seq \in Seq(S)
  PROVE  seq \o <<>> = seq /\ <<>> \o seq = seq
  OBVIOUS

LEMMA TailProperties ==
  ASSUME NEW S, NEW s \in Seq(S), s # <<>>
  PROVE  /\ Tail(s) \in Seq(S) /\ Len(Tail(s)) = Len(s) - 1 /\ Len(s) \in Nat \ {0}
         /\ \A i \in 1 .. Len(s) - 1 : Tail(s)[i] = s[i + 1]
         /\ Head(s) = s[1] /\ s[1] \in S /\ Head(s) \in S
  OBVIOUS

LEMMA AppendProperties ==
  ASSUME NEW S, NEW s \in Seq(S), NEW e \in S
  PROVE  /\ Append(s, e) \in Seq(S) /\ Len(Append(s, e)) = Len(s) + 1
         /\ \A i \in 1 .. Len(s) : Append(s, e)[i] = s[i]
         /\ Append(s, e)[Len(s) + 1] = e
  OBVIOUS

-----------------------------------------------------------------------------
(* Types.                                                                     *)

LEMMA DataIsResponses ==
  ASSUME NEW id \in {1, 2}, NEW bytes \in Seq(Bytes)
  PROVE  /\ Data(id, bytes) \in Seq(Responses)
         /\ Len(Data(id, bytes)) = Len(bytes)
         /\ \A p \in 1 .. Len(bytes) : Data(id, bytes)[p].type = "data" /\ Data(id, bytes)[p].byte = bytes[p]
<1> DEFINE d == Data(id, bytes)
<1>1. DOMAIN bytes = 1 .. Len(bytes) /\ Len(bytes) \in Nat /\ \A p \in 1 .. Len(bytes) : bytes[p] \in Bytes
  OBVIOUS
<1>2. d = [p \in 1 .. Len(bytes) |-> [type |-> "data", id |-> id, byte |-> bytes[p]]]
  BY Zenon, <1>1 DEF Data
<1>3. \A p \in 1 .. Len(bytes) : [type |-> "data", id |-> id, byte |-> bytes[p]] \in Responses
  BY Zenon, <1>1 DEF Responses
<1> HIDE DEF d
<1>4. d \in Seq(Responses) /\ Len(d) = Len(bytes)
  BY <1>1, <1>2, <1>3
<1>5. \A p \in 1 .. Len(bytes) : d[p].type = "data" /\ d[p].byte = bytes[p]
  BY Zenon, <1>2
<1> QED
  BY Zenon, <1>4, <1>5 DEF d

LEMMA ResponseIsResponses ==
  ASSUME NEW id \in {1, 2}, NEW t \in {"opened", "closed", "error"}
  PROVE  /\ Response(t, id) \in Seq(Responses) /\ Len(Response(t, id)) = 1
         /\ Response(t, id)[1].type = t /\ Response(t, id)[1].byte = [ch |-> "-", of |-> 0]
<1>1. [ch |-> "-", of |-> 0] \in Bytes
  BY Zenon, 0 \in Nat DEF Bytes, Letters
<1>2. [type |-> t, id |-> id, byte |-> [ch |-> "-", of |-> 0]] \in Responses
  BY Zenon, <1>1 DEF Responses
<1> QED
  BY <1>2 DEF Response

LEMMA TranscriptIsBytes ==
  ASSUME NEW out \in Outputs, NEW code \in Codes
  PROVE  /\ out \in Seq({"x", "n"}) /\ code \in Seq(Digits)
         /\ Transcript(1, [out |-> out, code |-> code]) \in Seq(Bytes)
<1>1. out \in Seq({"x", "n"}) /\ code \in Seq(Digits) /\ 1 \in Nat
  BY Zenon, DirectAssumption, 1 \in Nat
<1> QED
  BY Zenon, <1>1, TranscriptParts DEF LaidOut

(* What a terminal prints by itself. *)
LEMMA NoiseParts ==
  ASSUME NEW s \in Seq(Letters)
  PROVE  By(0, s) \in Seq(Bytes) /\ \A i \in 1 .. Len(By(0, s)) : By(0, s)[i].of = 0
<1> DEFINE b == By(0, s)
           z == 0
<1>0. z \in Nat /\ b = By(z, s)
  OBVIOUS
<1> HIDE DEF b, z
<1>1. b \in Seq(Bytes) /\ Len(b) = Len(s) /\ \A i \in 1 .. Len(s) : b[i] = [ch |-> s[i], of |-> z]
  <2>1. /\ By(z, s) \in Seq(Bytes) /\ Len(By(z, s)) = Len(s)
        /\ \A i \in 1 .. Len(s) : By(z, s)[i] = [ch |-> s[i], of |-> z]
    BY Zenon, <1>0, ByParts
  <2> QED
    BY Zenon, <1>0, <2>1
<1>2. ASSUME NEW i \in 1 .. Len(b) PROVE b[i].of = z
  <2>1. b[i] = [ch |-> s[i], of |-> z]
    BY Zenon, <1>1
  <2> QED
    BY <2>1
<1> QED
  BY Zenon, <1>1, <1>2 DEF b, z

LEMMA NoiseIsBytes ==
  ASSUME NEW s \in {<<>>, <<"p">>, <<"b">>}
  PROVE  By(0, s) \in Seq(Bytes) /\ \A i \in 1 .. Len(By(0, s)) : By(0, s)[i].of = 0
<1>1. "p" \in Letters /\ "b" \in Letters
  BY Zenon DEF Letters
<1>2. <<>> \in Seq(Letters) /\ <<"p">> \in Seq(Letters) /\ <<"b">> \in Seq(Letters)
  BY <1>1
<1>3. s \in Seq(Letters)
  BY Zenon, <1>2
<1> QED
  BY Zenon, <1>3, NoiseParts

LEMMA EchoIsBytes ==
  ASSUME NEW i \in Nat
  PROVE  By(i, <<"e", "x">>) \in Seq(Bytes)
<1>1. "e" \in Letters /\ "x" \in Letters
  BY DEF Letters
<1>2. <<"e", "x">> \in Seq(Letters)
  BY <1>1
<1> QED
  BY Zenon, <1>2, ByParts

(* Where the client may be, with terminal i. *)
Placed(p, i) ==
    /\ p \in {"connecting", "probing", "opening", "draining", "collecting", "session",
              "ready", "gathering", "done"}
    /\ p \in {"draining", "collecting"} => mode = "exec"
    /\ p \in {"probing", "session"} => mode = "session"
    /\ p \in {"ready", "gathering"} => mode = "text"
    /\ i \in 0 .. 2 /\ (p \in Trying => i = 0) /\ (p \notin Trying \cup {"done"} => i # 0)

(* What a step of the client does to the wire, and to the actions. *)
Reads ==
    \/ wire' = wire
    \/ wire # <<>> /\ wire' = Tail(wire)
    \/ \E n \in 1 .. Len(wire) : wire' = SubSeq(wire, n + 1, Len(wire))

Sends == toPeer' = toPeer \/ \E a \in Actions : toPeer' = Append(toPeer, a)

LEMMA SequenceTypes ==
  ASSUME Typed
  PROVE  /\ wire \in Seq(Responses) /\ toPeer \in Seq(Actions) /\ opened \subseteq {1, 2}
         /\ stdin \in Seq(Nat) /\ ran \in Seq(Nat) /\ typed \in Nat
  BY Zenon DEF Typed, TypeOK

LEMMA ReadsTyped ==
  ASSUME Typed, Reads
  PROVE  wire' \in Seq(Responses)
<1>1. CASE wire # <<>> /\ wire' = Tail(wire)
  BY Zenon, <1>1, SequenceTypes, TailProperties
<1>2. ASSUME NEW n \in 1 .. Len(wire), wire' = SubSeq(wire, n + 1, Len(wire)) PROVE wire' \in Seq(Responses)
  <2>1. n + 1 \in Int /\ Len(wire) \in Int /\ \A i \in n + 1 .. Len(wire) : wire[i] \in Responses
    BY SequenceTypes
  <2> QED
    BY Zenon, <1>2, <2>1, SubSeqProperties
<1> QED
  BY Zenon, <1>1, <1>2, SequenceTypes DEF Reads

LEMMA SendsTyped ==
  ASSUME Typed, Sends
  PROVE  toPeer' \in Seq(Actions)
  BY ZenonT(60), SequenceTypes, AppendProperties DEF Sends

LEMMA ClientTyped ==
  ASSUME Typed, Reads, Sends, stream' = stream \/ stream' = "desynced", mode' = mode, Placed(pc', tid'),
         typed' \in Nat, stdin' \in Seq(Nat), UNCHANGED <<ran, opened>>
  PROVE  Typed'
<1>1. mode' \in {"exec", "session", "text"} /\ stream' \in {"up", "desynced", "broken"}
  BY Zenon DEF Typed, TypeOK
<1>2. ran' \in Seq(Nat) /\ opened' \subseteq {1, 2}
  BY Zenon, SequenceTypes
<1> QED
  BY Zenon, <1>1, <1>2, ReadsTyped, SendsTyped DEF Typed, TypeOK, Placed

LEMMA IsPlaced ==
  ASSUME Typed
  PROVE  Placed(pc, tid) /\ Placed("done", tid)
  BY Zenon DEF Typed, TypeOK, Placed, Trying

LEMMA SendSends ==
  ASSUME Typed, pc \notin Trying \cup {"done"}, NEW t \in {"data", "close"}, NEW i \in Nat, Send(Action(t, i))
  PROVE  Sends
<1>1. tid \in 0 .. 2 /\ tid # 0
  BY Zenon DEF Typed, TypeOK
<1>2. tid \in {1, 2}
  BY <1>1
<1>3. Action(t, i) \in Actions
  BY Zenon, <1>2 DEF Action, Actions
<1> QED
  BY Zenon, <1>3 DEF Send, Sends

LEMMA OpenSends ==
  ASSUME Send([type |-> "open", id |-> 2, input |-> 0])
  PROVE  Sends
<1>1. [type |-> "open", id |-> 2, input |-> 0] \in Actions
  BY DEF Actions
<1> QED
  BY Zenon, <1>1 DEF Send, Sends

LEMMA ChunkReads ==
  ASSUME NEW n \in 1 .. Len(wire), Chunk(n)
  PROVE  Reads /\ stream' = stream
  BY Zenon DEF Chunk, Reads

LEMMA TakeReads ==
  ASSUME NEW t, Next_is(t), wire' = Tail(wire)
  PROVE  Reads
  BY Zenon DEF Next_is, Reads

LEMMA DropReads ==
  ASSUME DropRecv
  PROVE  Reads /\ (stream' = stream \/ stream' = "desynced")
  BY Zenon DEF DropRecv, Reads

LEMMA FailPlaces ==
  ASSUME Typed, NEW r, Return(r)
  PROVE  mode' = mode /\ Placed(pc', tid') /\ pc' = "done"
  BY Zenon, IsPlaced DEF Return

LEMMA KeepTypes ==
  ASSUME Typed, Keep
  PROVE  typed' \in Nat /\ stdin' \in Seq(Nat) /\ UNCHANGED <<ran, opened>>
  BY Zenon, SequenceTypes DEF Keep, inputVars, peerVars

LEMMA OpenTyped ==
  ASSUME Typed, Open
  PROVE  Typed'
<1>1. ASSUME NEW next, TakeOpened(next), \A i \in {1, 2} : Placed(next, i) PROVE Typed'
  <2>1. Next_is("opened") /\ wire # <<>>
    BY Zenon, <1>1 DEF TakeOpened, Next_is
  <2>2. Head(wire) \in Responses
    BY Zenon, <2>1, SequenceTypes, TailProperties
  <2>3. tid' \in {1, 2} /\ pc' = next /\ mode' = mode /\ wire' = Tail(wire) /\ stream' = stream /\ toPeer' = toPeer /\ Keep
    BY Zenon, <1>1, <2>2 DEF TakeOpened, Take, Responses
  <2> QED
    BY Zenon, <1>1, <2>1, <2>3, TakeReads, KeepTypes, ClientTyped DEF Sends
<1>2. ASSUME pc \in Trying PROVE tid = 0 /\ Placed("opening", tid) /\ (mode = "session" => Placed("probing", tid))
  BY Zenon, <1>2 DEF Typed, TypeOK, Placed, Trying
<1>3. CASE Connected
  <2>1. pc \in Trying /\ Keep /\ stream' = stream /\ Reads
    BY Zenon, <1>3 DEF Connected, Trying, Reads
  <2>2. Sends
    BY Zenon, <1>3, OpenSends DEF Connected, Sends
  <2>3. mode' = mode /\ Placed(pc', tid')
    BY Zenon, <1>2, <1>3, <2>1, FailPlaces DEF Connected, Goto, Fail
  <2> QED
    BY Zenon, <2>1, <2>2, <2>3, KeepTypes, ClientTyped
<1>4. CASE ConnectFails
  <2>1. mode' = mode /\ Placed(pc', tid') /\ Keep /\ stream' = stream /\ Reads /\ Sends
    BY Zenon, <1>4, FailPlaces DEF ConnectFails, Fail, Reads, Sends
  <2> QED
    BY Zenon, <2>1, KeepTypes, ClientTyped
<1>5. CASE ProbeTimesOut
  <2>1. pc \in Trying /\ Keep /\ DropRecv
    BY Zenon, <1>5 DEF ProbeTimesOut, Trying
  <2>2. Sends
    BY Zenon, <1>5, OpenSends DEF ProbeTimesOut
  <2>3. mode' = mode /\ Placed(pc', tid')
    BY Zenon, <1>2, <1>5, <2>1, FailPlaces DEF ProbeTimesOut, Goto, Fail
  <2> QED
    BY Zenon, <2>1, <2>2, <2>3, DropReads, KeepTypes, ClientTyped
<1>6. CASE ProbeFails \/ OpenFails
  <2>1. Keep /\ mode' = mode /\ Placed(pc', tid')
    BY Zenon, <1>6, FailPlaces DEF ProbeFails, OpenFails, Fail
  <2>2. Reads /\ Sends /\ (stream' = stream \/ stream' = "desynced")
    BY Zenon, <1>6, DropReads DEF ProbeFails, OpenFails, Unexpected, RecvFails, Next_is, Take, Reads, Sends
  <2> QED
    BY Zenon, <2>1, <2>2, KeepTypes, ClientTyped
<1>7. CASE ProbeOpened
  <2>1. mode = "session"
    BY Zenon, <1>7 DEF ProbeOpened, Typed, TypeOK
  <2>2. \A i \in {1, 2} : Placed("session", i)
    BY <2>1 DEF Placed, Trying
  <2> QED
    BY Zenon, <1>1, <1>7, <2>2 DEF ProbeOpened
<1>8. CASE OpenSucceeds
  <2>1. mode \in {"exec", "session", "text"}
    BY Zenon DEF Typed, TypeOK
  <2>2. PICK next \in {"draining", "session", "ready"} :
           /\ TakeOpened(next)
           /\ next = "draining" => mode = "exec"
           /\ next = "session" => mode = "session"
           /\ next = "ready" => mode = "text"
    BY Zenon, <1>8, <2>1 DEF OpenSucceeds
  <2>3. \A i \in {1, 2} : i \in 0 .. 2 /\ i # 0
    OBVIOUS
  <2>4. \A i \in {1, 2} : Placed(next, i)
    BY Zenon, <2>2, <2>3 DEF Placed, Trying
  <2> QED
    BY Zenon, <1>1, <2>2, <2>4
<1> QED
  BY Zenon, <1>3, <1>4, <1>5, <1>6, <1>7, <1>8 DEF Open

LEMMA ExecTyped ==
  ASSUME Typed, Exec
  PROVE  Typed'
<1>1. pc \in {"draining", "collecting"} /\ Keep
  BY Zenon DEF Exec, DrainData, DrainClosed, DrainFails, SendCommand, CollectData, CollectClosed, CollectFails,
         CollectTimesOut
<1>2. pc \notin Trying \cup {"done"} /\ tid # 0 /\ mode = "exec"
  BY Zenon, <1>1 DEF Trying, Typed, TypeOK
<1>3. Placed("collecting", tid)
  BY Zenon, <1>2 DEF Placed, Trying, Typed, TypeOK
<1>4. Send(CloseAction) \/ Send(Action("data", 1)) => Sends
  BY Zenon, <1>2, SendSends, 0 \in Nat, 1 \in Nat DEF CloseAction
<1>5. CASE DrainData
  BY Zenon, <1>1, <1>5, KeepTypes, IsPlaced, TakeReads, ClientTyped DEF DrainData, Take, Sends, clientVars
<1>6. CASE DrainClosed
  BY Zenon, <1>1, <1>6, KeepTypes, FailPlaces, TakeReads, ClientTyped DEF DrainClosed, Take, Sends, Fail
<1>7. CASE DrainFails \/ CollectFails \/ CollectClosed
  <2>1. Reads
    BY Zenon, <1>7 DEF DrainFails, CollectFails, CollectClosed, Reads, Next_is
  <2>2. Sends /\ stream' = stream
    BY Zenon, <1>4, <1>7 DEF DrainFails, CollectFails, CollectClosed
  <2>3. mode' = mode /\ Placed(pc', tid')
    BY Zenon, <1>7, FailPlaces DEF DrainFails, CollectFails, CollectClosed, Fail
  <2> QED
    BY Zenon, <1>1, <2>1, <2>2, <2>3, KeepTypes, ClientTyped
<1>8. CASE SendCommand
  <2>1. mode' = mode /\ Placed(pc', tid')
    BY Zenon, <1>3, <1>8, FailPlaces DEF SendCommand, Goto, Fail
  <2> QED
    BY Zenon, <1>1, <1>4, <1>8, <2>1, DropReads, KeepTypes, ClientTyped DEF SendCommand
<1>9. ASSUME NEW n \in 1 .. Len(wire), CollectData(n) PROVE Typed'
  <2>1. Reads /\ stream' = stream
    BY Zenon, <1>9, ChunkReads DEF CollectData
  <2>2. Sends
    BY Zenon, <1>4, <1>9 DEF CollectData, Complete, Sends
  <2>3. mode' = mode /\ Placed(pc', tid')
    BY Zenon, <1>9, IsPlaced, FailPlaces DEF CollectData, Complete
  <2> QED
    BY Zenon, <1>1, <2>1, <2>2, <2>3, KeepTypes, ClientTyped
<1>10. CASE CollectTimesOut
  <2>1. Sends /\ mode' = mode /\ Placed(pc', tid')
    BY Zenon, <1>4, <1>10, FailPlaces DEF CollectTimesOut, Complete
  <2> QED
    BY Zenon, <1>1, <1>10, <2>1, DropReads, KeepTypes, ClientTyped DEF CollectTimesOut
<1> QED
  BY Zenon, <1>5, <1>6, <1>7, <1>8, <1>9, <1>10 DEF Exec

LEMMA SessionTyped ==
  ASSUME Typed, Session
  PROVE  Typed'
<1>1. ASSUME pc = "session"
      PROVE  /\ pc \notin Trying \cup {"done"}
             /\ \A i \in Nat : Send(Action("data", i)) \/ Send(CloseAction) => Sends
  <2>1. pc \notin Trying \cup {"done"}
    BY Zenon, <1>1 DEF Trying
  <2> QED
    BY Zenon, <2>1, SendSends, 0 \in Nat DEF CloseAction
<1>2. CASE UserTypes
  <2>1. typed + 1 \in Nat
    BY SequenceTypes
  <2>2. typed' \in Nat /\ stdin' \in Seq(Nat)
    BY Zenon, <1>2, <2>1, SequenceTypes, AppendProperties DEF UserTypes
  <2>3. UNCHANGED <<mode, pc, tid, stream, toPeer, wire, ran, opened>>
    BY Zenon, <1>2 DEF UserTypes, clientVars, peerVars
  <2> QED
    BY Zenon, <2>2, <2>3, IsPlaced, ClientTyped DEF Reads, Sends
<1>3. CASE UserEnds
  <2>1. UNCHANGED <<mode, pc, tid, typed, stdin, stream, toPeer, wire, ran, opened>>
    BY Zenon, <1>3 DEF UserEnds, clientVars, peerVars
  <2> QED
    BY ZenonT(60), <2>1, IsPlaced, SequenceTypes, ClientTyped DEF Reads, Sends
<1>4. CASE SessionInput
  <2>1. stdin' \in Seq(Nat) /\ Head(stdin) \in Nat /\ pc = "session"
    BY Zenon, <1>4, SequenceTypes, TailProperties DEF SessionInput
  <2>2. typed' \in Nat /\ UNCHANGED <<ran, opened>>
    BY Zenon, <1>4, SequenceTypes DEF SessionInput, peerVars
  <2>3. mode' = mode /\ Placed(pc', tid')
    BY Zenon, <1>4, IsPlaced, FailPlaces DEF SessionInput, Fail, clientVars
  <2>4. Sends
    BY Zenon, <1>1, <1>4, <2>1 DEF SessionInput
  <2> QED
    BY Zenon, <1>4, <2>1, <2>2, <2>3, <2>4, DropReads, ClientTyped DEF SessionInput
<1>5. CASE SessionEof
  <2>1. mode' = mode /\ Placed(pc', tid') /\ Keep /\ DropRecv
    BY Zenon, <1>5, FailPlaces DEF SessionEof, Fail
  <2>2. Sends
    BY Zenon, <1>1, <1>5, 0 \in Nat DEF SessionEof
  <2> QED
    BY Zenon, <2>1, <2>2, DropReads, KeepTypes, ClientTyped
<1>6. ASSUME NEW n \in 1 .. Len(wire), SessionData(n) PROVE Typed'
  <2>1. Keep /\ UNCHANGED <<mode, pc, tid, toPeer>> /\ Chunk(n)
    BY Zenon, <1>6 DEF SessionData
  <2> QED
    BY Zenon, <2>1, IsPlaced, ChunkReads, KeepTypes, ClientTyped DEF Sends
<1>7. CASE SessionClosed \/ SessionFails
  <2>1. Keep /\ mode' = mode /\ Placed(pc', tid')
    BY Zenon, <1>7, FailPlaces DEF SessionClosed, SessionFails, Fail
  <2>2. Reads /\ Sends /\ (stream' = stream \/ stream' = "desynced")
    BY Zenon, <1>7, DropReads DEF SessionClosed, SessionFails, Unexpected, RecvFails, Next_is, Take, Reads, Sends
  <2> QED
    BY Zenon, <2>1, <2>2, KeepTypes, ClientTyped
<1> QED
  BY Zenon, <1>2, <1>3, <1>4, <1>5, <1>6, <1>7 DEF Session

LEMMA TextTyped ==
  ASSUME Typed, Text
  PROVE  Typed'
<1>1. pc \in {"ready", "gathering"}
  BY Zenon DEF Text, text_exec, text_disconnect, TextData, TextIdle, TextClosed, TextFails, TextTimesOut
<1>2. pc \notin Trying \cup {"done"} /\ tid # 0 /\ mode = "text"
  BY Zenon, <1>1 DEF Trying, Typed, TypeOK
<1>3. Placed("ready", tid) /\ Placed("gathering", tid)
  BY Zenon, <1>2 DEF Placed, Trying, Typed, TypeOK
<1>4. ASSUME NEW p \in {"ready", "gathering"}, Back(p) PROVE mode' = mode /\ Placed(pc', tid')
  BY Zenon, <1>3, <1>4 DEF Back
<1>5. CASE text_exec
  <2>1. typed + 1 \in Nat
    BY SequenceTypes
  <2>2. typed' \in Nat /\ stdin' \in Seq(Nat) /\ UNCHANGED <<ran, opened, stream, wire>>
    BY Zenon, <1>5, <2>1, SequenceTypes DEF text_exec, peerVars
  <2>3. Sends
    BY Zenon, <1>2, <1>5, <2>2, SendSends DEF text_exec
  <2>4. mode' = mode /\ Placed(pc', tid')
    BY Zenon, <1>4, <1>5 DEF text_exec
  <2> QED
    BY Zenon, <2>2, <2>3, <2>4, ClientTyped DEF Reads
<1>6. CASE text_disconnect
  <2>1. Sends
    BY Zenon, <1>2, <1>6, SendSends, 0 \in Nat DEF text_disconnect, CloseAction
  <2>2. mode' = mode /\ Placed(pc', tid') /\ Keep /\ UNCHANGED <<stream, wire>>
    BY Zenon, <1>6, FailPlaces DEF text_disconnect, Fail
  <2> QED
    BY Zenon, <2>1, <2>2, KeepTypes, ClientTyped DEF Reads
<1>7. ASSUME NEW n \in 1 .. Len(wire), TextData(n) PROVE Typed'
  <2>1. Keep /\ UNCHANGED <<mode, pc, tid, toPeer>> /\ Chunk(n)
    BY Zenon, <1>7 DEF TextData
  <2> QED
    BY Zenon, <2>1, IsPlaced, ChunkReads, KeepTypes, ClientTyped DEF Sends
<1>8. CASE TextIdle \/ TextClosed \/ TextFails \/ TextTimesOut
  <2>1. Keep /\ Back("ready")
    BY Zenon, <1>8 DEF TextIdle, TextClosed, TextFails, TextTimesOut
  <2>2. Reads /\ Sends /\ (stream' = stream \/ stream' = "desynced")
    BY Zenon, <1>8, DropReads DEF TextIdle, TextClosed, TextFails, TextTimesOut, Unexpected, RecvFails, Next_is, Take,
          Reads, Sends
  <2> QED
    BY Zenon, <1>4, <2>1, <2>2, KeepTypes, ClientTyped
<1> QED
  BY Zenon, <1>5, <1>6, <1>7, <1>8 DEF Text

LEMMA PeerStepTyped ==
  ASSUME Typed, UNCHANGED <<clientVars, inputVars>>, stream' \in {"up", "desynced", "broken"},
         wire' \in Seq(Responses), toPeer' \in Seq(Actions), opened' \subseteq {1, 2}, ran' \in Seq(Nat)
  PROVE  Typed'
<1>1. UNCHANGED <<mode, pc, tid, typed, stdin>>
  BY Zenon DEF clientVars, inputVars
<1> QED
  BY Zenon, <1>1 DEF Typed, TypeOK

LEMMA PeerTakesTyped ==
  ASSUME Typed, NEW t, PeerTakes(t)
  PROVE  /\ toPeer # <<>> /\ toPeer' = Tail(toPeer) /\ toPeer' \in Seq(Actions)
         /\ Head(toPeer) = toPeer[1] /\ toPeer[1] \in Actions /\ toPeer[1].type = t
         /\ toPeer[1].id \in {1, 2} /\ toPeer[1].input \in Nat
<1>1. toPeer # <<>> /\ toPeer' = Tail(toPeer) /\ Head(toPeer).type = t
  BY Zenon DEF PeerTakes
<1>2. toPeer' \in Seq(Actions) /\ Head(toPeer) = toPeer[1] /\ toPeer[1] \in Actions
  BY Zenon, <1>1, SequenceTypes, TailProperties
<1> QED
  BY Zenon, <1>1, <1>2 DEF Actions

LEMMA PrintsTyped ==
  ASSUME Typed, NEW id \in {1, 2}, NEW b \in Seq(Bytes), wire' = wire \o Data(id, b)
  PROVE  wire' \in Seq(Responses)
  BY Zenon, SequenceTypes, DataIsResponses, ConcatProperties

LEMMA RepliesTyped ==
  ASSUME Typed, NEW id \in {1, 2}, NEW t \in {"opened", "closed", "error"}, wire' = wire \o Response(t, id)
  PROVE  wire' \in Seq(Responses)
  BY Zenon, SequenceTypes, ResponseIsResponses, ConcatProperties

(* A terminal is opened, with a prompt or without, or is not. *)
OpensWith(id, b) == wire' = (wire \o Response("opened", id)) \o Data(id, b) /\ printed' = printed \o b

LEMMA OpensCases ==
  ASSUME NEW id, Opens(id)
  PROVE  \/ wire' = wire \o Response("error", id) /\ UNCHANGED <<opened, printed>>
         \/ /\ opened' = opened \cup {id}
            /\ \E b \in Seq(Bytes) : OpensWith(id, b) /\ \A i \in 1 .. Len(b) : b[i].of = 0
<1>1. ASSUME opened' = opened \cup {id}, NEW prompt \in {<<>>, <<"p">>},
             wire' = wire \o Response("opened", id) \o Data(id, By(0, prompt)), printed' = printed \o By(0, prompt)
      PROVE  \E b \in Seq(Bytes) : OpensWith(id, b) /\ \A i \in 1 .. Len(b) : b[i].of = 0
  <2>1. By(0, prompt) \in Seq(Bytes) /\ \A i \in 1 .. Len(By(0, prompt)) : By(0, prompt)[i].of = 0
    BY Zenon, NoiseIsBytes
  <2> QED
    BY Zenon, <1>1, <2>1 DEF OpensWith
<1> QED
  BY Zenon, <1>1 DEF Opens

LEMMA OpensTyped ==
  ASSUME Typed, NEW id \in {1, 2}, Opens(id)
  PROVE  wire' \in Seq(Responses) /\ opened' \subseteq {1, 2}
<1>1. ASSUME NEW b \in Seq(Bytes), OpensWith(id, b) PROVE wire' \in Seq(Responses)
  <2>1. wire \o Response("opened", id) \in Seq(Responses) /\ Data(id, b) \in Seq(Responses)
    BY Zenon, SequenceTypes, ResponseIsResponses, DataIsResponses, ConcatProperties
  <2> QED
    BY Zenon, <1>1, <2>1, ConcatProperties DEF OpensWith
<1> QED
  BY ZenonT(60), <1>1, SequenceTypes, OpensCases, RepliesTyped

LEMMA PeerTyped ==
  ASSUME Typed, Peer
  PROVE  Typed'
<1>1. stream \in {"up", "desynced", "broken"} /\ toPeer \in Seq(Actions) /\ wire \in Seq(Responses)
      /\ ran \in Seq(Nat) /\ opened \subseteq {1, 2}
  BY Zenon DEF Typed, TypeOK
<1>2. CASE PeerOpensUnasked
  BY Zenon, <1>1, <1>2, OpensTyped, PeerStepTyped DEF PeerOpensUnasked
<1>3. CASE PeerOpens
  BY Zenon, <1>1, <1>3, OpensTyped, PeerTakesTyped, PeerStepTyped DEF PeerOpens
<1>4. CASE PeerRuns
  <2>1. PeerTakes("data") /\ UNCHANGED <<clientVars, inputVars, stream, opened>>
    BY Zenon, <1>4 DEF PeerRuns
  <2>2. \/ UNCHANGED <<ran, wire>>
        \/ /\ ran' = Append(ran, Head(toPeer).input)
           /\ \/ \E out \in Outputs, code \in Codes :
                    wire' = wire \o Data(Head(toPeer).id, Transcript(1, [out |-> out, code |-> code]))
              \/ wire' = wire \o Data(Head(toPeer).id, By(Head(toPeer).input, <<"e", "x">>))
    BY Zenon, <1>4 DEF PeerRuns, Prints
  <2>3. Head(toPeer).id \in {1, 2} /\ Head(toPeer).input \in Nat /\ toPeer' \in Seq(Actions)
    BY Zenon, <2>1, PeerTakesTyped
  <2>4. wire' \in Seq(Responses)
    BY Zenon, <1>1, <2>2, <2>3, TranscriptIsBytes, EchoIsBytes, PrintsTyped
  <2>5. ran' \in Seq(Nat)
    BY ZenonT(60), <1>1, <2>2, <2>3, AppendProperties
  <2> QED
    BY Zenon, <1>1, <2>1, <2>3, <2>4, <2>5, PeerStepTyped
<1>5. CASE PeerCloses
  <2>1. PeerTakes("close") /\ UNCHANGED <<clientVars, inputVars, stream, ran>> /\ opened' \subseteq opened
    BY Zenon, <1>5 DEF PeerCloses
  <2>2. PICK n \in 0 .. Len(wire) :
           \/ wire' = SubSeq(wire, 1, n)
           \/ wire' = SubSeq(wire, 1, n) \o Response("closed", Head(toPeer).id)
    BY Zenon, <1>5 DEF PeerCloses
  <2>3. Head(toPeer).id \in {1, 2} /\ toPeer' \in Seq(Actions)
    BY Zenon, <2>1, PeerTakesTyped
  <2>4. 1 \in Int /\ n \in Int /\ \A i \in 1 .. n : wire[i] \in Responses
    BY <1>1
  <2>5. SubSeq(wire, 1, n) \in Seq(Responses)
    BY Zenon, <2>4, SubSeqProperties
  <2>6. Response("closed", Head(toPeer).id) \in Seq(Responses)
    BY Zenon, <2>3, ResponseIsResponses
  <2>7. SubSeq(wire, 1, n) \o Response("closed", Head(toPeer).id) \in Seq(Responses)
    BY Zenon, <2>5, <2>6, ConcatProperties
  <2>8. wire' \in Seq(Responses)
    BY Zenon, <2>2, <2>5, <2>7
  <2> QED
    BY Zenon, <1>1, <2>1, <2>3, <2>8, PeerStepTyped
<1>6. CASE PeerEnds
  <2>1. PICK id \in opened, t \in {"closed", "error"} : wire' = wire \o Response(t, id) /\ opened' = opened \ {id}
    BY Zenon, <1>6 DEF PeerEnds
  <2>2. wire' \in Seq(Responses) /\ opened' \subseteq {1, 2}
    BY Zenon, <1>1, <2>1, RepliesTyped
  <2> QED
    BY Zenon, <1>1, <1>6, <2>2, PeerStepTyped DEF PeerEnds
<1>7. CASE PeerChatters
  <2>1. PICK id \in opened : wire' = wire \o Data(id, By(0, <<"b">>))
    BY Zenon, <1>7 DEF PeerChatters, Prints
  <2>2. wire' \in Seq(Responses)
    BY Zenon, <1>1, <2>1, NoiseIsBytes, PrintsTyped
  <2> QED
    BY Zenon, <1>1, <1>7, <2>2, PeerStepTyped DEF PeerChatters
<1>8. CASE Noise \/ StreamBreaks
  <2>1. UNCHANGED <<clientVars, inputVars, toPeer, wire, ran, opened>> /\ (stream' = stream \/ stream' = "broken")
    BY Zenon, <1>8 DEF Noise, StreamBreaks, peerVars
  <2> QED
    BY Zenon, <1>1, <2>1, PeerStepTyped
<1> QED
  BY Zenon, <1>2, <1>3, <1>4, <1>5, <1>6, <1>7, <1>8 DEF Peer

LEMMA InitTyped == Init => Typed
<1> SUFFICES ASSUME Init PROVE Typed
  BY Zenon
<1>1. wire \in Seq(Responses) /\ toPeer \in Seq(Actions) /\ stdin \in Seq(Nat) /\ ran \in Seq(Nat)
      /\ typed \in Nat /\ tid \in 0 .. 2
  BY DEF Init
<1>2. mode \in {"exec", "session", "text"} /\ opened \subseteq {1, 2}
  BY Zenon, DirectAssumption DEF Init
<1>3. pc = "connecting" /\ stream = "up" /\ tid = 0
  BY Zenon DEF Init
<1> QED
  BY Zenon, <1>1, <1>2, <1>3 DEF Typed, TypeOK, Trying

LEMMA StepTyped == Typed /\ [Next]_vars => Typed'
<1>1. ASSUME Typed, UNCHANGED vars PROVE Typed'
  BY Zenon, <1>1, IsPlaced, SequenceTypes, ClientTyped DEF vars, clientVars, inputVars, peerVars, Reads, Sends
<1> QED
  BY Zenon, <1>1, PeerTyped, OpenTyped, ExecTyped, SessionTyped, TextTyped DEF Next

LEMMA TypedInvariance == Spec => []Typed
  BY InitTyped, StepTyped, PTL DEF Spec

-----------------------------------------------------------------------------
(* What an exec is sent: noise, and one transcript.                           *)

On(w) == [p \in DOMAIN w |-> w[p].byte]

(* The text so far, with the inputs that were run and what the command did. *)
Fits(text, r, d) ==
    IF r = <<>> THEN OnlyNoise(text)
    ELSE \E out \in Outputs, code \in Codes :
            /\ d = [out |-> By(1, out), code |-> By(1, code)]
            /\ \E k \in 0 .. Len(text) : LiesBehind(text, k, Transcript(1, [out |-> out, code |-> code]))

LEMMA OnParts ==
  ASSUME NEW w \in Seq(Responses), NEW b, b = On(w)
  PROVE  b \in Seq(Bytes) /\ Len(b) = Len(w) /\ \A i \in 1 .. Len(w) : b[i] = w[i].byte
<1>1. DOMAIN w = 1 .. Len(w) /\ Len(w) \in Nat /\ \A i \in 1 .. Len(w) : w[i] \in Responses
  OBVIOUS
<1>2. b = [i \in 1 .. Len(w) |-> w[i].byte]
  BY Zenon, <1>1 DEF On
<1>3. \A i \in 1 .. Len(w) : w[i].byte \in Bytes
  BY Zenon, <1>1 DEF Responses
<1> QED
  BY <1>1, <1>2, <1>3

LEMMA OnJoin ==
  ASSUME NEW w \in Seq(Responses), NEW v \in Seq(Responses)
  PROVE  On(w \o v) = On(w) \o On(v)
<1> DEFINE x == w \o v
           b == On(w)
           d == On(v)
           l == On(x)
           r == b \o d
<1>1. x = w \o v /\ b = On(w) /\ d = On(v) /\ l = On(x) /\ r = b \o d
  BY Zenon
<1> HIDE DEF x, b, d, l, r
<1>2. /\ x \in Seq(Responses) /\ Len(x) = Len(w) + Len(v)
      /\ (\A i \in 1 .. Len(w) : x[i] = w[i]) /\ \A i \in 1 .. Len(v) : x[Len(w) + i] = v[i]
  BY <1>1, JoinTwo
<1>3. b \in Seq(Bytes) /\ Len(b) = Len(w) /\ \A i \in 1 .. Len(w) : b[i] = w[i].byte
  BY Zenon, <1>1, OnParts
<1>4. d \in Seq(Bytes) /\ Len(d) = Len(v) /\ \A i \in 1 .. Len(v) : d[i] = v[i].byte
  BY Zenon, <1>1, OnParts
<1>5. l \in Seq(Bytes) /\ Len(l) = Len(x) /\ \A i \in 1 .. Len(x) : l[i] = x[i].byte
  BY ZenonT(60), <1>1, <1>2, OnParts
<1>6. /\ r \in Seq(Bytes) /\ Len(r) = Len(b) + Len(d)
      /\ (\A i \in 1 .. Len(b) : r[i] = b[i]) /\ \A i \in 1 .. Len(d) : r[Len(b) + i] = d[i]
  <2>1. b \in Seq(Bytes) /\ d \in Seq(Bytes) /\ r = b \o d
    BY Zenon, <1>1, <1>3, <1>4
  <2> QED
    BY <2>1, JoinTwo
<1>7. ASSUME NEW i \in 1 .. Len(x) PROVE l[i] = r[i]
  <2>1. Len(w) \in Nat /\ Len(v) \in Nat
    OBVIOUS
  <2>2. i \in 1 .. Len(w) \/ (i - Len(w) \in 1 .. Len(v) /\ Len(w) + (i - Len(w)) = i)
    BY <1>2, <2>1
  <2>3. CASE i \in 1 .. Len(w)
    BY ZenonT(60), <1>2, <1>3, <1>5, <1>6, <2>3
  <2>4. CASE i - Len(w) \in 1 .. Len(v) /\ Len(w) + (i - Len(w)) = i
    <3>1. r[Len(b) + (i - Len(w))] = d[i - Len(w)] /\ x[Len(w) + (i - Len(w))] = v[i - Len(w)]
      BY Zenon, <1>2, <1>4, <1>6, <2>4
    <3> QED
      BY Zenon, <1>3, <1>4, <1>5, <2>4, <3>1
  <2> QED
    BY Zenon, <2>2, <2>3, <2>4
<1>8. Len(l) = Len(r)
  BY Zenon, <1>2, <1>3, <1>4, <1>5, <1>6
<1>9. l = r
  BY Zenon, <1>5, <1>6, <1>7, <1>8, SeqEqual
<1> QED
  BY Zenon, <1>1, <1>9

LEMMA OnData ==
  ASSUME NEW id \in {1, 2}, NEW bytes \in Seq(Bytes)
  PROVE  On(Data(id, bytes)) = bytes
<1> DEFINE v == Data(id, bytes)
           b == On(v)
<1>1. v \in Seq(Responses) /\ Len(v) = Len(bytes) /\ \A p \in 1 .. Len(bytes) : v[p].byte = bytes[p]
  BY Zenon, DataIsResponses
<1>2. b = On(v)
  BY Zenon
<1> HIDE DEF v, b
<1>3. b \in Seq(Bytes) /\ Len(b) = Len(v) /\ \A i \in 1 .. Len(v) : b[i] = v[i].byte
  BY Zenon, <1>1, <1>2, OnParts
<1>4. Len(b) = Len(bytes) /\ \A i \in 1 .. Len(b) : b[i] = bytes[i]
  BY Zenon, <1>1, <1>3
<1>5. b = bytes
  BY Zenon, <1>3, <1>4, SeqEqual
<1> QED
  BY Zenon, <1>5 DEF b, v

LEMMA OnResponse ==
  ASSUME NEW id \in {1, 2}, NEW t \in {"opened", "closed", "error"}
  PROVE  On(Response(t, id)) \in Seq(Bytes) /\ OnlyNoise(On(Response(t, id)))
<1> DEFINE v == Response(t, id)
           b == On(v)
<1>1. v \in Seq(Responses) /\ Len(v) = 1 /\ v[1].byte = [ch |-> "-", of |-> 0]
  BY Zenon, ResponseIsResponses
<1>2. b = On(v)
  BY Zenon
<1> HIDE DEF v, b
<1>3. b \in Seq(Bytes) /\ Len(b) = Len(v) /\ \A i \in 1 .. Len(v) : b[i] = v[i].byte
  BY Zenon, <1>1, <1>2, OnParts
<1>4. DOMAIN b = 1 .. 1 /\ 1 \in 1 .. 1 /\ \A i \in 1 .. 1 : i = 1
  BY <1>1, <1>3
<1>5. b[1] = [ch |-> "-", of |-> 0]
  BY Zenon, <1>1, <1>3, <1>4
<1>6. b[1].of = 0
  BY <1>5
<1>7. OnlyNoise(b)
  BY Zenon, <1>4, <1>6 DEF OnlyNoise
<1> QED
  BY Zenon, <1>3, <1>7 DEF b, v

(* More noise changes nothing. *)
LEMMA NoiseFits ==
  ASSUME NEW text \in Seq(Bytes), NEW n \in Seq(Bytes), OnlyNoise(n), NEW r, NEW d, Fits(text, r, d)
  PROVE  Fits(text \o n, r, d)
<1> DEFINE x == text \o n
<1>1. x = text \o n
  BY Zenon
<1> HIDE DEF x
<1>2. /\ x \in Seq(Bytes) /\ Len(x) = Len(text) + Len(n)
      /\ (\A i \in 1 .. Len(text) : x[i] = text[i]) /\ \A i \in 1 .. Len(n) : x[Len(text) + i] = n[i]
  BY <1>1, JoinTwo
<1>3. /\ DOMAIN x = 1 .. Len(x) /\ DOMAIN text = 1 .. Len(text) /\ DOMAIN n = 1 .. Len(n)
      /\ Len(text) \in Nat /\ Len(n) \in Nat /\ Len(x) \in Nat
  BY <1>2
<1>4. \A i \in 1 .. Len(n) : n[i].of = 0
  BY Zenon, <1>3 DEF OnlyNoise
<1>5. ASSUME NEW i \in 1 .. Len(x), i \notin 1 .. Len(text) PROVE x[i].of = 0
  <2>1. i - Len(text) \in 1 .. Len(n) /\ Len(text) + (i - Len(text)) = i
    BY <1>2, <1>3, <1>5
  <2>2. x[Len(text) + (i - Len(text))] = n[i - Len(text)]
    BY Zenon, <1>2, <2>1
  <2> QED
    BY Zenon, <1>4, <2>1, <2>2
<1>6. CASE r = <<>>
  <2>1. \A i \in 1 .. Len(text) : text[i].of = 0
    BY Zenon, <1>3, <1>6 DEF Fits, OnlyNoise
  <2>2. \A i \in 1 .. Len(x) : x[i].of = 0
    BY Zenon, <1>2, <1>5, <2>1
  <2> QED
    BY Zenon, <1>1, <1>3, <1>6, <2>2 DEF Fits, OnlyNoise
<1>7. CASE r # <<>>
  <2>1. PICK out \in Outputs, code \in Codes :
           /\ d = [out |-> By(1, out), code |-> By(1, code)]
           /\ \E k \in 0 .. Len(text) : LiesBehind(text, k, Transcript(1, [out |-> out, code |-> code]))
    BY Zenon, <1>7 DEF Fits
  <2> DEFINE T == Transcript(1, [out |-> out, code |-> code])
  <2>2. PICK k \in 0 .. Len(text) : LiesBehind(text, k, T)
    BY Zenon, <2>1
  <2>3. T \in Seq(Bytes)
    BY Zenon, TranscriptIsBytes
  <2> HIDE DEF T
  <2>4. /\ k + Len(T) <= Len(text)
        /\ \A i \in 1 .. Len(text) : i \notin k + 1 .. k + Len(T) => text[i].of = 0
        /\ \A i \in 1 .. Len(T) : text[k + i] = T[i]
    BY Zenon, <1>3, <2>2 DEF LiesBehind
  <2>5. k \in 0 .. Len(x) /\ k + Len(T) <= Len(x) /\ \A i \in 1 .. Len(T) : k + i \in 1 .. Len(text)
    BY <1>2, <1>3, <2>3, <2>4
  <2>6. \A i \in 1 .. Len(x) : i \notin k + 1 .. k + Len(T) => x[i].of = 0
    BY Zenon, <1>2, <1>5, <2>4
  <2>7. \A i \in 1 .. Len(T) : x[k + i] = T[i]
    BY Zenon, <1>2, <2>4, <2>5
  <2>8. LiesBehind(x, k, T)
    BY Zenon, <1>3, <2>5, <2>6, <2>7 DEF LiesBehind
  <2> QED
    BY Zenon, <1>1, <1>7, <2>1, <2>5, <2>8 DEF Fits, T
<1> QED
  BY Zenon, <1>6, <1>7

(* The command's transcript is the first thing that is not noise. *)
LEMMA TranscriptFits ==
  ASSUME NEW text \in Seq(Bytes), OnlyNoise(text), NEW out \in Outputs, NEW code \in Codes,
         NEW r, r # <<>>, NEW d, d = [out |-> By(1, out), code |-> By(1, code)]
  PROVE  Fits(text \o Transcript(1, [out |-> out, code |-> code]), r, d)
<1> DEFINE T == Transcript(1, [out |-> out, code |-> code])
           x == text \o T
           k == Len(text)
<1>1. x = text \o T /\ T \in Seq(Bytes)
  BY Zenon, TranscriptIsBytes
<1> HIDE DEF x, T
<1>2. /\ x \in Seq(Bytes) /\ Len(x) = k + Len(T)
      /\ (\A i \in 1 .. k : x[i] = text[i]) /\ \A i \in 1 .. Len(T) : x[k + i] = T[i]
  BY <1>1, JoinTwo
<1>3. DOMAIN x = 1 .. Len(x) /\ DOMAIN text = 1 .. k /\ k \in Nat /\ Len(T) \in Nat
  BY <1>1, <1>2
<1>4. \A i \in 1 .. k : text[i].of = 0
  BY Zenon, <1>3 DEF OnlyNoise
<1> HIDE DEF k
<1>5. k \in 0 .. Len(x) /\ k + Len(T) <= Len(x) /\ \A i \in 1 .. Len(x) : i \notin k + 1 .. k + Len(T) => i \in 1 .. k
  BY <1>2, <1>3
<1>6. \A i \in 1 .. Len(x) : i \notin k + 1 .. k + Len(T) => x[i].of = 0
  BY Zenon, <1>2, <1>4, <1>5
<1>7. LiesBehind(x, k, T)
  BY Zenon, <1>2, <1>3, <1>5, <1>6 DEF LiesBehind
<1> QED
  BY Zenon, <1>1, <1>5, <1>7 DEF Fits, T

LEMMA NoiseSaid ==
  ASSUME NEW c \in Seq(Bytes), NEW w \in Seq(Responses), NEW v \in Seq(Responses), OnlyNoise(On(v)),
         NEW r, NEW d, Fits(c \o On(w), r, d)
  PROVE  w \o v \in Seq(Responses) /\ Fits(c \o On(w \o v), r, d)
<1>1. On(w) \in Seq(Bytes) /\ On(v) \in Seq(Bytes)
  BY Zenon, OnParts
<1>2. On(w \o v) = On(w) \o On(v)
  BY Zenon, OnJoin
<1>3. c \o On(w) \in Seq(Bytes) /\ (c \o On(w)) \o On(v) = c \o (On(w) \o On(v))
  BY Zenon, <1>1, ConcatProperties, BytesAssociative
<1>4. Fits((c \o On(w)) \o On(v), r, d)
  BY Zenon, <1>1, <1>3, NoiseFits
<1> QED
  BY Zenon, <1>2, <1>3, <1>4, ConcatProperties

LEMMA TranscriptSaid ==
  ASSUME NEW c \in Seq(Bytes), NEW w \in Seq(Responses), NEW id \in {1, 2}, NEW out \in Outputs, NEW code \in Codes,
         OnlyNoise(c \o On(w)), NEW r, r # <<>>, NEW d, d = [out |-> By(1, out), code |-> By(1, code)]
  PROVE  Fits(c \o On(w \o Data(id, Transcript(1, [out |-> out, code |-> code]))), r, d)
<1> DEFINE T == Transcript(1, [out |-> out, code |-> code])
<1>1. T \in Seq(Bytes)
  BY Zenon, TranscriptIsBytes
<1>2. Fits((c \o On(w)) \o T, r, d)
  <2>1. On(w) \in Seq(Bytes)
    BY Zenon, OnParts
  <2>2. c \o On(w) \in Seq(Bytes)
    BY Zenon, <2>1, ConcatProperties
  <2> QED
    BY Zenon, <2>2, TranscriptFits
<1> HIDE DEF T
<1>3. On(w) \in Seq(Bytes) /\ Data(id, T) \in Seq(Responses) /\ On(Data(id, T)) = T
  BY Zenon, <1>1, OnParts, OnData, DataIsResponses
<1>4. On(w \o Data(id, T)) = On(w) \o T
  BY Zenon, <1>3, OnJoin
<1>5. (c \o On(w)) \o T = c \o (On(w) \o T)
  BY Zenon, <1>1, <1>3, BytesAssociative
<1>6. Fits(c \o On(w \o Data(id, T)), r, d)
  BY Zenon, <1>2, <1>4, <1>5
<1> QED
  BY Zenon, <1>6 DEF T

(* A response is dropped before the command is sent. *)
LEMMA NoiseTaken ==
  ASSUME NEW w \in Seq(Responses), w # <<>>, OnlyNoise(<<>> \o On(w))
  PROVE  OnlyNoise(<<>> \o On(Tail(w)))
<1> DEFINE b == On(w)
           t == Tail(w)
           d == On(t)
<1>1. b = On(w) /\ d = On(t) /\ t \in Seq(Responses) /\ Len(t) = Len(w) - 1 /\ \A i \in 1 .. Len(w) - 1 : t[i] = w[i + 1]
  BY Zenon, TailProperties
<1> HIDE DEF b, t, d
<1>2. b \in Seq(Bytes) /\ Len(b) = Len(w) /\ \A i \in 1 .. Len(w) : b[i] = w[i].byte
  BY Zenon, <1>1, OnParts
<1>3. d \in Seq(Bytes) /\ Len(d) = Len(t) /\ \A i \in 1 .. Len(t) : d[i] = t[i].byte
  BY Zenon, <1>1, OnParts
<1>4. <<>> \o b = b /\ <<>> \o d = d
  BY Zenon, <1>2, <1>3, ConcatEmptySeq
<1>5. OnlyNoise(b)
  BY Zenon, <1>4 DEF b
<1>6. /\ Len(w) \in Nat /\ DOMAIN b = 1 .. Len(w) /\ DOMAIN d = 1 .. Len(w) - 1
      /\ \A i \in 1 .. Len(w) - 1 : i + 1 \in 1 .. Len(w)
  BY <1>1, <1>2, <1>3
<1>7. \A i \in DOMAIN d : d[i] = b[i + 1] /\ i + 1 \in DOMAIN b
  BY ZenonT(60), <1>1, <1>2, <1>3, <1>6
<1>8. OnlyNoise(d)
  BY Zenon, <1>5, <1>7 DEF OnlyNoise
<1> QED
  BY Zenon, <1>4, <1>8 DEF d, t

(* The bytes of the first n responses. *)
First(w, n) == [p \in 1 .. n |-> w[p].byte]

(* A chunk is received: nothing is lost, and what has arrived is where it was. *)
LEMMA ChunkArrives ==
  ASSUME NEW c \in Seq(Bytes), NEW w \in Seq(Responses), NEW n \in 1 .. Len(w)
  PROVE  /\ c \o First(w, n) \in Seq(Bytes) /\ Begins(c \o First(w, n), c \o On(w))
         /\ (c \o First(w, n)) \o On(SubSeq(w, n + 1, Len(w))) = c \o On(w)
<1> DEFINE b == First(w, n)
           raw == c \o b
           all == On(w)
           rest == SubSeq(w, n + 1, Len(w))
           d == On(rest)
           y == b \o d
           z == c \o all
<1>1. Len(w) \in Nat /\ n \in Nat /\ n <= Len(w) /\ \A i \in 1 .. Len(w) : w[i] \in Responses
  OBVIOUS
<1>2. /\ rest \in Seq(Responses) /\ Len(rest) = Len(w) - n /\ \A i \in 1 .. Len(w) - n : rest[i] = w[n + i]
  <2> DEFINE m == n + 1
  <2>1. /\ m \in Int /\ Len(w) \in Int /\ Len(w) - m + 1 = Len(w) - n /\ \A i \in 1 .. Len(w) - n : m + i - 1 = n + i
        /\ (IF m <= Len(w) THEN Len(w) - m + 1 ELSE 0) = Len(w) - n
    BY <1>1
  <2>2. \A i \in m .. Len(w) : w[i] \in Responses
    BY <1>1
  <2> HIDE DEF m
  <2>3. /\ SubSeq(w, m, Len(w)) \in Seq(Responses)
        /\ Len(SubSeq(w, m, Len(w))) = IF m <= Len(w) THEN Len(w) - m + 1 ELSE 0
        /\ \A i \in 1 .. Len(w) - m + 1 : SubSeq(w, m, Len(w))[i] = w[m + i - 1]
    BY <2>1, <2>2, SubSeqProperties
  <2> QED
    BY Zenon, <2>1, <2>3 DEF m
<1>3. \A i \in 1 .. n : w[i].byte \in Bytes
  <2>1. \A i \in 1 .. n : i \in 1 .. Len(w)
    BY <1>1
  <2> QED
    BY Zenon, <1>1, <2>1 DEF Responses
<1>4. b \in Seq(Bytes) /\ Len(b) = n /\ \A i \in 1 .. n : b[i] = w[i].byte
  BY <1>1, <1>3 DEF First
<1>5. all = On(w) /\ d = On(rest) /\ y = b \o d /\ z = c \o all /\ raw = c \o b
  BY Zenon
<1> HIDE DEF b, raw, all, rest, d, y, z
<1>6. all \in Seq(Bytes) /\ Len(all) = Len(w) /\ \A i \in 1 .. Len(w) : all[i] = w[i].byte
  BY Zenon, <1>5, OnParts
<1>7. d \in Seq(Bytes) /\ Len(d) = Len(rest) /\ \A i \in 1 .. Len(rest) : d[i] = rest[i].byte
  BY Zenon, <1>2, <1>5, OnParts
<1>8. /\ y \in Seq(Bytes) /\ Len(y) = Len(b) + Len(d)
      /\ (\A i \in 1 .. Len(b) : y[i] = b[i]) /\ \A i \in 1 .. Len(d) : y[Len(b) + i] = d[i]
  <2>1. b \in Seq(Bytes) /\ d \in Seq(Bytes) /\ y = b \o d
    BY Zenon, <1>4, <1>5, <1>7
  <2> QED
    BY <2>1, JoinTwo
<1>9. ASSUME NEW i \in 1 .. Len(w) PROVE y[i] = all[i]
  <2>1. i \in 1 .. n \/ (i - n \in 1 .. Len(w) - n /\ n + (i - n) = i)
    BY <1>1
  <2>2. CASE i \in 1 .. n
    BY Zenon, <1>4, <1>6, <1>8, <2>2
  <2>3. CASE i - n \in 1 .. Len(w) - n /\ n + (i - n) = i
    <3>1. y[n + (i - n)] = d[i - n] /\ d[i - n] = rest[i - n].byte /\ rest[i - n] = w[n + (i - n)]
      BY Zenon, <1>2, <1>4, <1>7, <1>8, <2>3
    <3> QED
      BY Zenon, <1>6, <2>3, <3>1
  <2> QED
    BY Zenon, <2>1, <2>2, <2>3
<1>10. Len(y) = Len(w)
  BY <1>1, <1>2, <1>4, <1>7, <1>8
<1>11. y = all
  BY Zenon, <1>6, <1>8, <1>9, <1>10, SeqEqual
<1>12. raw \o d = c \o all
  <2>1. b \in Seq(Bytes) /\ d \in Seq(Bytes)
    BY Zenon, <1>4, <1>7
  <2>2. (c \o b) \o d = c \o (b \o d)
    BY Zenon, <2>1, BytesAssociative
  <2> QED
    BY Zenon, <1>5, <1>11, <2>2
<1>13. /\ raw \in Seq(Bytes) /\ Len(raw) = Len(c) + Len(b)
       /\ (\A i \in 1 .. Len(c) : raw[i] = c[i]) /\ \A i \in 1 .. Len(b) : raw[Len(c) + i] = b[i]
  <2>1. b \in Seq(Bytes) /\ raw = c \o b
    BY Zenon, <1>4, <1>5
  <2> QED
    BY <2>1, JoinTwo
<1>14. Begins(raw, z)
  <2>1. /\ z \in Seq(Bytes) /\ Len(z) = Len(raw) + Len(d) /\ \A i \in 1 .. Len(raw) : z[i] = raw[i]
    <3>1. raw \in Seq(Bytes) /\ d \in Seq(Bytes) /\ z = raw \o d
      BY Zenon, <1>5, <1>7, <1>12, <1>13
    <3> QED
      BY <3>1, JoinTwo
  <2>2. Len(d) \in Nat /\ Len(raw) \in Nat
    BY <1>7, <1>13
  <2>3. Len(raw) <= Len(z)
    BY <2>1, <2>2
  <2> QED
    BY Zenon, <2>1, <2>3 DEF Begins
<1> QED
  BY Zenon, <1>5, <1>12, <1>13, <1>14 DEF b, raw, rest

-----------------------------------------------------------------------------
(* The command of an exec is sent once.                                       *)

SentOnce(q, p, r) ==
    /\ p \in Trying \cup {"draining"} => r = <<>> /\ \A i \in DOMAIN q : q[i].type = "open"
    /\ \A i \in DOMAIN q : q[i].type = "close" => p = "done"
    /\ \A i \in DOMAIN q : q[i].type = "data" =>
          r = <<>> /\ \A j \in DOMAIN q : q[j].type = "data" => i = j

LEMMA TailSent ==
  ASSUME NEW q \in Seq(Actions), q # <<>>, NEW p, NEW r, SentOnce(q, p, r)
  PROVE  /\ SentOnce(Tail(q), p, r)
         /\ Head(q).type = "close" => p = "done"
         /\ Head(q).type = "data" =>
               r = <<>> /\ p \notin Trying \cup {"draining"} /\ \A x : SentOnce(Tail(q), p, x)
<1> DEFINE t == Tail(q)
<1>1. t \in Seq(Actions) /\ Len(t) = Len(q) - 1 /\ Len(q) \in Nat \ {0} /\ \A i \in 1 .. Len(q) - 1 : t[i] = q[i + 1]
  BY Zenon, TailProperties
<1>2. Head(q) = q[1]
  BY Zenon, TailProperties
<1> HIDE DEF t
<1>3. /\ DOMAIN t = 1 .. Len(q) - 1 /\ DOMAIN q = 1 .. Len(q) /\ 1 \in DOMAIN q
      /\ \A i \in 1 .. Len(q) - 1 : i + 1 \in 1 .. Len(q) /\ i + 1 # 1
      /\ \A i, j \in 1 .. Len(q) - 1 : i + 1 = j + 1 => i = j
  BY <1>1
<1>4. \A i \in DOMAIN t : t[i] = q[i + 1] /\ i + 1 \in DOMAIN q /\ i + 1 # 1
  BY Zenon, <1>1, <1>3
<1>5. \A i, j \in DOMAIN t : i + 1 = j + 1 => i = j
  BY Zenon, <1>3
<1>6. SentOnce(t, p, r)
  BY ZenonT(60), <1>4, <1>5 DEF SentOnce
<1>7. q[1].type = "close" => p = "done"
  BY Zenon, <1>3 DEF SentOnce
<1>8. ASSUME q[1].type = "data"
      PROVE  r = <<>> /\ p \notin Trying \cup {"draining"} /\ \A x : SentOnce(t, p, x)
  <2>1. r = <<>> /\ p \notin Trying \cup {"draining"} /\ \A i \in DOMAIN q : q[i].type = "data" => 1 = i
    BY Zenon, <1>3, <1>8, "data" # "open" DEF SentOnce
  <2>2. \A i \in DOMAIN t : t[i].type # "data"
    BY Zenon, <1>4, <2>1
  <2>3. \A i \in DOMAIN t : t[i].type = "close" => p = "done"
    BY Zenon, <1>4 DEF SentOnce
  <2> QED
    BY Zenon, <2>1, <2>2, <2>3 DEF SentOnce
<1> QED
  BY Zenon, <1>2, <1>6, <1>7, <1>8 DEF t

LEMMA AppendSent ==
  ASSUME NEW q \in Seq(Actions), NEW a \in Actions, NEW p, NEW p2, NEW r, SentOnce(q, p, r),
         \/ a.type = "open" /\ p \in Trying /\ p2 \in Trying
         \/ a.type = "data" /\ p = "draining" /\ p2 = "collecting"
         \/ a.type = "close" /\ p2 = "done"
  PROVE  SentOnce(Append(q, a), p2, r)
<1> DEFINE t == Append(q, a)
<1>1. /\ t \in Seq(Actions) /\ Len(t) = Len(q) + 1 /\ (\A i \in 1 .. Len(q) : t[i] = q[i]) /\ t[Len(q) + 1] = a
  BY SMT, AppendProperties
<1> HIDE DEF t
<1>2. /\ DOMAIN t = 1 .. Len(q) + 1 /\ DOMAIN q = 1 .. Len(q)
      /\ \A i \in 1 .. Len(q) + 1 : i \in 1 .. Len(q) \/ i = Len(q) + 1
  BY <1>1
<1>3. \A i \in DOMAIN t : (i \in DOMAIN q /\ t[i] = q[i]) \/ (i = Len(q) + 1 /\ t[i] = a)
  BY Zenon, <1>1, <1>2
<1>4. "done" \notin Trying \cup {"draining"} /\ "collecting" \notin Trying \cup {"draining"} /\ "done" \notin Trying
  BY DEF Trying
<1>5. CASE a.type = "open" /\ p \in Trying /\ p2 \in Trying
  <2>1. r = <<>> /\ \A i \in DOMAIN t : t[i].type = "open"
    BY Zenon, <1>3, <1>5 DEF SentOnce
  <2>2. "open" # "close" /\ "open" # "data"
    OBVIOUS
  <2>3. SentOnce(t, p2, r)
    BY Zenon, <2>1, <2>2 DEF SentOnce
  <2> QED
    BY Zenon, <2>3 DEF t
<1>6. CASE a.type = "data" /\ p = "draining" /\ p2 = "collecting"
  <2>1. r = <<>> /\ \A i \in DOMAIN q : q[i].type = "open"
    BY Zenon, <1>6 DEF SentOnce
  <2>2. "open" # "close" /\ "open" # "data" /\ "data" # "close"
    OBVIOUS
  <2>3. \A i \in DOMAIN t : t[i].type # "close" /\ (t[i].type = "data" => i = Len(q) + 1)
    BY Zenon, <1>3, <1>6, <2>1, <2>2
  <2>4. SentOnce(t, p2, r)
    BY Zenon, <1>4, <1>6, <2>1, <2>3 DEF SentOnce
  <2> QED
    BY Zenon, <2>4 DEF t
<1>7. CASE a.type = "close" /\ p2 = "done"
  <2>1. "data" # "close"
    OBVIOUS
  <2>2. \A i \in DOMAIN t : t[i].type = "data" => i \in DOMAIN q /\ t[i] = q[i]
    BY Zenon, <1>3, <1>7, <2>1
  <2>3. SentOnce(t, p2, r)
    BY Zenon, <1>4, <1>7, <2>2 DEF SentOnce
  <2> QED
    BY Zenon, <2>3 DEF t
<1> QED
  BY Zenon, <1>5, <1>6, <1>7

LEMMA GoSent ==
  ASSUME NEW q, NEW p, NEW p2, NEW r, SentOnce(q, p, r), p = "done" => p2 = "done",
         p2 \in Trying \cup {"draining"} => p \in Trying \cup {"draining"}
  PROVE  SentOnce(q, p2, r)
  BY Zenon DEF SentOnce

-----------------------------------------------------------------------------
(* The output of an exec, step by step.                                       *)

Hears(c, w, p, r, d) == (p # "collecting" => c = <<>>) /\ Fits(c \o On(w), r, d)

LEMMA ExecFitsGives ==
  ASSUME ExecFits
  PROVE  /\ collected \in Seq(Bytes)
         /\ result.kind = "done" => mode = "exec" /\ pc = "done" /\ ran # <<>> /\ DirectStdoutExact
         /\ mode = "exec" => SentOnce(toPeer, pc, ran)
         /\ mode = "exec" /\ pc # "done" => Hears(collected, wire, pc, ran, did)
<1>1. mode = "exec" => SentOnce(toPeer, pc, ran)
  BY Zenon DEF ExecFits, CommandSentOnce, SentOnce
<1>2. mode = "exec" /\ pc # "done" => Hears(collected, wire, pc, ran, did)
  BY Zenon DEF ExecFits, OutputArrives, Incoming, Hears, Fits, On
<1> QED
  BY Zenon, <1>1, <1>2 DEF ExecFits

LEMMA ExecFitsFrom ==
  ASSUME collected' \in Seq(Bytes),
         result'.kind = "done" => mode' = "exec" /\ pc' = "done" /\ ran' # <<>> /\ DirectStdoutExact',
         mode' = "exec" => SentOnce(toPeer', pc', ran'),
         mode' = "exec" /\ pc' # "done" => Hears(collected', wire', pc', ran', did')
  PROVE  ExecFits'
<1>1. (mode = "exec" => CommandSentOnce)'
  BY Zenon DEF CommandSentOnce, SentOnce
<1>2. (mode = "exec" /\ pc # "done" =>
          /\ pc # "collecting" => collected = <<>>
          /\ IF ran = <<>> THEN OnlyNoise(Incoming) ELSE OutputArrives)'
  BY Zenon DEF OutputArrives, Incoming, Hears, Fits, On
<1> QED
  BY Zenon, <1>1, <1>2 DEF ExecFits

(* Steps that leave the client, the command and what it did alone. *)
LEMMA GoesOn ==
  ASSUME ExecFits, UNCHANGED <<clientVars, did, ran>>,
         mode = "exec" => SentOnce(toPeer', pc, ran),
         mode = "exec" /\ pc # "done" => Fits(collected \o On(wire'), ran, did)
  PROVE  ExecFits'
<1>1. UNCHANGED <<mode, pc, collected, result>>
  BY Zenon DEF clientVars
<1>2. result'.kind = "done" => mode' = "exec" /\ pc' = "done" /\ ran' # <<>> /\ DirectStdoutExact'
  BY Zenon, <1>1, ExecFitsGives DEF DirectStdoutExact
<1> QED
  BY Zenon, <1>1, <1>2, ExecFitsGives, ExecFitsFrom DEF Hears

(* Steps of the session and of the text session. *)
LEMMA OtherModes ==
  ASSUME mode # "exec", mode' = mode, collected' \in Seq(Bytes), result'.kind # "done"
  PROVE  ExecFits'
  BY Zenon, ExecFitsFrom

(* Steps of an exec that goes on. *)
LEMMA ExecGoes ==
  ASSUME ExecFits, pc # "done", UNCHANGED <<mode, result, ran, did>>, collected' \in Seq(Bytes),
         mode = "exec" => SentOnce(toPeer', pc', ran) /\ Hears(collected', wire', pc', ran, did)
  PROVE  ExecFits'
  BY Zenon, ExecFitsGives, ExecFitsFrom

(* Steps that end it otherwise than with the sentinel. *)
LEMMA ExecEnds ==
  ASSUME ExecFits, NEW r, Return(r), r.kind # "done", ran' = ran, mode = "exec" => SentOnce(toPeer', "done", ran)
  PROVE  ExecFits'
<1>1. pc' = "done" /\ result' = r /\ mode' = mode /\ collected' = collected
  BY Zenon DEF Return
<1> QED
  BY Zenon, <1>1, ExecFitsGives, ExecFitsFrom

LEMMA FailIs ==
  ASSUME NEW why, Fail(why)
  PROVE  \E r : Return(r) /\ r.kind = why
<1>1. [NoResult EXCEPT !.kind = why].kind = why
  BY DEF NoResult
<1> QED
  BY Zenon, <1>1 DEF Fail

LEMMA FailEnds ==
  ASSUME ExecFits, NEW why, why # "done", Fail(why), ran' = ran, mode = "exec" => SentOnce(toPeer', "done", ran)
  PROVE  ExecFits'
<1>1. PICK r : Return(r) /\ r.kind = why
  BY Zenon, FailIs
<1> QED
  BY Zenon, <1>1, ExecEnds

LEMMA CloseSent ==
  ASSUME Typed, ExecFits, mode = "exec", pc \notin Trying \cup {"done"}, Send(CloseAction)
  PROVE  SentOnce(toPeer', "done", ran)
<1>1. SentOnce(toPeer, pc, ran) /\ toPeer \in Seq(Actions)
  BY Zenon, ExecFitsGives, SequenceTypes
<1>2. tid \in {1, 2}
  <2>1. tid \in 0 .. 2 /\ tid # 0
    BY Zenon DEF Typed, TypeOK
  <2> QED
    BY <2>1
<1>3. CloseAction \in Actions /\ CloseAction.type = "close"
  BY Zenon, <1>2, 0 \in Nat DEF CloseAction, Action, Actions
<1>4. "done" \notin Trying \cup {"draining"}
  BY DEF Trying
<1>5. CASE toPeer' = toPeer
  BY Zenon, <1>1, <1>4, <1>5, GoSent
<1>6. CASE toPeer' = Append(toPeer, CloseAction)
  BY Zenon, <1>1, <1>3, <1>6, AppendSent
<1> QED
  BY Zenon, <1>5, <1>6 DEF Send

LEMMA KeepIs ==
  ASSUME Keep
  PROVE  UNCHANGED <<ran, did>>
  BY Zenon DEF Keep, peerVars

LEMMA DrainDataFits ==
  ASSUME Typed, ExecFits, DrainData
  PROVE  ExecFits'
<1>1. /\ pc = "draining" /\ wire # <<>> /\ wire' = Tail(wire) /\ UNCHANGED <<mode, pc, collected, result, toPeer>>
      /\ UNCHANGED <<ran, did>>
  BY Zenon, KeepIs DEF DrainData, Next_is, Take, clientVars
<1>2. wire \in Seq(Responses) /\ mode = "exec"
  BY Zenon, <1>1 DEF Typed, TypeOK
<1>3. pc # "done" /\ pc # "collecting"
  BY <1>1
<1>4. SentOnce(toPeer, pc, ran) /\ Hears(collected, wire, pc, ran, did) /\ collected \in Seq(Bytes)
  BY Zenon, <1>2, <1>3, ExecFitsGives
<1>5. ran = <<>> /\ collected = <<>>
  BY Zenon, <1>1, <1>3, <1>4 DEF SentOnce, Hears
<1>6. Hears(collected, wire', pc, ran, did)
  BY Zenon, <1>1, <1>2, <1>4, <1>5, NoiseTaken DEF Hears, Fits
<1> QED
  BY Zenon, <1>1, <1>3, <1>4, <1>6, ExecGoes

LEMMA SendCommandFits ==
  ASSUME Typed, ExecFits, SendCommand
  PROVE  ExecFits'
<1>1. pc = "draining" /\ wire' = wire /\ UNCHANGED <<ran, did>> /\ Send(Action("data", 1))
  BY Zenon, KeepIs DEF SendCommand, DropRecv
<1>2. mode = "exec" /\ toPeer \in Seq(Actions)
  BY Zenon, <1>1 DEF Typed, TypeOK
<1>3. pc # "done" /\ pc # "collecting" /\ "done" \notin Trying \cup {"draining"} /\ pc \notin Trying
  BY <1>1 DEF Trying
<1>4. SentOnce(toPeer, pc, ran) /\ Hears(collected, wire, pc, ran, did) /\ collected \in Seq(Bytes)
  BY Zenon, <1>2, <1>3, ExecFitsGives
<1>5. CASE ~CanSend
  <2>1. Fail("error") /\ toPeer' = toPeer
    BY Zenon, <1>1, <1>5 DEF SendCommand, Send, CanSend
  <2> QED
    BY ZenonT(60), <1>1, <1>3, <1>4, <2>1, GoSent, FailEnds, "error" # "done"
<1>6. CASE CanSend
  <2>1. Goto("collecting") /\ toPeer' = Append(toPeer, Action("data", 1))
    BY Zenon, <1>1, <1>6 DEF SendCommand, Send, CanSend
  <2>2. Action("data", 1) \in Actions /\ Action("data", 1).type = "data"
    <3>1. tid \in 0 .. 2 /\ tid # 0
      BY Zenon, <1>1, <1>3 DEF Typed, TypeOK
    <3>2. tid \in {1, 2}
      BY <3>1
    <3> QED
      BY Zenon, <3>2, 1 \in Nat DEF Action, Actions
  <2>3. SentOnce(toPeer', "collecting", ran)
    BY Zenon, <1>1, <1>2, <1>4, <2>1, <2>2, AppendSent
  <2>4. pc' = "collecting" /\ UNCHANGED <<mode, collected, result>>
    BY Zenon, <2>1 DEF Goto
  <2>5. Hears(collected', wire', pc', ran, did)
    BY Zenon, <1>1, <1>4, <2>4 DEF Hears
  <2> QED
    BY ZenonT(60), <1>1, <1>3, <1>4, <2>3, <2>4, <2>5, ExecGoes
<1> QED
  BY Zenon, <1>5, <1>6

(* The sentinel completes an exec only behind its own output. *)
LEMMA CollectDataFits ==
  ASSUME Typed, ExecFits, NEW n \in 1 .. Len(wire), CollectData(n)
  PROVE  ExecFits'
<1> DEFINE b == Received(n)
           raw == collected \o b
           text == collected \o On(wire)
<1>1. pc = "collecting" /\ Chunk(n) /\ UNCHANGED <<ran, did>> /\ wire' = SubSeq(wire, n + 1, Len(wire))
  BY Zenon, KeepIs DEF CollectData, Chunk
<1>2. mode = "exec" /\ wire \in Seq(Responses) /\ toPeer \in Seq(Actions)
  BY Zenon, <1>1 DEF Typed, TypeOK
<1>3. pc # "done" /\ pc \notin Trying \cup {"done"}
  BY <1>1 DEF Trying
<1>4. SentOnce(toPeer, pc, ran) /\ Fits(text, ran, did) /\ collected \in Seq(Bytes) /\ result.kind # "done"
  BY Zenon, <1>2, <1>3, ExecFitsGives DEF Hears
<1>5. raw = collected \o First(wire, n)
  BY Zenon DEF Received, First
<1>6. text \in Seq(Bytes)
  <2>1. On(wire) \in Seq(Bytes)
    BY Zenon, <1>2, OnParts
  <2> QED
    BY Zenon, <1>4, <2>1, ConcatProperties
<1>7. \/ /\ find_direct_sentinel_output(raw, 1) # 0
         /\ Complete(raw, "done")
      \/ collected' = raw /\ UNCHANGED <<mode, pc, tid, result, shown, erred, toPeer>>
  BY Zenon DEF CollectData
<1> HIDE DEF b, raw
<1>8. raw \in Seq(Bytes) /\ Begins(raw, text) /\ raw \o On(wire') = text
  <2>1. collected \in Seq(Bytes) /\ wire \in Seq(Responses)
    BY Zenon, <1>2, <1>4
  <2>2. /\ raw \in Seq(Bytes) /\ Begins(raw, collected \o On(wire))
        /\ raw \o On(SubSeq(wire, n + 1, Len(wire))) = collected \o On(wire)
    BY Zenon, <2>1, <1>5, ChunkArrives
  <2>3. wire' = SubSeq(wire, n + 1, Len(wire))
    BY Zenon, <1>1
  <2> QED
    BY Zenon, <2>2, <2>3
<1>9. CASE collected' = raw /\ UNCHANGED <<mode, pc, tid, result, shown, erred, toPeer>>
  <2>1. Hears(collected', wire', pc', ran, did)
    BY Zenon, <1>1, <1>4, <1>8, <1>9 DEF Hears
  <2> QED
    BY ZenonT(60), <1>1, <1>3, <1>4, <1>8, <1>9, <2>1, ExecGoes
<1>10. CASE find_direct_sentinel_output(raw, 1) # 0 /\ Complete(raw, "done")
  <2> DEFINE parsed == parse_direct_exec_output(raw, 1)
             r == [kind |-> "done", stdout |-> parsed.stdout, code |-> parsed.code,
                   own |-> \A i \in DOMAIN raw : raw[i].of = 1]
  <2>1. Return(r) /\ Send(CloseAction)
    BY Zenon, <1>10 DEF Complete
  <2>2. ran # <<>>
    <3> SUFFICES ASSUME ran = <<>> PROVE FALSE
      BY Zenon
    <3>1. OnlyNoise(text)
      BY Zenon, <1>4 DEF Fits
    <3> HIDE DEF text
    <3> QED
      BY Zenon, <1>6, <1>8, <1>10, <3>1, NoiseHasNoSentinel
  <2>3. PICK out \in Outputs, code \in Codes :
           /\ did = [out |-> By(1, out), code |-> By(1, code)]
           /\ \E k \in 0 .. Len(text) : LiesBehind(text, k, Transcript(1, [out |-> out, code |-> code]))
    BY Zenon, <1>4, <2>2 DEF Fits
  <2> DEFINE T == Transcript(1, [out |-> out, code |-> code])
  <2>4. PICK k \in 0 .. Len(text) : LiesBehind(text, k, T)
    BY Zenon, <2>3
  <2>5. out \in Seq({"x", "n"}) /\ code \in Seq(Digits) /\ 1 \in Nat /\ 1 # 0 /\ k \in Nat
    <3>1. (\A i \in 0 .. Len(text) : i \in Nat) /\ 1 \in Nat /\ 1 # 0
      OBVIOUS
    <3> QED
      BY Zenon, <3>1, TranscriptIsBytes
  <2>6. LaidOut(T, 1, out, code)
    BY Zenon, <2>5, TranscriptParts
  <2> HIDE DEF T
  <2>7. Arrived(raw, text, k, T, 1, out, code)
    BY ZenonT(60), <1>6, <1>8, <2>4, <2>5, <2>6, ArrivedIs
  <2>8. /\ parsed.code # <<>> /\ parsed.code = SubSeq(By(1, code), 1, Len(parsed.code))
        /\ (\A i \in DOMAIN raw : raw[i].of = 1) => parsed.stdout = Trim(By(1, <<"e", "n">>) \o By(1, out))
    BY ZenonT(60), <1>10, <2>5, <2>7, DirectParsed
  <2>9. did.out = By(1, out) /\ did.code = By(1, code)
    BY Zenon, <2>3
  <2> HIDE DEF parsed
  <2>10. r.kind = "done" /\ r.stdout = parsed.stdout /\ r.code = parsed.code /\ (r.own => \A i \in DOMAIN raw : raw[i].of = 1)
    BY Zenon
  <2>11. /\ r.code # <<>> /\ r.code = SubSeq(did.code, 1, Len(r.code))
         /\ r.own => r.stdout = Trim(By(1, <<"e", "n">>) \o did.out)
    BY Zenon, <2>8, <2>9, <2>10
  <2> HIDE DEF r
  <2>12. pc' = "done" /\ result' = r /\ UNCHANGED <<mode, collected>>
    BY Zenon, <2>1 DEF Return
  <2>13. DirectStdoutExact'
    BY Zenon, <1>1, <2>11, <2>12 DEF DirectStdoutExact
  <2>14. SentOnce(toPeer', "done", ran)
    BY Zenon, <1>2, <1>3, <2>1, CloseSent
  <2> QED
    BY ZenonT(60), <1>1, <1>2, <1>4, <2>2, <2>12, <2>13, <2>14, ExecFitsFrom
<1> QED
  BY Zenon, <1>7, <1>9, <1>10

LEMMA ExecStepFits ==
  ASSUME Typed, ExecFits, Exec
  PROVE  ExecFits'
<1>1. pc \in {"draining", "collecting"} /\ Keep
  BY Zenon DEF Exec, DrainData, DrainClosed, DrainFails, SendCommand, CollectData, CollectClosed, CollectFails,
         CollectTimesOut
<1>2. pc \notin Trying \cup {"done"} /\ mode = "exec" /\ UNCHANGED <<ran, did>>
  BY Zenon, <1>1, KeepIs DEF Trying, Typed, TypeOK
<1>3. "error" # "done" /\ "closed" # "done" /\ "timed_out" # "done" /\ "done" \notin Trying \cup {"draining"}
  BY DEF Trying
<1>4. CASE DrainClosed
  <2>1. toPeer' = toPeer /\ Fail("closed")
    BY Zenon, <1>4 DEF DrainClosed, Take
  <2>2. SentOnce(toPeer', "done", ran)
    BY ZenonT(60), <1>2, <1>3, <2>1, ExecFitsGives, GoSent
  <2> QED
    BY Zenon, <1>2, <1>3, <2>1, <2>2, FailEnds
<1>5. CASE DrainFails \/ CollectFails
  <2>1. Send(CloseAction) /\ Fail("error")
    BY Zenon, <1>5 DEF DrainFails, CollectFails
  <2> QED
    BY ZenonT(60), <1>2, <1>3, <2>1, CloseSent, FailEnds
<1>6. CASE CollectClosed
  <2> DEFINE r == [NoResult EXCEPT !.kind = "closed", !.stdout = Trim(collected)]
  <2>1. Send(CloseAction) /\ Return(r)
    BY Zenon, <1>6 DEF CollectClosed
  <2>2. r.kind = "closed"
    BY DEF NoResult
  <2> HIDE DEF r
  <2> QED
    BY ZenonT(60), <1>2, <1>3, <2>1, <2>2, CloseSent, ExecEnds
<1>7. CASE CollectTimesOut
  <2>1. PICK r : r.kind = "timed_out" /\ Return(r) /\ Send(CloseAction)
    <3> DEFINE parsed == parse_direct_exec_output(collected, 1)
               r == [kind |-> "timed_out", stdout |-> parsed.stdout, code |-> parsed.code,
                     own |-> \A i \in DOMAIN collected : collected[i].of = 1]
    <3>1. Return(r) /\ Send(CloseAction)
      BY Zenon, <1>7 DEF CollectTimesOut, Complete
    <3> HIDE DEF parsed
    <3>2. r.kind = "timed_out"
      BY Zenon
    <3> QED
      BY Zenon, <3>1, <3>2
  <2> QED
    BY ZenonT(60), <1>2, <1>3, <2>1, CloseSent, ExecEnds
<1> QED
  BY ZenonT(60), <1>4, <1>5, <1>6, <1>7, DrainDataFits, SendCommandFits, CollectDataFits DEF Exec

LEMMA OpenSent ==
  ASSUME Typed, ExecFits, mode = "exec", pc \in Trying, Send([type |-> "open", id |-> 2, input |-> 0])
  PROVE  SentOnce(toPeer', "opening", ran) /\ SentOnce(toPeer', "done", ran)
<1> DEFINE a == [type |-> "open", id |-> 2, input |-> 0]
<1>1. SentOnce(toPeer, pc, ran) /\ toPeer \in Seq(Actions)
  BY Zenon, ExecFitsGives, SequenceTypes
<1>2. a \in Actions /\ a.type = "open"
  BY DEF Actions
<1>3. toPeer' = toPeer \/ toPeer' = Append(toPeer, a)
  BY Zenon DEF Send
<1> HIDE DEF a
<1>4. "opening" \in Trying /\ "done" \notin Trying \cup {"draining"} /\ pc # "done"
  BY DEF Trying
<1>5. SentOnce(toPeer', "opening", ran)
  <2>1. CASE toPeer' = toPeer
    BY Zenon, <1>1, <1>4, <2>1, GoSent
  <2>2. CASE toPeer' = Append(toPeer, a)
    BY Zenon, <1>1, <1>2, <1>4, <2>2, AppendSent
  <2> QED
    BY Zenon, <1>3, <2>1, <2>2
<1> QED
  BY Zenon, <1>4, <1>5, GoSent, "opening" # "done"

LEMMA OpenFits ==
  ASSUME Typed, ExecFits, Open
  PROVE  ExecFits'
<1>1. pc \in Trying /\ Keep
  BY Zenon DEF Open, Connected, ConnectFails, ProbeOpened, ProbeFails, ProbeTimesOut, OpenSucceeds, OpenFails, TakeOpened,
         Trying
<1>2. UNCHANGED <<ran, did>>
  BY Zenon, <1>1, KeepIs
<1>3. /\ pc # "done" /\ pc # "collecting" /\ "error" # "done" /\ "done" \notin Trying \cup {"draining"}
      /\ "opening" # "collecting" /\ "draining" # "collecting" /\ "draining" # "done"
  BY <1>1 DEF Trying
<1>4. collected \in Seq(Bytes) /\ result.kind # "done"
  BY Zenon, <1>3, ExecFitsGives
<1>5. mode = "exec" => SentOnce(toPeer, pc, ran) /\ Hears(collected, wire, pc, ran, did) /\ ran = <<>> /\ collected = <<>>
  BY Zenon, <1>1, <1>3, ExecFitsGives DEF SentOnce, Hears
<1>6. ASSUME Goto("opening"), wire' = wire, mode = "exec" => SentOnce(toPeer', "opening", ran) PROVE ExecFits'
  <2>1. pc' = "opening" /\ UNCHANGED <<mode, collected, result>>
    BY Zenon, <1>6 DEF Goto
  <2>2. mode = "exec" => Hears(collected', wire', pc', ran, did)
    BY Zenon, <1>3, <1>5, <1>6, <2>1 DEF Hears
  <2> QED
    BY ZenonT(60), <1>2, <1>3, <1>4, <1>6, <2>1, <2>2, ExecGoes
<1>7. CASE Connected
  <2>1. wire' = wire
    BY Zenon, <1>7 DEF Connected
  <2>2. CASE mode = "session"
    <3>1. mode # "exec" /\ Goto("probing")
      BY Zenon, <1>7, <2>2, "session" # "exec" DEF Connected
    <3> QED
      BY Zenon, <1>4, <3>1, OtherModes DEF Goto
  <2>3. CASE mode # "session"
    <3>1. CASE CanSend
      <4>1. Goto("opening") /\ Send([type |-> "open", id |-> 2, input |-> 0])
        BY Zenon, <1>7, <2>3, <3>1 DEF Connected
      <4> QED
        BY Zenon, <1>1, <1>6, <2>1, <4>1, OpenSent
    <3>2. CASE ~CanSend
      <4>1. Fail("error") /\ toPeer' = toPeer
        BY ZenonT(60), <1>7, <2>3, <3>2 DEF Connected
      <4> QED
        BY ZenonT(60), <1>2, <1>3, <1>5, <4>1, GoSent, FailEnds
    <3> QED
      BY Zenon, <3>1, <3>2
  <2> QED
    BY Zenon, <2>2, <2>3
<1>8. CASE ConnectFails \/ ProbeFails \/ OpenFails
  <2>1. Fail("error") /\ toPeer' = toPeer
    BY Zenon, <1>8 DEF ConnectFails, ProbeFails, OpenFails, Unexpected, Take, RecvFails
  <2> QED
    BY Zenon, <1>2, <1>3, <1>5, <2>1, GoSent, FailEnds
<1>9. CASE ProbeTimesOut
  <2>1. Send([type |-> "open", id |-> 2, input |-> 0]) /\ wire' = wire
    BY Zenon, <1>9 DEF ProbeTimesOut, DropRecv
  <2>2. Goto("opening") \/ Fail("error")
    BY Zenon, <1>9 DEF ProbeTimesOut
  <2>3. mode = "exec" => SentOnce(toPeer', "opening", ran) /\ SentOnce(toPeer', "done", ran)
    BY Zenon, <1>1, <2>1, OpenSent
  <2> QED
    BY ZenonT(60), <1>2, <1>3, <1>6, <2>1, <2>2, <2>3, FailEnds
<1>10. ASSUME NEW next, TakeOpened(next), mode = "exec" => next = "draining" PROVE ExecFits'
  <2>1. /\ wire # <<>> /\ wire' = Tail(wire) /\ pc' = next /\ UNCHANGED <<mode, collected, result, toPeer>>
    BY Zenon, <1>10 DEF TakeOpened, Take, Next_is
  <2>2. CASE mode # "exec"
    BY Zenon, <1>4, <2>1, <2>2, OtherModes
  <2>3. CASE mode = "exec"
    <3>1. SentOnce(toPeer', pc', ran)
      <4>1. pc' = "draining" /\ pc \in Trying \cup {"draining"}
        BY Zenon, <1>1, <1>10, <2>1, <2>3
      <4> QED
        BY Zenon, <1>3, <1>5, <2>1, <2>3, <4>1, GoSent
    <3>2. OnlyNoise(<<>> \o On(wire))
      BY Zenon, <1>5, <2>3 DEF Hears, Fits
    <3>3. Hears(collected', wire', pc', ran, did)
      BY Zenon, <1>5, <2>1, <2>3, <3>2, SequenceTypes, NoiseTaken DEF Hears, Fits
    <3> QED
      BY ZenonT(60), <1>2, <1>3, <1>4, <2>1, <3>1, <3>3, ExecGoes
  <2> QED
    BY Zenon, <2>2, <2>3
<1>11. CASE ProbeOpened
  <2>1. mode # "exec" /\ TakeOpened("session")
    BY Zenon, <1>11, "session" # "exec" DEF ProbeOpened, Typed, TypeOK
  <2> QED
    BY Zenon, <1>10, <2>1
<1>12. CASE OpenSucceeds
  <2>1. mode \in {"exec", "session", "text"} /\ "exec" # "session" /\ "exec" # "text"
    BY Zenon DEF Typed, TypeOK
  <2>2. PICK next : TakeOpened(next) /\ (mode = "exec" => next = "draining")
    BY Zenon, <1>12, <2>1 DEF OpenSucceeds
  <2> QED
    BY Zenon, <1>10, <2>2
<1> QED
  BY Zenon, <1>7, <1>8, <1>9, <1>11, <1>12 DEF Open

LEMMA ReceivedBytes ==
  ASSUME Typed, NEW n \in 1 .. Len(wire)
  PROVE  Received(n) \in Seq(Bytes)
<1>1. wire \in Seq(Responses) /\ Received(n) = [p \in 1 .. n |-> wire[p].byte]
  BY Zenon, SequenceTypes DEF Received
<1>2. n \in Nat /\ \A i \in 1 .. n : wire[i] \in Responses
  BY <1>1
<1>3. \A i \in 1 .. n : wire[i].byte \in Bytes
  BY Zenon, <1>2 DEF Responses
<1> QED
  BY <1>1, <1>2, <1>3

LEMMA SessionFits ==
  ASSUME Typed, ExecFits, Session
  PROVE  ExecFits'
<1>1. mode = "session" /\ mode # "exec"
  <2>1. mode = "session"
    BY Zenon DEF Session, UserTypes, UserEnds, SessionInput, SessionEof, SessionData, SessionClosed, SessionFails,
          Typed, TypeOK
  <2> QED
    BY Zenon, <2>1, "session" # "exec"
<1>2. collected \in Seq(Bytes) /\ result.kind # "done"
  BY Zenon, <1>1, ExecFitsGives
<1>3. ASSUME NEW why \in {"error", "eof", "closed"}, Fail(why) PROVE ExecFits'
  <2>1. why # "done"
    OBVIOUS
  <2>2. PICK r : Return(r) /\ r.kind = why
    BY Zenon, <1>3, FailIs
  <2>3. mode' = mode /\ collected' = collected /\ result' = r
    BY Zenon, <2>2 DEF Return
  <2> QED
    BY Zenon, <1>1, <1>2, <2>1, <2>2, <2>3, OtherModes
<1>4. UNCHANGED <<mode, collected, result>> \/ Fail("error") \/ Fail("eof") \/ Fail("closed")
  BY Zenon DEF Session, UserTypes, UserEnds, SessionInput, SessionEof, SessionData, SessionClosed, SessionFails, clientVars
<1> QED
  BY ZenonT(60), <1>1, <1>2, <1>3, <1>4, OtherModes

LEMMA TextFits ==
  ASSUME Typed, ExecFits, Text
  PROVE  ExecFits'
<1>1. mode = "text" /\ mode # "exec"
  <2>1. mode = "text"
    BY Zenon DEF Text, text_exec, text_disconnect, TextData, TextIdle, TextClosed, TextFails, TextTimesOut, Typed, TypeOK
  <2> QED
    BY Zenon, <2>1, "text" # "exec"
<1>2. collected \in Seq(Bytes) /\ result.kind # "done" /\ <<>> \in Seq(Bytes)
  <2>1. <<>> \in Seq(Bytes)
    OBVIOUS
  <2> QED
    BY Zenon, <1>1, <2>1, ExecFitsGives
<1>3. ASSUME NEW why \in {"error", "eof"}, Fail(why) PROVE ExecFits'
  <2>1. why # "done"
    OBVIOUS
  <2>2. PICK r : Return(r) /\ r.kind = why
    BY Zenon, <1>3, FailIs
  <2>3. mode' = mode /\ collected' = collected /\ result' = r
    BY Zenon, <2>2 DEF Return
  <2> QED
    BY ZenonT(60), <1>1, <1>2, <2>1, <2>2, <2>3, OtherModes
<1>4. \/ Fail("error") \/ Fail("eof")
      \/ mode' = mode /\ result' = result /\ collected' = <<>>
      \/ \E n \in 1 .. Len(wire) : mode' = mode /\ result' = result /\ collected' = collected \o Received(n)
  BY Zenon DEF Text, text_exec, text_disconnect, TextData, TextIdle, TextClosed, TextFails, TextTimesOut, Back
<1> QED
  BY ZenonT(60), <1>1, <1>2, <1>3, <1>4, ReceivedBytes, ConcatProperties, OtherModes

LEMMA NoiseIs ==
  ASSUME NEW id \in {1, 2}, NEW b \in Seq(Bytes), \A i \in 1 .. Len(b) : b[i].of = 0
  PROVE  Data(id, b) \in Seq(Responses) /\ OnlyNoise(On(Data(id, b)))
<1>1. DOMAIN b = 1 .. Len(b)
  OBVIOUS
<1> QED
  BY Zenon, <1>1, DataIsResponses, OnData DEF OnlyNoise

LEMMA OpensFits ==
  ASSUME Typed, ExecFits, NEW id \in {1, 2}, Opens(id), mode = "exec", pc # "done"
  PROVE  Fits(collected \o On(wire'), ran, did)
<1>1. wire \in Seq(Responses) /\ collected \in Seq(Bytes) /\ Fits(collected \o On(wire), ran, did)
  BY Zenon, SequenceTypes, ExecFitsGives DEF Hears
<1>2. CASE wire' = wire \o Response("error", id)
  <2>1. Response("error", id) \in Seq(Responses) /\ OnlyNoise(On(Response("error", id)))
    BY Zenon, ResponseIsResponses, OnResponse
  <2> QED
    BY Zenon, <1>1, <1>2, <2>1, NoiseSaid
<1>3. ASSUME NEW b \in Seq(Bytes), OpensWith(id, b), \A i \in 1 .. Len(b) : b[i].of = 0
      PROVE  Fits(collected \o On(wire'), ran, did)
  <2> DEFINE w == wire \o Response("opened", id)
  <2>1. Response("opened", id) \in Seq(Responses) /\ OnlyNoise(On(Response("opened", id)))
    BY Zenon, ResponseIsResponses, OnResponse
  <2>2. w \in Seq(Responses) /\ Fits(collected \o On(w), ran, did)
    BY Zenon, <1>1, <2>1, NoiseSaid
  <2>3. Data(id, b) \in Seq(Responses) /\ OnlyNoise(On(Data(id, b)))
    BY Zenon, <1>3, NoiseIs
  <2>4. wire' = w \o Data(id, b)
    BY Zenon, <1>3 DEF OpensWith
  <2> HIDE DEF w
  <2> QED
    BY Zenon, <1>1, <2>2, <2>3, <2>4, NoiseSaid
<1> QED
  BY Zenon, <1>2, <1>3, OpensCases

LEMMA PeerRunsFits ==
  ASSUME Typed, ExecFits, PeerRuns
  PROVE  ExecFits'
<1>1. PeerTakes("data") /\ UNCHANGED <<mode, pc, collected, result>>
  BY Zenon DEF PeerRuns, clientVars
<1>2. /\ toPeer # <<>> /\ toPeer' = Tail(toPeer) /\ Head(toPeer).type = "data"
      /\ Head(toPeer).id \in {1, 2}
  BY Zenon, <1>1, PeerTakesTyped
<1>3. toPeer \in Seq(Actions) /\ wire \in Seq(Responses) /\ collected \in Seq(Bytes) /\ ran \in Seq(Nat)
  BY Zenon, SequenceTypes, ExecFitsGives
<1>4. mode = "exec" => ran = <<>> /\ pc \notin Trying \cup {"draining"} /\ \A x : SentOnce(Tail(toPeer), pc, x)
  BY Zenon, <1>2, <1>3, ExecFitsGives, TailSent
<1>5. result.kind # "done"
  BY Zenon, <1>4, ExecFitsGives
<1>6. CASE mode # "exec"
  BY ZenonT(60), <1>1, <1>3, <1>5, <1>6, OtherModes
<1>7. CASE mode = "exec"
  <2>1. pc # "done" => Hears(collected, wire, pc, ran, did)
    BY Zenon, <1>7, ExecFitsGives
  <2>2. CASE UNCHANGED <<did, ran, wire>>
    BY ZenonT(60), <1>1, <1>2, <1>3, <1>4, <1>5, <1>7, <2>1, <2>2, ExecFitsFrom
  <2>3. ASSUME NEW out \in Outputs, NEW code \in Codes, ran' = Append(ran, Head(toPeer).input),
               did' = [out |-> By(1, out), code |-> By(1, code)],
               wire' = wire \o Data(Head(toPeer).id, Transcript(1, [out |-> out, code |-> code]))
        PROVE  ExecFits'
    <3>1. ran' # <<>>
      <4>1. \A x : Append(<<>>, x) # <<>>
        OBVIOUS
      <4> QED
        BY Zenon, <1>4, <1>7, <2>3, <4>1
    <3>2. ASSUME pc # "done" PROVE Hears(collected', wire', pc', ran', did')
      <4>1. OnlyNoise(collected \o On(wire)) /\ (pc # "collecting" => collected = <<>>)
        BY Zenon, <1>4, <1>7, <2>1, <3>2 DEF Hears, Fits
      <4>2. Fits(collected \o On(wire'), ran', did')
        BY ZenonT(60), <1>2, <1>3, <2>3, <3>1, <4>1, TranscriptSaid
      <4> QED
        BY Zenon, <1>1, <4>1, <4>2 DEF Hears
    <3> QED
      BY ZenonT(60), <1>1, <1>2, <1>3, <1>4, <1>5, <1>7, <3>2, ExecFitsFrom
  <2> QED
    BY Zenon, <1>7, <2>2, <2>3 DEF PeerRuns, Prints
<1> QED
  BY Zenon, <1>6, <1>7

LEMMA PeerFits ==
  ASSUME Typed, ExecFits, Peer
  PROVE  ExecFits'
<1>1. /\ toPeer \in Seq(Actions) /\ wire \in Seq(Responses) /\ opened \subseteq {1, 2} /\ collected \in Seq(Bytes)
      /\ 1 \in {1, 2} /\ 2 \in {1, 2}
  BY Zenon, SequenceTypes, ExecFitsGives
<1>2. mode = "exec" => SentOnce(toPeer, pc, ran)
  BY Zenon, ExecFitsGives
<1>3. mode = "exec" /\ pc # "done" => Fits(collected \o On(wire), ran, did)
  BY Zenon, ExecFitsGives DEF Hears
<1>4. CASE PeerOpensUnasked
  BY ZenonT(60), <1>1, <1>2, <1>4, OpensFits, GoesOn DEF PeerOpensUnasked
<1>5. CASE PeerOpens
  <2>1. mode = "exec" => SentOnce(toPeer', pc, ran)
    BY ZenonT(60), <1>1, <1>2, <1>5, TailSent DEF PeerOpens, PeerTakes
  <2> QED
    BY Zenon, <1>1, <1>5, <2>1, OpensFits, GoesOn DEF PeerOpens
<1>6. CASE PeerCloses
  <2>1. PeerTakes("close") /\ UNCHANGED <<clientVars, did, ran>>
    BY Zenon, <1>6 DEF PeerCloses
  <2>2. mode = "exec" => SentOnce(toPeer', pc, ran) /\ pc = "done"
    BY Zenon, <1>1, <1>2, <2>1, TailSent DEF PeerTakes
  <2> QED
    BY Zenon, <2>1, <2>2, GoesOn
<1>7. CASE PeerEnds
  <2>1. PICK id \in opened, t \in {"closed", "error"} : wire' = wire \o Response(t, id)
    BY Zenon, <1>7 DEF PeerEnds
  <2>2. Response(t, id) \in Seq(Responses) /\ OnlyNoise(On(Response(t, id)))
    BY Zenon, <1>1, ResponseIsResponses, OnResponse
  <2>3. mode = "exec" /\ pc # "done" => Fits(collected \o On(wire'), ran, did)
    BY Zenon, <1>1, <1>3, <2>1, <2>2, NoiseSaid
  <2>4. UNCHANGED <<clientVars, did, ran, toPeer>>
    BY Zenon, <1>7 DEF PeerEnds
  <2> QED
    BY Zenon, <1>2, <2>3, <2>4, GoesOn
<1>8. CASE PeerChatters
  <2>1. PICK id \in opened : wire' = wire \o Data(id, By(0, <<"b">>))
    BY Zenon, <1>8 DEF PeerChatters, Prints
  <2>2. Data(id, By(0, <<"b">>)) \in Seq(Responses) /\ OnlyNoise(On(Data(id, By(0, <<"b">>))))
    <3>1. By(0, <<"b">>) \in Seq(Bytes) /\ \A i \in 1 .. Len(By(0, <<"b">>)) : By(0, <<"b">>)[i].of = 0
      BY Zenon, NoiseIsBytes
    <3> QED
      BY Zenon, <1>1, <3>1, NoiseIs
  <2>3. mode = "exec" /\ pc # "done" => Fits(collected \o On(wire'), ran, did)
    BY Zenon, <1>1, <1>3, <2>1, <2>2, NoiseSaid
  <2>4. UNCHANGED <<clientVars, did, ran, toPeer>>
    BY Zenon, <1>8 DEF PeerChatters
  <2> QED
    BY Zenon, <1>2, <2>3, <2>4, GoesOn
<1>9. CASE Noise \/ StreamBreaks
  <2>1. UNCHANGED <<clientVars, toPeer, wire, did, ran>>
    BY Zenon, <1>9 DEF Noise, StreamBreaks, peerVars
  <2> QED
    BY Zenon, <1>2, <1>3, <2>1, GoesOn
<1> QED
  BY ZenonT(60), <1>4, <1>5, <1>6, <1>7, <1>8, <1>9, PeerRunsFits DEF Peer

LEMMA InitFits == Init => ExecFits
<1> SUFFICES ASSUME Init PROVE ExecFits
  BY Zenon
<1>1. /\ pc = "connecting" /\ collected = <<>> /\ wire = <<>> /\ toPeer = <<>> /\ ran = <<>> /\ result = NoResult
  BY Zenon DEF Init
<1>2. collected \in Seq(Bytes) /\ DOMAIN toPeer = {} /\ DOMAIN wire = {} /\ result.kind # "done"
  BY <1>1 DEF NoResult
<1>3. DOMAIN Incoming = {}
  <2>1. <<>> \in Seq(Responses) /\ Len(<<>>) = 0
    OBVIOUS
  <2>2. On(wire) \in Seq(Bytes) /\ Len(On(wire)) = 0
    BY Zenon, <1>1, <2>1, OnParts
  <2>3. Incoming = On(wire)
    BY Zenon, <1>1, <2>2, ConcatEmptySeq DEF Incoming, On
  <2> QED
    BY <2>2, <2>3
<1>4. OnlyNoise(Incoming)
  BY Zenon, <1>3 DEF OnlyNoise
<1>5. CommandSentOnce
  BY Zenon, <1>1, <1>2 DEF CommandSentOnce
<1> QED
  BY ZenonT(60), <1>1, <1>2, <1>4, <1>5 DEF ExecFits

LEMMA StepFits == Typed /\ ExecFits /\ [Next]_vars => ExecFits'
<1>1. ASSUME ExecFits, UNCHANGED vars PROVE ExecFits'
  <2>1. UNCHANGED <<clientVars, toPeer, wire, did, ran>>
    BY Zenon, <1>1 DEF vars, peerVars
  <2> QED
    BY ZenonT(60), <1>1, <2>1, ExecFitsGives, GoesOn DEF Hears
<1> QED
  BY ZenonT(60), <1>1, PeerFits, OpenFits, ExecStepFits, SessionFits, TextFits DEF Next

(* An exec of its own connection that completed has seen the end of its own   *)
(* command, however its output was cut into chunks and whatever was printed   *)
(* around it: the exit code is that of the command, and when nothing else     *)
(* came in between the output is what it printed, to the last byte            *)
(* (direct_exec and parse_direct_exec_output).                                *)
THEOREM DirectStdoutCorrect == Spec => []DirectStdoutExact
<1>1. ExecFits => DirectStdoutExact
  BY Zenon DEF ExecFits, DirectStdoutExact
<1> QED
  BY <1>1, TypedInvariance, InitFits, StepFits, PTL DEF Spec

=============================================================================
