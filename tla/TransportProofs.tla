-------------------------- MODULE TransportProofs --------------------------
(***************************************************************************)
(* Proofs of the safety properties of Connect, for any number of attempts, *)
(* any set of hosts and any configured relay, of EncryptedStream, for any  *)
(* lengths and any number of frames, and of PushTransfer, for files,       *)
(* blocks and offset limits of any size and any number of versions of the  *)
(* file.                                                                   *)
(***************************************************************************)
EXTENDS PushTransfer, Connect, EncryptedStream, TLAPS

-----------------------------------------------------------------------------
(* Module PushTransfer.  Sequences first.                                     *)

LEMMA EmptySeq ==
  ASSUME NEW S
  PROVE  /\ <<>> \in Seq(S) /\ Len(<<>>) = 0
         /\ \A seq \in Seq(S) : seq # <<>> => Len(seq) \in Nat \ {0}
  OBVIOUS

LEMMA FunctionIsSeq ==
  ASSUME NEW S, NEW n \in Nat, NEW c \in [1 .. n -> S]
  PROVE  c \in Seq(S) /\ Len(c) = n
  OBVIOUS

LEMMA LenProperties ==
  ASSUME NEW S, NEW seq \in Seq(S)
  PROVE  Len(seq) \in Nat /\ seq \in [1 .. Len(seq) -> S] /\ DOMAIN seq = 1 .. Len(seq)
  OBVIOUS

LEMMA SeqEqual ==
  ASSUME NEW S, NEW s \in Seq(S), NEW t \in Seq(S), Len(s) = Len(t),
         \A i \in 1 .. Len(s) : s[i] = t[i]
  PROVE  s = t
  OBVIOUS

LEMMA AppendFacts ==
  ASSUME NEW S, NEW s \in Seq(S), NEW e \in S
  PROVE  /\ Append(s, e) \in Seq(S) /\ Append(s, e) # <<>>
         /\ Len(Append(s, e)) = Len(s) + 1 /\ DOMAIN Append(s, e) = 1 .. Len(s) + 1
         /\ \A i \in 1 .. Len(s) : Append(s, e)[i] = s[i]
         /\ Append(s, e)[Len(s) + 1] = e
  BY SMT

LEMMA TailFacts ==
  ASSUME NEW S, NEW s \in Seq(S), s # <<>>
  PROVE  /\ Head(s) = s[1] /\ s[1] \in S /\ Len(s) \in Nat \ {0}
         /\ Tail(s) \in Seq(S) /\ Len(Tail(s)) = Len(s) - 1 /\ DOMAIN Tail(s) = 1 .. Len(s) - 1
         /\ \A i \in 1 .. Len(s) - 1 : Tail(s)[i] = s[i + 1]
         /\ Len(s) = 1 => Tail(s) = <<>>
<1>1. Len(s) \in Nat \ {0} /\ Head(s) = s[1] /\ s[1] \in S
  BY SMT
<1>2. /\ Tail(s) \in Seq(S) /\ Len(Tail(s)) = Len(s) - 1 /\ DOMAIN Tail(s) = 1 .. Len(s) - 1
      /\ \A i \in 1 .. Len(s) - 1 : Tail(s)[i] = s[i + 1]
  BY <1>1, SMT
<1>3. Len(s) = 1 => Tail(s) = <<>>
  BY <1>2, EmptySeq
<1> QED
  BY Zenon, <1>1, <1>2, <1>3

LEMMA OneFacts ==
  ASSUME NEW S, NEW e \in S
  PROVE  /\ <<e>> \in Seq(S) /\ <<e>> # <<>> /\ Len(<<e>>) = 1 /\ DOMAIN <<e>> = {1}
         /\ <<e>>[1] = e
  BY SMT

LEMMA PrefixFacts ==
  ASSUME NEW S, NEW s \in Seq(S), NEW n \in 0 .. Len(s)
  PROVE  /\ SubSeq(s, 1, n) \in Seq(S) /\ Len(SubSeq(s, 1, n)) = n
         /\ DOMAIN SubSeq(s, 1, n) = 1 .. n
         /\ \A k \in 1 .. n : SubSeq(s, 1, n)[k] = s[k]
  BY SMT

LEMMA JoinFacts ==
  ASSUME NEW S, NEW s \in Seq(S), NEW t \in Seq(S)
  PROVE  /\ s \o t \in Seq(S) /\ Len(s \o t) = Len(s) + Len(t)
         /\ DOMAIN (s \o t) = 1 .. Len(s) + Len(t)
         /\ \A k \in 1 .. Len(s) : (s \o t)[k] = s[k]
         /\ \A k \in Len(s) + 1 .. Len(s) + Len(t) : (s \o t)[k] = t[k - Len(s)]
  BY SMT

LEMMA BytesFacts ==
  ASSUME NEW f \in Files, NEW from \in Nat, NEW n \in Nat
  PROVE  /\ Bytes(f, from, from + n) \in Seq(Byte) /\ Len(Bytes(f, from, from + n)) = n
         /\ DOMAIN Bytes(f, from, from + n) = 1 .. n
         /\ \A k \in 1 .. n : Bytes(f, from, from + n)[k] = [of |-> f.version, at |-> from + k]
<1>1. (from + n) - from = n
  OBVIOUS
<1>2. Bytes(f, from, from + n) = [k \in 1 .. n |-> [of |-> f.version, at |-> from + k]]
  BY Zenon, <1>1 DEF Bytes
<1>3. Bytes(f, from, from + n) \in [1 .. n -> Byte]
  BY <1>2, SizeAssumption DEF Byte, Files
<1> QED
  BY <1>2, <1>3

(* The offset of a confirmation survives its encoding. *)
LEMMA OffsetFits ==
  ASSUME NEW n \in 0 .. U32Max
  PROVE  AsU32(n) = n
  BY SizeAssumption DEF AsU32
-----------------------------------------------------------------------------
(* The inductive invariant, one lemma per action or group of like actions. *)

LEMMA InitIInv == Init => IInv
<1> SUFFICES ASSUME Init PROVE IInv
  BY Zenon
<1> USE SizeAssumption
<1>1. PICK v \in {0, 1}, n \in 0 .. MaxLen :
          /\ v = 1 => n <= local.len
          /\ remote = [version |-> v, data |-> Bytes([version |-> v], 0, n)]
  BY Zenon DEF Init
<1> DEFINE data == Bytes([version |-> v], 0, n)
<1>2. /\ data \in Seq(Byte) /\ Len(data) = n /\ DOMAIN data = 1 .. n
      /\ \A k \in 1 .. n : data[k] = [of |-> v, at |-> k]
  <2>1. data = [k \in 1 .. n |-> [of |-> v, at |-> k]] /\ v \in Nat /\ n \in Nat
    BY DEF Bytes
  <2> HIDE DEF data
  <2>2. data \in [1 .. n -> Byte]
    BY <2>1 DEF Byte
  <2> QED
    BY <2>1, <2>2
<1>3. remote.version = v /\ remote.data = data
  BY Zenon, <1>1
<1> HIDE DEF data
<1>4. local \in Files /\ local.version = 1 /\ local.len \in 0 .. MaxLen /\ opened = local
  BY Zenon DEF Init, Files
<1>5. remote \in [version : 0 .. MaxVersion, data : Seq(Byte)]
  BY <1>1, <1>2 DEF data
<1>6. TypeOK
  BY <1>4, <1>5 DEF Init, TypeOK
<1>7. VersionsFit
  BY SMTT(60), <1>1, <1>2, <1>3, <1>4 DEF VersionsFit, Unchanged
<1>8. PeerFits /\ AnswersFit /\ QueueFits /\ BlocksFit
  BY DEF Init, PeerFits, AnswersFit, QueueFits, BlocksFit
<1> QED
  BY Zenon, <1>6, <1>7, <1>8 DEF IInv

(* A new version of the file is one the peer has nothing of. *)
LEMMA ChangeKeeps ==
  ASSUME IInv, LocalFileChanges
  PROVE  IInv'
<1> USE SizeAssumption DEF LocalFileChanges, senderVars, peerVars
<1>1. PICK n \in 0 .. MaxLen : local' = [version |-> local.version + 1, len |-> n]
  BY Zenon
<1>2. local.version \in 1 .. MaxVersion /\ opened.version \in 1 .. MaxVersion /\ remote.version \in 0 .. MaxVersion
  BY Zenon DEF IInv, TypeOK, Files
<1>3. local' \in Files /\ local'.version = local.version + 1
  BY <1>1, <1>2 DEF Files
<1>4. TypeOK'
  BY ZenonT(60), <1>3 DEF IInv, TypeOK
<1>5. opened'.version < local'.version /\ remote'.version < local'.version /\ remote'.version <= opened'.version
  BY SMTT(60), <1>2, <1>3 DEF IInv, VersionsFit
<1>6. VersionsFit' /\ BlocksFit' /\ ~Unchanged'
  BY SMTT(60), <1>2, <1>3, <1>5 DEF VersionsFit, BlocksFit, Unchanged
<1>7. PeerFits' /\ AnswersFit' /\ QueueFits'
  BY SMTT(60), <1>6 DEF IInv, PeerFits, AnswersFit, AnswerFits, QueueFits, Same
<1> QED
  BY Zenon, <1>4, <1>6, <1>7 DEF IInv

(* A run that fails leaves the peer what it wrote, and nothing on the way. *)
LEMMA FailKeeps ==
  ASSUME IInv, RunFails
  PROVE  IInv'
<1>1. CASE pc' = "begin"
  <2>1. /\ run' = 2 /\ toPeer' = <<>> /\ fromPeer' = <<>> /\ peer' = "asked"
        /\ UNCHANGED <<opened, resumed_bytes, sent_bytes, local, remote>>
    BY Zenon, <1>1 DEF RunFails
  <2>2. TypeOK' /\ VersionsFit'
    BY <1>1, <2>1 DEF IInv, TypeOK, VersionsFit, Unchanged
  <2>3. PeerFits' /\ AnswersFit' /\ QueueFits' /\ BlocksFit'
    BY <1>1, <2>1 DEF PeerFits, AnswersFit, QueueFits, BlocksFit
  <2> QED
    BY Zenon, <2>2, <2>3 DEF IInv
<1>2. CASE pc' = "failed"
  <2>1. UNCHANGED <<run, opened, resumed_bytes, sent_bytes, local, toPeer, fromPeer, remote, peer>>
    BY Zenon, <1>2 DEF RunFails, peerVars
  <2>2. TypeOK' /\ VersionsFit'
    BY Zenon, <1>2, <2>1 DEF IInv, TypeOK, VersionsFit, Unchanged
  <2>3. PeerFits'
    BY Zenon, <1>2, <2>1 DEF IInv, PeerFits, Unchanged, Same
  <2>4. AnswersFit'
    BY Zenon, <1>2, <2>1 DEF IInv, AnswersFit
  <2>5. QueueFits'
    BY Zenon, <1>2, <2>1 DEF IInv, QueueFits, Same
  <2>6. BlocksFit'
    BY Zenon, <1>2, <2>1 DEF IInv, BlocksFit, Unchanged
  <2> QED
    BY Zenon, <2>2, <2>3, <2>4, <2>5, <2>6 DEF IInv
<1> QED
  BY Zenon, <1>1, <1>2 DEF RunFails

LEMMA BeginKeeps ==
  ASSUME IInv, Begin
  PROVE  IInv'
<1> USE SizeAssumption DEF Begin, peerVars
<1>1. toPeer = <<>> /\ fromPeer = <<>> /\ peer = "asked"
  BY Zenon DEF IInv, PeerFits
<1>2. local \in Files /\ local.len \in 0 .. MaxLen /\ local.version \in 1 .. MaxVersion /\ remote.version \in 0 .. MaxVersion
      /\ opened.version \in 1 .. MaxVersion
  BY Zenon DEF IInv, TypeOK, Files
<1>3. /\ LocalDigest \in Messages({"digest", "confirm", "block", "done"})
      /\ LocalDigest.type = "digest" /\ LocalDigest.n = local.len /\ LocalDigest.data = <<>>
  BY <1>2 DEF LocalDigest, Msg, Messages
<1>4. toPeer' = <<LocalDigest>>
  BY <1>1
<1>5. toPeer' \in Seq(Messages({"digest", "confirm", "block", "done"})) /\ Len(toPeer') = 1 /\ DOMAIN toPeer' = {1}
      /\ toPeer'[1] = LocalDigest
  BY SMTT(60), <1>3, <1>4, OneFacts
<1>6. TypeOK'
  BY <1>2, <1>5 DEF IInv, TypeOK
<1>7. VersionsFit'
  BY <1>2 DEF IInv, VersionsFit, Unchanged
<1>8. PeerFits' /\ AnswersFit'
  BY SMTT(60), <1>1, <1>3, <1>5 DEF PeerFits, AnswersFit
<1>9. QueueFits' /\ BlocksFit'
  BY <1>1, <1>3, <1>5 DEF QueueFits, BlocksFit
<1> QED
  BY ZenonT(60), <1>6, <1>7, <1>8, <1>9 DEF IInv

Questions == Messages({"digest", "confirm", "block", "done"})
Answers == Messages({"identical", "different", "offset", "skip", "done", "error"})

(* The first message of the peer, when the sender waits for its answer. *)
LEMMA AnswerHead ==
  ASSUME IInv, pc = "confirm", fromPeer # <<>>
  PROVE  /\ Head(fromPeer) \in Answers /\ AnswerFits(Head(fromPeer))
         /\ Tail(fromPeer) \in Seq(Answers)
         /\ \A i \in DOMAIN Tail(fromPeer) : AnswerFits(Tail(fromPeer)[i])
<1>1. fromPeer \in Seq(Answers) /\ \A i \in DOMAIN fromPeer : AnswerFits(fromPeer[i])
  BY Zenon DEF IInv, TypeOK, AnswersFit, Answers
<1> HIDE DEF Answers
<1>2. /\ Head(fromPeer) = fromPeer[1] /\ fromPeer[1] \in Answers /\ Tail(fromPeer) \in Seq(Answers)
      /\ 1 \in DOMAIN fromPeer /\ \A i \in DOMAIN Tail(fromPeer) : i + 1 \in DOMAIN fromPeer /\ Tail(fromPeer)[i] = fromPeer[i + 1]
  BY <1>1, TailFacts, LenProperties
<1> QED
  BY Zenon, <1>1, <1>2

(* The sender's offset is one the peer has, and the one in its confirmation. *)
LEMMA RecvDigestKeeps ==
  ASSUME IInv, RecvDigest
  PROVE  IInv'
<1> USE SizeAssumption
<1> DEFINE m == Head(fromPeer)
           o == Offset(m)
           c == Msg("confirm", AsU32(o), <<>>)
<1>1. /\ pc = "confirm" /\ fromPeer # <<>> /\ m.type \in {"identical", "different"}
      /\ pc' = "sending" /\ resumed_bytes' = o /\ sent_bytes' = o
      /\ toPeer' = Append(toPeer, c) /\ fromPeer' = Tail(fromPeer)
      /\ UNCHANGED <<run, opened, local, remote, peer>>
  BY Zenon DEF RecvDigest, StartAt, Next_is, peerVars
<1>2. m \in Answers /\ AnswerFits(m) /\ fromPeer' \in Seq(Answers)
  BY Zenon, <1>1, AnswerHead
<1> HIDE DEF m
<1>3. /\ toPeer = <<>> /\ peer \in {"confirming", "stopped"} /\ m.n \in Nat
      /\ m.type = "identical" => Same /\ m.n = Len(remote.data)
  BY Zenon, <1>1, <1>2 DEF AnswerFits, Answers, Messages
<1>4. opened.len \in 0 .. MaxLen
  BY ZenonT(60) DEF IInv, TypeOK, Files
<1>5. o \in 0 .. U32Max /\ o <= opened.len /\ (o = 0 \/ (Same /\ o <= Len(remote.data)))
  BY <1>1, <1>3, <1>4 DEF Offset, Min2
<1> HIDE DEF o
<1>6. AsU32(o) = o
  BY ZenonT(60), <1>5, OffsetFits
<1>7. c \in Questions /\ c.type = "confirm" /\ c.n = o /\ c.data = <<>>
  BY <1>5, <1>6 DEF Msg, Questions, Messages
<1> HIDE DEF c
<1>8. toPeer' = <<c>>
  BY <1>1, <1>3
<1>9. toPeer' \in Seq(Questions) /\ Len(toPeer') = 1 /\ DOMAIN toPeer' = {1} /\ toPeer'[1] = c
  BY ZenonT(60), <1>7, <1>8, OneFacts
<1>10. TypeOK'
  BY SMTT(60), <1>1, <1>2, <1>4, <1>5, <1>9 DEF IInv, TypeOK, Questions, Answers
<1>11. VersionsFit' /\ PeerFits' /\ AnswersFit'
  BY Zenon, <1>1, <1>3 DEF IInv, VersionsFit, Unchanged, PeerFits, Same, AnswersFit
<1>12. QueueFits'
  BY <1>1, <1>3, <1>5, <1>7, <1>9 DEF QueueFits, Same
<1>13. BlocksFit'
  BY ZenonT(60), <1>1, <1>3, <1>5, <1>7, <1>9 DEF BlocksFit
<1> QED
  BY Zenon, <1>10, <1>11, <1>12, <1>13 DEF IInv

LEMMA RecvOffsetKeeps ==
  ASSUME IInv, RecvOffset
  PROVE  IInv'
<1> USE SizeAssumption
<1> DEFINE m == Head(fromPeer)
           o == Min2(m.n, opened.len)
<1>1. /\ pc = "confirm" /\ fromPeer # <<>> /\ m.type = "offset"
      /\ pc' = "sending" /\ resumed_bytes' = o /\ sent_bytes' = o
      /\ fromPeer' = Tail(fromPeer)
      /\ UNCHANGED <<run, opened, local, toPeer, remote, peer>>
  BY Zenon DEF RecvOffset, StartAt, Next_is, peerVars
<1>2. m \in Answers /\ AnswerFits(m) /\ fromPeer' \in Seq(Answers)
  BY Zenon, <1>1, AnswerHead
<1> HIDE DEF m
<1>3. toPeer = <<>> /\ peer \in {"writing", "stopped"} /\ m.n \in Nat /\ m.n = Len(remote.data)
  BY Zenon, <1>1, <1>2 DEF AnswerFits, Answers, Messages
<1>4. opened.len \in 0 .. MaxLen
  BY Zenon DEF IInv, TypeOK, Files
<1>5. o \in Nat /\ o <= opened.len
  BY SMTT(60), <1>3, <1>4 DEF Min2
<1>6. peer = "writing" /\ Unchanged => o = Len(remote.data)
  BY SMTT(60), <1>3, <1>4 DEF IInv, VersionsFit, PeerFits, Unchanged, Same, Min2
<1> HIDE DEF o
<1>7. TypeOK'
  BY SMTT(60), <1>1, <1>2, <1>4, <1>5 DEF IInv, TypeOK, Answers
<1>8. VersionsFit' /\ PeerFits' /\ AnswersFit'
  BY ZenonT(60), <1>1, <1>3 DEF IInv, VersionsFit, Unchanged, PeerFits, Same, AnswersFit
<1>9. QueueFits' /\ BlocksFit'
  BY <1>1, <1>3, <1>5, <1>6 DEF QueueFits, BlocksFit, Unchanged
<1> QED
  BY Zenon, <1>7, <1>8, <1>9 DEF IInv

LEMMA RecvSkipKeeps ==
  ASSUME IInv, RecvSkip
  PROVE  IInv'
<1> USE SizeAssumption
<1>1. /\ pc = "confirm" /\ fromPeer # <<>> /\ Head(fromPeer).type = "skip"
      /\ pc' = "complete" /\ resumed_bytes' = opened.len /\ sent_bytes' = opened.len
      /\ fromPeer' = Tail(fromPeer)
      /\ UNCHANGED <<run, opened, local, toPeer, remote, peer>>
  BY Zenon DEF RecvSkip, Next_is, peerVars
<1>2. AnswerFits(Head(fromPeer)) /\ fromPeer' \in Seq(Answers)
  BY Zenon, <1>1, AnswerHead
<1>3. toPeer = <<>> /\ peer \in {"asked", "stopped"} /\ Same /\ Len(remote.data) = opened.len
  BY Zenon, <1>1, <1>2 DEF AnswerFits
<1>4. opened.len \in 0 .. MaxLen
  BY Zenon DEF IInv, TypeOK, Files
<1>5. TypeOK'
  BY SMTT(60), <1>1, <1>2, <1>4 DEF IInv, TypeOK, Answers
<1>6. VersionsFit' /\ PeerFits' /\ AnswersFit'
  BY ZenonT(60), <1>1, <1>3 DEF IInv, VersionsFit, Unchanged, PeerFits, Same, AnswersFit
<1>7. QueueFits' /\ BlocksFit'
  BY <1>1, <1>3 DEF QueueFits, BlocksFit
<1> QED
  BY Zenon, <1>5, <1>6, <1>7 DEF IInv

LEMMA RecvDoneKeeps ==
  ASSUME IInv, RecvDone
  PROVE  IInv'
<1>1. /\ pc = "confirm" /\ fromPeer # <<>> /\ fromPeer' = Tail(fromPeer)
      /\ UNCHANGED <<pc, run, opened, resumed_bytes, sent_bytes, local, toPeer, remote, peer>>
  BY Zenon DEF RecvDone, Next_is, senderVars, peerVars
<1>2. fromPeer' \in Seq(Answers) /\ \A i \in DOMAIN fromPeer' : AnswerFits(fromPeer'[i])
  BY Zenon, <1>1, AnswerHead
<1>3. TypeOK'
  BY Zenon, <1>1, <1>2 DEF IInv, TypeOK, Answers
<1>4. AnswersFit'
  BY ZenonT(60), <1>1, <1>2 DEF IInv, AnswersFit, AnswerFits, Same
<1>5. VersionsFit' /\ PeerFits' /\ QueueFits' /\ BlocksFit'
  BY ZenonT(60), <1>1 DEF IInv, VersionsFit, Unchanged, PeerFits, Same, QueueFits, BlocksFit
<1> QED
  BY Zenon, <1>3, <1>4, <1>5 DEF IInv

(* A message that goes on where the sender is keeps the queue in one piece. *)
LEMMA SendKeeps ==
  ASSUME IInv, pc = "sending", pc' \in {"sending", "done"},
         NEW m \in Questions, m.type \in {"block", "done"}, m.n = sent_bytes,
         m.type # "block" => m.data = <<>>,
         Unchanged => /\ m.type = "block" =>
                            /\ m.n + Len(m.data) <= opened.len
                            /\ \A k \in DOMAIN m.data : m.data[k] = [of |-> opened.version, at |-> m.n + k]
                      /\ m.type = "done" => m.n = opened.len,
         toPeer' = Append(toPeer, m),
         sent_bytes' = sent_bytes + Len(m.data), sent_bytes' <= MaxLen,
         UNCHANGED <<run, opened, resumed_bytes, local, fromPeer, remote, peer>>
  PROVE  IInv'
<1> USE SizeAssumption
<1>1. toPeer \in Seq(Questions) /\ Len(toPeer) \in Nat /\ DOMAIN toPeer = 1 .. Len(toPeer)
      /\ (toPeer # <<>> <=> Len(toPeer) > 0)
  <2>1. toPeer \in Seq(Questions)
    BY ZenonT(60) DEF IInv, TypeOK, Questions
  <2>2. Len(toPeer) \in Nat /\ DOMAIN toPeer = 1 .. Len(toPeer)
    BY Zenon, <2>1, LenProperties
  <2>3. (toPeer = <<>> => Len(toPeer) = 0) /\ (toPeer # <<>> => Len(toPeer) \in Nat \ {0})
    BY Zenon, <2>1, EmptySeq
  <2>4. toPeer # <<>> <=> Len(toPeer) > 0
    BY <2>3
  <2> QED
    BY Zenon, <2>1, <2>2, <2>4
<1>2. /\ toPeer' \in Seq(Questions) /\ toPeer' # <<>>
      /\ Len(toPeer') = Len(toPeer) + 1 /\ DOMAIN toPeer' = 1 .. Len(toPeer) + 1
      /\ \A i \in 1 .. Len(toPeer) : toPeer'[i] = toPeer[i]
      /\ toPeer'[Len(toPeer) + 1] = m
  BY <1>1, AppendFacts
<1>3. Len(m.data) \in Nat /\ m.n \in Nat /\ opened.len \in Nat /\ sent_bytes \in Nat /\ resumed_bytes \in Nat /\ resumed_bytes <= sent_bytes
  BY SMTT(60), LenProperties DEF IInv, TypeOK, Files, Questions, Messages
<1>4. TypeOK'
  BY SMTT(60), <1>2, <1>3 DEF IInv, TypeOK, Questions
<1>5. VersionsFit' /\ PeerFits' /\ AnswersFit'
  BY Zenon, <1>2 DEF IInv, VersionsFit, Unchanged, PeerFits, Same, AnswersFit
<1>6. \A i \in DOMAIN toPeer : toPeer[i].type # "digest"
  BY Zenon DEF IInv, QueueFits
<1>7. QueueFits'
  <2>1. \A i \in 1 .. Len(toPeer) : QueueFits!1!(i)
    BY ZenonT(60), <1>1 DEF IInv, QueueFits
  <2>2. (QueueFits!1)'
    <3> SUFFICES ASSUME NEW i \in 1 .. Len(toPeer) + 1
                 PROVE  (QueueFits!1!(i))'
      BY Zenon, <1>2
    <3>1. CASE i \in 1 .. Len(toPeer)
      BY ZenonT(60), <1>1, <1>2, <1>6, <2>1, <3>1 DEF Same
    <3>2. CASE i = Len(toPeer) + 1
      BY Zenon, <1>2, <3>2
    <3> QED
      BY <1>1, <3>1, <3>2
  <2>3. \A i \in 1 .. Len(toPeer) : toPeer'[i + 1].n = toPeer'[i].n + Len(toPeer'[i].data)
    <3> TAKE i \in 1 .. Len(toPeer)
    <3>0. i < Len(toPeer) \/ i = Len(toPeer)
      BY SMTT(60), <1>1
    <3>1. CASE i < Len(toPeer)
      BY SMTT(60), <1>1, <1>2, <3>1 DEF IInv, QueueFits
    <3>2. CASE i = Len(toPeer)
      BY <1>1, <1>2, <3>2 DEF IInv, QueueFits
    <3> QED
      BY Zenon, <3>0, <3>1, <3>2
  <2>4. sent_bytes' = toPeer'[Len(toPeer')].n + Len(toPeer'[Len(toPeer')].data)
    BY Zenon, <1>2
  <2> QED
    BY SMTT(60), <1>1, <1>2, <2>2, <2>3, <2>4 DEF QueueFits
<1>8. BlocksFit'
  <2> SUFFICES ASSUME Unchanged
               PROVE  BlocksFit'
    BY Zenon DEF BlocksFit, Unchanged
  <2>1. \A i \in 1 .. Len(toPeer) + 1 :
              /\ toPeer'[i].type = "block" =>
                    /\ toPeer'[i].n + Len(toPeer'[i].data) <= opened.len
                    /\ \A k \in DOMAIN toPeer'[i].data :
                          toPeer'[i].data[k] = [of |-> opened.version, at |-> toPeer'[i].n + k]
              /\ toPeer'[i].type = "done" => toPeer'[i].n = opened.len
    <3> TAKE i \in 1 .. Len(toPeer) + 1
    <3>0. i \in 1 .. Len(toPeer) \/ i = Len(toPeer) + 1
      BY <1>1
    <3>1. CASE i \in 1 .. Len(toPeer)
      BY SMTT(60), <1>1, <1>2, <3>1 DEF IInv, BlocksFit
    <3>2. CASE i = Len(toPeer) + 1
      BY ZenonT(60), <1>2, <3>2
    <3> QED
      BY Zenon, <3>0, <3>1, <3>2
  <2>2. peer = "writing" => toPeer'[1].n = Len(remote.data)
    <3>1. CASE toPeer = <<>>
      BY SMTT(60), <1>1, <1>2, <3>1 DEF IInv, BlocksFit
    <3>2. CASE toPeer # <<>>
      BY SMTT(60), <1>1, <1>2, <3>2 DEF IInv, BlocksFit
    <3> QED
      BY ZenonT(60), <3>1, <3>2
  <2>3. pc' = "sending" => sent_bytes' <= opened.len
    BY <1>3 DEF IInv, BlocksFit
  <2> QED
    BY ZenonT(60), <1>2, <2>1, <2>2, <2>3 DEF BlocksFit
<1> QED
  BY ZenonT(60), <1>4, <1>5, <1>7, <1>8 DEF IInv

LEMMA SendBlockKeeps ==
  ASSUME IInv, NEW n \in 1 .. Block, send_next_block(n)
  PROVE  IInv'
<1> USE SizeAssumption
<1> DEFINE data == Bytes(local, sent_bytes, sent_bytes + n)
           m == Msg("block", sent_bytes, data)
<1>1. /\ pc = "sending" /\ sent_bytes + n <= local.len
      /\ toPeer' = Append(toPeer, m) /\ sent_bytes' = sent_bytes + n
      /\ UNCHANGED <<pc, run, opened, resumed_bytes, local, fromPeer, remote, peer>>
  BY Zenon DEF send_next_block, peerVars
<1>2. sent_bytes \in Nat /\ local.len \in 0 .. MaxLen /\ local.version \in Nat /\ n \in Nat
  BY SMTT(60) DEF IInv, TypeOK, Files
<1>3. /\ data \in Seq(Byte) /\ Len(data) = n /\ DOMAIN data = 1 .. n
      /\ \A k \in 1 .. n : data[k] = [of |-> local.version, at |-> sent_bytes + k]
  <2>1. local \in Files
    BY Zenon DEF IInv, TypeOK
  <2>2. n \in Nat /\ sent_bytes \in Nat
    BY Zenon, <1>2
  <2>3. /\ data \in Seq(Byte) /\ Len(data) = n
    BY ONLY ZenonT(60), <2>1, <2>2, BytesFacts
  <2>4. DOMAIN data = 1 .. n
    BY ONLY <2>1, <2>2, BytesFacts
  <2>5. \A k \in 1 .. n : data[k] = [of |-> local.version, at |-> sent_bytes + k]
    BY ONLY Zenon, <2>1, <2>2, BytesFacts
  <2> QED
    BY Zenon, <2>3, <2>4, <2>5
<1> HIDE DEF data
<1>4. m \in Questions /\ m.type = "block" /\ m.n = sent_bytes /\ m.data = data
  BY Zenon, <1>2, <1>3 DEF Msg, Questions, Messages
<1> HIDE DEF m
<1>5. Unchanged => /\ m.n + Len(m.data) <= opened.len
                   /\ \A k \in DOMAIN m.data : m.data[k] = [of |-> opened.version, at |-> m.n + k]
  BY Zenon, <1>1, <1>3, <1>4 DEF Unchanged
<1>6. sent_bytes' = sent_bytes + Len(m.data) /\ sent_bytes' <= MaxLen
  <2>1. Len(m.data) = n
    BY Zenon, <1>3, <1>4
  <2> QED
    BY <1>1, <1>2, <2>1
<1> QED
  BY Zenon, <1>1, <1>4, <1>5, <1>6, SendKeeps

LEMMA SendDoneKeeps ==
  ASSUME IInv, SendDone
  PROVE  IInv'
<1> USE SizeAssumption
<1> DEFINE m == Msg("done", sent_bytes, <<>>)
<1>1. /\ pc = "sending" /\ sent_bytes >= local.len /\ pc' = "done"
      /\ toPeer' = Append(toPeer, m)
      /\ UNCHANGED <<run, opened, resumed_bytes, sent_bytes, local, fromPeer, remote, peer>>
  BY Zenon DEF SendDone, peerVars
<1>2. sent_bytes \in Nat /\ sent_bytes <= MaxLen /\ opened.len \in Nat
  BY DEF IInv, TypeOK, Files
<1>3. m \in Questions /\ m.type = "done" /\ m.n = sent_bytes /\ m.data = <<>> /\ Len(m.data) = 0
  BY SMTT(60), <1>2 DEF Msg, Questions, Messages
<1> HIDE DEF m
<1>4. Unchanged => m.n = opened.len
  BY SMTT(60), <1>1, <1>2, <1>3 DEF IInv, BlocksFit, Unchanged
<1>5. sent_bytes' = sent_bytes + Len(m.data) /\ sent_bytes' <= MaxLen
  BY SMTT(60), <1>1, <1>2, <1>3
<1> QED
  BY Zenon, <1>1, <1>3, <1>4, <1>5, SendKeeps

LEMMA WaitKeeps ==
  ASSUME IInv, wait_for_done
  PROVE  IInv'
<1>1. /\ pc = "done" /\ pc' = "complete"
      /\ UNCHANGED <<run, opened, resumed_bytes, sent_bytes, local, fromPeer, remote, peer>>
  BY Zenon DEF wait_for_done, peerVars
<1>2. peer # "asked"
  BY ZenonT(60), <1>1 DEF IInv, PeerFits
<1>3. CASE toPeer' = toPeer
  <2>1. TypeOK' /\ VersionsFit'
    BY ZenonT(60), <1>1, <1>2, <1>3 DEF IInv, TypeOK, VersionsFit, Unchanged
  <2>2. PeerFits'
    BY Zenon, <1>1, <1>2, <1>3 DEF IInv, PeerFits, Unchanged, Same
  <2>3. AnswersFit'
    BY Zenon, <1>1, <1>2, <1>3 DEF IInv, AnswersFit
  <2>4. QueueFits'
    BY ZenonT(60), <1>1, <1>2, <1>3 DEF IInv, QueueFits, Same
  <2>5. BlocksFit'
    BY ZenonT(60), <1>1, <1>2, <1>3 DEF IInv, BlocksFit, Unchanged
  <2> QED
    BY Zenon, <2>1, <2>2, <2>3, <2>4, <2>5 DEF IInv
<1>4. CASE toPeer' = <<>>
  <2>1. TypeOK' /\ VersionsFit'
    BY SMTT(60), <1>1, <1>2, <1>4 DEF IInv, TypeOK, VersionsFit, Unchanged
  <2>2. PeerFits'
    BY SMTT(60), <1>1, <1>2, <1>4 DEF IInv, PeerFits, Unchanged, Same
  <2>3. AnswersFit'
    BY SMTT(60), <1>1, <1>2, <1>4 DEF IInv, AnswersFit
  <2>4. QueueFits'
    BY SMTT(60), <1>1, <1>2, <1>4 DEF IInv, QueueFits, Same
  <2>5. BlocksFit'
    BY <1>1, <1>2, <1>4 DEF IInv, BlocksFit, Unchanged
  <2> QED
    BY Zenon, <2>1, <2>2, <2>3, <2>4, <2>5 DEF IInv
<1> QED
  BY Zenon, <1>3, <1>4 DEF wait_for_done

-----------------------------------------------------------------------------
(* The peer. *)

(* The first message to the peer, and what is left behind it. *)
LEMMA QuestionHead ==
  ASSUME IInv, toPeer # <<>>, toPeer' = Tail(toPeer)
  PROVE  /\ toPeer \in Seq(Questions) /\ Head(toPeer) = toPeer[1] /\ toPeer[1] \in Questions
         /\ Len(toPeer) \in Nat \ {0} /\ DOMAIN toPeer = 1 .. Len(toPeer)
         /\ toPeer' \in Seq(Questions) /\ Len(toPeer') = Len(toPeer) - 1
         /\ DOMAIN toPeer' = 1 .. Len(toPeer) - 1
         /\ \A i \in 1 .. Len(toPeer) - 1 : toPeer'[i] = toPeer[i + 1]
         /\ Len(toPeer) = 1 <=> toPeer' = <<>>
<1>1. toPeer \in Seq(Questions)
  BY Zenon DEF IInv, TypeOK, Questions
<1>2. DOMAIN toPeer = 1 .. Len(toPeer) /\ (toPeer' = <<>> => Len(toPeer') = 0)
  BY Zenon, <1>1, LenProperties, EmptySeq
<1> QED
  BY <1>1, <1>2, TailFacts

(* The queue stays in one piece, and its new first message, or the sender if *)
(* there is none, goes on where the one that was taken ended.                 *)
LEMMA TookQueue ==
  ASSUME IInv, toPeer # <<>>, toPeer' = Tail(toPeer), pc # "confirm", 
         UNCHANGED <<pc, opened, local, sent_bytes>>,
         peer' = "writing" /\ Unchanged => Len(remote'.data) = toPeer[1].n + Len(toPeer[1].data)
  PROVE  QueueFits' /\ BlocksFit'
<1>1. /\ toPeer \in Seq(Questions) /\ Len(toPeer) \in Nat \ {0} /\ DOMAIN toPeer = 1 .. Len(toPeer)
      /\ toPeer' \in Seq(Questions) /\ Len(toPeer') = Len(toPeer) - 1
      /\ DOMAIN toPeer' = 1 .. Len(toPeer) - 1
      /\ \A i \in 1 .. Len(toPeer) - 1 : toPeer'[i] = toPeer[i + 1]
      /\ Len(toPeer) = 1 <=> toPeer' = <<>>
  BY Zenon, QuestionHead
<1>2. \A i \in 1 .. Len(toPeer) - 1 :
        /\ toPeer[i + 1].type \notin {"digest", "confirm"}
        /\ toPeer[i + 1].type # "block" => toPeer[i + 1].data = <<>>
        /\ toPeer[i + 1].n = toPeer[i].n + Len(toPeer[i].data)
  <2> TAKE i \in 1 .. Len(toPeer) - 1
  <2>1. i \in Nat /\ i + 1 # 1 /\ i + 1 \in DOMAIN toPeer /\ Len(toPeer) # 1
    BY <1>1
  <2> QED
    BY ZenonT(60), <2>1 DEF IInv, QueueFits
<1>3. \A i \in 1 .. Len(toPeer') - 1 : toPeer'[i + 1].n = toPeer'[i].n + Len(toPeer'[i].data)
  <2> TAKE i \in 1 .. Len(toPeer') - 1
  <2>1. i \in 1 .. Len(toPeer) - 1 /\ i + 1 \in 1 .. Len(toPeer) - 1
    BY <1>1
  <2> QED
    BY Zenon, <1>1, <1>2, <2>1
<1>4. toPeer' # <<>> => Len(toPeer') \in 1 .. Len(toPeer) - 1 /\ toPeer'[Len(toPeer')] = toPeer[Len(toPeer)]
  BY <1>1
<1>5. QueueFits'
  <2>1. pc = "sending" => sent_bytes = toPeer[Len(toPeer)].n + Len(toPeer[Len(toPeer)].data)
    BY Zenon DEF IInv, QueueFits
  <2>2. (pc = "sending" /\ toPeer # <<>> =>
          sent_bytes = toPeer[Len(toPeer)].n + Len(toPeer[Len(toPeer)].data))'
    BY ZenonT(60), <1>4, <2>1
  <2>3. \A i \in DOMAIN toPeer' : /\ toPeer'[i].type \notin {"digest", "confirm"}
                                  /\ toPeer'[i].type # "block" => toPeer'[i].data = <<>>
    BY <1>1, <1>2
  <2> QED
    BY Zenon, <1>3, <2>2, <2>3 DEF QueueFits
<1>6. BlocksFit'
  <2> SUFFICES ASSUME Unchanged
               PROVE  BlocksFit'
    BY Zenon DEF BlocksFit, Unchanged
  <2>1. \A i \in DOMAIN toPeer' : i + 1 \in DOMAIN toPeer /\ toPeer'[i] = toPeer[i + 1]
    BY <1>1
  <2>2. peer' = "writing" /\ toPeer' # <<>> => toPeer'[1].n = Len(remote'.data)
    <3> SUFFICES ASSUME peer' = "writing", toPeer' # <<>>
                 PROVE  toPeer'[1].n = Len(remote'.data)
      BY Zenon
    <3>1. 1 \in 1 .. Len(toPeer) - 1 /\ 1 + 1 = 2
      BY <1>1, <1>4
    <3> QED
      BY Zenon, <1>1, <1>2, <3>1
  <2>3. peer' = "writing" /\ toPeer' = <<>> /\ pc = "sending" => sent_bytes = Len(remote'.data)
    BY Zenon, <1>1 DEF IInv, QueueFits
  <2>4. pc = "sending" => sent_bytes <= opened.len
    BY ZenonT(60) DEF IInv, BlocksFit
  <2>5. \A i \in DOMAIN toPeer' :
              /\ toPeer'[i].type = "block" =>
                    /\ toPeer'[i].n + Len(toPeer'[i].data) <= opened.len
                    /\ \A k \in DOMAIN toPeer'[i].data :
                          toPeer'[i].data[k] = [of |-> opened.version, at |-> toPeer'[i].n + k]
              /\ toPeer'[i].type = "done" => toPeer'[i].n = opened.len
    BY <2>1 DEF IInv, BlocksFit
  <2> QED
    BY ZenonT(60), <2>2, <2>3, <2>4, <2>5 DEF BlocksFit
<1> QED
  BY Zenon, <1>5, <1>6

(* A file cut to what it has of the version that is pushed. *)
LEMMA TruncateFits ==
  ASSUME IInv, NEW n \in 0 .. Len(remote.data), n = 0 \/ Same, Truncate(n),
         UNCHANGED <<opened, local>>
  PROVE  /\ remote' \in [version : 0 .. MaxVersion, data : Seq(Byte)]
         /\ VersionsFit' /\ Same' /\ Len(remote'.data) = n
<1> USE SizeAssumption
<1> DEFINE d == SubSeq(remote.data, 1, n)
<1>1. remote' = [version |-> opened.version, data |-> d]
  BY Zenon DEF Truncate
<1>2. remote.data \in Seq(Byte) /\ opened.version \in 1 .. MaxVersion /\ local.version \in 1 .. MaxVersion
      /\ local.len \in Nat /\ Len(remote.data) \in Nat
  BY SMTT(60), LenProperties DEF IInv, TypeOK, Files
<1>3. d \in Seq(Byte) /\ Len(d) = n /\ DOMAIN d = 1 .. n /\ \A k \in 1 .. n : d[k] = remote.data[k]
  BY SMTT(60), <1>2, PrefixFacts
<1> HIDE DEF d
<1>4. remote' \in [version : 0 .. MaxVersion, data : Seq(Byte)] /\ remote'.version = opened.version /\ remote'.data = d
  BY <1>1, <1>2, <1>3
<1>5. opened.version = local.version =>
          n <= local.len /\ \A k \in 1 .. n : d[k] = [of |-> local.version, at |-> k]
  <2> HAVE opened.version = local.version
  <2>1. CASE n = 0
    BY <1>2, <2>1
  <2>2. CASE Same
    <3>1. DOMAIN remote.data = 1 .. Len(remote.data)
      BY Zenon, <1>2, LenProperties
    <3>2. Len(remote.data) <= local.len /\ \A k \in 1 .. Len(remote.data) : remote.data[k] = [of |-> local.version, at |-> k]
      BY ZenonT(60), <2>2, <3>1 DEF IInv, VersionsFit, Same
    <3>3. n <= local.len /\ 1 .. n \subseteq 1 .. Len(remote.data)
      BY SMTT(60), <1>2, <3>2
    <3> QED
      BY Zenon, <1>3, <3>2, <3>3
  <2> QED
    BY ZenonT(60), <2>1, <2>2
<1>6. VersionsFit'
  BY <1>2, <1>3, <1>4, <1>5 DEF IInv, VersionsFit, Unchanged
<1> QED
  BY Zenon, <1>3, <1>4, <1>6 DEF Same

LEMMA PeerAnswersKeeps ==
  ASSUME IInv, PeerAnswers
  PROVE  IInv'
<1> USE SizeAssumption
<1>1. /\ peer = "asked" /\ toPeer # <<>> /\ Head(toPeer).type = "digest" /\ toPeer' = Tail(toPeer)
      /\ UNCHANGED <<pc, run, opened, resumed_bytes, sent_bytes, local>>
  BY Zenon DEF PeerAnswers, Takes, senderVars
<1>2. toPeer' = <<>> /\ Head(toPeer).n = opened.len /\ pc \in {"confirm", "failed"}
  <2>1. Head(toPeer) = toPeer[1] /\ 1 \in DOMAIN toPeer /\ (Len(toPeer) = 1 => toPeer' = <<>>)
    BY SMTT(60), <1>1, QuestionHead
  <2> QED
    BY ZenonT(60), <1>1, <2>1 DEF IInv, QueueFits
<1>3. QueueFits' /\ BlocksFit'
  <2>1. toPeer' = <<>> /\ pc' # "sending"
    BY Zenon, <1>1, <1>2
  <2> QED
    BY <2>1 DEF QueueFits, BlocksFit
<1>4. PICK early \in {<<>>, <<Msg("done", 0, <<>>)>>} :
          \/ AnswersSkip(early)
          \/ AnswersDigest(early)
          \/ \E n \in {0} \cup (IF Same THEN {Len32} ELSE {}) : AnswersOffset(early, n)
  BY Zenon DEF PeerAnswers
(* Any answer that fits the peer's new state, after a message or none. *)
<1>5. ASSUME NEW m \in Answers, fromPeer' = early \o <<m>>, AnswerFits(m)',
             remote' \in [version : 0 .. MaxVersion, data : Seq(Byte)], VersionsFit',
             peer' \in {"asked", "confirming", "writing"}, peer' = "writing" => Same'
      PROVE  IInv'
  <2> DEFINE e == Msg("done", 0, <<>>)
  <2>1. e \in Answers /\ e.type = "done"
    BY DEF Msg, Answers, Messages
  <2> HIDE DEF e
  <2>2. <<>> \in Seq(Answers) /\ <<e>> \in Seq(Answers) /\ <<m>> \in Seq(Answers)
        /\ <<e>>[1] = e /\ <<m>>[1] = m /\ Len(<<e>>) = 1 /\ Len(<<m>>) = 1 /\ Len(<<>>) = 0
    BY Zenon, <1>5, <2>1, OneFacts, EmptySeq
  <2>3. fromPeer' \in Seq(Answers) /\ \A i \in DOMAIN fromPeer' : fromPeer'[i] \in {e, m}
    <3>1. CASE early = <<>>
      BY SMTT(60), <1>5, <2>2, <3>1, JoinFacts
    <3>2. CASE early = <<e>>
      BY SMTT(60), <1>5, <2>2, <3>2, JoinFacts
    <3> QED
      BY ZenonT(60), <3>1, <3>2 DEF e
  <2>4. AnswerFits(e)'
    BY ZenonT(60), <2>1 DEF AnswerFits
  <2>5. TypeOK'
    BY SMTT(60), <1>1, <1>2, <1>5, <2>3 DEF IInv, TypeOK, Answers
  <2>6. AnswersFit'
    BY <1>2, <1>5, <2>3, <2>4 DEF AnswersFit
  <2>7. PeerFits'
    BY Zenon, <1>1, <1>2, <1>5 DEF PeerFits
  <2> QED
    BY ZenonT(60), <1>3, <1>5, <2>5, <2>6, <2>7 DEF IInv
<1>6. remote \in [version : 0 .. MaxVersion, data : Seq(Byte)] /\ Len(remote.data) \in Nat /\ VersionsFit
  BY Zenon, LenProperties DEF IInv, TypeOK
<1>7. CASE AnswersSkip(early)
  <2>1. /\ Same /\ Len(remote.data) = opened.len /\ UNCHANGED <<remote, peer>>
        /\ fromPeer' = early \o <<Msg("skip", 0, <<>>)>>
    BY ZenonT(60), <1>2, <1>7 DEF AnswersSkip, peerVars
  <2>2. Msg("skip", 0, <<>>) \in Answers /\ AnswerFits(Msg("skip", 0, <<>>))'
    BY <1>1, <1>2, <2>1 DEF Msg, Answers, Messages, AnswerFits, Same
  <2> QED
    BY Zenon, <1>1, <1>5, <1>6, <2>1, <2>2 DEF VersionsFit, Unchanged
<1>8. CASE AnswersDigest(early)
  <2>1. PICK m \in Answers :
            /\ m = Msg(IF Same THEN "identical" ELSE "different", Len(remote.data), <<>>)
            /\ m.n = Len(remote.data) /\ m.type \in {"identical", "different"}
            /\ m.type = "identical" => Same
    <3> DEFINE m == Msg(IF Same THEN "identical" ELSE "different", Len(remote.data), <<>>)
    <3>1. m \in Answers /\ m.n = Len(remote.data) /\ m.type \in {"identical", "different"}
          /\ (m.type = "identical" => Same)
      BY <1>6 DEF Msg, Answers, Messages
    <3> QED
      BY ZenonT(60), <3>1
  <2>2. peer' = "confirming" /\ UNCHANGED remote /\ fromPeer' = early \o <<m>>
    BY Zenon, <1>8, <2>1 DEF AnswersDigest
  <2>3. AnswerFits(m)'
    BY Zenon, <1>1, <1>2, <2>1, <2>2 DEF AnswerFits, Same
  <2>4. VersionsFit'
    BY Zenon, <1>1, <1>6, <2>2 DEF VersionsFit, Unchanged
  <2> QED
    BY Zenon, <1>5, <1>6, <2>2, <2>3, <2>4
<1>9. CASE \E n \in {0} \cup (IF Same THEN {Len32} ELSE {}) : AnswersOffset(early, n)
  <2>1. PICK n \in {0} \cup (IF Same THEN {Len32} ELSE {}) :
              fromPeer' = early \o <<Msg("offset", n, <<>>)>> /\ Truncate(n) /\ peer' = "writing"
    BY Zenon, <1>9 DEF AnswersOffset
  <2>2. n \in 0 .. Len(remote.data) /\ (n = 0 \/ Same)
    BY <1>6 DEF Len32, Min2
  <2>3. /\ remote' \in [version : 0 .. MaxVersion, data : Seq(Byte)]
        /\ VersionsFit' /\ Same' /\ Len(remote'.data) = n
    BY ZenonT(60), <1>1, <2>1, <2>2, TruncateFits
  <2>4. Msg("offset", n, <<>>) \in Answers /\ AnswerFits(Msg("offset", n, <<>>))'
    BY <1>2, <1>6, <2>1, <2>2, <2>3 DEF Msg, Answers, Messages, AnswerFits
  <2> QED
    BY Zenon, <1>5, <2>1, <2>3, <2>4
<1> QED
  BY Zenon, <1>4, <1>7, <1>8, <1>9

LEMMA PeerConfirmedKeeps ==
  ASSUME IInv, PeerConfirmed
  PROVE  IInv'
<1> USE SizeAssumption
<1> DEFINE n == toPeer[1].n
<1>1. /\ toPeer # <<>> /\ Head(toPeer).type = "confirm" /\ toPeer' = Tail(toPeer)
      /\ UNCHANGED <<pc, run, opened, resumed_bytes, sent_bytes, local, fromPeer>>
      /\ IF peer = "confirming"
         THEN Truncate(Min2(Head(toPeer).n, Len(remote.data))) /\ peer' = "writing"
         ELSE UNCHANGED <<remote, peer>>
  BY Zenon DEF PeerConfirmed, Takes, senderVars, peerVars
<1>2. /\ Head(toPeer) = toPeer[1] /\ toPeer[1] \in Questions /\ 1 \in DOMAIN toPeer
      /\ Len(toPeer) \in Nat \ {0} /\ toPeer' \in Seq(Questions)
  BY <1>1, QuestionHead
<1>3. /\ n \in Nat /\ peer \in {"confirming", "stopped"} /\ toPeer[1].data = <<>> /\ pc # "confirm" /\ pc # "begin"
      /\ n = 0 \/ (Same /\ n <= Len(remote.data))
  BY ZenonT(60), <1>1, <1>2 DEF IInv, QueueFits, AnswersFit, PeerFits, Questions, Messages
<1>4. remote \in [version : 0 .. MaxVersion, data : Seq(Byte)] /\ Len(remote.data) \in Nat /\ VersionsFit
  BY Zenon, LenProperties DEF IInv, TypeOK
<1>5. /\ remote' \in [version : 0 .. MaxVersion, data : Seq(Byte)] /\ VersionsFit'
      /\ peer' \in {"writing", "stopped"} /\ (peer' = "writing" => Same' /\ Len(remote'.data) = n)
  <2>1. CASE peer = "confirming"
    <3>1. Min2(Head(toPeer).n, Len(remote.data)) = n /\ n \in 0 .. Len(remote.data)
      BY <1>2, <1>3, <1>4 DEF Min2
    <3> HIDE DEF n
    <3> QED
      BY ZenonT(60), <1>1, <1>3, <2>1, <3>1, TruncateFits
  <2>2. CASE peer = "stopped"
    BY Zenon, <1>1, <1>4, <2>2 DEF VersionsFit, Unchanged
  <2> QED
    BY Zenon, <1>3, <2>1, <2>2
<1> HIDE DEF n
<1>6. TypeOK'
  BY Zenon, <1>1, <1>2, <1>5 DEF IInv, TypeOK, Questions
<1>7. PeerFits' /\ AnswersFit'
  BY ZenonT(60), <1>1, <1>3, <1>5 DEF PeerFits, AnswersFit
<1>8. QueueFits' /\ BlocksFit'
  BY <1>1, <1>3, <1>5, TookQueue DEF n
<1> QED
  BY Zenon, <1>5, <1>6, <1>7, <1>8 DEF IInv

(* A block of an unchanged file starts where the peer's file ends. *)
LEMMA PeerWritesKeeps ==
  ASSUME IInv, PeerWrites
  PROVE  IInv'
<1> USE SizeAssumption
<1> DEFINE d == toPeer[1].data
<1>1. /\ toPeer # <<>> /\ Head(toPeer).type = "block" /\ toPeer' = Tail(toPeer)
      /\ UNCHANGED <<pc, run, opened, resumed_bytes, sent_bytes, local, fromPeer, peer>>
  BY Zenon DEF PeerWrites, Takes, senderVars
<1>2. /\ Head(toPeer) = toPeer[1] /\ toPeer[1] \in Questions /\ 1 \in DOMAIN toPeer
      /\ toPeer' \in Seq(Questions)
  BY <1>1, QuestionHead
<1>3. /\ d \in Seq(Byte) /\ Len(d) \in Nat /\ DOMAIN d = 1 .. Len(d) /\ toPeer[1].n \in Nat
      /\ pc # "confirm" /\ pc # "begin" /\ (pc = "complete" => peer # "asked")
  BY Zenon, <1>1, <1>2, LenProperties DEF IInv, AnswersFit, PeerFits, Questions, Messages
<1>4. remote \in [version : 0 .. MaxVersion, data : Seq(Byte)] /\ remote.data \in Seq(Byte) /\ Len(remote.data) \in Nat
      /\ DOMAIN remote.data = 1 .. Len(remote.data)
  BY Zenon, LenProperties DEF IInv, TypeOK
<1>5. CASE peer = "writing"
  <2> DEFINE r == remote.data \o d
  <2>1. remote' = [remote EXCEPT !.data = r]
    BY ZenonT(60), <1>1, <1>2, <1>5 DEF PeerWrites
  <2>2. /\ r \in Seq(Byte) /\ Len(r) = Len(remote.data) + Len(d) /\ DOMAIN r = 1 .. Len(remote.data) + Len(d)
        /\ \A k \in 1 .. Len(remote.data) : r[k] = remote.data[k]
        /\ \A k \in Len(remote.data) + 1 .. Len(remote.data) + Len(d) : r[k] = d[k - Len(remote.data)]
    BY <1>3, <1>4, JoinFacts
  <2> HIDE DEF r
  <2>3. remote' \in [version : 0 .. MaxVersion, data : Seq(Byte)] /\ remote'.version = remote.version /\ remote'.data = r
    BY Zenon, <1>4, <2>1, <2>2
  <2>4. TypeOK'
    BY Zenon, <1>1, <1>2, <2>3 DEF IInv, TypeOK, Questions
  <2>5. Unchanged => /\ toPeer[1].n = Len(remote.data)
                     /\ Len(remote.data) + Len(d) <= opened.len
                     /\ \A k \in 1 .. Len(d) : d[k] = [of |-> opened.version, at |-> Len(remote.data) + k]
    BY ZenonT(60), <1>1, <1>2, <1>3, <1>5 DEF IInv, BlocksFit
  <2> HIDE DEF d
  <2>6. Same' /\ remote'.version <= opened'.version
    BY ZenonT(60), <1>1, <1>5, <2>3 DEF IInv, PeerFits, VersionsFit, Same
  <2>7. remote'.version = local'.version =>
          /\ Len(r) <= local.len
          /\ \A k \in DOMAIN r : r[k] = [of |-> local.version, at |-> k]
    <3> HAVE remote'.version = local'.version
    <3>1. Unchanged /\ opened = local /\ remote.version = local.version
      BY Zenon, <1>1, <2>3, <2>6 DEF IInv, VersionsFit, Same, Unchanged
    <3>2. \A k \in 1 .. Len(remote.data) : r[k] = [of |-> local.version, at |-> k]
      BY Zenon, <1>4, <2>2, <3>1 DEF IInv, VersionsFit
    <3>3. \A k \in Len(remote.data) + 1 .. Len(remote.data) + Len(d) : r[k] = [of |-> local.version, at |-> k]
      <4> TAKE k \in Len(remote.data) + 1 .. Len(remote.data) + Len(d)
      <4>1. k - Len(remote.data) \in 1 .. Len(d) /\ Len(remote.data) + (k - Len(remote.data)) = k
        BY <1>3, <1>4
      <4> QED
        BY ZenonT(60), <2>2, <2>5, <3>1, <4>1
    <3>4. \A k \in 1 .. Len(remote.data) + Len(d) :
            k \in 1 .. Len(remote.data) \/ k \in Len(remote.data) + 1 .. Len(remote.data) + Len(d)
      BY <1>3, <1>4
    <3> QED
      BY ZenonT(60), <2>2, <2>5, <3>1, <3>2, <3>3, <3>4
  <2>8. VersionsFit'
    BY Zenon, <1>1, <2>3, <2>6, <2>7 DEF IInv, VersionsFit, Unchanged
  <2>9. PeerFits' /\ AnswersFit'
    BY Zenon, <1>1, <1>3, <1>5, <2>6 DEF PeerFits, AnswersFit
  <2>10. QueueFits' /\ BlocksFit'
    <3>1. Unchanged => Len(remote'.data) = toPeer[1].n + Len(toPeer[1].data)
      BY Zenon, <2>2, <2>3, <2>5 DEF d
    <3> QED
      BY Zenon, <1>1, <1>3, <3>1, TookQueue
  <2> QED
    BY Zenon, <2>4, <2>8, <2>9, <2>10 DEF IInv
<1>6. CASE peer # "writing"
  <2>1. remote' = remote
    BY Zenon, <1>1, <1>6 DEF PeerWrites
  <2>2. QueueFits' /\ BlocksFit'
    BY Zenon, <1>1, <1>3, <1>6, TookQueue
  <2>3. TypeOK'
    BY Zenon, <1>1, <1>2, <2>1 DEF IInv, TypeOK, Questions
  <2>4. VersionsFit' /\ PeerFits' /\ AnswersFit'
    BY ZenonT(60), <1>1, <1>3, <2>1 DEF IInv, VersionsFit, Unchanged, PeerFits, Same, AnswersFit
  <2> QED
    BY Zenon, <2>2, <2>3, <2>4 DEF IInv
<1> QED
  BY Zenon, <1>5, <1>6

LEMMA PeerFinishesKeeps ==
  ASSUME IInv, PeerFinishes
  PROVE  IInv'
<1> USE SizeAssumption
<1>1. /\ toPeer # <<>> /\ Head(toPeer).type = "done" /\ toPeer' = Tail(toPeer)
      /\ peer' = (IF peer = "writing" THEN "finished" ELSE peer)
      /\ UNCHANGED <<pc, run, opened, resumed_bytes, sent_bytes, local, remote>>
  BY Zenon DEF PeerFinishes, Takes, senderVars
<1>2. /\ Head(toPeer) = toPeer[1] /\ toPeer[1] \in Questions /\ 1 \in DOMAIN toPeer
      /\ toPeer' \in Seq(Questions)
  BY <1>1, QuestionHead
<1>3. pc # "confirm" /\ pc # "begin" /\ (pc = "complete" => peer # "asked")
  BY Zenon, <1>1, <1>2 DEF IInv, AnswersFit, PeerFits
<1>4. peer' # "writing"
  BY Zenon, <1>1
<1>5. QueueFits' /\ BlocksFit'
  BY Zenon, <1>1, <1>3, <1>4, TookQueue
<1>6. fromPeer' \in Seq(Answers)
  <2>1. fromPeer \in Seq(Answers) /\ Msg("done", 0, <<>>) \in Answers
    BY DEF IInv, TypeOK, Answers, Msg, Messages
  <2> QED
    BY SMTT(60), <2>1, AppendFacts DEF PeerFinishes
<1>7. TypeOK'
  BY Zenon, <1>1, <1>2, <1>6 DEF IInv, TypeOK, Questions, Answers
<1>8. VersionsFit' /\ AnswersFit'
  BY Zenon, <1>1, <1>3 DEF IInv, VersionsFit, Unchanged, AnswersFit
<1>9. PeerFits'
  <2>1. peer = "writing" /\ Unchanged => Len(remote.data) = opened.len
    BY ZenonT(60), <1>1, <1>2 DEF IInv, BlocksFit
  <2> QED
    BY Zenon, <1>1, <1>3, <2>1 DEF IInv, PeerFits, Same, Unchanged
<1> QED
  BY Zenon, <1>5, <1>7, <1>8, <1>9 DEF IInv

LEMMA PeerErrorsKeeps ==
  ASSUME IInv, PeerErrors
  PROVE  IInv'
<1> DEFINE e == Msg("error", 0, <<>>)
<1>1. /\ pc # "begin" /\ peer' = "stopped" /\ fromPeer' = Append(fromPeer, e)
      /\ UNCHANGED <<pc, run, opened, resumed_bytes, sent_bytes, local, toPeer, remote>>
  BY Zenon DEF PeerErrors, senderVars
<1>2. e \in Answers /\ e.type = "error"
  BY DEF Msg, Answers, Messages
<1> HIDE DEF e
<1>3. fromPeer \in Seq(Answers)
  BY Zenon DEF IInv, TypeOK, Answers
<1>4. /\ fromPeer' \in Seq(Answers) /\ DOMAIN fromPeer = 1 .. Len(fromPeer) /\ Len(fromPeer) \in Nat
      /\ \A i \in DOMAIN fromPeer' : fromPeer'[i] = e \/ (i \in DOMAIN fromPeer /\ fromPeer'[i] = fromPeer[i])
  BY <1>1, <1>2, <1>3, AppendFacts, LenProperties
<1>5. TypeOK'
  BY Zenon, <1>1, <1>4 DEF IInv, TypeOK, Answers
<1>6. AnswersFit'
  <2> SUFFICES ASSUME pc = "confirm"
               PROVE  /\ \A i \in DOMAIN fromPeer' : AnswerFits(fromPeer[i])'
                      /\ \A i \in DOMAIN toPeer : toPeer[i].type = "digest"
    BY Zenon, <1>1 DEF AnswersFit
  <2>1. \A i \in DOMAIN fromPeer : AnswerFits(fromPeer[i])
    BY ZenonT(60) DEF IInv, AnswersFit
  <2>2. \A i \in DOMAIN fromPeer' : AnswerFits(fromPeer[i])'
    BY SMTT(30), <1>1, <1>2, <1>4, <2>1 DEF AnswerFits, Same
  <2> QED
    BY Zenon, <2>2 DEF IInv, AnswersFit
<1>7. VersionsFit' /\ PeerFits' /\ QueueFits' /\ BlocksFit'
  BY ZenonT(60), <1>1 DEF IInv, VersionsFit, Unchanged, PeerFits, Same, QueueFits, BlocksFit
<1> QED
  BY Zenon, <1>5, <1>6, <1>7 DEF IInv

-----------------------------------------------------------------------------
(* The invariant holds in every state, whatever the file, the stream and the *)
(* peer do.                                                                  *)
THEOREM Invariance == Spec => []IInv
<1>1. IInv /\ [Next]_vars => IInv'
  <2> SUFFICES ASSUME IInv, [Next]_vars
               PROVE  IInv'
    BY Zenon
  <2>1. CASE LocalFileChanges
    BY Zenon, <2>1, ChangeKeeps
  <2>2. CASE StreamFails \/ RecvError
    BY Zenon, <2>2, FailKeeps DEF StreamFails, RecvError
  <2>3. CASE Begin \/ RecvDigest \/ RecvOffset \/ RecvSkip \/ RecvDone
    BY Zenon, <2>3, BeginKeeps, RecvDigestKeeps, RecvOffsetKeeps, RecvSkipKeeps, RecvDoneKeeps
  <2>4. CASE (\E n \in 1 .. Block : send_next_block(n)) \/ SendDone \/ wait_for_done
    BY Zenon, <2>4, SendBlockKeeps, SendDoneKeeps, WaitKeeps
  <2>5. CASE Peer
    BY Zenon, <2>5, PeerAnswersKeeps, PeerConfirmedKeeps, PeerWritesKeeps, PeerFinishesKeeps, PeerErrorsKeeps DEF Peer
  <2>6. CASE UNCHANGED vars
    <3>1. UNCHANGED <<pc, run, opened, resumed_bytes, sent_bytes, local, toPeer, fromPeer, remote, peer>>
      BY ZenonT(60), <2>6 DEF vars, senderVars, peerVars
    <3>2. TypeOK' /\ VersionsFit' /\ PeerFits'
      BY <3>1 DEF IInv, TypeOK, VersionsFit, PeerFits, Unchanged, Same
    <3>3. AnswersFit'
      BY ZenonT(60), <3>1 DEF IInv, AnswersFit, AnswerFits, Same
    <3>4. QueueFits' /\ BlocksFit'
      BY ZenonT(60), <3>1 DEF IInv, QueueFits, BlocksFit, Unchanged, Same
    <3> QED
      BY Zenon, <3>2, <3>3, <3>4 DEF IInv
  <2> QED
    BY ZenonT(60), <2>1, <2>2, <2>3, <2>4, <2>5, <2>6 DEF Next, Sender
<1> QED
  BY <1>1, InitIInv, PTL DEF Spec

(* Offsets, lengths and messages stay in their ranges (PushTransfer). *)
THEOREM TypeCorrect == Spec => []TypeOK
<1>1. IInv => TypeOK
  BY Zenon DEF IInv
<1> QED
  BY <1>1, Invariance, PTL

LEMMA ContentIs ==
  ASSUME NEW f \in Files
  PROVE  /\ f.len \in Nat /\ Content(f) \in Seq(Byte) /\ Len(Content(f)) = f.len
         /\ \A k \in 1 .. f.len : Content(f)[k] = [of |-> f.version, at |-> k]
<1> DEFINE c == Content(f)
<1>1. f.version \in 1 .. MaxVersion /\ f.len \in 0 .. MaxLen
  BY Zenon DEF Files
<1>2. /\ f.version \in Nat /\ f.len \in Nat /\ f.len - 0 = f.len
      /\ \A k \in 1 .. f.len : k \in Nat /\ 0 + k = k
  BY SMTT(60), <1>1, SizeAssumption
<1>3. c = [k \in 1 .. f.len |-> [of |-> f.version, at |-> 0 + k]]
  BY Zenon, <1>2 DEF Content, Bytes
<1> HIDE DEF c
<1>4. \A k \in 1 .. f.len : [of |-> f.version, at |-> 0 + k] \in Byte
  BY Zenon, <1>2 DEF Byte
<1>5. c \in [1 .. f.len -> Byte]
  BY Zenon, <1>3, <1>4
<1>6. \A k \in 1 .. f.len : c[k] = [of |-> f.version, at |-> k]
  BY Zenon, <1>2, <1>3
<1>7. c \in Seq(Byte) /\ Len(c) = f.len
  BY Zenon, <1>2, <1>5, FunctionIsSeq
<1> QED
  BY Zenon, <1>2, <1>6, <1>7 DEF c

LEMMA UpTo ==
  ASSUME NEW a \in Nat, NEW b \in Nat, a <= b
  PROVE  a \in 0 .. b /\ \A k \in 1 .. a : k \in 1 .. b
  OBVIOUS

(* A sequence of the first bytes of a file is its beginning. *)
LEMMA FirstBytes ==
  ASSUME NEW f \in Files, NEW d \in Seq(Byte), Len(d) <= f.len,
         \A k \in DOMAIN d : d[k] = [of |-> f.version, at |-> k]
  PROVE  d = SubSeq(Content(f), 1, Len(d)) /\ (Len(d) = f.len => d = Content(f))
<1> DEFINE c == Content(f)
<1>1. /\ f.len \in Nat /\ c \in Seq(Byte) /\ Len(c) = f.len
      /\ \A k \in 1 .. f.len : c[k] = [of |-> f.version, at |-> k]
  BY Zenon, ContentIs
<1> HIDE DEF c
<1>2. Len(d) \in Nat /\ DOMAIN d = 1 .. Len(d)
  BY Zenon, LenProperties
<1>3. Len(d) \in 0 .. Len(c) /\ \A k \in 1 .. Len(d) : k \in 1 .. f.len
  BY Zenon, <1>1, <1>2, UpTo
<1>4. \A k \in 1 .. Len(d) : d[k] = c[k]
  BY Zenon, <1>1, <1>2, <1>3
<1>5. d = SubSeq(c, 1, Len(d))
  <2>1. /\ SubSeq(c, 1, Len(d)) \in Seq(Byte) /\ Len(SubSeq(c, 1, Len(d))) = Len(d)
        /\ \A k \in 1 .. Len(d) : SubSeq(c, 1, Len(d))[k] = c[k]
    BY ZenonT(60), <1>1, <1>3, PrefixFacts
  <2> QED
    BY Zenon, <1>4, <2>1, SeqEqual
<1>6. Len(d) = f.len => d = c
  BY Zenon, <1>1, <1>4, SeqEqual
<1> QED
  BY Zenon, <1>5, <1>6 DEF c

(* What the peer has when a push is cut off is a prefix of the file: both    *)
(* ends resume at the same offset, however long the file and however small   *)
(* the offset a SendConfirm can carry (begin,                                *)
(* confirm_upload_from_remote_digest, send_next_block).                      *)
THEOREM PrefixCorrect == Spec => []RemoteIsPrefix
<1>1. IInv => RemoteIsPrefix
  <2> SUFFICES ASSUME IInv, peer = "writing", Unchanged
               PROVE  /\ Len(remote.data) <= opened.len
                      /\ remote.data = SubSeq(Content(opened), 1, Len(remote.data))
    BY Zenon DEF RemoteIsPrefix
  <2>1. opened \in Files /\ remote.data \in Seq(Byte)
    BY Zenon DEF IInv, TypeOK
  <2>2. Len(remote.data) <= opened.len /\ \A k \in DOMAIN remote.data : remote.data[k] = [of |-> opened.version, at |-> k]
    BY Zenon DEF IInv, PeerFits, VersionsFit, Same, Unchanged
  <2> QED
    BY Zenon, <2>1, <2>2, FirstBytes
<1> QED
  BY <1>1, Invariance, PTL

(* A file the peer was told is done, or let the sender skip, is the local    *)
(* one to the last byte (send_next_block, wait_for_done).                    *)
THEOREM DoneCorrect == Spec => []DoneMeansExact
<1>1. IInv => DoneMeansExact
  <2> SUFFICES ASSUME IInv, Unchanged, peer = "finished" \/ (pc = "complete" /\ peer = "asked")
               PROVE  remote.data = Content(opened)
    BY Zenon DEF DoneMeansExact
  <2>1. opened \in Files /\ remote.data \in Seq(Byte) /\ Len(remote.data) = opened.len /\ opened.len <= opened.len
    BY SizeAssumption DEF IInv, TypeOK, PeerFits, Files
  <2>2. \A k \in DOMAIN remote.data : remote.data[k] = [of |-> opened.version, at |-> k]
    BY Zenon DEF IInv, PeerFits, VersionsFit, Same, Unchanged
  <2> QED
    BY Zenon, <2>1, <2>2, FirstBytes
<1> QED
  BY <1>1, Invariance, PTL

-----------------------------------------------------------------------------
(* Module Connect.                                                            *)

LEMMA NormalizedAddr ==
  ASSUME NEW addr \in Addrs
  PROVE  normalize_relay_addr(addr) \in Addrs
  BY DEF Addrs, normalize_relay_addr, DefaultPort

LEMMA AddrOrAddr ==
  ASSUME NEW addr \in Addrs \cup {None}
  PROVE  AddrOr(addr, ConfigRelay) \in Addrs
  BY Zenon, NormalizedAddr, RelayAssumption DEF AddrOr

(* The address in a RelayResponse leads to the place it names. *)
LEMMA NamedAddr ==
  ASSUME NEW w \in Places, NEW addr \in Addrs \cup {None}, Names(w, addr)
  PROVE  AddrOr(addr, ConfigRelay) = w.addr
<1>1. CASE addr = None
  BY <1>1, RelayAssumption DEF AddrOr, Names
<1>2. CASE addr \in Addrs
  BY <1>2, RelayAssumption DEF AddrOr, Names, Places, Addrs, normalize_relay_addr, DefaultPort
<1> QED
  BY Zenon, <1>1, <1>2

-----------------------------------------------------------------------------
(* The inductive invariant.  Each lemma is about one phase of an attempt.  *)

LEMMA InitConnectInv == ConnectInit => ConnectInv
<1> SUFFICES ASSUME ConnectInit PROVE ConnectInv
  BY Zenon
<1>1. AttemptTypeOK
  BY CallerAssumption DEF ConnectInit, AttemptTypeOK, Trying
<1>2. QED
  BY Zenon, <1>1, CallerAssumption DEF ConnectInit, ConnectInv, HeartbeatCoversAttempt, Trying, Bound, Handshake

(* A failed attempt forgets its offer and its uuid. *)
LEMMA AttemptFailsKeeps ==
  ASSUME ConnectInv, NEW S \in SUBSET heartbeats, Fail(S)
  PROVE  ConnectInv'
<1> USE CallerAssumption DEF Fail, AttemptsLeft
<1>1. AttemptTypeOK'
  <2>1. attempt' \in attempt .. MaxAttempts /\ attempt \in 1 .. MaxAttempts
    BY DEF ConnectInv, AttemptTypeOK
  <2>2. heartbeats' \subseteq 1 .. attempt'
    <3>1. heartbeats' \subseteq 1 .. attempt
      BY Zenon DEF ConnectInv, AttemptTypeOK
    <3> QED
      BY <2>1, <3>1
  <2>3. phase' \in Trying \cup {"connected", "failed"} /\ caller' \in Callers
    BY Zenon DEF ConnectInv, AttemptTypeOK, Trying
  <2> QED
    BY <2>1, <2>2, <2>3 DEF ConnectInv, AttemptTypeOK
<1>2. HeartbeatCoversAttempt'
  BY Zenon DEF HeartbeatCoversAttempt, Trying
<1>3. (\A w \in peerAt : w.uuid[2] = w.for)'
  BY Zenon DEF ConnectInv
<1>4. (phase \notin Bound /\ offer = None)'
  BY Zenon DEF Bound, Handshake
<1> QED
  BY ZenonT(60), <1>1, <1>2, <1>3, <1>4 DEF ConnectInv

LEMMA RegisterKeeps ==
  ASSUME ConnectInv, Backoff \/ StartTimesOut \/ Register
  PROVE  ConnectInv'
<1>1. CASE Backoff
  BY Zenon, <1>1 DEF Backoff, ConnectInv, AttemptTypeOK, HeartbeatCoversAttempt, Trying, Bound, Handshake,
     tcpVars, relayVars, meetVars
<1>2. CASE StartTimesOut \/ RegisterFails
  BY ZenonT(60), <1>2, AttemptFailsKeeps DEF StartTimesOut, RegisterFails, FailEarly
<1>3. CASE RegisterPk \/ \E request_pk \in BOOLEAN : RegisterPeer(request_pk)
  BY <1>3 DEF RegisterPk, RegisterPeer, StartHeartbeat, ConnectInv, AttemptTypeOK, HeartbeatCoversAttempt,
     Trying, Bound, Handshake, tcpVars, relayVars, meetVars
<1> QED
  BY Zenon, <1>1, <1>2, <1>3 DEF Register

(* The uuids of an attempt. *)
LEMMA UuidsOfAttempt ==
  ASSUME AttemptTypeOK
  PROVE  /\ ClientUuid \in Uuids /\ ClientUuid[2] = attempt
         /\ PeerUuid(attempt) \in Uuids /\ PeerUuid(attempt)[2] = attempt
  BY Zenon DEF AttemptTypeOK, ClientUuid, PeerUuid, Uuids

(* Binding at an address with a uuid of this attempt. *)
LEMMA BindKeeps ==
  ASSUME ConnectInv, phase \in {"punch", "request_relay", "relay_response"},
         NEW addr \in Addrs, Bind(addr, ClientUuid),
         UNCHANGED <<tcpVars, meetVars>>, Phase2Unchanged
  PROVE  ConnectInv'
<1> USE DEF Bind, Phase2Unchanged, tcpVars, meetVars
<1>1. ClientUuid \in Uuids /\ ClientUuid[2] = attempt
  BY Zenon, UuidsOfAttempt DEF ConnectInv
<1>2. AttemptTypeOK'
  BY Zenon, <1>1 DEF ConnectInv, AttemptTypeOK, Trying
<1>3. HeartbeatCoversAttempt'
  BY Zenon DEF ConnectInv, HeartbeatCoversAttempt, Trying
<1>4. offer = None
  BY Zenon DEF ConnectInv, Bound, Handshake
<1> QED
  BY Zenon, <1>1, <1>2, <1>3, <1>4 DEF ConnectInv

(* A RelayResponse: the place it names, and the uuid of the peer there. *)
LEMMA RelayResponseKeeps ==
  ASSUME ConnectInv, NEW w \in peerAt, NEW addr \in Addrs \cup {None}, RelayResponse(w, addr)
  PROVE  ConnectInv'
<1> USE DEF RelayResponse, Bind, BindUuid, Phase2Unchanged, tcpVars
<1>1. w \in Places
  BY Zenon DEF ConnectInv, AttemptTypeOK
<1>2. AddrOr(addr, ConfigRelay) = w.addr /\ w.addr \in Addrs
  BY Zenon, <1>1, NamedAddr DEF Places
<1>3. w.uuid \in Uuids /\ w.uuid[2] = attempt
  BY Zenon, UuidsOfAttempt DEF ConnectInv
<1>4. AttemptTypeOK'
  BY Zenon, <1>1, <1>2, <1>3 DEF ConnectInv, AttemptTypeOK, Trying
<1>5. HeartbeatCoversAttempt'
  BY Zenon DEF ConnectInv, HeartbeatCoversAttempt, Trying
<1> QED
  BY Zenon, <1>2, <1>3, <1>4, <1>5 DEF ConnectInv, Bound

LEMMA ResponseRelay ==
  ASSUME NEW resp \in PunchHoleResponses, resp.relay_server # None
  PROVE  resp.relay_server \in Addrs
  BY RelayAssumption DEF PunchHoleResponses, Addrs

LEMMA PunchKeeps ==
  ASSUME ConnectInv, Punch
  PROVE  ConnectInv'
<1>1. CASE PunchSend \/ PunchFails \/ KeyExchange
  BY ZenonT(60), <1>1 DEF PunchSend, PunchFails, KeyExchange, RequestRelayNext, Phase2Unchanged, ConnectInv,
     AttemptTypeOK, HeartbeatCoversAttempt, Trying, Bound, Handshake, tcpVars, relayVars, meetVars
<1>2. CASE \E resp \in PunchHoleResponses : PunchHoleResponse(resp)
  BY Zenon, <1>2 DEF PunchHoleResponse, Phase2Unchanged, ConnectInv, AttemptTypeOK, HeartbeatCoversAttempt,
     relayVars, meetVars
<1>3. CASE RelayRefused
  BY Zenon, <1>3, AttemptFailsKeeps DEF RelayRefused, FailEarly
<1>4. CASE PunchTimesOut
  <2>1. CASE Refused
    BY Zenon, <1>4, <2>1, AttemptFailsKeeps DEF PunchTimesOut, FailEarly
  <2>2. CASE ~Refused /\ punch_response # None /\ punch_response.relay_server # None
    <3>1. normalize_relay_addr(punch_response.relay_server) \in Addrs
      BY Zenon, <2>2, ResponseRelay, NormalizedAddr DEF ConnectInv, AttemptTypeOK
    <3> QED
      BY Zenon, <1>4, <2>2, <3>1, BindKeeps DEF PunchTimesOut
  <2>3. CASE ~Refused /\ ~(punch_response # None /\ punch_response.relay_server # None)
    <3>1. phase = "punch" /\ RequestRelayNext /\ UNCHANGED <<tcpVars, meetVars>> /\ Phase2Unchanged
      BY Zenon, <1>4, <2>3 DEF PunchTimesOut
    <3> QED
      BY Zenon, <3>1 DEF RequestRelayNext, Phase2Unchanged, ConnectInv, AttemptTypeOK, HeartbeatCoversAttempt,
         Trying, Bound, Handshake, tcpVars, relayVars, meetVars
  <2> QED
    BY Zenon, <2>1, <2>2, <2>3
<1>5. CASE \E w \in peerAt, addr \in Addrs \cup {None} : RelayResponse(w, addr)
  BY Zenon, <1>5, RelayResponseKeeps
<1>6. CASE \E addr \in {None, ConfigRelay} : RelayResponseNoUuid(addr)
  BY Zenon, <1>6, AddrOrAddr, RelayAssumption, BindKeeps DEF RelayResponseNoUuid
<1> QED
  BY Zenon, <1>1, <1>2, <1>3, <1>4, <1>5, <1>6 DEF Punch

LEMMA AskRelayKeeps ==
  ASSUME ConnectInv, AskRelay
  PROVE  ConnectInv'
<1>1. CASE RequestRelaySend
  <2>1. ClientUuid \in Uuids
    BY Zenon, UuidsOfAttempt DEF ConnectInv
  <2> QED
    BY Zenon, <1>1, <2>1 DEF RequestRelaySend, Phase2Unchanged, ConnectInv, AttemptTypeOK,
       HeartbeatCoversAttempt, Trying, Bound, Handshake, tcpVars, relayVars
<1>2. CASE RequestRelayFails
  BY Zenon, <1>2, NormalizedAddr, RelayAssumption, BindKeeps DEF RequestRelayFails
<1>3. CASE \E addr \in Addrs \cup {None} : RequestRelayAnswered(addr)
  BY Zenon, <1>3, AddrOrAddr, BindKeeps DEF RequestRelayAnswered
<1> QED
  BY Zenon, <1>1, <1>2, <1>3 DEF AskRelay

LEMMA ThroughRelayKeeps ==
  ASSUME ConnectInv, ThroughRelay
  PROVE  ConnectInv'
<1>1. CASE RelayConnectFails \/ HandshakeFails \/ HandshakeTimesOut
  BY Zenon, <1>1, AttemptFailsKeeps DEF RelayConnectFails, HandshakeFails, HandshakeTimesOut, FailEarly,
     FailHandshake
<1>2. CASE relay_connect_with_type \/ SignedId \/ Hash
  BY ZenonT(60), <1>2 DEF relay_connect_with_type, SignedId, Hash, HandshakeUnchanged, ConnectInv, AttemptTypeOK,
     HeartbeatCoversAttempt, Trying, Bound, Handshake, tcpVars, relayVars, meetVars
<1>3. CASE LoginAccepted
  BY ZenonT(60), <1>3 DEF LoginAccepted, HandshakeUnchanged, ConnectInv, AttemptTypeOK, HeartbeatCoversAttempt,
     Trying, Bound, Handshake, tcpVars, relayVars, meetVars
<1> QED
  BY Zenon, <1>1, <1>2, <1>3 DEF ThroughRelay

(* The peer waits with a uuid of the attempt it was told of. *)
LEMMA NetworkKeeps ==
  ASSUME ConnectInv, Network
  PROVE  ConnectInv'
<1>1. CASE DatagramLost
  BY ZenonT(60), <1>1 DEF DatagramLost, ConnectInv, AttemptTypeOK, HeartbeatCoversAttempt, tcpVars, relayVars, meetVars
<1>2. ASSUME NEW uuid \in Uuids, uuid[2] = attempt, NEW addr \in Addrs,
             peerAt' = peerAt \cup {Place(addr, uuid)},
             UNCHANGED <<caller, attempt, phase, udp_lost, tcpVars, relayVars, heartbeats, offer, announced>>
      PROVE  ConnectInv'
  <2>1. Place(addr, uuid) \in Places /\ Place(addr, uuid).uuid[2] = Place(addr, uuid).for
    BY Zenon, <1>2 DEF Place, Places, ConnectInv, AttemptTypeOK
  <2> QED
    BY <1>2, <2>1 DEF ConnectInv, AttemptTypeOK, HeartbeatCoversAttempt, tcpVars, relayVars
<1>3. CASE PeerGetsPunchHole
  <2>1. PeerUuid(attempt) \in Uuids /\ PeerUuid(attempt)[2] = attempt
    BY Zenon, UuidsOfAttempt DEF ConnectInv
  <2>2. PICK h \in Hosts, p \in {DefaultPort, DefaultPort + 1} :
             peerAt' = peerAt \cup {Place([host |-> h, port |-> p], PeerUuid(attempt))}
    BY Zenon, <1>3 DEF PeerGetsPunchHole
  <2>3. [host |-> h, port |-> p] \in Addrs
    BY Zenon DEF Addrs
  <2> QED
    BY Zenon, <1>2, <1>3, <2>1, <2>2, <2>3 DEF PeerGetsPunchHole, Phase2Unchanged, tcpVars, relayVars
<1>4. CASE PeerGetsRequestRelay
  <2>1. ClientUuid \in Uuids /\ ClientUuid[2] = attempt
    BY Zenon, UuidsOfAttempt DEF ConnectInv
  <2>2. PICK h \in Hosts :
             peerAt' = peerAt \cup {Place([host |-> h, port |-> DefaultPort], ClientUuid)}
    BY Zenon, <1>4 DEF PeerGetsRequestRelay
  <2>3. [host |-> h, port |-> DefaultPort] \in Addrs
    BY Zenon DEF Addrs
  <2> QED
    BY Zenon, <1>2, <1>4, <2>1, <2>2, <2>3 DEF PeerGetsRequestRelay
<1> QED
  BY Zenon, <1>1, <1>3, <1>4 DEF Network

(* The invariant holds in every reachable state of connect_with_mode and its  *)
(* callers, whatever hbbs, hbbr and the peer send.                            *)
THEOREM ConnectInvariance == ConnectSpec => []ConnectInv
<1>1. ConnectInv /\ [ConnectNext]_connectVars => ConnectInv'
  <2> SUFFICES ASSUME ConnectInv, [ConnectNext]_connectVars PROVE ConnectInv'
    BY Zenon
  <2>1. CASE UNCHANGED connectVars
    BY <2>1 DEF connectVars, tcpVars, relayVars, meetVars, ConnectInv, AttemptTypeOK, HeartbeatCoversAttempt
  <2>2. CASE ConnectNext
    BY Zenon, <2>2, RegisterKeeps, PunchKeeps, AskRelayKeeps, ThroughRelayKeeps, NetworkKeeps DEF ConnectNext
  <2> QED
    BY ZenonT(60), <2>1, <2>2
<1> QED
  BY <1>1, InitConnectInv, PTL DEF ConnectSpec

(* The variables of connect_with_mode keep their types. *)
THEOREM ConnectTypeCorrect == ConnectSpec => []ConnectTypeOK
<1>1. ConnectInit => udp_lost \in BOOLEAN
  BY Zenon DEF ConnectInit
<1>2. udp_lost \in BOOLEAN /\ [ConnectNext]_connectVars => (udp_lost \in BOOLEAN)'
  <2>1. ASSUME [ConnectNext]_connectVars PROVE udp_lost' = udp_lost \/ udp_lost' = TRUE
    <3>1. CASE Backoff \/ StartTimesOut \/ Register \/ Network
      BY Zenon, <3>1 DEF Backoff, StartTimesOut, Register, RegisterPk, RegisterFails, RegisterPeer, Network,
         DatagramLost, PeerGetsPunchHole, PeerGetsRequestRelay, Phase2Unchanged, FailEarly, Fail
    <3>2. CASE Punch \/ AskRelay
      BY Zenon, <3>2 DEF Punch, PunchSend, PunchFails, PunchTimesOut, KeyExchange, PunchHoleResponse,
         RelayResponse, RelayResponseNoUuid, RelayRefused, AskRelay, RequestRelaySend,
         RequestRelayFails, RequestRelayAnswered, Phase2Unchanged, FailEarly, Fail
    <3>3. CASE ThroughRelay
      BY Zenon, <3>3 DEF ThroughRelay, relay_connect_with_type, RelayConnectFails, SignedId, Hash,
         LoginAccepted, HandshakeFails, HandshakeTimesOut, HandshakeUnchanged, FailEarly,
         FailHandshake, Fail
    <3>4. CASE UNCHANGED connectVars
      BY Zenon, <3>4 DEF connectVars
    <3> QED
      BY Zenon, <2>1, <3>1, <3>2, <3>3, <3>4 DEF ConnectNext
  <2> QED
    BY Zenon, <2>1
<1>3. ConnectInv => AttemptTypeOK
  BY Zenon DEF ConnectInv
<1> QED
  BY <1>1, <1>2, <1>3, ConnectInvariance, PTL DEF ConnectSpec, ConnectTypeOK

-----------------------------------------------------------------------------
(* A peer that said where it waits is met there, however many attempts were   *)
(* made before and however the address in the RelayResponse was written.      *)
THEOREM MeetCorrect == ConnectSpec => []MeetsPeerAtOffer
<1>1. ConnectInv => MeetsPeerAtOffer
  BY Zenon DEF ConnectInv, MeetsPeerAtOffer
<1> QED
  BY <1>1, ConnectInvariance, PTL

(* No attempt talks to a peer that waits for an earlier one, for any number   *)
(* of attempts: the uuid of an attempt is of no other.                        *)
THEOREM PartnerCorrect == ConnectSpec => []NoStalePartner
<1>1. ConnectInv => NoStalePartner
  BY Zenon DEF ConnectInv, NoStalePartner, Partners, Bound
<1> QED
  BY <1>1, ConnectInvariance, PTL

(* The heartbeat task runs from the registration of an attempt until          *)
(* handshake_and_auth has returned.                                           *)
THEOREM HeartbeatCorrect == ConnectSpec => []HeartbeatCoversAttempt
<1>1. ConnectInv => HeartbeatCoversAttempt
  BY Zenon DEF ConnectInv
<1> QED
  BY <1>1, ConnectInvariance, PTL

-----------------------------------------------------------------------------
(* Module EncryptedStream.                                                    *)

-----------------------------------------------------------------------------
(* The header. *)

(* The low two bits and the rest of what FramedTransport::send writes. *)
LEMMA TagAndLength ==
  ASSUME NEW n \in Nat, NEW r \in 0 .. 3
  PROVE  (n * 4 + r) % 4 = r /\ (n * 4 + r) \div 4 = n
  BY SMTT(60)

(* The little-endian bytes of a number are bytes, *)
LEMMA BytesAreBytes ==
  ASSUME NEW v \in Nat
  PROVE  \A k \in 1 .. 4 : to_le_bytes(v)[k] \in 0 .. 255
  BY SMTT(60) DEF to_le_bytes

(* the first one holds the tag, *)
LEMMA FirstByteHoldsTag ==
  ASSUME NEW v \in Nat
  PROVE  header_len(to_le_bytes(v)[1]) = (v % 4) + 1
<1>1. to_le_bytes(v)[1] = v % 256
  BY SMTT(60) DEF to_le_bytes
<1>2. (v % 256) % 4 = v % 4
  BY SMTT(60)
<1> QED
  BY Zenon, <1>1, <1>2 DEF header_len

(* they are 0 beyond its size, *)
LEMMA HighBytesZero ==
  ASSUME NEW v \in Nat
  PROVE  /\ v < 256 => to_le_bytes(v)[2] = 0
         /\ v < 65536 => to_le_bytes(v)[3] = 0
         /\ v < 16777216 => to_le_bytes(v)[4] = 0
  BY SMTT(60) DEF to_le_bytes

(* and make it up again, here shifted right by the two bits of the tag. *)
LEMMA BytesMakeUp ==
  ASSUME NEW v \in Nat, v < 4294967296
  PROVE  payload_len(to_le_bytes(v)) = v \div 4
<1>1. ((v % 256) \div 4) + 64 * ((v \div 256) % 256) + 16384 * ((v \div 65536) % 256)
        + 4194304 * ((v \div 16777216) % 256) = v \div 4
  BY SMTT(60)
<1> QED
  BY SMTT(60), <1>1 DEF payload_len, to_le_bytes

(* FramedTransport::send writes one to four bytes, *)
LEMMA HeaderSize ==
  ASSUME NEW len \in Nat
  PROVE  HeaderLen(len) \in 1 .. 4
  BY SMTT(60) DEF HeaderLen

(* as few as hold the length and the tag. *)
LEMMA HeaderFits ==
  ASSUME NEW len \in Nat, NEW r \in 0 .. 3
  PROVE  /\ len <= MaxSend => len * 4 + r < 4294967296
         /\ HeaderLen(len) <= 3 => len * 4 + r < 16777216
         /\ HeaderLen(len) <= 2 => len * 4 + r < 65536
         /\ HeaderLen(len) <= 1 => len * 4 + r < 256
<1>1. len <= MaxSend => len * 4 + r < 4294967296
  BY SMTT(60) DEF MaxSend
<1>2. HeaderLen(len) <= 3 => len * 4 + r < 16777216
  BY SMTT(60) DEF HeaderLen
<1>3. HeaderLen(len) <= 2 => len * 4 + r < 65536
  BY SMTT(60) DEF HeaderLen
<1>4. HeaderLen(len) <= 1 => len * 4 + r < 256
  BY SMTT(60) DEF HeaderLen
<1> QED
  BY SMTT(60), <1>1, <1>2, <1>3, <1>4

(* Encoding a length and decoding it gives the length back, at every header   *)
(* size: the first byte tells FramedTransport::recv how many bytes follow,    *)
(* the bytes it does not read are 0, and together they give the length.       *)
THEOREM HeaderRoundTrip ==
  ASSUME NEW len \in Nat, len <= MaxSend
  PROVE  /\ \A k \in 1 .. 4 : Header(len)[k] \in 0 .. 255
         /\ header_len(Header(len)[1]) = HeaderLen(len)
         /\ \A k \in 2 .. 4 : k > HeaderLen(len) => Header(len)[k] = 0
         /\ payload_len(Header(len)) = len
<1> DEFINE r == HeaderLen(len) - 1
           val == len * 4 + r
<1>1. r \in 0 .. 3 /\ r + 1 = HeaderLen(len)
  BY SMTT(60), HeaderSize
<1>2. Header(len) = to_le_bytes(val)
  BY Zenon DEF Header
<1> HIDE DEF r
<1>3. val \in Nat
  BY SMTT(60), <1>1
<1>4. val % 4 = r /\ val \div 4 = len
  BY Zenon, <1>1, TagAndLength
<1>5. \A k \in 1 .. 4 : Header(len)[k] \in 0 .. 255
  BY ZenonT(60), <1>2, <1>3, BytesAreBytes
<1>6. header_len(Header(len)[1]) = HeaderLen(len)
  BY Zenon, <1>1, <1>2, <1>3, <1>4, FirstByteHoldsTag
<1>7. \A k \in 2 .. 4 : k > HeaderLen(len) => Header(len)[k] = 0
  <2>1. /\ 2 > HeaderLen(len) => val < 256
        /\ 3 > HeaderLen(len) => val < 65536
        /\ 4 > HeaderLen(len) => val < 16777216
    BY SMTT(60), <1>1, HeaderSize, HeaderFits
  <2> HIDE DEF val
  <2>2. /\ 2 > HeaderLen(len) => to_le_bytes(val)[2] = 0
        /\ 3 > HeaderLen(len) => to_le_bytes(val)[3] = 0
        /\ 4 > HeaderLen(len) => to_le_bytes(val)[4] = 0
    BY SMTT(60), <1>3, <2>1, HighBytesZero
  <2>3. \A k \in 2 .. 4 : k = 2 \/ k = 3 \/ k = 4
    OBVIOUS
  <2> QED
    BY Zenon, <1>2, <2>2, <2>3
<1>8. payload_len(Header(len)) = len
  <2>1. val < 4294967296
    BY SMTT(60), <1>1, HeaderFits
  <2> HIDE DEF val
  <2>2. payload_len(to_le_bytes(val)) = val \div 4
    BY SMTT(60), <1>3, <2>1, BytesMakeUp
  <2> QED
    BY Zenon, <1>2, <1>4, <2>2
<1> QED
  BY Zenon, <1>5, <1>6, <1>7, <1>8

-----------------------------------------------------------------------------
(* Positions. *)

(* The positions of frames are natural numbers. *)
LEMMA EndsAreNat ==
  ASSUME FramesInRow
  PROVE  /\ Len(frames) \in Nat /\ DOMAIN frames = 1 .. Len(frames)
         /\ \A i \in 1 .. Len(frames) : frames[i] \in FrameRecords
         /\ \A i \in 0 .. Len(frames) : EndOf(i) \in Nat /\ SeqOf(i) \in Nat
<1>1. frames \in Seq(FrameRecords)
  BY Zenon DEF FramesInRow
<1>2. /\ Len(frames) \in Nat /\ DOMAIN frames = 1 .. Len(frames)
      /\ \A i \in 1 .. Len(frames) : frames[i] \in FrameRecords
  BY SMTT(60), <1>1
<1>3. \A i \in 0 .. Len(frames) : EndOf(i) \in Nat /\ SeqOf(i) \in Nat
  <2> TAKE i \in 0 .. Len(frames)
  <2>1. CASE i = 0
    BY SMTT(60), <2>1 DEF EndOf, SeqOf
  <2>2. CASE i # 0
    <3>1. frames[i] \in FrameRecords
      BY SMTT(60), <1>2, <2>2
    <3> QED
      BY SMTT(60), <2>2, <3>1 DEF EndOf, SeqOf, FrameRecords
  <2> QED
    BY Zenon, <2>1, <2>2
<1> QED
  BY Zenon, <1>2, <1>3

(* What is known of each frame. *)
LEMMA FrameFacts ==
  ASSUME FramesInRow, NEW i \in 1 .. Len(frames)
  PROVE  /\ frames[i].len \in Nat /\ frames[i].len <= MaxSend
         /\ HeaderLen(frames[i].len) \in 1 .. 4
         /\ EndOf(i - 1) \in Nat /\ frames[i].end \in Nat
         /\ frames[i].end = EndOf(i - 1) + HeaderLen(frames[i].len) + frames[i].len
<1>1. frames[i].len \in Nat /\ frames[i].end \in Nat
  BY SMTT(60), EndsAreNat DEF FrameRecords
<1>2. EndOf(i - 1) \in Nat
  BY SMTT(60), EndsAreNat
<1>3. /\ frames[i].len <= MaxSend
      /\ frames[i].end = EndOf(i - 1) + HeaderLen(frames[i].len) + frames[i].len
  BY Zenon DEF FramesInRow
<1>4. HeaderLen(frames[i].len) \in 1 .. 4
  BY Zenon, <1>1, HeaderSize
<1> QED
  BY Zenon, <1>1, <1>2, <1>3, <1>4

(* No frame ends behind the last one. *)
LEMMA WrittenIsLast ==
  ASSUME FramesInRow, NEW i \in 1 .. Len(frames)
  PROVE  frames[i].end <= Written /\ Written \in Nat
<1> DEFINE n == Len(frames)
<1>1. n \in Nat /\ n \in 1 .. n /\ n # 0
  BY SMTT(60), EndsAreNat
<1>2. Written = frames[n].end
  BY Zenon, <1>1 DEF Written, EndOf
<1> DEFINE ei == frames[i].end
           en == frames[n].end
           hn == HeaderLen(frames[n].len)
           ln == frames[n].len
           sn == EndOf(n - 1)
<1>3. /\ ei \in Nat /\ hn \in 1 .. 4 /\ ln \in Nat /\ sn \in Nat /\ en = sn + hn + ln
      /\ i < n => ei <= sn
      /\ i = n => ei = en
  <2>1. ei \in Nat /\ hn \in 1 .. 4 /\ ln \in Nat /\ sn \in Nat /\ en = sn + hn + ln
    BY Zenon, <1>1, FrameFacts
  <2>2. i < n => ei <= sn
    BY Zenon, <1>1 DEF FramesInRow
  <2> QED
    BY Zenon, <2>1, <2>2
<1>4. i < n \/ i = n
  BY SMTT(60), <1>1
<1> HIDE DEF ei, en, hn, ln, sn
<1>5. ei <= en /\ en \in Nat
  BY SMTT(60), <1>3, <1>4
<1> QED
  BY Zenon, <1>2, <1>5 DEF ei, en

(* At a position of a header, recv can only read that header's byte. *)
LEMMA HeaderBytes ==
  ASSUME FramesInRow, NEW i \in 1 .. Len(frames), NEW k \in 1 .. HeaderLen(frames[i].len),
         NEW b \in BytesAt(EndOf(i - 1) + k - 1)
  PROVE  b = Header(frames[i].len)[k]
<1> DEFINE p == EndOf(i - 1) + k - 1
<1>1. PICK j \in DOMAIN frames :
        \/ /\ p \in EndOf(j - 1) .. EndOf(j - 1) + HeaderLen(frames[j].len) - 1
           /\ b = Header(frames[j].len)[p - EndOf(j - 1) + 1]
        \/ /\ p \in EndOf(j - 1) + HeaderLen(frames[j].len) .. frames[j].end - 1
           /\ b \in Garbage
  BY Zenon DEF BytesAt
<1> DEFINE si == EndOf(i - 1)
           hi == HeaderLen(frames[i].len)
           li == frames[i].len
           ei == frames[i].end
           sj == EndOf(j - 1)
           hj == HeaderLen(frames[j].len)
           lj == frames[j].len
           ej == frames[j].end
<1>2. j \in 1 .. Len(frames)
  BY Zenon, EndsAreNat
<1>3. hi \in 1 .. 4 /\ si \in Nat /\ li \in Nat /\ ei = si + hi + li
  BY Zenon, FrameFacts
<1>4. hj \in 1 .. 4 /\ sj \in Nat /\ lj \in Nat /\ ej = sj + hj + lj
  BY Zenon, <1>2, FrameFacts
<1>5. (i < j => ei <= sj) /\ (j < i => ej <= si)
  BY Zenon, <1>2 DEF FramesInRow
<1>6. p = si + k - 1 /\ k \in 1 .. hi
  OBVIOUS
<1>7. p \in sj .. sj + hj - 1 \/ p \in sj + hj .. ej - 1
  BY Zenon, <1>1
<1>8. i \in Nat /\ j \in Nat
  BY SMTT(60), <1>2
<1> HIDE DEF p, si, hi, li, ei, sj, hj, lj, ej
<1>9. j = i
  <2>1. ~(i < j)
    BY SMTT(60), <1>3, <1>4, <1>5, <1>6, <1>7
  <2>2. ~(j < i)
    BY SMTT(60), <1>3, <1>4, <1>5, <1>6, <1>7
  <2> QED
    BY SMTT(60), <1>8, <2>1, <2>2
<1>10. p - si + 1 = k /\ ~(p \in si + hi .. ei - 1)
  BY SMTT(60), <1>3, <1>6
<1> QED
  BY Zenon, <1>1, <1>9, <1>10 DEF p, si, hi, ei

-----------------------------------------------------------------------------
(* Nothing is written in the beginning. *)
LEMMA InitStreamInv == StreamInit => StreamInv
<1> SUFFICES ASSUME StreamInit PROVE StreamInv
  OBVIOUS
<1> USE DEF StreamInit
<1>1. Len(frames) = 0 /\ frames \in Seq(FrameRecords)
  BY SMTT(60)
<1>2. FramesInRow
  BY SMTT(60), <1>1 DEF FramesInRow, SeqOf
<1>3. got \in Seq(Nat) /\ NoSilentGap /\ reading # "rest" /\ reading # "payload"
  BY SMTT(60) DEF NoSilentGap
<1>4. InFrame(0)
  BY SMTT(60) DEF InFrame, SeqOf, EndOf
<1> QED
  BY SMTT(60), <1>1, <1>2, <1>3, <1>4 DEF StreamInv

(* A frame is appended: the ones before keep their place. *)
LEMMA AppendKeepsFrames ==
  ASSUME FramesInRow, NEW len \in Nat, len <= MaxSend, NEW seq \in Nat,
         lost = 0 => seq = SeqOf(Len(frames)) + (IF len = 0 THEN 0 ELSE 1),
         frames' = Append(frames, Frame(seq, len)), send_seq' = seq,
         UNCHANGED <<lost, recv_seq, pos>>
  PROVE  /\ FramesInRow'
         /\ Len(frames') = Len(frames) + 1
         /\ \A i \in 1 .. Len(frames) : frames'[i] = frames[i]
         /\ \A i \in 0 .. Len(frames) : EndOf(i)' = EndOf(i) /\ SeqOf(i)' = SeqOf(i)
<1> DEFINE n == Len(frames)
           f == Frame(seq, len)
<1>1. n \in Nat /\ frames \in Seq(FrameRecords) /\ EndOf(n) \in Nat /\ SeqOf(n) \in Nat
  <2>1. n \in Nat /\ frames \in Seq(FrameRecords)
    BY Zenon, EndsAreNat DEF FramesInRow
  <2>2. n \in 0 .. n
    BY SMTT(60), <2>1
  <2> QED
    BY Zenon, <2>1, <2>2, EndsAreNat
<1>2. HeaderLen(len) \in 1 .. 4
  BY ZenonT(60), HeaderSize
<1>3. /\ f \in FrameRecords /\ f.seq = seq /\ f.len = len
      /\ f.end = EndOf(n) + HeaderLen(len) + len
  BY SMTT(60), <1>1, <1>2 DEF Frame, FrameRecords, Written
<1> HIDE DEF f
<1>4. /\ frames' \in Seq(FrameRecords) /\ Len(frames') = n + 1
      /\ frames'[n + 1] = f
      /\ \A i \in 1 .. n : frames'[i] = frames[i]
  BY SMTT(60), <1>1, <1>3 DEF f
<1>5. \A i \in 0 .. n : EndOf(i)' = EndOf(i) /\ SeqOf(i)' = SeqOf(i)
  BY SMTT(60), <1>1, <1>4 DEF EndOf, SeqOf
<1>6. SeqOf(Len(frames))' = seq
  <2>1. n + 1 # 0
    BY SMTT(60), <1>1
  <2> QED
    BY Zenon, <2>1, <1>3, <1>4 DEF SeqOf
<1>7. ASSUME NEW i \in 1 .. n + 1
      PROVE  /\ frames'[i].len <= MaxSend
             /\ frames'[i].end = EndOf(i - 1)' + HeaderLen(frames'[i].len) + frames'[i].len
             /\ lost' = 0 => frames'[i].seq = SeqOf(i - 1)' + (IF frames'[i].len = 0 THEN 0 ELSE 1)
  <2>1. CASE i = n + 1
    <3>1. i - 1 = n /\ n \in 0 .. n
      BY SMTT(60), <1>1, <2>1
    <3>2. EndOf(i - 1)' = EndOf(n) /\ SeqOf(i - 1)' = SeqOf(n)
      BY Zenon, <3>1, <1>5
    <3> QED
      BY SMTT(60), <2>1, <3>2, <1>3, <1>4
  <2>2. CASE i # n + 1
    <3>1. i \in 1 .. n /\ i - 1 \in 0 .. n
      BY SMTT(60), <1>1, <2>2
    <3>2. EndOf(i - 1)' = EndOf(i - 1) /\ SeqOf(i - 1)' = SeqOf(i - 1) /\ frames'[i] = frames[i]
      BY Zenon, <3>1, <1>4, <1>5
    <3>3. /\ frames[i].len <= MaxSend
          /\ frames[i].end = EndOf(i - 1) + HeaderLen(frames[i].len) + frames[i].len
          /\ lost = 0 => frames[i].seq = SeqOf(i - 1) + (IF frames[i].len = 0 THEN 0 ELSE 1)
      BY Zenon, <3>1 DEF FramesInRow
    <3> QED
      BY Zenon, <3>2, <3>3
  <2> QED
    BY ZenonT(60), <2>1, <2>2
<1>8. ASSUME NEW i \in 1 .. n + 1, NEW j \in 1 .. n + 1, i < j
      PROVE  frames'[i].end <= EndOf(j - 1)'
  <2>1. i \in 1 .. n /\ j - 1 \in 0 .. n /\ j - 1 \in 1 .. n
    BY SMTT(60), <1>1, <1>8
  <2>2. frames'[i].end = frames[i].end /\ EndOf(j - 1)' = EndOf(j - 1)
    BY Zenon, <2>1, <1>4, <1>5
  <2>3. CASE j \in 1 .. n
    BY Zenon, <2>1, <2>2, <2>3, <1>8 DEF FramesInRow
  <2>4. CASE j = n + 1
    <3>1. j - 1 = n
      BY SMTT(60), <1>1, <2>4
    <3> QED
      BY Zenon, <2>1, <2>2, <3>1, WrittenIsLast DEF Written
  <2> QED
    BY SMTT(60), <2>3, <2>4, <1>1
<1>9. FramesInRow'
  <2>1. /\ send_seq' \in Nat /\ recv_seq' \in Nat /\ pos' \in Nat /\ lost' \in Nat
        /\ lost' = 0 => send_seq' = SeqOf(Len(frames))'
    BY Zenon, <1>4, <1>6 DEF FramesInRow
  <2> QED
    BY Zenon, <2>1, <1>4, <1>7, <1>8 DEF FramesInRow
<1> QED
  BY Zenon, <1>4, <1>5, <1>9

(* Sending does not disturb a recv that is under way. *)
LEMMA AppendKeepsStream ==
  ASSUME StreamInv, NEW len \in Nat, len <= MaxSend, NEW seq \in Nat,
         lost = 0 => seq = SeqOf(Len(frames)) + (IF len = 0 THEN 0 ELSE 1),
         frames' = Append(frames, Frame(seq, len)), send_seq' = seq,
         UNCHANGED <<lost, receiverVars>>
  PROVE  StreamInv'
<1> USE DEF receiverVars
<1>1. FramesInRow
  BY Zenon DEF StreamInv
<1>2. /\ FramesInRow' /\ Len(frames') = Len(frames) + 1
      /\ \A i \in 1 .. Len(frames) : frames'[i] = frames[i]
      /\ \A i \in 0 .. Len(frames) : EndOf(i)' = EndOf(i) /\ SeqOf(i)' = SeqOf(i)
  <2>1. UNCHANGED <<lost, recv_seq, pos>>
    BY ZenonT(60)
  <2> QED
    BY Zenon, <1>1, <2>1, AppendKeepsFrames
<1>3. /\ Len(frames) \in Nat /\ DOMAIN frames = 1 .. Len(frames)
      /\ DOMAIN frames' = 1 .. Len(frames')
  BY SMTT(60), <1>1, <1>2, EndsAreNat DEF FramesInRow
<1>4. ASSUME Intact'
      PROVE  reported' = "none" /\ \E i \in 0 .. Len(frames') : InFrame(i)'
  <2>1. Intact
    <3>1. lost = 0
      BY Zenon, <1>4 DEF Intact
    <3>2. ASSUME NEW i \in DOMAIN frames
          PROVE  frames[i].len <= MaxRecv
      <4>1. i \in 1 .. Len(frames) /\ i \in DOMAIN frames'
        BY SMTT(60), <1>2, <1>3
      <4>2. frames'[i].len <= MaxRecv
        BY Zenon, <1>4, <4>1 DEF Intact
      <4> QED
        BY ZenonT(60), <1>2, <4>1, <4>2
    <3> QED
      BY Zenon, <3>1, <3>2 DEF Intact
  <2>2. PICK i \in 0 .. Len(frames) : InFrame(i)
    BY ZenonT(60), <2>1 DEF StreamInv
  <2>3. EndOf(i)' = EndOf(i) /\ SeqOf(i)' = SeqOf(i) /\ i \in 0 .. Len(frames')
    BY SMTT(60), <1>2, <1>3
  <2>4. i < Len(frames) => frames'[i + 1].len = frames[i + 1].len /\ i < Len(frames')
    BY SMTT(60), <1>2, <1>3
  <2>5. InFrame(i)'
    BY Zenon, <2>2, <2>3, <2>4 DEF InFrame
  <2> QED
    BY Zenon, <2>1, <2>3, <2>5 DEF StreamInv
<1>5. reported' \in {"none", "error"} /\ got' \in Seq(Nat) /\ NoSilentGap'
      /\ (reading' = "rest" => header_len(raw'[1]) \in 2 .. 4)
      /\ (reading' = "payload" => payload_len(raw') \in 1 .. MaxRecv)
  BY Zenon DEF StreamInv, NoSilentGap
<1> QED
  BY Zenon, <1>2, <1>4, <1>5 DEF StreamInv

(* EncryptedStream::send, refused lengths included. *)
LEMMA SendKeepsStream ==
  ASSUME StreamInv, NEW len \in Lengths, Send(len)
  PROVE  StreamInv'
<1>1. len \in Nat /\ len # 0 /\ send_seq \in Nat /\ lost \in Nat
      /\ (lost = 0 => send_seq = SeqOf(Len(frames)))
  BY SMTT(60), StreamAssumption DEF StreamInv, FramesInRow
<1>2. CASE len <= MaxSend
  <2>1. frames' = Append(frames, Frame(send_seq + 1, len)) /\ send_seq' = send_seq + 1
        /\ UNCHANGED <<lost, receiverVars>>
    BY Zenon, <1>2 DEF Send, Used
  <2>2. send_seq + 1 \in Nat
        /\ (lost = 0 => send_seq + 1 = SeqOf(Len(frames)) + (IF len = 0 THEN 0 ELSE 1))
    BY SMTT(60), <1>1
  <2> QED
    BY Zenon, <1>1, <1>2, <2>1, <2>2, AppendKeepsStream
<1>3. CASE ~(len <= MaxSend)
  <2>1. lost' \in Nat /\ lost' # 0 /\ send_seq' \in Nat /\ UNCHANGED <<frames, receiverVars>>
    BY SMTT(60), <1>1, <1>3 DEF Send
  <2>2. FramesInRow'
    BY ZenonT(60), <2>1 DEF StreamInv, FramesInRow, receiverVars, EndOf, SeqOf
  <2> QED
    BY Zenon, <2>1, <2>2 DEF StreamInv, Intact, NoSilentGap, receiverVars
<1> QED
  BY ZenonT(60), <1>2, <1>3

(* EncryptedStream::send_heartbeat, which takes no sequence number. *)
LEMMA HeartbeatKeepsStream ==
  ASSUME StreamInv, SendHeartbeat
  PROVE  StreamInv'
<1>1. send_seq \in Nat /\ (lost = 0 => send_seq = SeqOf(Len(frames)))
      /\ 0 \in Nat /\ 0 <= MaxSend
  BY SMTT(60) DEF StreamInv, FramesInRow, MaxSend
<1>2. lost = 0 => send_seq = SeqOf(Len(frames)) + (IF 0 = 0 THEN 0 ELSE 1)
  BY SMTT(60), <1>1
<1>3. frames' = Append(frames, Frame(send_seq, 0)) /\ send_seq' = send_seq
      /\ UNCHANGED <<lost, receiverVars>>
  BY Zenon DEF SendHeartbeat
<1> QED
  BY ZenonT(60), <1>1, <1>2, <1>3, AppendKeepsStream

-----------------------------------------------------------------------------
(* Receiving. *)

(* recv leaves the frames where they are. *)
LEMMA RecvKeepsFrames ==
  ASSUME FramesInRow, UNCHANGED <<frames, send_seq>>, recv_seq' \in Nat, pos' \in Nat,
         lost' \in Nat, lost' = 0 => lost = 0
  PROVE  FramesInRow'
  BY Zenon DEF FramesInRow, EndOf, SeqOf

(* A header that was read from the start of a frame leads into its payload,   *)
(* or behind it when the frame is a heartbeat.                                *)
LEMMA HeaderLeadsOn ==
  ASSUME FramesInRow, Intact, reported = "none",
         NEW i \in 0 .. Len(frames), i < Len(frames), recv_seq = SeqOf(i),
         NEW b, HeaderRead(b), payload_len(b) = frames[i + 1].len,
         pos' = EndOf(i) + HeaderLen(frames[i + 1].len), UNCHANGED <<frames, recv_seq>>
  PROVE  reported' = "none" /\ \E k \in 0 .. Len(frames') : InFrame(k)'
<1> DEFINE next == frames[i + 1].len
<1>1. i + 1 \in 1 .. Len(frames) /\ i + 1 \in DOMAIN frames /\ i + 1 \in 0 .. Len(frames)
      /\ (i + 1) - 1 = i /\ i + 1 # 0
  BY SMTT(60), EndsAreNat
<1>2. next \in Nat /\ next <= MaxRecv /\ lost = 0
  BY Zenon, <1>1, FrameFacts DEF Intact
<1>3. EndOf(i + 1) = EndOf(i) + HeaderLen(next) + next
      /\ SeqOf(i + 1) = SeqOf(i) + (IF next = 0 THEN 0 ELSE 1)
      /\ EndOf(i) \in Nat /\ SeqOf(i) \in Nat /\ HeaderLen(next) \in 1 .. 4
  <2>1. /\ frames[i + 1].end = EndOf(i) + HeaderLen(next) + next
        /\ frames[i + 1].seq = SeqOf(i) + (IF next = 0 THEN 0 ELSE 1)
    BY Zenon, <1>1, <1>2 DEF FramesInRow
  <2>2. EndOf(i + 1) = frames[i + 1].end /\ SeqOf(i + 1) = frames[i + 1].seq
    BY Zenon, <1>1 DEF EndOf, SeqOf
  <2> QED
    BY Zenon, <1>1, <1>2, <2>1, <2>2, EndsAreNat, HeaderSize
<1>4. frames' = frames /\ EndOf(i)' = EndOf(i) /\ SeqOf(i)' = SeqOf(i)
      /\ EndOf(i + 1)' = EndOf(i + 1) /\ SeqOf(i + 1)' = SeqOf(i + 1)
  BY Zenon DEF EndOf, SeqOf
<1>5. reported' = "none"
  <2>1. ~(payload_len(b) > MaxRecv)
    BY SMTT(60), <1>2 DEF MaxRecv
  <2> QED
    BY ZenonT(60), <2>1 DEF HeaderRead
<1>6. CASE next = 0
  <2>1. reading' = "first"
    BY SMTT(60), <1>6 DEF HeaderRead
  <2>2. pos' = EndOf(i + 1) /\ recv_seq' = SeqOf(i + 1)
    BY SMTT(60), <1>3, <1>6
  <2>3. InFrame(i + 1)'
    BY Zenon, <2>1, <2>2, <1>4 DEF InFrame
  <2> QED
    BY ZenonT(60), <2>3, <1>1, <1>4, <1>5
<1>7. CASE next # 0
  <2>1. next > 0 /\ payload_len(b) \in 1 .. MaxRecv
    BY SMTT(60), <1>2, <1>7
  <2>2. reading' = "payload" /\ raw' = b
    BY Zenon, <2>1 DEF HeaderRead
  <2>3. payload_len(raw') = next
    BY ZenonT(60), <2>2
  <2>4. InFrame(i)'
    BY SMTT(60), <2>1, <2>2, <2>3, <1>4 DEF InFrame
  <2> QED
    BY ZenonT(60), <2>4, <1>4, <1>5
<1> QED
  BY Zenon, <1>6, <1>7

(* What recv knows of the header it has read. *)
LEMMA HeaderReadBounds ==
  ASSUME NEW b, HeaderRead(b)
  PROVE  /\ reading' # "rest"
         /\ reading' = "payload" => payload_len(raw') \in 1 .. MaxRecv
<1>1. CASE payload_len(b) \in 1 .. MaxRecv
  BY Zenon, <1>1 DEF HeaderRead
<1>2. CASE payload_len(b) \notin 1 .. MaxRecv
  BY Zenon, <1>2 DEF HeaderRead
<1> QED
  BY Zenon, <1>1, <1>2

(* The first byte of a frame. *)
LEMMA ReadFirstKeepsStream ==
  ASSUME StreamInv, ReadFirst
  PROVE  StreamInv'
<1>1. FramesInRow /\ pos \in Nat /\ recv_seq \in Nat /\ lost \in Nat /\ reported \in {"none", "error"}
  BY Zenon DEF StreamInv, FramesInRow
<1>2. UNCHANGED <<frames, send_seq, recv_seq, lost, got>> /\ reading = "first" /\ pos < Written
  BY Zenon DEF ReadFirst
<1>3. FramesInRow'
  <2>1. pos' \in Nat
    BY SMTT(60), <1>1 DEF ReadFirst
  <2> QED
    BY ZenonT(60), <1>1, <1>2, <2>1, RecvKeepsFrames
<1>4. reported' \in {"none", "error"} /\ (reported' = "none" => reported = "none")
  BY Zenon, <1>1 DEF ReadFirst, HeaderRead
<1>5. ASSUME Intact'
      PROVE  reported' = "none" /\ \E k \in 0 .. Len(frames') : InFrame(k)'
  <2>1. Intact /\ reported = "none"
    BY Zenon, <1>2, <1>5 DEF Intact, StreamInv
  <2>2. PICK i \in 0 .. Len(frames) : InFrame(i)
    BY Zenon, <2>1 DEF StreamInv
  <2>3. recv_seq = SeqOf(i) /\ pos = EndOf(i)
    BY Zenon, <2>2, <1>2 DEF InFrame
  <2>4. i < Len(frames)
    <3>1. EndOf(i) \in Nat /\ EndOf(Len(frames)) \in Nat /\ Len(frames) \in Nat
      <4>1. Len(frames) \in Nat
        BY Zenon, <1>1, EndsAreNat
      <4>2. Len(frames) \in 0 .. Len(frames)
        BY SMTT(60), <4>1
      <4> QED
        BY Zenon, <1>1, <4>1, <4>2, EndsAreNat
    <3>2. i # Len(frames)
      BY SMTT(60), <3>1, <2>3, <1>2 DEF Written
    <3> QED
      BY SMTT(60), <3>1, <3>2
  <2> DEFINE next == frames[i + 1].len
  <2>5. i + 1 \in 1 .. Len(frames) /\ (i + 1) - 1 = i
    BY SMTT(60), <2>4
  <2>6. next \in Nat /\ next <= MaxSend /\ HeaderLen(next) \in 1 .. 4 /\ EndOf(i) \in Nat
    BY Zenon, <1>1, <2>5, FrameFacts
  <2>7. PICK b \in BytesAt(pos) :
          IF header_len(b) > 1
          THEN reading' = "rest" /\ raw' = <<b, 0, 0, 0>> /\ UNCHANGED reported
          ELSE HeaderRead(<<b, 0, 0, 0>>)
    BY Zenon DEF ReadFirst
  <2>8. b = Header(next)[1]
    <3>1. 1 \in 1 .. HeaderLen(next) /\ pos = EndOf((i + 1) - 1) + 1 - 1
      BY SMTT(60), <2>3, <2>5, <2>6
    <3> QED
      BY ZenonT(60), <1>1, <2>5, <2>7, <3>1, HeaderBytes
  <2>9. header_len(b) = HeaderLen(next)
    BY ZenonT(60), <2>6, <2>8, HeaderRoundTrip
  <2>10. CASE HeaderLen(next) > 1
    <3>1. reading' = "rest" /\ raw' = <<b, 0, 0, 0>> /\ UNCHANGED reported
      BY Zenon, <2>7, <2>9, <2>10
    <3>2. pos' = EndOf(i) + 1 /\ recv_seq' = SeqOf(i)
      BY Zenon, <1>2, <2>3 DEF ReadFirst
    <3>3. frames' = frames /\ EndOf(i)' = EndOf(i) /\ SeqOf(i)' = SeqOf(i)
      BY ZenonT(60), <1>2 DEF EndOf, SeqOf
    <3>4. InFrame(i)'
      BY SMTT(60), <3>1, <3>2, <3>3, <2>4, <2>8, <2>10 DEF InFrame
    <3> QED
      BY Zenon, <2>1, <3>1, <3>3, <3>4
  <2>11. CASE ~(HeaderLen(next) > 1)
    <3>1. HeaderRead(<<b, 0, 0, 0>>)
      BY ZenonT(60), <2>7, <2>9, <2>11
    <3>2. HeaderLen(next) = 1
      BY SMTT(60), <2>6, <2>11
    <3>3. Header(next)[2] = 0 /\ Header(next)[3] = 0 /\ Header(next)[4] = 0
      BY SMTT(60), <2>6, <3>2, HeaderRoundTrip
    <3>4. payload_len(<<b, 0, 0, 0>>) = payload_len(Header(next))
      BY SMTT(60), <2>8, <3>3 DEF payload_len
    <3>5. payload_len(<<b, 0, 0, 0>>) = next
      BY Zenon, <3>4, <2>6, HeaderRoundTrip
    <3>6. pos' = EndOf(i) + HeaderLen(next)
      BY Zenon, <2>3, <3>2 DEF ReadFirst
    <3> QED
      BY ZenonT(60), <1>1, <1>2, <2>1, <2>3, <2>4, <3>1, <3>5, <3>6, HeaderLeadsOn
  <2> QED
    BY Zenon, <2>10, <2>11
<1>6. /\ reading' = "rest" => header_len(raw'[1]) \in 2 .. 4
      /\ reading' = "payload" => payload_len(raw') \in 1 .. MaxRecv
  <2>1. PICK b \in BytesAt(pos) :
          IF header_len(b) > 1
          THEN reading' = "rest" /\ raw' = <<b, 0, 0, 0>> /\ UNCHANGED reported
          ELSE HeaderRead(<<b, 0, 0, 0>>)
    BY Zenon DEF ReadFirst
  <2>2. CASE header_len(b) > 1
    <3>1. b \in 0 .. 255 /\ raw'[1] = b /\ reading' = "rest"
      <4>1. b \in 0 .. 255
        BY Zenon DEF BytesAt
      <4>2. raw' = <<b, 0, 0, 0>> /\ reading' = "rest"
        BY Zenon, <2>1, <2>2
      <4> QED
        BY SMTT(60), <4>1, <4>2
    <3>2. header_len(b) \in 2 .. 4
      BY SMTT(60), <2>2, <3>1 DEF header_len
    <3> QED
      BY Zenon, <3>1, <3>2
  <2>3. CASE ~(header_len(b) > 1)
    BY Zenon, <2>1, <2>3, HeaderReadBounds
  <2> QED
    BY Zenon, <2>2, <2>3
<1> QED
  BY Zenon, <1>2, <1>3, <1>4, <1>5, <1>6 DEF StreamInv, NoSilentGap

(* The other bytes of its header. *)
LEMMA ReadRestKeepsStream ==
  ASSUME StreamInv, ReadRest
  PROVE  StreamInv'
<1>1. FramesInRow /\ pos \in Nat /\ recv_seq \in Nat /\ lost \in Nat /\ reported \in {"none", "error"}
  BY Zenon DEF StreamInv, FramesInRow
<1>2. UNCHANGED <<frames, send_seq, recv_seq, lost, got>> /\ reading = "rest"
  BY Zenon DEF ReadRest
<1>3. FramesInRow'
  <2>1. header_len(raw[1]) \in 2 .. 4
    BY Zenon, <1>2 DEF StreamInv
  <2>2. pos' \in Nat
    BY SMTT(60), <1>1, <2>1 DEF ReadRest
  <2> QED
    BY Zenon, <1>1, <1>2, <2>2, RecvKeepsFrames
<1>4. reported' \in {"none", "error"} /\ (reported' = "none" => reported = "none")
  BY Zenon, <1>1 DEF ReadRest, HeaderRead
<1>5. ASSUME Intact'
      PROVE  reported' = "none" /\ \E k \in 0 .. Len(frames') : InFrame(k)'
  <2>1. Intact /\ reported = "none"
    BY Zenon, <1>2, <1>5 DEF Intact, StreamInv
  <2>2. PICK i \in 0 .. Len(frames) : InFrame(i)
    BY Zenon, <2>1 DEF StreamInv
  <2> DEFINE next == frames[i + 1].len
             H == Header(next)
  <2>3. /\ recv_seq = SeqOf(i) /\ pos = EndOf(i) + 1 /\ i < Len(frames)
        /\ raw = <<H[1], 0, 0, 0>>
    BY Zenon, <2>2, <1>2 DEF InFrame
  <2>4. i + 1 \in 1 .. Len(frames) /\ (i + 1) - 1 = i
    BY SMTT(60), <2>3
  <2>5. next \in Nat /\ next <= MaxSend /\ HeaderLen(next) \in 1 .. 4 /\ EndOf(i) \in Nat
    BY Zenon, <1>1, <2>4, FrameFacts
  <2>6. raw[1] = H[1] /\ header_len(raw[1]) = HeaderLen(next)
    BY Zenon, <2>3, <2>5, HeaderRoundTrip
  <2>7. PICK b2 \in RestByte(2), b3 \in RestByte(3), b4 \in RestByte(4) :
          HeaderRead(<<raw[1], b2, b3, b4>>)
    BY Zenon DEF ReadRest
  <2>8. ASSUME NEW k \in 2 .. 4, NEW b \in RestByte(k)
        PROVE  b = H[k]
    <3>1. CASE k <= HeaderLen(next)
      <4>1. b \in BytesAt(pos + k - 2)
        BY ZenonT(60), <2>6, <2>8, <3>1 DEF RestByte
      <4>2. k \in 1 .. HeaderLen(next) /\ pos + k - 2 = EndOf((i + 1) - 1) + k - 1
        BY SMTT(60), <2>3, <2>4, <2>5, <3>1
      <4> QED
        BY Zenon, <1>1, <2>4, <4>1, <4>2, HeaderBytes
    <3>2. CASE ~(k <= HeaderLen(next))
      <4>1. b = 0
        BY ZenonT(60), <2>6, <2>8, <3>2 DEF RestByte
      <4>2. k > HeaderLen(next)
        BY SMTT(60), <2>5, <3>2
      <4> QED
        BY Zenon, <2>5, <4>1, <4>2, HeaderRoundTrip
    <3> QED
      BY Zenon, <3>1, <3>2
  <2>9. b2 = H[2] /\ b3 = H[3] /\ b4 = H[4]
    <3>1. 2 \in 2 .. 4 /\ 3 \in 2 .. 4 /\ 4 \in 2 .. 4
      BY SMTT(60)
    <3> QED
      BY Zenon, <2>8, <3>1
  <2>10. payload_len(<<raw[1], b2, b3, b4>>) = payload_len(H)
    <3> HIDE DEF H
    <3> QED
      BY SMTT(60), <2>6, <2>9 DEF payload_len
  <2>11. payload_len(<<raw[1], b2, b3, b4>>) = next
    BY ZenonT(60), <2>10, <2>5, HeaderRoundTrip
  <2>12. pos' = EndOf(i) + HeaderLen(next)
    <3>1. pos' = pos + HeaderLen(next) - 1
      BY Zenon, <2>6 DEF ReadRest
    <3> QED
      BY SMTT(60), <2>3, <2>5, <3>1
  <2> QED
    BY Zenon, <1>1, <1>2, <2>1, <2>3, <2>7, <2>11, <2>12, HeaderLeadsOn
<1>6. /\ reading' = "rest" => header_len(raw'[1]) \in 2 .. 4
      /\ reading' = "payload" => payload_len(raw') \in 1 .. MaxRecv
  BY Zenon, HeaderReadBounds DEF ReadRest
<1> QED
  BY Zenon, <1>2, <1>3, <1>4, <1>5, <1>6 DEF StreamInv, NoSilentGap

(* Adding the next number to 1, 2, ..., n. *)
LEMMA NextNumber ==
  ASSUME NEW n \in Nat, NEW s, s = [k \in 1 .. n |-> k]
  PROVE  Append(s, n + 1) = [k \in 1 .. n + 1 |-> k]
  BY SMTT(60)

(* The payload: an intact stream is in step, so that it opens; any other one  *)
(* is noticed by the nonce.                                                   *)
LEMMA ReadPayloadKeepsStream ==
  ASSUME StreamInv, ReadPayload
  PROVE  StreamInv'
<1> DEFINE Opened(j) == Opens(j, pos, payload_len(raw), Used(recv_seq))
<1>1. FramesInRow /\ pos \in Nat /\ recv_seq \in Nat /\ lost \in Nat /\ got \in Seq(Nat)
      /\ reported \in {"none", "error"}
  BY Zenon DEF StreamInv, FramesInRow
<1>2. /\ UNCHANGED <<frames, send_seq, lost>> /\ reading = "payload" /\ reading' = "first"
      /\ recv_seq' = recv_seq + 1 /\ pos' = pos + payload_len(raw)
  BY Zenon DEF ReadPayload
<1>3. recv_seq' \in Nat /\ pos' \in Nat
  <2>1. payload_len(raw) \in 1 .. MaxRecv
    BY Zenon, <1>2 DEF StreamInv
  <2>2. payload_len(raw) \in Nat
    BY SMTT(60), <2>1
  <2> QED
    BY SMTT(60), <1>1, <1>2, <2>2
<1>4. FramesInRow'
  BY Zenon, <1>1, <1>2, <1>3, RecvKeepsFrames
<1>5. \/ got' = Append(got, recv_seq + 1) /\ UNCHANGED reported
      \/ UNCHANGED got /\ reported' = "error" /\ \A j \in DOMAIN frames : ~Opened(j)
  BY Zenon DEF ReadPayload, Opens, make_nonce, Used
<1>6. reported' \in {"none", "error"}
  BY Zenon, <1>1, <1>5
<1>7. got' \in Seq(Nat)
  <2>1. recv_seq + 1 \in Nat
    BY SMTT(60), <1>1
  <2>2. Append(got, recv_seq + 1) \in Seq(Nat)
    BY SMTT(60), <1>1, <2>1
  <2> QED
    BY Zenon, <1>1, <1>5, <2>2
<1>8. NoSilentGap'
  <2> SUFFICES ASSUME reported' = "none"
               PROVE  got' = [n \in 1 .. recv_seq' |-> n]
    BY Zenon DEF NoSilentGap
  <2>1. got' = Append(got, recv_seq + 1) /\ reported = "none"
    BY Zenon, <1>5
  <2>2. got = [n \in 1 .. recv_seq |-> n]
    BY Zenon, <2>1 DEF StreamInv, NoSilentGap
  <2> QED
    BY Zenon, <1>1, <1>2, <2>1, <2>2, NextNumber
<1>9. ASSUME Intact'
      PROVE  reported' = "none" /\ \E k \in 0 .. Len(frames') : InFrame(k)'
  <2>1. Intact /\ reported = "none" /\ lost = 0
    BY Zenon, <1>2, <1>9 DEF Intact, StreamInv
  <2>2. PICK i \in 0 .. Len(frames) : InFrame(i)
    BY Zenon, <2>1 DEF StreamInv
  <2> DEFINE next == frames[i + 1].len
             h == HeaderLen(next)
  <2>3. /\ recv_seq = SeqOf(i) /\ i < Len(frames) /\ pos = EndOf(i) + h
        /\ next > 0 /\ payload_len(raw) = next
    BY Zenon, <2>2, <1>2 DEF InFrame
  <2>4. i + 1 \in 1 .. Len(frames) /\ (i + 1) - 1 = i /\ i + 1 # 0 /\ i + 1 \in 0 .. Len(frames)
    BY SMTT(60), <2>3
  <2>5. next \in Nat /\ h \in 1 .. 4 /\ EndOf(i) \in Nat
        /\ frames[i + 1].end = EndOf(i) + h + next
    BY Zenon, <1>1, <2>4, FrameFacts
  <2>6. frames[i + 1].seq = recv_seq + 1
    <3>1. next # 0
      BY SMTT(60), <2>3, <2>5
    <3> QED
      BY ZenonT(60), <1>1, <2>1, <2>3, <2>4, <3>1 DEF FramesInRow
  <2>7. pos' = frames[i + 1].end /\ frames[i + 1].end = pos + next
    BY SMTT(60), <1>2, <2>3, <2>5
  <2>8. Opened(i + 1) /\ i + 1 \in DOMAIN frames
    BY Zenon, <1>1, <2>3, <2>4, <2>6, <2>7, EndsAreNat DEF Opens, make_nonce, Used
  <2>9. reported' = "none"
    BY Zenon, <1>5, <2>1, <2>8
  <2>10. EndOf(i + 1)' = frames[i + 1].end /\ SeqOf(i + 1)' = frames[i + 1].seq
    BY Zenon, <1>2, <2>4 DEF EndOf, SeqOf
  <2>11. InFrame(i + 1)'
    BY Zenon, <1>2, <2>6, <2>7, <2>10 DEF InFrame
  <2> QED
    BY Zenon, <1>2, <2>4, <2>9, <2>11
<1> QED
  BY Zenon, <1>2, <1>4, <1>6, <1>7, <1>8, <1>9 DEF StreamInv

(* A dropped recv is counted, and changes nothing but the position. *)
LEMMA DroppedKeepsStream ==
  ASSUME StreamInv, Dropped
  PROVE  StreamInv'
<1>1. FramesInRow /\ pos \in Nat /\ recv_seq \in Nat /\ lost \in Nat
  BY Zenon DEF StreamInv, FramesInRow
<1>2. PICK k \in 0 .. Needed - 1 : Drop(k)
  BY Zenon DEF Dropped
<1>3. /\ UNCHANGED <<frames, send_seq, recv_seq, got, reported>> /\ reading' = "first"
      /\ pos' = pos + k /\ lost' = lost + 1
  BY Zenon, <1>2 DEF Drop
<1>4. pos' \in Nat /\ lost' \in Nat /\ lost' # 0
  <2>1. k \in Nat
    BY SMTT(60)
  <2> QED
    BY SMTT(60), <1>1, <1>3, <2>1
<1>5. FramesInRow'
  BY Zenon, <1>1, <1>3, <1>4, RecvKeepsFrames
<1> QED
  BY Zenon, <1>3, <1>4, <1>5 DEF StreamInv, Intact, NoSilentGap

-----------------------------------------------------------------------------
(* The theorems. *)

(* The invariant that relates the frames written to where recv stands is      *)
(* inductive, for all lengths and any number of frames and dropped recvs.     *)
THEOREM StreamInvariance == StreamSpec => []StreamInv
<1>1. StreamInv /\ [StreamNext]_streamVars => StreamInv'
  <2> SUFFICES ASSUME StreamInv, [StreamNext]_streamVars PROVE StreamInv'
    OBVIOUS
  <2>1. CASE \E len \in Lengths : Send(len)
    BY ZenonT(60), <2>1, SendKeepsStream
  <2>2. CASE SendHeartbeat
    BY Zenon, <2>2, HeartbeatKeepsStream
  <2>3. CASE ReadFirst
    BY Zenon, <2>3, ReadFirstKeepsStream
  <2>4. CASE ReadRest
    BY Zenon, <2>4, ReadRestKeepsStream
  <2>5. CASE ReadPayload
    BY Zenon, <2>5, ReadPayloadKeepsStream
  <2>6. CASE Dropped
    BY Zenon, <2>6, DroppedKeepsStream
  <2>7. CASE UNCHANGED streamVars
    BY Zenon, <2>7 DEF streamVars, StreamInv, FramesInRow, NoSilentGap, Intact, InFrame, EndOf, SeqOf
  <2> QED
    BY Zenon, <2>1, <2>2, <2>3, <2>4, <2>5, <2>6, <2>7 DEF StreamNext
<1> QED
  BY InitStreamInv, <1>1, PTL DEF StreamSpec

(* No message is skipped in silence, wherever recvs were dropped. *)
THEOREM GapsAreNoticed == StreamSpec => []NoSilentGap
<1>1. StreamInv => NoSilentGap
  BY Zenon DEF StreamInv
<1> QED
  BY StreamInvariance, <1>1, PTL

(* An intact stream delivers everything, and recv never fails on it. *)
THEOREM DeliveryIsExact == StreamSpec => []ExactDelivery
<1>1. StreamInv => ExactDelivery
  <2> SUFFICES ASSUME StreamInv, Intact
               PROVE  /\ reported = "none"
                      /\ reading = "first" => \E i \in 0 .. Len(frames) : pos = EndOf(i)
                      /\ pos = Written => reading = "first" /\ got = [n \in 1 .. send_seq |-> n]
    BY Zenon DEF ExactDelivery
  <2>1. FramesInRow /\ reported = "none" /\ lost = 0 /\ got = [n \in 1 .. recv_seq |-> n]
    BY Zenon DEF StreamInv, Intact, NoSilentGap
  <2>2. PICK i \in 0 .. Len(frames) : InFrame(i)
    BY Zenon DEF StreamInv
  <2>3. reading = "first" => pos = EndOf(i)
    BY Zenon, <2>2 DEF InFrame
  <2>4. ASSUME pos = Written
        PROVE  reading = "first" /\ got = [n \in 1 .. send_seq |-> n]
    <3>1. Len(frames) \in Nat
      BY Zenon, <2>1, EndsAreNat
    <3>2. CASE i = Len(frames)
      <4>1. ~(i < Len(frames))
        BY SMTT(60), <3>1, <3>2
      <4>2. reading = "first" /\ recv_seq = SeqOf(Len(frames))
        BY Zenon, <2>2, <3>2, <4>1 DEF InFrame
      <4>3. send_seq = recv_seq
        BY Zenon, <2>1, <4>2 DEF FramesInRow
      <4> QED
        BY Zenon, <2>1, <4>2, <4>3
    <3>3. CASE i # Len(frames)
      <4>1. i + 1 \in 1 .. Len(frames) /\ (i + 1) - 1 = i
        BY SMTT(60), <3>1, <3>3
      <4> DEFINE e == frames[i + 1].end
                 h == HeaderLen(frames[i + 1].len)
                 l == frames[i + 1].len
                 start == EndOf(i)
      <4>2. h \in 1 .. 4 /\ l \in Nat /\ start \in Nat /\ e = start + h + l
        BY Zenon, <2>1, <4>1, FrameFacts
      <4>3. e <= pos /\ pos \in Nat
        BY Zenon, <2>1, <2>4, <4>1, WrittenIsLast
      <4>4. pos = start \/ (h > 1 /\ pos = start + 1) \/ (l > 0 /\ pos = start + h)
        BY Zenon, <2>2 DEF InFrame
      <4> HIDE DEF e, h, l, start
      <4> QED
        BY SMTT(60), <4>2, <4>3, <4>4
    <3> QED
      BY Zenon, <3>2, <3>3
  <2> QED
    BY Zenon, <2>1, <2>3, <2>4
<1> QED
  BY StreamInvariance, <1>1, PTL

-----------------------------------------------------------------------------
(* Type correctness.  Beyond IInv it needs the numbers of the frames.         *)

(* What the sender writes: numbers up to its counter, 0 for no message. *)
SenderTypes ==
    /\ send_seq \in 0 .. MaxSends
    /\ \A i \in 1 .. Len(frames) :
          /\ frames[i].len \in Lengths \cup {0}
          /\ frames[i].seq <= send_seq
          /\ frames[i].len # 0 => frames[i].seq >= 1

(* What recv holds. *)
ReceiverTypes ==
    /\ pos <= Written
    /\ reading \in {"first", "rest", "payload"}
    /\ raw \in Seq(0 .. 255) /\ Len(raw) = 4
    /\ got \in Seq(1 .. MaxSends)

LEMMA StillBelow ==
  \A p, w, l \in Nat, h \in 1 .. 4 : p <= w => p <= w + h + l
  BY SMTT(60)

LEMMA AppendKeepsTypes ==
  ASSUME StreamInv, SenderTypes, ReceiverTypes, StreamInv',
         NEW len \in Lengths \cup {0}, NEW seq \in Nat, seq <= send_seq', len # 0 => seq >= 1,
         send_seq' \in send_seq .. MaxSends,
         frames' = Append(frames, Frame(seq, len)), UNCHANGED receiverVars
  PROVE  SenderTypes' /\ ReceiverTypes'
<1> DEFINE n == Len(frames)
<1>1. FramesInRow /\ FramesInRow'
  BY Zenon DEF StreamInv
<1>2. n \in Nat /\ frames \in Seq(FrameRecords) /\ send_seq \in Nat /\ MaxSends \in Nat
  BY ZenonT(60), <1>1, EndsAreNat, StreamAssumption DEF FramesInRow
<1>3. /\ Len(frames') = n + 1 /\ frames'[n + 1] = Frame(seq, len)
      /\ \A i \in 1 .. n : frames'[i] = frames[i]
  BY SMTT(60), <1>2 DEF Frame
<1>4. SenderTypes'
  <2>1. send_seq' \in 0 .. MaxSends
    BY SMTT(60), <1>2
  <2>2. ASSUME NEW i \in 1 .. Len(frames')
        PROVE  /\ frames'[i].len \in Lengths \cup {0}
               /\ frames'[i].seq <= send_seq'
               /\ frames'[i].len # 0 => frames'[i].seq >= 1
    <3>1. CASE i = n + 1
      BY SMTT(60), <3>1, <1>3 DEF Frame
    <3>2. CASE i \in 1 .. n
      <4>1. frames[i].seq \in Nat
        BY SMTT(60), <3>2, <1>1, EndsAreNat DEF FrameRecords
      <4>2. frames'[i] = frames[i]
        BY ZenonT(60), <3>2, <1>3
      <4>3. frames[i].seq <= send_seq'
        BY SMTT(60), <3>2, <4>1, <1>2 DEF SenderTypes
      <4> QED
        BY ZenonT(60), <3>2, <4>2, <4>3 DEF SenderTypes
    <3> QED
      BY SMTT(60), <3>1, <3>2, <1>2, <1>3
  <2> QED
    BY Zenon, <2>1, <2>2 DEF SenderTypes
<1>5. ReceiverTypes'
  <2>1. Written' = Frame(seq, len).end
    BY SMTT(60), <1>2, <1>3 DEF Written, EndOf
  <2>2. Written \in Nat /\ pos \in Nat
    <3>1. n \in 0 .. n
      BY SMTT(60), <1>2
    <3> QED
      BY ZenonT(60), <1>1, <3>1, EndsAreNat DEF Written, FramesInRow
  <2>3. len \in Nat /\ HeaderLen(len) \in 1 .. 4
    BY StreamAssumption, HeaderSize
  <2>4. pos' = pos /\ pos <= Written
    BY Zenon DEF ReceiverTypes, receiverVars
  <2>5. Written' = Written + HeaderLen(len) + len
    BY Zenon, <2>1 DEF Frame
  <2>6. pos' <= Written'
    BY Zenon, <2>2, <2>3, <2>4, <2>5, StillBelow
  <2> QED
    BY ZenonT(60), <2>6 DEF ReceiverTypes, receiverVars
<1> QED
  BY Zenon, <1>4, <1>5

LEMMA SendKeepsTypes ==
  ASSUME StreamInv, SenderTypes, ReceiverTypes, StreamInv',
         SendHeartbeat \/ \E len \in Lengths : Send(len)
  PROVE  SenderTypes' /\ ReceiverTypes'
<1>1. send_seq \in Nat /\ MaxSends \in Nat /\ send_seq \in 0 .. MaxSends
  BY Zenon, StreamAssumption DEF StreamInv, FramesInRow, SenderTypes
<1>2. CASE SendHeartbeat
  <2>1. /\ send_seq' = send_seq /\ frames' = Append(frames, Frame(send_seq, 0))
        /\ UNCHANGED receiverVars
    BY Zenon, <1>2 DEF SendHeartbeat
  <2>2. send_seq <= send_seq' /\ send_seq' \in send_seq .. MaxSends
    BY SMTT(60), <1>1, <2>1
  <2> QED
    BY Zenon, <1>1, <2>1, <2>2, AppendKeepsTypes
<1>3. ASSUME NEW len \in Lengths, Send(len), len <= MaxSend
      PROVE  SenderTypes' /\ ReceiverTypes'
  <2> DEFINE seq == send_seq + 1
  <2>1. /\ send_seq' = seq /\ frames' = Append(frames, Frame(seq, len))
        /\ UNCHANGED receiverVars /\ send_seq < MaxSends
    BY Zenon, <1>3 DEF Send, Used
  <2>2. seq \in Nat /\ seq <= send_seq' /\ seq >= 1 /\ send_seq' \in send_seq .. MaxSends
    BY SMTT(60), <1>1, <2>1
  <2> HIDE DEF seq
  <2> QED
    BY Zenon, <2>1, <2>2, AppendKeepsTypes
<1>4. ASSUME NEW len \in Lengths, Send(len), ~(len <= MaxSend)
      PROVE  SenderTypes' /\ ReceiverTypes'
  <2>1. /\ send_seq' = send_seq + 1 /\ UNCHANGED <<frames, receiverVars>>
        /\ send_seq < MaxSends
    BY Zenon, <1>4 DEF Send
  <2>2. send_seq' \in 0 .. MaxSends
    BY SMTT(60), <1>1, <2>1
  <2>3. ASSUME NEW i \in 1 .. Len(frames) PROVE frames[i].seq <= send_seq'
    <3>1. frames[i].seq \in Nat
      BY SMTT(60), EndsAreNat DEF StreamInv, FrameRecords
    <3> QED
      BY SMTT(60), <3>1, <1>1, <2>1 DEF SenderTypes
  <2> QED
    BY Zenon, <2>1, <2>2, <2>3 DEF SenderTypes, ReceiverTypes, receiverVars, Written, EndOf
<1> QED
  BY Zenon, <1>2, <1>3, <1>4

(* A header is made of bytes. *)
LEMMA HeaderReadKeepsTypes ==
  ASSUME NEW b, b \in Seq(0 .. 255), Len(b) = 4, HeaderRead(b)
  PROVE  reading' \in {"first", "payload"} /\ raw' \in Seq(0 .. 255) /\ Len(raw') = 4
<1>1. NoHeader \in Seq(0 .. 255) /\ Len(NoHeader) = 4
  BY SMTT(60) DEF NoHeader
<1> QED
  BY Zenon, <1>1 DEF HeaderRead

LEMMA FirstIsElement ==
  ASSUME NEW S, NEW s \in Seq(S), Len(s) = 4
  PROVE  s[1] \in S
  BY SMTT(60)

LEMMA CountsFromOne ==
  ASSUME NEW m \in Nat, NEW l \in 1 .. m
  PROVE  l # 0
  BY SMTT(60)

LEMMA RecvKeepsTypes ==
  ASSUME StreamInv, SenderTypes, ReceiverTypes, ReadFirst \/ ReadRest \/ ReadPayload \/ Dropped
  PROVE  SenderTypes' /\ ReceiverTypes'
<1>1. UNCHANGED <<send_seq, frames>>
  BY Zenon DEF ReadFirst, ReadRest, ReadPayload, Dropped, Drop
<1>2. SenderTypes' /\ Written' = Written
  BY Zenon, <1>1 DEF SenderTypes, Written, EndOf
<1>3. pos \in Nat /\ Written \in Nat /\ pos <= Written
  <2>1. Len(frames) \in Nat /\ FramesInRow
    BY Zenon, EndsAreNat DEF StreamInv
  <2>2. Len(frames) \in 0 .. Len(frames)
    BY SMTT(60), <2>1
  <2> QED
    BY ZenonT(60), <2>1, <2>2, EndsAreNat DEF Written, FramesInRow, ReceiverTypes
<1>4. CASE ReadFirst
  <2>1. PICK b \in BytesAt(pos) :
           IF header_len(b) > 1
           THEN reading' = "rest" /\ raw' = <<b, 0, 0, 0>> /\ UNCHANGED reported
           ELSE HeaderRead(<<b, 0, 0, 0>>)
    BY Zenon, <1>4 DEF ReadFirst
  <2>2. b \in 0 .. 255
    BY Zenon DEF BytesAt
  <2>3. <<b, 0, 0, 0>> \in Seq(0 .. 255) /\ Len(<<b, 0, 0, 0>>) = 4
    BY SMTT(60), <2>2
  <2>4. reading' \in {"first", "rest", "payload"} /\ raw' \in Seq(0 .. 255) /\ Len(raw') = 4
    BY ZenonT(60), <2>1, <2>3, HeaderReadKeepsTypes
  <2>5. pos' <= Written /\ got' = got
    BY SMTT(60), <1>3, <1>4 DEF ReadFirst
  <2> QED
    BY Zenon, <1>2, <2>4, <2>5 DEF ReceiverTypes
<1>5. CASE ReadRest
  <2>1. PICK b2 \in RestByte(2), b3 \in RestByte(3), b4 \in RestByte(4) :
           HeaderRead(<<raw[1], b2, b3, b4>>)
    BY Zenon, <1>5 DEF ReadRest
  <2>2. ASSUME NEW k PROVE RestByte(k) \subseteq 0 .. 255
    <3>1. {0} \subseteq 0 .. 255
      BY SMTT(60)
    <3>2. BytesAt(pos + k - 2) \subseteq 0 .. 255
      BY Zenon DEF BytesAt
    <3> QED
      BY Zenon, <3>1, <3>2 DEF RestByte
  <2>3. b2 \in 0 .. 255 /\ b3 \in 0 .. 255 /\ b4 \in 0 .. 255
    BY ZenonT(60), <2>2
  <2>4. raw[1] \in 0 .. 255
    BY ZenonT(60), FirstIsElement DEF ReceiverTypes
  <2>5. <<raw[1], b2, b3, b4>> \in Seq(0 .. 255) /\ Len(<<raw[1], b2, b3, b4>>) = 4
    BY SMTT(60), <2>3, <2>4
  <2>6. reading' \in {"first", "rest", "payload"} /\ raw' \in Seq(0 .. 255) /\ Len(raw') = 4
    BY Zenon, <2>1, <2>5, HeaderReadKeepsTypes
  <2>7. pos' <= Written /\ got' = got
    BY Zenon, <1>5 DEF ReadRest
  <2> QED
    BY Zenon, <1>2, <2>6, <2>7 DEF ReceiverTypes
<1>6. NoHeader \in Seq(0 .. 255) /\ Len(NoHeader) = 4
  BY SMTT(60) DEF NoHeader
<1>7. CASE ReadPayload
  <2>1. pos' <= Written /\ reading' = "first" /\ raw' = NoHeader
    BY Zenon, <1>7 DEF ReadPayload
  <2>2. got' \in Seq(1 .. MaxSends)
    <3>1. CASE UNCHANGED got
      BY ZenonT(60), <3>1 DEF ReceiverTypes
    <3>2. ASSUME NEW i \in DOMAIN frames, Opens(i, pos, payload_len(raw), Used(recv_seq)),
                 got' = Append(got, frames[i].seq)
          PROVE  got' \in Seq(1 .. MaxSends)
      <4>1. payload_len(raw) \in 1 .. MaxRecv /\ frames[i].len = payload_len(raw)
        BY Zenon, <1>7, <3>2 DEF StreamInv, Opens, ReadPayload
      <4>2. frames[i].len # 0 /\ i \in 1 .. Len(frames)
        <5>1. i \in 1 .. Len(frames)
          BY Zenon, <3>2, EndsAreNat DEF StreamInv
        <5>2. \A l \in 1 .. MaxRecv : l # 0
          <6>1. MaxRecv \in Nat
            BY SMTT(60) DEF MaxRecv
          <6> QED
            BY Zenon, <6>1, CountsFromOne
        <5> QED
          BY Zenon, <4>1, <5>1, <5>2
      <4>3. frames[i].seq \in Nat
        BY SMTT(60), <4>2, EndsAreNat DEF StreamInv, FrameRecords
      <4>4. frames[i].seq \in 1 .. MaxSends
        BY SMTT(60), <4>2, <4>3, StreamAssumption DEF SenderTypes
      <4> QED
        BY SMTT(60), <3>2, <4>4 DEF ReceiverTypes
    <3> QED
      BY Zenon, <1>7, <3>1, <3>2 DEF ReadPayload
  <2> QED
    BY Zenon, <1>2, <1>6, <2>1, <2>2 DEF ReceiverTypes
<1>8. CASE Dropped
  <2>1. pos' <= Written /\ reading' = "first" /\ raw' = NoHeader /\ got' = got
    BY Zenon, <1>8 DEF Dropped, Drop
  <2> QED
    BY Zenon, <1>2, <1>6, <2>1 DEF ReceiverTypes
<1> QED
  BY Zenon, <1>4, <1>5, <1>7, <1>8

(* The variables keep their types: headers consist of bytes, recv is never    *)
(* ahead of what was written, and only numbers of messages are returned.      *)
THEOREM StreamTypeCorrect == StreamSpec => []StreamTypeOK
<1>1. StreamInit => SenderTypes /\ ReceiverTypes
  BY SMTT(60), StreamAssumption DEF StreamInit, SenderTypes, ReceiverTypes, NoHeader, Written, EndOf
<1>2. StreamInv /\ StreamInv' /\ SenderTypes /\ ReceiverTypes /\ [StreamNext]_streamVars
        => (SenderTypes /\ ReceiverTypes)'
  <2> SUFFICES ASSUME StreamInv, StreamInv', SenderTypes, ReceiverTypes, [StreamNext]_streamVars
               PROVE  SenderTypes' /\ ReceiverTypes'
    OBVIOUS
  <2>1. CASE UNCHANGED streamVars
    BY Zenon, <2>1 DEF streamVars, SenderTypes, ReceiverTypes, Written, EndOf
  <2> QED
    BY Zenon, <2>1, SendKeepsTypes, RecvKeepsTypes DEF StreamNext
<1>3. StreamInv /\ SenderTypes /\ ReceiverTypes => StreamTypeOK
  <2> SUFFICES ASSUME StreamInv, SenderTypes, ReceiverTypes PROVE StreamTypeOK
    OBVIOUS
  <2>1. FramesInRow /\ Len(frames) \in Nat /\ DOMAIN frames = 1 .. Len(frames)
    BY Zenon, EndsAreNat DEF StreamInv
  <2>2. Len(frames) \in 0 .. Len(frames)
    BY SMTT(60), <2>1
  <2>3. Written \in Nat /\ pos \in Nat /\ pos <= Written
    BY Zenon, <2>1, <2>2, EndsAreNat DEF Written, FramesInRow, ReceiverTypes
  <2>4. pos \in 0 .. Written
    BY SMTT(60), <2>3
  <2> QED
    BY ZenonT(60), <2>1, <2>4 DEF StreamTypeOK, StreamInv, FramesInRow, SenderTypes, ReceiverTypes
<1> QED
  BY StreamInvariance, <1>1, <1>2, <1>3, PTL DEF StreamSpec

=============================================================================
