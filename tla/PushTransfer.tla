---------------------------- MODULE PushTransfer ----------------------------
(***************************************************************************)
(* Uploading a file: PushTransfer (src/file_transfer.rs) as                *)
(* push_file_command (src/daemon.rs) drives it, run again once on the      *)
(* stream of a reconnect, while another program may change the file.       *)
(*                                                                         *)
(* The stream keeps the order of messages until it fails; what is then on  *)
(* its way is lost.  The peer's side of the protocol is external.  Bytes   *)
(* know the version of the file they come from and their position in it;   *)
(* compression, progress reports and messages of other jobs are left out.  *)
(***************************************************************************)
EXTENDS Naturals, Sequences

CONSTANTS
    MaxLen,         \* bound: length of a file
    Block,          \* FILE_TRANSFER_BLOCK_SIZE
    U32Max,         \* largest offset a SendConfirm can carry
    MaxVersion      \* bound: versions the local file goes through

ASSUME SizeAssumption ==
    MaxLen \in Nat /\ Block \in Nat \ {0} /\ U32Max \in Nat /\ MaxVersion \in Nat \ {0}

VARIABLES
    pc,             \* begin, confirm, sending, done, complete, failed
    run,            \* 1, or 2 after a reconnect
    local,          \* the local file: its version and length
    opened,         \* version and length when this run read the metadata, as in its digest
    resumed_bytes,
    sent_bytes,     \* also the position of the open file
    toPeer,         \* messages on their way to the peer
    fromPeer,       \* the peer's messages on their way back
    remote,         \* the peer's file: its bytes and the version it is of
    peer            \* asked, confirming, writing, finished, stopped

senderVars == <<pc, run, opened, resumed_bytes, sent_bytes>>
peerVars == <<remote, peer>>
vars == <<senderVars, local, toPeer, fromPeer, peerVars>>

-----------------------------------------------------------------------------
(* Data. *)

Files == [version : 1 .. MaxVersion, len : 0 .. MaxLen]

Bytes(f, from, to) == [i \in 1 .. to - from |-> [of |-> f.version, at |-> from + i]]

Content(f) == Bytes(f, 0, f.len)

(* n is the length or offset in the message.  The n of a block and of the end *)
(* is where the sender was in the file; the peer is not told.                 *)
Msg(t, n, data) == [type |-> t, n |-> n, data |-> data]

Min2(a, b) == IF a < b THEN a ELSE b

(* What the peer may hold before the push: nothing, part or all of some       *)
(* version of the file.                                                       *)
Init ==
    /\ pc = "begin" /\ run = 1
    /\ local \in {f \in Files : f.version = 1}
    /\ opened = local
    /\ resumed_bytes = 0 /\ sent_bytes = 0
    /\ toPeer = <<>> /\ fromPeer = <<>>
    /\ \E v \in {0, 1}, n \in 0 .. MaxLen :
          /\ v = 1 => n <= local.len
          /\ remote = [version |-> v, data |-> Bytes([version |-> v], 0, n)]
    /\ peer = "asked"

(* Another program rewrites the file; its modification time tells. *)
LocalFileChanges ==
    /\ pc \notin {"complete", "failed"}
    /\ local.version < MaxVersion
    /\ \E n \in 0 .. MaxLen : local' = [version |-> local.version + 1, len |-> n]
    /\ UNCHANGED <<senderVars, toPeer, fromPeer, peerVars>>

-----------------------------------------------------------------------------
(* The daemon. *)

(* A run fails with an error that should_reconnect accepts or not. *)
RunFails ==
    \/ /\ run = 1
       /\ run' = 2 /\ pc' = "begin"
       /\ toPeer' = <<>> /\ fromPeer' = <<>>
       /\ peer' = "asked"
       /\ UNCHANGED <<opened, resumed_bytes, sent_bytes, local, remote>>
    \/ /\ pc' = "failed"
       /\ UNCHANGED <<run, opened, resumed_bytes, sent_bytes, local, toPeer, fromPeer, peerVars>>

(* The metadata cannot be read, or any send or receive fails before the end. *)
StreamFails ==
    /\ pc \in {"begin", "confirm", "sending"}
    /\ RunFails

(* begin: FileTransferReceiveRequest and the digest of the local file. *)
LocalDigest == Msg("digest", local.len, <<>>)

Begin ==
    /\ pc = "begin"
    /\ pc' = "confirm"
    /\ opened' = local
    /\ resumed_bytes' = 0 /\ sent_bytes' = 0
    /\ toPeer' = Append(toPeer, LocalDigest)
    /\ UNCHANGED <<run, local, fromPeer, peerVars>>

Next_is(t) == fromPeer # <<>> /\ Head(fromPeer).type = t

(* The file is opened and read from the offset on. *)
StartAt(offset) ==
    /\ pc' = "sending"
    /\ resumed_bytes' = offset /\ sent_bytes' = offset
    /\ UNCHANGED <<run, opened, local, peerVars>>

(* confirm_upload_from_remote_digest: the offset must fit the confirmation. *)
MutantResumesAny(m) == Min2(Min2(m.n, opened.len), U32Max)
MutantUncapped(m) == IF m.type = "identical" THEN Min2(m.n, opened.len) ELSE 0
Offset(m) == IF m.type = "identical" THEN Min2(Min2(m.n, opened.len), U32Max) ELSE 0

AsU32(n) == n % (U32Max + 1)

RecvDigest ==
    /\ pc = "confirm"
    /\ Next_is("identical") \/ Next_is("different")
    /\ StartAt(Offset(Head(fromPeer)))
    /\ toPeer' = Append(toPeer, Msg("confirm", AsU32(Offset(Head(fromPeer))), <<>>))
    /\ fromPeer' = Tail(fromPeer)

(* A confirmation with neither an offset nor Skip(true) counts as offset 0. *)
RecvOffset ==
    /\ pc = "confirm"
    /\ Next_is("offset")
    /\ StartAt(Min2(Head(fromPeer).n, opened.len))
    /\ fromPeer' = Tail(fromPeer)
    /\ UNCHANGED toPeer

(* Skip(true): nothing is sent, not even the end. *)
RecvSkip ==
    /\ pc = "confirm"
    /\ Next_is("skip")
    /\ pc' = "complete"
    /\ resumed_bytes' = opened.len /\ sent_bytes' = opened.len
    /\ fromPeer' = Tail(fromPeer)
    /\ UNCHANGED <<run, opened, local, toPeer, peerVars>>

RecvDone ==
    /\ pc = "confirm"
    /\ Next_is("done")
    /\ fromPeer' = Tail(fromPeer)
    /\ UNCHANGED <<senderVars, local, toPeer, peerVars>>

RecvError ==
    /\ pc \in {"confirm", "done"}
    /\ Next_is("error")
    /\ RunFails

(* A read returns any part of a block. *)
send_next_block(n) ==
    /\ pc = "sending"
    /\ sent_bytes + n <= local.len
    /\ toPeer' = Append(toPeer, Msg("block", sent_bytes, Bytes(local, sent_bytes, sent_bytes + n)))
    /\ sent_bytes' = sent_bytes + n
    /\ UNCHANGED <<pc, run, opened, resumed_bytes, local, fromPeer, peerVars>>

(* End of file: wait_for_done sends Done ... *)
SendDone ==
    /\ pc = "sending"
    /\ sent_bytes >= local.len
    /\ pc' = "done"
    /\ toPeer' = Append(toPeer, Msg("done", sent_bytes, <<>>))
    /\ UNCHANGED <<run, opened, resumed_bytes, sent_bytes, local, fromPeer, peerVars>>

(* ... and takes any event but an error, a failing stream, or half a second   *)
(* without one, for success.                                                  *)
wait_for_done ==
    /\ pc = "done"
    /\ ~Next_is("error")
    /\ pc' = "complete"
    /\ toPeer' \in {toPeer, <<>>}
    /\ UNCHANGED <<run, opened, resumed_bytes, sent_bytes, local, fromPeer, peerVars>>

-----------------------------------------------------------------------------
(* The peer (external). *)

Takes(t) == toPeer # <<>> /\ Head(toPeer).type = t /\ toPeer' = Tail(toPeer)

Truncate(n) == remote' = [version |-> opened.version, data |-> SubSeq(remote.data, 1, n)]

Same == remote.version = opened.version

Len32 == Min2(Len(remote.data), U32Max)

(* The answers: it has the whole file ... *)
AnswersSkip(early) ==
    /\ Same /\ Len(remote.data) = Head(toPeer).n
    /\ fromPeer' = early \o <<Msg("skip", 0, <<>>)>>
    /\ UNCHANGED peerVars

(* ... this is what it has, of this version or of another one ... *)
AnswersDigest(early) ==
    /\ fromPeer' = early \o <<Msg(IF Same THEN "identical" ELSE "different", Len(remote.data), <<>>)>>
    /\ peer' = "confirming"
    /\ UNCHANGED remote

(* ... it goes on at what it has of this version, or from the start. *)
AnswersOffset(early, n) ==
    /\ fromPeer' = early \o <<Msg("offset", n, <<>>)>>
    /\ Truncate(n)
    /\ peer' = "writing"

PeerAnswers ==
    /\ peer = "asked"
    /\ Takes("digest")
    /\ \E early \in {<<>>, <<Msg("done", 0, <<>>)>>} :
        \/ AnswersSkip(early)
        \/ AnswersDigest(early)
        \/ \E n \in {0} \cup (IF Same THEN {Len32} ELSE {}) : AnswersOffset(early, n)
    /\ UNCHANGED <<senderVars, local>>

PeerConfirmed ==
    /\ Takes("confirm")
    /\ IF peer = "confirming"
       THEN Truncate(Min2(Head(toPeer).n, Len(remote.data))) /\ peer' = "writing"
       ELSE UNCHANGED peerVars
    /\ UNCHANGED <<senderVars, local, fromPeer>>

PeerWrites ==
    /\ Takes("block")
    /\ remote' = IF peer = "writing" THEN [remote EXCEPT !.data = @ \o Head(toPeer).data] ELSE remote
    /\ UNCHANGED <<senderVars, local, fromPeer, peer>>

PeerFinishes ==
    /\ Takes("done")
    /\ peer' = IF peer = "writing" THEN "finished" ELSE peer
    /\ fromPeer' \in {fromPeer, Append(fromPeer, Msg("done", 0, <<>>))}
    /\ UNCHANGED <<senderVars, local, remote>>

(* A full disk, a refused path. *)
PeerErrors ==
    /\ pc # "begin"
    /\ peer \notin {"finished", "stopped"}
    /\ peer' = "stopped"
    /\ fromPeer' = Append(fromPeer, Msg("error", 0, <<>>))
    /\ UNCHANGED <<senderVars, local, toPeer, remote>>

-----------------------------------------------------------------------------
Sender ==
    \/ Begin \/ StreamFails
    \/ RecvDigest \/ RecvOffset \/ RecvSkip \/ RecvDone \/ RecvError
    \/ \E n \in 1 .. Block : send_next_block(n)
    \/ SendDone \/ wait_for_done

Peer == PeerAnswers \/ PeerConfirmed \/ PeerWrites \/ PeerFinishes \/ PeerErrors

Next == LocalFileChanges \/ Sender \/ Peer

Spec == Init /\ [][Next]_vars

-----------------------------------------------------------------------------
(* Properties. *)

Byte == [of : Nat, at : Nat]

Messages(types) == [type : types, n : Nat, data : Seq(Byte)]

(* The variables have their types, and the offsets of a push lie in the file. *)
TypeOK ==
    /\ pc \in {"begin", "confirm", "sending", "done", "complete", "failed"}
    /\ run \in {1, 2}
    /\ local \in Files /\ opened \in Files
    /\ resumed_bytes \in 0 .. opened.len
    /\ sent_bytes \in resumed_bytes .. MaxLen
    /\ toPeer \in Seq(Messages({"digest", "confirm", "block", "done"}))
    /\ fromPeer \in Seq(Messages({"identical", "different", "offset", "skip", "done", "error"}))
    /\ remote \in [version : 0 .. MaxVersion, data : Seq(Byte)]
    /\ peer \in {"asked", "confirming", "writing", "finished", "stopped"}

Unchanged == local = opened

(* Whenever the push is cut off, the peer holds the first bytes of the file,  *)
(* without a hole or a repetition, so that the next push resumes at the right *)
(* place: sender and peer agree on the offset whichever of them chose it,     *)
(* also where the offset no longer fits the message (begin,                   *)
(* confirm_upload_from_remote_digest, send_next_block).                       *)
RemoteIsPrefix ==
    peer = "writing" /\ Unchanged =>
        /\ Len(remote.data) <= opened.len
        /\ remote.data = SubSeq(Content(opened), 1, Len(remote.data))

(* When the peer is told that the file is done, it has all of it, be it in    *)
(* one run or resumed after a reconnect; a push that it lets skip was         *)
(* complete before (send_next_block, wait_for_done).                          *)
DoneMeansExact ==
    Unchanged /\ (peer = "finished" \/ (pc = "complete" /\ peer = "asked")) =>
        remote.data = Content(opened)

-----------------------------------------------------------------------------
(* The inductive invariant. *)

(* A newer version of the file is on the local side, and what the peer has of *)
(* the local version are its first bytes.                                     *)
VersionsFit ==
    /\ opened.version <= local.version /\ (opened.version = local.version => Unchanged)
    /\ remote.version <= opened.version
    /\ remote.version = local.version =>
          /\ Len(remote.data) <= local.len
          /\ \A k \in DOMAIN remote.data : remote.data[k] = [of |-> local.version, at |-> k]

(* What the peer's state says of its file, and how much of an exchange is     *)
(* behind it when the sender is at a place.                                   *)
PeerFits ==
    /\ peer \in {"writing", "finished"} => Same
    /\ peer = "finished" /\ Unchanged => Len(remote.data) = opened.len
    /\ pc = "begin" => peer = "asked" /\ toPeer = <<>> /\ fromPeer = <<>>
    /\ pc \in {"sending", "done"} => peer # "asked"
    /\ pc = "complete" /\ peer = "asked" => toPeer = <<>> /\ Same /\ Len(remote.data) = opened.len

(* The answer to a digest that the sender is still to read. *)
AnswerFits(m) ==
    /\ m.type \in {"identical", "different", "offset", "skip"} => toPeer = <<>>
    /\ m.type \in {"identical", "different"} => peer \in {"confirming", "stopped"}
    /\ m.type = "identical" => Same /\ m.n = Len(remote.data)
    /\ m.type = "offset" => peer \in {"writing", "stopped"} /\ m.n = Len(remote.data)
    /\ m.type = "skip" => peer \in {"asked", "stopped"} /\ Same /\ Len(remote.data) = opened.len

AnswersFit ==
    pc = "confirm" =>
        /\ \A i \in DOMAIN fromPeer : AnswerFits(fromPeer[i])
        /\ \A i \in DOMAIN toPeer : toPeer[i].type = "digest"

(* The messages to the peer: a digest is alone, a confirmation is the first,  *)
(* the end is the last, and each goes on where the one before it ended.       *)
QueueFits ==
    /\ \A i \in DOMAIN toPeer :
          /\ toPeer[i].type = "digest" =>
                /\ Len(toPeer) = 1 /\ toPeer[i].n = opened.len
                /\ pc \in {"confirm", "failed"} /\ peer \in {"asked", "stopped"}
          /\ toPeer[i].type = "confirm" =>
                /\ i = 1 /\ peer \in {"confirming", "stopped"}
                /\ toPeer[i].n = 0 \/ (Same /\ toPeer[i].n <= Len(remote.data))
          /\ toPeer[i].type # "block" => toPeer[i].data = <<>>
    /\ \A i \in 1 .. Len(toPeer) - 1 : toPeer[i + 1].n = toPeer[i].n + Len(toPeer[i].data)
    /\ pc = "sending" /\ toPeer # <<>> =>
          sent_bytes = toPeer[Len(toPeer)].n + Len(toPeer[Len(toPeer)].data)

(* The blocks and the end of an unchanged file, and where the peer is. *)
BlocksFit ==
    Unchanged =>
        /\ \A i \in DOMAIN toPeer :
              /\ toPeer[i].type = "block" =>
                    /\ toPeer[i].n + Len(toPeer[i].data) <= opened.len
                    /\ \A k \in DOMAIN toPeer[i].data :
                          toPeer[i].data[k] = [of |-> opened.version, at |-> toPeer[i].n + k]
              /\ toPeer[i].type = "done" => toPeer[i].n = opened.len
        /\ pc = "sending" => sent_bytes <= opened.len
        /\ peer = "writing" /\ toPeer # <<>> => toPeer[1].n = Len(remote.data)
        /\ peer = "writing" /\ toPeer = <<>> /\ pc = "sending" => sent_bytes = Len(remote.data)

IInv == TypeOK /\ VersionsFit /\ PeerFits /\ AnswersFit /\ QueueFits /\ BlocksFit
=============================================================================
