--------------------------- MODULE EncryptedStream ---------------------------
(***************************************************************************)
(* One direction of a peer stream: EncryptedStream (src/crypto.rs) over    *)
(* FramedTransport (src/transport.rs; bytescodec_send and bytescodec_recv  *)
(* of src/rendezvous.rs are the same code).                                *)
(*                                                                         *)
(* A recv is a chain of read_exact calls, and the select! and timeouts     *)
(* around it drop it at any of them: the bytes it has read are gone and    *)
(* the next recv starts in the middle of a frame.  TCP loses nothing, so a *)
(* byte is a position in what was written; the bytes of a header matter,   *)
(* those of a ciphertext are arbitrary.                                    *)
(***************************************************************************)
EXTENDS Integers, Sequences

CONSTANTS
    Lengths,        \* lengths of ciphertexts
    Garbage,        \* what a byte of a ciphertext may be
    MaxSends,       \* bound: messages and heartbeats sent
    MaxLost         \* bound: recvs dropped inside a frame

(* The authenticator makes every ciphertext at least 16 bytes long. *)
ASSUME StreamAssumption ==
    /\ Lengths \subseteq Nat \ (0 .. 15)
    /\ Garbage \subseteq 0 .. 255
    /\ MaxSends \in Nat /\ MaxLost \in Nat

VARIABLES
    send_seq, recv_seq,     \* the counters of the two ends
    frames,                 \* frames written: sequence number, length, end position
    pos,                    \* bytes read
    reading,                \* the read_exact that recv waits in: first, rest, payload
    raw,                    \* header bytes read by this recv
    got,                    \* sequence numbers of the messages returned
    reported,               \* has a recv failed: none, error
    lost                    \* recvs dropped inside a frame and sends refused

streamVars == <<send_seq, recv_seq, frames, pos, reading, raw, got, reported, lost>>

-----------------------------------------------------------------------------
(* The header: length * 4 + (header size - 1), little endian.  The casts to   *)
(* u8, u16 and u32 keep the low bytes, which are the ones written.            *)

MaxSend == 1073741823

MaxRecv == 64 * 1024 * 1024

MutantHeaderLen(len) ==
    IF len <= 64 THEN 1 ELSE IF len <= 16383 THEN 2 ELSE IF len <= 4194303 THEN 3 ELSE 4
HeaderLen(len) ==
    IF len <= 63 THEN 1 ELSE IF len <= 16383 THEN 2 ELSE IF len <= 4194303 THEN 3 ELSE 4

to_le_bytes(val) ==
    <<val % 256, (val \div 256) % 256, (val \div 65536) % 256, (val \div 16777216) % 256>>

Header(len) == to_le_bytes(len * 4 + (HeaderLen(len) - 1))

header_len(first) == (first % 4) + 1

(* u32::from_le_bytes(b) >> 2 *)
payload_len(b) == (b[1] \div 4) + 64 * b[2] + 16384 * b[3] + 4194304 * b[4]

-----------------------------------------------------------------------------
(* Positions. *)

EndOf(i) == IF i = 0 THEN 0 ELSE frames[i].end

SeqOf(i) == IF i = 0 THEN 0 ELSE frames[i].seq

Written == EndOf(Len(frames))

(* The values the byte at position p may have. *)
BytesAt(p) ==
    {b \in 0 .. 255 : \E i \in DOMAIN frames :
        LET start == EndOf(i - 1)
            h == HeaderLen(frames[i].len)
        IN  \/ p \in start .. start + h - 1 /\ b = Header(frames[i].len)[p - start + 1]
            \/ p \in start + h .. frames[i].end - 1 /\ b \in Garbage}

-----------------------------------------------------------------------------
NoHeader == <<0, 0, 0, 0>>

StreamInit ==
    /\ send_seq = 0 /\ recv_seq = 0
    /\ frames = <<>>
    /\ pos = 0 /\ reading = "first" /\ raw = NoHeader
    /\ got = <<>> /\ reported = "none" /\ lost = 0

Frame(seq, len) == [seq |-> seq, len |-> len, end |-> Written + HeaderLen(len) + len]

receiverVars == <<recv_seq, pos, reading, raw, got, reported>>

(* The counters of both ends are incremented before use. *)
Used(counter) == counter + 1

(* The sequence number is taken before the transport refuses the length. *)
Send(len) ==
    /\ send_seq < MaxSends
    /\ send_seq' = send_seq + 1
    /\ IF len <= MaxSend
       THEN frames' = Append(frames, Frame(Used(send_seq), len)) /\ UNCHANGED lost
       ELSE lost' = lost + 1 /\ UNCHANGED frames
    /\ UNCHANGED receiverVars

SendHeartbeat ==
    /\ Len(frames) < MaxSends
    /\ frames' = Append(frames, Frame(send_seq, 0))
    /\ UNCHANGED <<send_seq, lost, receiverVars>>

(* The header is complete: a heartbeat is returned as an empty message, a     *)
(* length over the limit is an error, else the payload is read.               *)
HeaderRead(b) ==
    /\ IF payload_len(b) \in 1 .. MaxRecv
       THEN reading' = "payload" /\ raw' = b
       ELSE reading' = "first" /\ raw' = NoHeader
    /\ reported' = IF payload_len(b) > MaxRecv THEN "error" ELSE reported

ReadFirst ==
    /\ reading = "first"
    /\ pos < Written
    /\ pos' = pos + 1
    /\ \E b \in BytesAt(pos) :
          IF header_len(b) > 1
          THEN reading' = "rest" /\ raw' = <<b, 0, 0, 0>> /\ UNCHANGED reported
          ELSE HeaderRead(<<b, 0, 0, 0>>)
    /\ UNCHANGED <<send_seq, recv_seq, frames, got, lost>>

(* read_exact of byte k of the header, which stays 0 when the header is shorter. *)
RestByte(k) == IF k <= header_len(raw[1]) THEN BytesAt(pos + k - 2) ELSE {0}

ReadRest ==
    /\ reading = "rest"
    /\ pos + header_len(raw[1]) - 1 <= Written
    /\ pos' = pos + header_len(raw[1]) - 1
    /\ \E b2 \in RestByte(2), b3 \in RestByte(3), b4 \in RestByte(4) :
          HeaderRead(<<raw[1], b2, b3, b4>>)
    /\ UNCHANGED <<send_seq, recv_seq, frames, got, lost>>

MutantConstantNonce(seq) == 0
make_nonce(seq) == seq

(* Bytes p + 1 .. p + len are the whole ciphertext of frame i, sealed with    *)
(* the nonce of seq: anything else fails to authenticate.                     *)
Opens(i, p, len, seq) ==
    /\ frames[i].len = len
    /\ frames[i].end = p + len
    /\ make_nonce(frames[i].seq) = make_nonce(seq)

ReadPayload ==
    /\ reading = "payload"
    /\ pos + payload_len(raw) <= Written
    /\ pos' = pos + payload_len(raw)
    /\ reading' = "first" /\ raw' = NoHeader
    /\ recv_seq' = recv_seq + 1
    /\ \/ \E i \in DOMAIN frames :
             /\ Opens(i, pos, payload_len(raw), Used(recv_seq))
             /\ got' = Append(got, frames[i].seq)
             /\ UNCHANGED reported
       \/ /\ \A i \in DOMAIN frames : ~Opens(i, pos, payload_len(raw), Used(recv_seq))
          /\ reported' = "error"
          /\ UNCHANGED got
    /\ UNCHANGED <<send_seq, frames, lost>>

(* Bytes the current read_exact waits for. *)
Needed == IF reading = "rest" THEN header_len(raw[1]) - 1 ELSE payload_len(raw)

(* recv is dropped after k bytes of its current read_exact. *)
Drop(k) ==
    /\ pos + k <= Written
    /\ pos' = pos + k
    /\ reading' = "first" /\ raw' = NoHeader
    /\ lost' = lost + 1
    /\ UNCHANGED <<send_seq, recv_seq, frames, got, reported>>

Dropped ==
    /\ reading # "first"
    /\ lost < MaxLost
    /\ \E k \in 0 .. Needed - 1 : Drop(k)

StreamNext ==
    \/ \E len \in Lengths : Send(len)
    \/ SendHeartbeat
    \/ ReadFirst
    \/ ReadRest
    \/ ReadPayload
    \/ Dropped

StreamSpec == StreamInit /\ [][StreamNext]_streamVars

-----------------------------------------------------------------------------
(* Properties. *)

(* The variables have their types; in particular a header consists of bytes. *)
StreamTypeOK ==
    /\ send_seq \in 0 .. MaxSends
    /\ recv_seq \in Nat /\ pos \in 0 .. Written
    /\ \A i \in DOMAIN frames : frames[i].len \in Lengths \cup {0} /\ frames[i].len <= MaxSend
    /\ reading \in {"first", "rest", "payload"}
    /\ raw \in Seq(0 .. 255) /\ Len(raw) = 4
    /\ got \in Seq(1 .. MaxSends)
    /\ reported \in {"none", "error"}
    /\ lost \in Nat

(* Dropping a recv inside a frame may lose messages, but never in silence:    *)
(* as long as no recv has failed, what was returned is the messages sent,     *)
(* from the first on and without a gap.                                       *)
NoSilentGap ==
    reported = "none" => got = [n \in 1 .. recv_seq |-> n]

(* When no recv was dropped inside a frame, no send refused, and every frame  *)
(* is within the receiver's limit, recv never fails, always starts at the     *)
(* beginning of a frame, and everything written is returned, whatever         *)
(* heartbeats come in between.                                                *)
Intact == lost = 0 /\ \A i \in DOMAIN frames : frames[i].len <= MaxRecv

ExactDelivery ==
    Intact => /\ reported = "none"
              /\ reading = "first" => \E i \in 0 .. Len(frames) : pos = EndOf(i)
              /\ pos = Written => reading = "first" /\ got = [n \in 1 .. send_seq |-> n]

-----------------------------------------------------------------------------
(* What ExactDelivery needs to be inductive. *)

FrameRecords == [seq : Nat, len : Nat, end : Nat]

(* Frames lie one behind the other and are numbered without a gap. *)
FramesInRow ==
    /\ frames \in Seq(FrameRecords)
    /\ send_seq \in Nat /\ recv_seq \in Nat /\ pos \in Nat /\ lost \in Nat
    /\ \A i \in 1 .. Len(frames) :
          /\ frames[i].len <= MaxSend
          /\ frames[i].end = EndOf(i - 1) + HeaderLen(frames[i].len) + frames[i].len
          /\ lost = 0 => frames[i].seq = SeqOf(i - 1) + (IF frames[i].len = 0 THEN 0 ELSE 1)
    /\ \A i, j \in 1 .. Len(frames) : i < j => frames[i].end <= EndOf(j - 1)
    /\ lost = 0 => send_seq = SeqOf(Len(frames))

(* recv has read i frames and is at a known place of the next one. *)
InFrame(i) ==
    LET next == frames[i + 1].len
    IN  /\ recv_seq = SeqOf(i)
        /\ \/ reading = "first" /\ pos = EndOf(i)
           \/ /\ i < Len(frames) /\ reading = "rest"
              /\ pos = EndOf(i) + 1
              /\ HeaderLen(next) > 1 /\ raw = <<Header(next)[1], 0, 0, 0>>
           \/ /\ i < Len(frames) /\ reading = "payload"
              /\ pos = EndOf(i) + HeaderLen(next)
              /\ next > 0 /\ payload_len(raw) = next

(* The frames lie in a row, nothing is skipped, and an intact stream keeps    *)
(* recv in step with the frames: the inductive invariant of the proofs.       *)
StreamInv ==
    /\ FramesInRow
    /\ reported \in {"none", "error"}
    /\ got \in Seq(Nat)
    /\ reading = "rest" => header_len(raw[1]) \in 2 .. 4
    /\ reading = "payload" => payload_len(raw) \in 1 .. MaxRecv
    /\ NoSilentGap
    /\ Intact => reported = "none" /\ \E i \in 0 .. Len(frames) : InFrame(i)

=============================================================================
