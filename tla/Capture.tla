------------------------------ MODULE Capture ------------------------------
(***************************************************************************)
(* `rustdesk-cli capture' with a daemon running: the region of the command *)
(* line is cast to the daemon's unsigned one, the daemon asks the peer for *)
(* a screenshot, waits for the response that carries its sid, crops and    *)
(* encodes the image, and hands the bytes to the front end as base64, which *)
(* decodes and writes them.                                                *)
(*                                                                         *)
(* A picture is a rectangle of one version of the peer's screen; the codec *)
(* turns it into some bytes.  An i32 or u32 has 2^32 values in the code    *)
(* and U32 in the model.                                                   *)
(***************************************************************************)
EXTENDS Base64

CONSTANTS
  U32,           \* the number of values of a u32 (a power of two)
  ScreenSizes,   \* the sizes the peer's screen goes through: a sequence of [w, h]
  Requests,      \* what users ask for: [region : option, format]
  Encodings,     \* the byte sequences the image encoders may produce
  MaxCaptures,   \* bound: invocations
  MaxWire,       \* bound: messages on the way that are no response
  None

\* The numbers of a region are i32; a screen is smaller than half a u32.
I32 == -(U32 \div 2)..U32 \div 2 - 1
Size == 1..U32 \div 2 - 1
Region == [x : I32, y : I32, w : I32, h : I32]

ASSUME CaptureAssumption ==
  /\ U32 \in Nat /\ U32 % 2 = 0 /\ U32 > 0
  /\ ScreenSizes \in Seq([w : Size, h : Size]) /\ ScreenSizes # <<>>
  /\ \A request \in Requests : request.region \in Seq(Region) /\ Len(request.region) <= 1
  /\ Encodings \subseteq Seq(Byte)
  /\ MaxCaptures \in Nat
  /\ None \notin {0, 1, 3}

VARIABLES
  pc,            \* the daemon: "idle", "request", "wait", "respond", "reconnect", "exited"
  asked,         \* the invocation's request
  exit,          \* its exit code, or None while it runs
  file,          \* what it wrote, or None
  captures,      \* invocations so far
  since,         \* the version of the screen when it started
  run,           \* 2 once the command is run again after a reconnect
  sid,           \* the sid of the latest request; a fresh one each time
  picture,       \* the picture in hand
  health,        \* the stream: "up", "desynced" or "broken"
  pending,       \* requests the peer has not answered
  wire,          \* messages from the peer
  screen         \* the version of the peer's screen

frontVars == <<asked, exit, file, captures, since>>
peerVars == <<pending, wire, screen>>
vars == <<pc, frontVars, run, sid, picture, health, peerVars>>

-----------------------------------------------------------------------------
(* The region of the command line.                                         *)

\* Region::from_str: four i32 numbers; width and height positive.
RegionParses(r) == r.w > 0 /\ r.h > 0

\* `as u32': reinterprets a negative number.
AsU32(i) == i % U32
to_capture_region(r) == [x |-> AsU32(r.x), y |-> AsU32(r.y), w |-> AsU32(r.w), h |-> AsU32(r.h)]

-----------------------------------------------------------------------------
(* process_screenshot_bytes.  An optional value is a sequence.             *)

checked_add(a, b) == IF a + b < U32 THEN <<a + b>> ELSE <<>>

MutantFits(a, b, limit) == (a + b) % U32 <= limit
Fits(a, b, limit) == checked_add(a, b) # <<>> /\ checked_add(a, b)[1] <= limit

\* crop_image: the picture of the region, or none when it does not fit.
crop_image(p, r) ==
  IF Fits(r.x, r.w, p.w) /\ Fits(r.y, r.h, p.h)
  THEN <<[p EXCEPT !.x = @ + r.x, !.y = @ + r.y, !.w = r.w, !.h = r.h]>>
  ELSE <<>>

\* The whole screen, in the format the peer sends.
Screenshot(v) ==
  [version |-> v, x |-> 0, y |-> 0, w |-> ScreenSizes[v].w, h |-> ScreenSizes[v].h,
   format |-> "png"]

encode_image(p, format) == [p EXCEPT !.format = IF format \in {"jpg", "jpeg"} THEN "jpg" ELSE "png"]

\* The front end always sends a quality, so the image is always processed; it
\* may not be one (version 0).
process_screenshot_bytes(version, request) ==
  LET image == IF version = 0 THEN <<>> ELSE <<Screenshot(version)>>
      cropped == IF image = <<>> \/ request.region = <<>> THEN image
                 ELSE crop_image(image[1], to_capture_region(request.region[1]))
  IN  IF cropped = <<>> THEN <<>> ELSE <<encode_image(cropped[1], request.format)>>

-----------------------------------------------------------------------------
Init ==
  /\ pc = "idle"
  /\ asked = None /\ exit = None /\ file = None
  /\ captures = 0 /\ since = 1
  /\ run = 1 /\ sid = 0
  /\ picture = None
  /\ health = "up"
  /\ pending = {} /\ wire = <<>> /\ screen = 1

(* The peer (external): it answers requests in any order and at any time,  *)
(* with the screen as it is then, with bytes that are no image, or with a  *)
(* message that says why not.  A message contains a word that              *)
(* should_reconnect looks for, or does not.                                *)

Answers(s) ==
  {[sid |-> s, msg |-> "", version |-> screen],
   [sid |-> s, msg |-> "", version |-> 0],
   [sid |-> s, msg |-> "lost", version |-> 0],
   [sid |-> s, msg |-> "error", version |-> 0]}

PeerAnswers ==
  \E s \in pending : \E answer \in Answers(s) :
    /\ wire' = Append(wire, answer)
    /\ pending' = pending \ {s}
    /\ UNCHANGED <<pc, frontVars, run, sid, picture, health, screen>>

Other == [sid |-> 0, msg |-> "", version |-> 0]

PeerSendsOther ==
  /\ Len(wire) < MaxWire
  /\ wire' = Append(wire, Other)
  /\ UNCHANGED <<pc, frontVars, run, sid, picture, health, pending, screen>>

ScreenChanges ==
  /\ screen < Len(ScreenSizes)
  /\ screen' = screen + 1
  /\ UNCHANGED <<pc, frontVars, run, sid, picture, health, pending, wire>>

StreamBreaks ==
  /\ health # "broken"
  /\ health' = "broken"
  /\ UNCHANGED <<pc, frontVars, run, sid, picture, peerVars>>

-----------------------------------------------------------------------------
(* The front end.  A region that does not parse is an input error.         *)

Invoke(request) ==
  /\ pc = "idle"
  /\ captures < MaxCaptures
  /\ captures' = captures + 1
  /\ asked' = request
  /\ file' = None
  /\ since' = screen
  /\ run' = 1
  /\ IF request.region # <<>> /\ ~RegionParses(request.region[1])
     THEN exit' = 3 /\ UNCHANGED pc
     ELSE exit' = None /\ pc' = "request"
  /\ UNCHANGED <<sid, picture, health, peerVars>>

\* The error response: nothing is written.
Refuse == exit' = 1 /\ UNCHANGED <<asked, file, captures, since>>

\* The bytes cross the socket as base64 and are written; the write may fail.
Deliver ==
  /\ pc = "respond"
  /\ pc' = "idle"
  /\ \E bytes \in Encodings : \E data \in {base64_encode(bytes)} : \E decoded \in {base64_decode(data)} :
       \/ /\ decoded # <<>>
          /\ file' = [picture |-> picture, encoded |-> bytes, bytes |-> decoded[1]]
          /\ exit' = 0
       \/ exit' = 1 /\ UNCHANGED file
  /\ UNCHANGED <<asked, captures, since, run, sid, picture, health, peerVars>>

-----------------------------------------------------------------------------
(* The daemon.                                                             *)

\* A failed run: errors that look like a lost connection are followed by a
\* reconnect and one more run.
Fail(class) ==
  \/ class = "lost" /\ run = 1 /\ pc' = "reconnect" /\ UNCHANGED frontVars
  \/ (class = "error" \/ run = 2) /\ pc' = "idle" /\ Refuse

SendRequest ==
  /\ pc = "request"
  /\ sid' = sid + 1
  /\ IF health = "broken"
     THEN Fail("lost") /\ UNCHANGED pending
     ELSE pc' = "wait" /\ pending' = pending \cup {sid'} /\ UNCHANGED frontVars
  /\ UNCHANGED <<run, picture, health, wire, screen>>

\* The loop of request_screenshot_with_sid skips what is no response, or the
\* response to an earlier request.
MutantIsOurs(m) == m # Other
IsOurs(m) == m # Other /\ m.sid = sid

Received(m) ==
  IF ~IsOurs(m)
  THEN UNCHANGED <<pc, frontVars, picture>>
  ELSE IF m.msg # ""
       THEN Fail(m.msg) /\ UNCHANGED picture
       ELSE LET processed == process_screenshot_bytes(m.version, asked)
            IN  IF processed = <<>>
                THEN Fail("error") /\ UNCHANGED picture
                ELSE pc' = "respond" /\ picture' = processed[1] /\ UNCHANGED frontVars

Recv ==
  /\ pc = "wait"
  /\ health = "up"
  /\ wire # <<>>
  /\ wire' = Tail(wire)
  /\ Received(Head(wire))
  /\ UNCHANGED <<run, sid, health, pending, screen>>

RecvFails ==
  /\ pc = "wait"
  /\ health # "up"
  /\ Fail("lost")
  /\ UNCHANGED <<run, sid, picture, health, peerVars>>

\* The timeout around the request drops a recv that may have begun a frame;
\* "timed out" is one of the words of should_reconnect.
MutantTimesOut == FALSE
TimesOut ==
  /\ pc = "wait"
  /\ Fail("lost")
  /\ health' \in {health} \cup (IF health = "up" THEN {"desynced"} ELSE {})
  /\ UNCHANGED <<run, sid, picture, peerVars>>

\* Between commands the daemon's loop takes the peer's messages and ignores
\* them, and replaces a stream that fails.
IdleRecv ==
  /\ pc = "idle"
  /\ health = "up"
  /\ wire # <<>>
  /\ wire' = Tail(wire)
  /\ UNCHANGED <<pc, frontVars, run, sid, picture, health, pending, screen>>

IdleRecvFails ==
  /\ pc = "idle"
  /\ health # "up"
  /\ pc' = "idle reconnect"
  /\ UNCHANGED <<frontVars, run, sid, picture, health, peerVars>>

\* A new connection: what was asked or sent on the old one is gone.
ReconnectSucceeds ==
  /\ pc \in {"reconnect", "idle reconnect"}
  /\ health' = "up"
  /\ wire' = <<>>
  /\ pending' = {}
  /\ IF pc = "reconnect"
     THEN pc' = "request" /\ run' = 2
     ELSE pc' = "idle" /\ UNCHANGED run
  /\ UNCHANGED <<frontVars, sid, picture, screen>>

ReconnectFails ==
  /\ pc \in {"reconnect", "idle reconnect"}
  /\ pc' = "exited"
  /\ IF pc = "reconnect" THEN Refuse ELSE UNCHANGED frontVars
  /\ UNCHANGED <<run, sid, picture, health, peerVars>>

Peer == PeerAnswers \/ PeerSendsOther \/ ScreenChanges \/ StreamBreaks

Daemon ==
  \/ SendRequest \/ Recv \/ RecvFails \/ TimesOut \/ IdleRecv \/ IdleRecvFails
  \/ ReconnectSucceeds \/ ReconnectFails \/ Deliver

Next == Peer \/ Daemon \/ \E request \in Requests : Invoke(request)

Spec == Init /\ [][Next]_vars

\* Processes are scheduled, timers fire, and reconnecting returns.
Fairness ==
  /\ WF_vars(SendRequest) /\ WF_vars(Deliver) /\ WF_vars(TimesOut)
  /\ WF_vars(ReconnectSucceeds \/ ReconnectFails)

LiveSpec == Spec /\ Fairness

-----------------------------------------------------------------------------
(* Properties.                                                             *)

Pictures ==
  [version : DOMAIN ScreenSizes, x : 0..U32 - 1, y : 0..U32 - 1, w : 0..U32 - 1,
   h : 0..U32 - 1, format : {"png", "jpg"}]

Responses == [sid : Nat, msg : {"", "lost", "error"}, version : {0} \cup DOMAIN ScreenSizes]

\* The types of the state that request_screenshot, the daemon's loop and the
\* front end work on.
TypeOK ==
  /\ pc \in {"idle", "request", "wait", "respond", "reconnect", "idle reconnect", "exited"}
  /\ asked \in Requests \cup {None}
  /\ exit \in {None, 0, 1, 3}
  /\ captures \in 0..MaxCaptures
  /\ since \in 1..screen
  /\ run \in 1..2
  /\ sid \in Nat
  /\ picture \in Pictures \cup {None}
  /\ health \in {"up", "desynced", "broken"}
  /\ pending \subseteq 1..sid
  /\ wire \in Seq(Responses)
  /\ \A i \in DOMAIN wire : wire[i].sid <= sid
  /\ screen \in DOMAIN ScreenSizes

\* A screenshot is never stale: the picture that a successful capture wrote was
\* taken after that invocation started, although an earlier request that timed
\* out twice leaves a response on the same stream (request_screenshot_with_sid
\* compares sids).
CaptureIsFresh ==
  exit = 0 => file.picture.version >= since

ShowsRegion(p, request) ==
  LET size == ScreenSizes[p.version]
  IN  /\ p.x + p.w <= size.w /\ p.y + p.h <= size.h
      /\ IF request.region = <<>>
         THEN [x |-> p.x, y |-> p.y, w |-> p.w, h |-> p.h]
                = [x |-> 0, y |-> 0, w |-> size.w, h |-> size.h]
         ELSE [x |-> p.x, y |-> p.y, w |-> p.w, h |-> p.h] = request.region[1]

\* A successful capture shows the rectangle the user wrote, and the whole of it
\* lies on the screen: the cast to u32, checked_add and the comparison of
\* crop_image let no negative or overflowing coordinate through.  Without a
\* region it is the whole screen.
CaptureShowsRegion == exit = 0 => ShowsRegion(file.picture, asked)

\* The inductive invariant: a response on the way that carries the sid awaited
\* shows the screen after the start; the picture in hand is as it should be.
IInv ==
  /\ TypeOK
  /\ pc \in {"request", "wait", "respond", "reconnect"} =>
       /\ asked \in Requests
       /\ asked.region # <<>> => RegionParses(asked.region[1])
  /\ pc = "wait" =>
       \A i \in DOMAIN wire :
         wire[i].sid = sid /\ wire[i].version # 0 => wire[i].version >= since
  /\ pc = "respond" => picture.version >= since /\ ShowsRegion(picture, asked)
  /\ CaptureIsFresh
  /\ CaptureShowsRegion

\* The bytes in the file are the bytes the encoder produced in the daemon: the
\* base64 of capture.rs loses and adds nothing, whatever the length is modulo 3.
HandoffIsExact ==
  exit = 0 => file.bytes = file.encoded

\* A capture ends although the peer may never answer: the timeout covers each
\* of its at most two requests, so it succeeds, or fails with an exit code.
CaptureReturns == exit = None /\ asked # None ~> exit # None
=============================================================================
