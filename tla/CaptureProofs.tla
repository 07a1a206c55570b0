--------------------------- MODULE CaptureProofs ---------------------------
(***************************************************************************)
(* Proofs of the safety properties of Capture, for every width of the      *)
(* integers, any screens and regions, and any number of captures, and that *)
(* the bytes written are the bytes encoded, whatever they are.             *)
(***************************************************************************)
EXTENDS Capture, WellFoundedInduction, TLAPS

-----------------------------------------------------------------------------
(* Sequences.                                                              *)

LEMMA ElementOfSeq ==
  ASSUME NEW S, NEW seq \in Seq(S), NEW n \in 1 .. Len(seq)
  PROVE  seq[n] \in S
  OBVIOUS

LEMMA EmptySeq ==
  ASSUME NEW S
  PROVE  /\ <<>> \in Seq(S) /\ Len(<<>>) = 0
         /\ \A seq \in Seq(S) : seq # <<>> => Len(seq) \in Nat \ {0}
  OBVIOUS

LEMMA LenProperties ==
  ASSUME NEW S, NEW seq \in Seq(S)
  PROVE  Len(seq) \in Nat /\ seq \in [1 .. Len(seq) -> S] /\ DOMAIN seq = 1 .. Len(seq)
  OBVIOUS

LEMMA HeadTailProperties ==
  ASSUME NEW S, NEW s \in Seq(S), s # <<>>
  PROVE  /\ Head(s) \in S /\ Tail(s) \in Seq(S) /\ Len(Tail(s)) = Len(s) - 1
         /\ \A i \in 1 .. Len(Tail(s)) : Tail(s)[i] = s[i + 1]
  OBVIOUS

\* The cast keeps what is not negative, and makes the rest too large.
LEMMA Cast ==
  ASSUME NEW i \in I32
  PROVE  /\ i >= 0 => AsU32(i) = i
         /\ i < 0 => AsU32(i) >= U32 \div 2
         /\ AsU32(i) \in 0..U32 - 1
<1>1. U32 \in Nat /\ U32 > 0 /\ U32 \div 2 \in Nat /\ U32 = 2 * (U32 \div 2)
  BY CaptureAssumption
<1>2. i \in Int /\ -(U32 \div 2) <= i /\ i < U32 \div 2
  BY <1>1 DEF I32
<1>3. CASE i >= 0
  <2>1. i % U32 = i
    BY <1>1, <1>2, <1>3
  <2> QED
    BY <1>1, <1>2, <1>3, <2>1 DEF AsU32
<1>4. CASE i < 0
  <2>1. i % U32 = i + U32
    BY <1>1, <1>2, <1>4
  <2> QED
    BY <1>1, <1>2, <1>4, <2>1 DEF AsU32
<1> QED
  BY <1>2, <1>3, <1>4

\* One axis of crop_image: what fits on the screen was not negative.
LEMMA AxisFits ==
  ASSUME NEW x \in I32, NEW w \in I32, w > 0, NEW limit \in Size,
         Fits(AsU32(x), AsU32(w), limit)
  PROVE  /\ AsU32(x) = x /\ AsU32(w) = w
         /\ x \in 0..U32 - 1 /\ w \in 0..U32 - 1 /\ x + w <= limit
<1>1. U32 \in Nat /\ U32 > 0 /\ U32 \div 2 \in Nat /\ U32 = 2 * (U32 \div 2)
  BY CaptureAssumption
<1>2. x \in Int /\ w \in Int /\ limit \in Nat /\ limit < U32 \div 2 /\ x < U32 \div 2 /\ w < U32 \div 2
  BY <1>1 DEF I32, Size
<1>3. AsU32(w) = w /\ AsU32(x) \in 0..U32 - 1 /\ (x >= 0 => AsU32(x) = x) /\ (x < 0 => AsU32(x) >= U32 \div 2)
  BY <1>2, Cast
<1>4. AsU32(x) + w <= limit
  <2>1. checked_add(AsU32(x), AsU32(w)) = <<AsU32(x) + AsU32(w)>>
    BY Zenon DEF Fits, checked_add
  <2> QED
    BY <1>3, <2>1 DEF Fits
<1> HIDE DEF AsU32
<1> QED
  BY <1>1, <1>2, <1>3, <1>4

\* The screens the peer may show.
LEMMA ScreenFacts ==
  ASSUME NEW v \in DOMAIN ScreenSizes
  PROVE  /\ v \in Nat /\ v # 0
         /\ ScreenSizes[v].w \in Size /\ ScreenSizes[v].h \in Size
         /\ Size \subseteq 0..U32 - 1
<1>1. DOMAIN ScreenSizes = 1..Len(ScreenSizes) /\ ScreenSizes[v] \in [w : Size, h : Size]
  BY Zenon, CaptureAssumption, LenProperties, ElementOfSeq
<1> QED
  BY <1>1, CaptureAssumption DEF Size

\* A picture that process_screenshot_bytes returns is the region the user asked
\* for, and lies on the screen.
LEMMA ProcessedShowsRegion ==
  ASSUME NEW v \in {0} \cup DOMAIN ScreenSizes, NEW request \in Requests,
         request.region # <<>> => RegionParses(request.region[1]),
         process_screenshot_bytes(v, request) # <<>>
  PROVE  LET p == process_screenshot_bytes(v, request)[1]
         IN  p \in Pictures /\ p.version = v /\ v # 0 /\ ShowsRegion(p, request)
<1> DEFINE p == process_screenshot_bytes(v, request)[1]
           s == Screenshot(v)
<1>1. v # 0 /\ v \in DOMAIN ScreenSizes
  BY Zenon DEF process_screenshot_bytes
<1>2. /\ s \in Pictures /\ s.version = v /\ s.x = 0 /\ s.y = 0
      /\ s.w = ScreenSizes[v].w /\ s.h = ScreenSizes[v].h /\ s.w \in Size /\ s.h \in Size
  <2>1. ScreenSizes[v].w \in Size /\ ScreenSizes[v].h \in Size /\ 0 \in 0..U32 - 1
    BY <1>1, ScreenFacts, CaptureAssumption
  <2>2. ScreenSizes[v].w \in 0..U32 - 1 /\ ScreenSizes[v].h \in 0..U32 - 1
    BY Zenon, <1>1, <2>1, ScreenFacts
  <2> QED
    BY ZenonT(60), <1>1, <2>1, <2>2 DEF Screenshot, Pictures
<1>3. \A q \in Pictures : LET e == encode_image(q, request.format)
                          IN  e \in Pictures /\ e.version = q.version /\ e.x = q.x /\ e.y = q.y /\ e.w = q.w /\ e.h = q.h
  BY ZenonT(60) DEF encode_image, Pictures
<1>4. CASE request.region = <<>>
  <2>1. p = encode_image(s, request.format)
    BY ZenonT(60), <1>1, <1>4 DEF process_screenshot_bytes
  <2> HIDE DEF p, s
  <2>2. p \in Pictures /\ p.version = v /\ p.x = 0 /\ p.y = 0 /\ p.w = ScreenSizes[v].w /\ p.h = ScreenSizes[v].h
    BY ZenonT(60), <1>2, <1>3, <2>1
  <2>3. ShowsRegion(p, request)
    <3>1. 0 + p.w <= ScreenSizes[v].w /\ 0 + p.h <= ScreenSizes[v].h
      <4>1. \A n \in Size : 0 + n <= n
        BY CaptureAssumption DEF Size
      <4> QED
        BY ZenonT(60), <1>2, <2>2, <4>1
    <3> QED
      BY ZenonT(60), <1>4, <2>2, <3>1 DEF ShowsRegion
  <2> QED
    BY ZenonT(60), <1>1, <2>2, <2>3 DEF p
<1>5. CASE request.region # <<>>
  <2> DEFINE r == request.region[1]
             c == to_capture_region(r)
  <2>1. r \in Region /\ r.w > 0 /\ r.h > 0
    BY <1>5, CaptureAssumption, EmptySeq, ElementOfSeq DEF RegionParses
  <2>2. c.x = AsU32(r.x) /\ c.y = AsU32(r.y) /\ c.w = AsU32(r.w) /\ c.h = AsU32(r.h)
    BY Zenon DEF to_capture_region
  <2>3. crop_image(s, c) # <<>> /\ p = encode_image(crop_image(s, c)[1], request.format)
    BY ZenonT(60), <1>1, <1>5 DEF process_screenshot_bytes
  <2> HIDE DEF p, s, c, r
  <2>4. Fits(c.x, c.w, s.w) /\ Fits(c.y, c.h, s.h)
    BY ZenonT(60), <2>3 DEF crop_image
  <2>5. /\ c.x = r.x /\ c.w = r.w /\ r.x \in 0..U32 - 1 /\ r.w \in 0..U32 - 1 /\ r.x + r.w <= s.w
        /\ c.y = r.y /\ c.h = r.h /\ r.y \in 0..U32 - 1 /\ r.h \in 0..U32 - 1 /\ r.y + r.h <= s.h
    BY <1>2, <2>1, <2>2, <2>4, AxisFits DEF Region
  <2> DEFINE q == [s EXCEPT !.x = @ + c.x, !.y = @ + c.y, !.w = c.w, !.h = c.h]
  <2>6. crop_image(s, c) = <<q>>
    BY Zenon, <2>4 DEF crop_image
  <2>7. q \in Pictures /\ q.version = v /\ q.x = r.x /\ q.y = r.y /\ q.w = r.w /\ q.h = r.h
    <3>1. s.x + c.x = r.x /\ s.y + c.y = r.y
      BY <1>2, <2>5
    <3>2. q = [s EXCEPT !.x = r.x, !.y = r.y, !.w = r.w, !.h = r.h]
      BY Zenon, <2>5, <3>1
    <3> HIDE DEF q
    <3> QED
      BY Zenon, <1>2, <2>5, <3>2 DEF Pictures
  <2> HIDE DEF q
  <2>8. p \in Pictures /\ p.version = v /\ p.x = r.x /\ p.y = r.y /\ p.w = r.w /\ p.h = r.h
    BY <1>3, <2>3, <2>6, <2>7
  <2>9. [x |-> p.x, y |-> p.y, w |-> p.w, h |-> p.h] = r
    BY Zenon, <2>1, <2>8 DEF Region
  <2>10. ShowsRegion(p, request)
    BY ZenonT(60), <1>2, <1>5, <2>5, <2>8, <2>9 DEF ShowsRegion, r
  <2> QED
    BY ZenonT(60), <1>1, <2>8, <2>10 DEF p
<1> QED
  BY Zenon, <1>4, <1>5
-----------------------------------------------------------------------------
(* The inductive invariant.                                                *)

LEMMA InitIInv == Init => IInv
<1> SUFFICES ASSUME Init PROVE IInv
  BY ZenonT(60)
<1>1. 1 \in DOMAIN ScreenSizes
  BY CaptureAssumption, EmptySeq, LenProperties
<1>2. TypeOK
  BY <1>1, CaptureAssumption DEF Init, TypeOK
<1> QED
  BY ZenonT(60), <1>2, CaptureAssumption DEF Init, IInv, CaptureIsFresh, CaptureShowsRegion

\* The types, without the arithmetic of the messages.
LEMMA Types ==
  ASSUME IInv
  PROVE  /\ screen \in DOMAIN ScreenSizes /\ screen \in Nat /\ screen # 0
         /\ since \in 1..screen /\ since \in Nat /\ since <= screen
         /\ sid \in Nat /\ pending \subseteq 1..sid
         /\ wire \in Seq(Responses)
         /\ \A i \in DOMAIN wire : wire[i] \in Responses /\ wire[i].sid \in Nat /\ wire[i].sid <= sid
<1>1. /\ screen \in DOMAIN ScreenSizes /\ since \in 1..screen /\ sid \in Nat /\ pending \subseteq 1..sid
      /\ wire \in Seq(Responses) /\ \A i \in DOMAIN wire : wire[i].sid <= sid
  BY Zenon DEF IInv, TypeOK
<1>2. screen \in Nat /\ screen # 0
  BY ZenonT(60), <1>1, ScreenFacts
<1>3. since \in Nat /\ since <= screen
  BY <1>1, <1>2
<1>4. \A i \in DOMAIN wire : wire[i] \in Responses /\ wire[i].sid \in Nat
  <2>1. \A i \in DOMAIN wire : wire[i] \in Responses
    BY ZenonT(60), <1>1, LenProperties, ElementOfSeq
  <2> QED
    BY Zenon, <2>1 DEF Responses
<1> QED
  BY Zenon, <1>1, <1>2, <1>3, <1>4

\* Messages of the peer carry the screen as it is, and no later sid.
LEMMA PeerKeeps ==
  ASSUME IInv, Peer
  PROVE  IInv'
<1>1. screen \in Nat /\ screen # 0 /\ since \in Nat /\ since <= screen
  BY ZenonT(60), Types
<1>2. ASSUME NEW m \in Responses, m.sid <= sid, m.version \in {0, screen}, wire' = Append(wire, m),
             pending' \subseteq pending,
             UNCHANGED <<pc, frontVars, run, sid, picture, health, screen>>
      PROVE  IInv'
  <2>1. /\ wire' \in Seq(Responses) /\ DOMAIN wire = 1..Len(wire) /\ DOMAIN wire' = 1..Len(wire) + 1
        /\ Len(wire) \in Nat /\ wire'[Len(wire) + 1] = m
        /\ \A i \in 1..Len(wire) : wire'[i] = wire[i]
    <3>1. wire \in Seq(Responses)
      BY Zenon DEF IInv, TypeOK
    <3> QED
      BY <1>2, <3>1, LenProperties
  <2>2. \A i \in DOMAIN wire' : wire'[i] = m \/ (i \in DOMAIN wire /\ wire'[i] = wire[i])
    BY <2>1
  <2>3. TypeOK'
    BY Zenon, <1>2, <2>1, <2>2 DEF IInv, TypeOK, frontVars
  <2>4. (pc = "wait" => \A i \in DOMAIN wire :
           wire[i].sid = sid /\ wire[i].version # 0 => wire[i].version >= since)'
    BY ZenonT(60), <1>1, <1>2, <2>2 DEF IInv, frontVars
  <2> QED
    BY ZenonT(60), <1>2, <2>3, <2>4 DEF IInv, frontVars, CaptureIsFresh, CaptureShowsRegion
<1>3. CASE PeerAnswers
  <2>1. PICK s \in pending : \E answer \in Answers(s) :
            /\ wire' = Append(wire, answer)
            /\ pending' = pending \ {s}
            /\ UNCHANGED <<pc, frontVars, run, sid, picture, health, screen>>
    BY ZenonT(60), <1>3 DEF PeerAnswers
  <2>2. s \in Nat /\ s <= sid
    BY Types
  <2>3. \A answer \in Answers(s) : answer \in Responses /\ answer.sid <= sid /\ answer.version \in {0, screen}
    <3> SUFFICES ASSUME NEW answer \in Answers(s)
                 PROVE  answer \in Responses /\ answer.sid <= sid /\ answer.version \in {0, screen}
      BY ZenonT(60)
    <3>1. screen \in {0} \cup DOMAIN ScreenSizes /\ 0 \in {0} \cup DOMAIN ScreenSizes
      BY ZenonT(60), Types
    <3>2. PICK msg \in {"", "lost", "error"}, v \in {0, screen} :
              answer = [sid |-> s, msg |-> msg, version |-> v]
      BY Zenon DEF Answers
    <3> QED
      BY Zenon, <2>2, <3>1, <3>2 DEF Responses
  <2> QED
    BY ZenonT(60), <1>2, <2>1, <2>3
<1>4. CASE PeerSendsOther
  <2>1. Other \in Responses /\ Other.sid <= sid /\ Other.version = 0
    <3>1. Other \in Responses /\ Other.sid = 0 /\ Other.version = 0
      BY ZenonT(60) DEF Other, Responses
    <3> QED
      BY <3>1, Types
  <2> QED
    BY ZenonT(60), <1>2, <1>4, <2>1 DEF PeerSendsOther
<1>5. CASE ScreenChanges
  <2>1. screen' \in DOMAIN ScreenSizes /\ screen' = screen + 1
    BY <1>1, <1>5, CaptureAssumption, LenProperties DEF ScreenChanges
  <2>2. TypeOK'
    <3>1. since' \in 1..screen'
      BY <1>1, <1>5, <2>1, Types DEF ScreenChanges, frontVars
    <3> QED
      BY Zenon, <1>5, <2>1, <3>1 DEF ScreenChanges, IInv, TypeOK, frontVars
  <2> QED
    BY ZenonT(60), <1>5, <2>2 DEF ScreenChanges, IInv, frontVars, CaptureIsFresh, CaptureShowsRegion
<1>6. CASE StreamBreaks
  BY ZenonT(60), <1>6 DEF StreamBreaks, IInv, TypeOK, frontVars, peerVars, CaptureIsFresh, CaptureShowsRegion
<1> QED
  BY ZenonT(60), <1>3, <1>4, <1>5, <1>6 DEF Peer

LEMMA InvokeKeeps ==
  ASSUME IInv, NEW request \in Requests, Invoke(request)
  PROVE  IInv'
<1>1. exit' \in {None, 3} /\ exit' # 0 /\ since' = screen /\ asked' = request
  BY CaptureAssumption DEF Invoke
<1>2. screen \in Nat /\ screen # 0
  BY ZenonT(60), Types
<1>3. pc' \in {"idle", "request"} /\ (pc' = "request" => (request.region # <<>> => RegionParses(request.region[1])))
  BY Zenon DEF Invoke
<1>4. TypeOK'
  <2>1. since' \in 1..screen' /\ screen' = screen
    BY <1>1, <1>2 DEF Invoke, peerVars
  <2>2. captures' \in 0..MaxCaptures
    BY CaptureAssumption DEF Invoke, IInv, TypeOK
  <2>3. run' = 1 /\ 1 \in 1..2 /\ UNCHANGED <<sid, picture, health, pending, wire, screen>>
    BY DEF Invoke, peerVars
  <2>4. TypeOK
    BY Zenon DEF IInv
  <2> QED
    BY Zenon, <1>1, <1>3, <2>1, <2>2, <2>3, <2>4 DEF TypeOK
<1> QED
  BY Zenon, <1>1, <1>3, <1>4 DEF IInv, CaptureIsFresh, CaptureShowsRegion

\* A failed run leaves the front end alone, or ends it with code 1.
LEMMA FailKeeps ==
  ASSUME IInv, NEW class, Fail(class), pc \in {"request", "wait"},
         UNCHANGED <<run, picture, screen>>, sid' \in Nat, sid <= sid', pending' = pending,
         health' \in {"up", "desynced", "broken"},
         wire' = wire \/ (wire # <<>> /\ wire' = Tail(wire))
  PROVE  IInv'
<1>1. pc' \in {"reconnect", "idle"} /\ UNCHANGED <<asked, file, captures, since>> /\ (exit' = exit \/ exit' = 1)
  BY ZenonT(60) DEF Fail, Refuse, frontVars
<1>2. wire' \in Seq(Responses) /\ \A i \in DOMAIN wire' : wire'[i].sid <= sid'
  <2>1. wire \in Seq(Responses) /\ sid \in Nat /\ \A i \in DOMAIN wire : wire[i].sid \in Nat /\ wire[i].sid <= sid
    BY ZenonT(60), Types
  <2>2. CASE wire' = wire
    BY <2>1, <2>2
  <2>3. CASE wire # <<>> /\ wire' = Tail(wire)
    <3>1. wire' \in Seq(Responses) /\ \A i \in DOMAIN wire' : i + 1 \in DOMAIN wire /\ wire'[i] = wire[i + 1]
      BY <2>1, <2>3, HeadTailProperties, LenProperties
    <3> QED
      BY SMTT(60), <2>1, <3>1
  <2> QED
    BY ZenonT(60), <2>2, <2>3
<1>3. pending' \subseteq 1..sid'
  <2>1. pending \subseteq 1..sid /\ sid \in Nat
    BY Zenon, Types
  <2> QED
    BY <2>1
<1>4. TypeOK'
  BY Zenon, <1>1, <1>2, <1>3 DEF IInv, TypeOK
<1>5. CaptureIsFresh' /\ CaptureShowsRegion'
  BY <1>1 DEF IInv, CaptureIsFresh, CaptureShowsRegion
<1> QED
  BY Zenon, <1>1, <1>4, <1>5 DEF IInv

\* No response to a fresh sid is on the way yet.
LEMMA SendKeeps ==
  ASSUME IInv, SendRequest
  PROVE  IInv'
<1>1. sid \in Nat /\ sid' = sid + 1 /\ UNCHANGED <<run, picture, health, wire, screen>> /\ pc = "request"
  BY ZenonT(60), Types DEF SendRequest
<1>2. CASE health = "broken"
  <2>1. Fail("lost") /\ pending' = pending /\ health \in {"up", "desynced", "broken"}
    BY ZenonT(60), <1>2 DEF SendRequest
  <2> QED
    BY <1>1, <2>1, FailKeeps
<1>3. CASE health # "broken"
  <2>1. pc' = "wait" /\ pending' = pending \cup {sid'} /\ UNCHANGED <<asked, exit, file, captures, since>>
    BY ZenonT(60), <1>3 DEF SendRequest, frontVars
  <2>2. pending' \subseteq 1..sid'
    BY <1>1, <2>1, Types
  <2>3. \A i \in DOMAIN wire' : wire'[i].sid <= sid' /\ wire'[i].sid # sid'
    BY <1>1, Types
  <2>4. TypeOK'
    BY <1>1, <2>1, <2>2, <2>3 DEF IInv, TypeOK
  <2> QED
    BY ZenonT(60), <1>1, <2>1, <2>3, <2>4 DEF IInv, CaptureIsFresh, CaptureShowsRegion
<1> QED
  BY ZenonT(60), <1>2, <1>3

\* The first message and the ones behind it.
LEMMA WireTail ==
  ASSUME IInv, wire # <<>>, wire' = Tail(wire)
  PROVE  /\ Head(wire) \in Responses /\ Head(wire) = wire[1] /\ 1 \in DOMAIN wire
         /\ wire' \in Seq(Responses)
         /\ \A i \in DOMAIN wire' : i + 1 \in DOMAIN wire /\ wire'[i] = wire[i + 1]
         /\ \A i \in DOMAIN wire' : wire'[i].sid <= sid
<1>1. wire \in Seq(Responses)
  BY Zenon, Types
<1>2. /\ Head(wire) \in Responses /\ Head(wire) = wire[1] /\ 1 \in DOMAIN wire
      /\ wire' \in Seq(Responses)
      /\ \A i \in DOMAIN wire' : i + 1 \in DOMAIN wire /\ wire'[i] = wire[i + 1]
  BY <1>1, HeadTailProperties, LenProperties, EmptySeq
<1> QED
  BY Zenon, <1>2, Types

LEMMA RecvKeeps ==
  ASSUME IInv, Recv
  PROVE  IInv'
<1> DEFINE m == Head(wire)
<1>1. /\ pc = "wait" /\ wire # <<>> /\ wire' = Tail(wire) /\ Received(m) /\ health = "up"
      /\ UNCHANGED <<run, sid, health, pending, screen>>
  BY Zenon DEF Recv
<1>2. /\ m \in Responses /\ m = wire[1] /\ 1 \in DOMAIN wire /\ wire' \in Seq(Responses)
      /\ \A i \in DOMAIN wire' : i + 1 \in DOMAIN wire /\ wire'[i] = wire[i + 1]
      /\ \A i \in DOMAIN wire' : wire'[i].sid <= sid
  BY ZenonT(60), <1>1, WireTail
<1> HIDE DEF m
<1>3. ASSUME UNCHANGED <<pc, asked, exit, file, captures, since, picture>>
      PROVE  IInv'
  <2>1. TypeOK'
    BY ZenonT(60), <1>1, <1>2, <1>3 DEF IInv, TypeOK
  <2>2. (\A i \in DOMAIN wire : wire[i].sid = sid /\ wire[i].version # 0 => wire[i].version >= since)'
    BY ZenonT(60), <1>1, <1>2, <1>3 DEF IInv
  <2> QED
    BY ZenonT(60), <1>1, <1>3, <2>1, <2>2 DEF IInv, CaptureIsFresh, CaptureShowsRegion
<1>4. ASSUME NEW class, Fail(class), picture' = picture
      PROVE  IInv'
  <2>1. sid' \in Nat /\ sid <= sid'
    BY <1>1, Types
  <2> QED
    BY ZenonT(60), <1>1, <1>4, <2>1, FailKeeps
<1>5. CASE ~IsOurs(m)
  BY ZenonT(60), <1>1, <1>3, <1>5 DEF Received, frontVars
<1>6. CASE IsOurs(m) /\ m.msg # ""
  BY Zenon, <1>1, <1>4, <1>6 DEF Received
<1>7. CASE IsOurs(m) /\ m.msg = ""
  <2> DEFINE processed == process_screenshot_bytes(m.version, asked)
  <2>1. CASE processed = <<>>
    BY Zenon, <1>1, <1>4, <1>7, <2>1 DEF Received
  <2>2. CASE processed # <<>>
    <3>1. pc' = "respond" /\ picture' = processed[1] /\ UNCHANGED <<asked, exit, file, captures, since>>
      BY Zenon, <1>1, <1>7, <2>2 DEF Received, frontVars
    <3>2. /\ asked \in Requests /\ (asked.region # <<>> => RegionParses(asked.region[1]))
          /\ m.version \in {0} \cup DOMAIN ScreenSizes
      BY Zenon, <1>1, <1>2 DEF IInv, Responses
    <3>3. processed[1] \in Pictures /\ processed[1].version = m.version /\ m.version # 0 /\ ShowsRegion(processed[1], asked)
      BY Zenon, <2>2, <3>2, ProcessedShowsRegion
    <3> HIDE DEF processed
    <3>4. m.version >= since
      BY Zenon, <1>1, <1>2, <1>7, <3>3 DEF IInv, IsOurs
    <3>5. TypeOK'
      BY ZenonT(60), <1>1, <1>2, <3>1, <3>3 DEF IInv, TypeOK
    <3> QED
      BY SMTT(30), <1>1, <3>1, <3>2, <3>3, <3>4, <3>5 DEF IInv, CaptureIsFresh, CaptureShowsRegion
  <2> QED
    BY ZenonT(60), <2>1, <2>2
<1> QED
  BY Zenon, <1>5, <1>6, <1>7

LEMMA LostKeeps ==
  ASSUME IInv, RecvFails \/ TimesOut
  PROVE  IInv'
<1>1. /\ pc = "wait" /\ Fail("lost") /\ UNCHANGED <<run, sid, picture, pending, wire, screen>>
      /\ health' \in {health, "desynced"}
  BY ZenonT(60) DEF RecvFails, TimesOut, peerVars
<1>2. sid' \in Nat /\ sid <= sid' /\ health' \in {"up", "desynced", "broken"}
  <2>1. sid \in Nat /\ health \in {"up", "desynced", "broken"}
    BY Zenon, Types DEF IInv, TypeOK
  <2> QED
    BY <1>1, <2>1
<1> QED
  BY ZenonT(60), <1>1, <1>2, FailKeeps

LEMMA IdleKeeps ==
  ASSUME IInv, IdleRecv \/ IdleRecvFails
  PROVE  IInv'
<1>1. CASE IdleRecv
  <2>1. wire' \in Seq(Responses) /\ \A i \in DOMAIN wire' : wire'[i].sid <= sid
    BY ZenonT(60), <1>1, WireTail DEF IdleRecv
  <2>2. TypeOK'
    BY ZenonT(60), <1>1, <2>1 DEF IdleRecv, IInv, TypeOK, frontVars
  <2> QED
    BY ZenonT(60), <1>1, <2>2 DEF IdleRecv, IInv, frontVars, CaptureIsFresh, CaptureShowsRegion
<1>2. CASE IdleRecvFails
  BY Zenon, <1>2 DEF IdleRecvFails, IInv, TypeOK, frontVars, peerVars, CaptureIsFresh, CaptureShowsRegion
<1> QED
  BY ZenonT(60), <1>1, <1>2

LEMMA ReconnectKeeps ==
  ASSUME IInv, ReconnectSucceeds \/ ReconnectFails
  PROVE  IInv'
<1>1. CASE ReconnectSucceeds
  <2>1. /\ health' = "up" /\ wire' = <<>> /\ pending' = {} /\ run' \in {2, run}
        /\ UNCHANGED <<asked, exit, file, captures, since, sid, picture, screen>>
        /\ (pc = "reconnect" /\ pc' = "request") \/ pc' = "idle"
    BY Zenon, <1>1 DEF ReconnectSucceeds, frontVars
  <2>2. TypeOK'
    <3>1. wire' \in Seq(Responses) /\ DOMAIN wire' = {}
      BY <2>1, EmptySeq, LenProperties
    <3>2. run' \in 1..2
      <4>1. run \in 1..2
        BY Zenon DEF IInv, TypeOK
      <4> QED
        BY <2>1, <4>1
    <3>3. pending' \subseteq 1..sid'
      BY ZenonT(60), <2>1
    <3>4. pc' \in {"idle", "request"}
      BY ZenonT(60), <2>1
    <3>5. TypeOK
      BY ZenonT(60) DEF IInv
    <3> QED
      BY Zenon, <2>1, <3>1, <3>2, <3>3, <3>4, <3>5 DEF TypeOK
  <2> QED
    BY ZenonT(60), <2>1, <2>2 DEF IInv, CaptureIsFresh, CaptureShowsRegion
<1>2. CASE ReconnectFails
  <2>1. /\ pc' = "exited" /\ exit' \in {exit, 1}
        /\ UNCHANGED <<asked, file, captures, since, run, sid, picture, health, pending, wire, screen>>
    BY Zenon, <1>2 DEF ReconnectFails, Refuse, frontVars, peerVars
  <2>2. TypeOK'
    BY Zenon, <2>1 DEF IInv, TypeOK
  <2> QED
    BY <2>1, <2>2 DEF IInv, CaptureIsFresh, CaptureShowsRegion
<1> QED
  BY Zenon, <1>1, <1>2

LEMMA DeliverKeeps ==
  ASSUME IInv, Deliver
  PROVE  IInv'
<1>1. /\ pc = "respond" /\ pc' = "idle"
      /\ UNCHANGED <<asked, captures, since, run, sid, picture, health, pending, wire, screen>>
      /\ (exit' = 0 /\ file'.picture = picture) \/ (exit' = 1 /\ file' = file)
  <2>1. PICK bytes \in Encodings :
           \/ \E b : file' = [picture |-> picture, encoded |-> bytes, bytes |-> b] /\ exit' = 0
           \/ exit' = 1 /\ UNCHANGED file
    BY ZenonT(60) DEF Deliver
  <2> QED
    BY <2>1 DEF Deliver, peerVars
<1>2. TypeOK'
  BY ZenonT(60), <1>1 DEF IInv, TypeOK
<1>3. CaptureIsFresh' /\ CaptureShowsRegion'
  BY <1>1 DEF IInv, CaptureIsFresh, CaptureShowsRegion
<1> QED
  BY ZenonT(60), <1>1, <1>2, <1>3 DEF IInv

-----------------------------------------------------------------------------
(* base64: the bytes that cross the socket are the bytes of the encoder.   *)

LEMMA SeqEqual ==
  ASSUME NEW S, NEW s \in Seq(S), NEW t \in Seq(S), Len(s) = Len(t), \A i \in 1..Len(s) : s[i] = t[i]
  PROVE  s = t
  OBVIOUS

LEMMA SubSeqProperties ==
  ASSUME NEW S, NEW s, NEW m \in Int, NEW n \in Int, \A i \in m .. n : s[i] \in S
  PROVE  /\ SubSeq(s, m, n) \in Seq(S)
         /\ Len(SubSeq(s, m, n)) = IF m <= n THEN n - m + 1 ELSE 0
         /\ \A i \in 1 .. n - m + 1 : SubSeq(s, m, n)[i] = s[m + i - 1]
  OBVIOUS

\* A subset of Nat that is not empty has a least element.
LEMMA Least ==
  ASSUME NEW S, S \subseteq Nat, S # {}
  PROVE  \E x \in S : \A y \in S : x <= y
<1>1. \E x \in S : \A y \in S : <<y, x>> \notin OpToRel(<, Nat)
  BY Zenon, NatLessThanWellFounded, WFMin
<1>2. PICK x \in S : \A y \in S : <<y, x>> \notin OpToRel(<, Nat)
  BY Zenon, <1>1
<1>3. \A y \in S : ~(y < x)
  BY Zenon, <1>2 DEF OpToRel
<1> QED
  BY <1>3


\* A function on 1..n.
Listed(s, n) == s = [i \in 1..n |-> s[i]]

\* How the output of a loop over pieces grows determines what it is in the end.
Grows(prefix, pieces, n) ==
  /\ Len(pieces) = n /\ prefix = [i \in 0..n |-> prefix[i]]
  /\ prefix[0] = <<>> /\ \A i \in 1..n : prefix[i] = prefix[i - 1] \o pieces[i]

LEMMA PushedIs ==
  ASSUME NEW n \in Nat, NEW pieces, NEW prefix, Grows(prefix, pieces, n)
  PROVE  Pushed(pieces) = prefix[n]
<1> DEFINE Step(h) == [i \in 0..n |-> IF i = 0 THEN <<>> ELSE h[i - 1] \o pieces[i]]
           f == CHOOSE g : g = Step(g)
<1>0. /\ Len(pieces) = n /\ prefix[0] = <<>> /\ \A i \in 1..n : prefix[i] = prefix[i - 1] \o pieces[i]
  BY Zenon DEF Grows
<1>1. Pushed(pieces) = f[n]
  BY Zenon, <1>0 DEF Pushed
<1>2. prefix = Step(prefix)
  <2>1. \A i \in 0..n : prefix[i] = IF i = 0 THEN <<>> ELSE prefix[i - 1] \o pieces[i]
    <3> SUFFICES ASSUME NEW i \in 0..n, i # 0 PROVE prefix[i] = prefix[i - 1] \o pieces[i]
      BY Zenon, <1>0
    <3>1. i \in 1..n
      BY SMT
    <3> QED
      BY Zenon, <1>0, <3>1
  <2> QED
    BY Zenon, <2>1 DEF Grows
<1>3. f = Step(f)
  BY Zenon, <1>2
<1>4. \A i \in 0..n : f[i] = IF i = 0 THEN <<>> ELSE f[i - 1] \o pieces[i]
  BY Zenon, <1>3
<1> HIDE DEF f
<1> DEFINE Wrong == {i \in 0..n : f[i] # prefix[i]}
<1>5. ASSUME Wrong # {} PROVE FALSE
  <2>1. Wrong \subseteq Nat
    BY SMT
  <2>2. PICK i \in Wrong : \A k \in Wrong : i <= k
    BY Zenon, <1>5, <2>1, Least
  <2>3. CASE i = 0
    BY Zenon, <1>0, <1>4, <2>2, <2>3
  <2>4. CASE i # 0
    <3>1. i \in 1..n /\ i \in 0..n /\ i - 1 \in 0..n /\ ~(i <= i - 1)
      BY SMT, <2>2, <2>4
    <3>2. f[i - 1] = prefix[i - 1]
      BY Zenon, <2>2, <3>1
    <3>3. f[i] = f[i - 1] \o pieces[i]
      BY Zenon, <1>4, <2>4, <3>1
    <3>4. f[i] = prefix[i]
      BY Zenon, <1>0, <3>1, <3>2, <3>3
    <3> QED
      BY Zenon, <2>2, <3>4
  <2> QED
    BY Zenon, <2>3, <2>4
<1>6. n \in 0..n
  BY SMT
<1> QED
  BY Zenon, <1>1, <1>5, <1>6

LEMMA Joined ==
  ASSUME NEW S, NEW x \in Seq(S), NEW a \in 0..Len(x), NEW b \in a..Len(x)
  PROVE  SubSeq(x, 1, a) \o SubSeq(x, a + 1, b) = SubSeq(x, 1, b)
<1> DEFINE u == SubSeq(x, 1, a)
           v == SubSeq(x, a + 1, b)
           w == SubSeq(x, 1, b)
<1>1. a \in Nat /\ b \in Nat /\ a <= b /\ Len(x) \in Nat /\ b <= Len(x)
  OBVIOUS
<1>2. \A i \in 1..b : x[i] \in S
  BY <1>1
<1>3. u \in Seq(S) /\ Len(u) = a /\ \A i \in 1..a : u[i] = x[i]
  <2>1. \A i \in 1..a : x[i] \in S
    BY <1>1, <1>2
  <2> QED
    BY <1>1, <2>1, SubSeqProperties
<1>4. v \in Seq(S) /\ Len(v) = b - a /\ \A i \in 1..b - a : v[i] = x[a + i]
  <2>1. \A i \in a + 1..b : x[i] \in S
    BY <1>1, <1>2
  <2>2. /\ v \in Seq(S) /\ Len(v) = IF a + 1 <= b THEN b - (a + 1) + 1 ELSE 0
        /\ \A i \in 1..b - (a + 1) + 1 : v[i] = x[(a + 1) + i - 1]
    BY SMTT(60), <1>1, <2>1, SubSeqProperties
  <2>3. /\ (IF a + 1 <= b THEN b - (a + 1) + 1 ELSE 0) = b - a /\ b - (a + 1) + 1 = b - a
        /\ \A i \in 1..b - a : (a + 1) + i - 1 = a + i
    BY <1>1
  <2> HIDE DEF v
  <2> QED
    BY <2>2, <2>3
<1>5. w \in Seq(S) /\ Len(w) = b /\ \A i \in 1..b : w[i] = x[i]
  BY <1>1, <1>2, SubSeqProperties
<1> HIDE DEF u, v, w
<1>6. /\ u \o v \in Seq(S) /\ Len(u \o v) = b
      /\ \A i \in 1..b : (u \o v)[i] = IF i <= a THEN u[i] ELSE v[i - a]
  BY <1>1, <1>3, <1>4
<1>7. ASSUME NEW i \in 1..b PROVE (u \o v)[i] = w[i]
  <2>1. CASE i <= a
    BY <1>3, <1>5, <1>6, <2>1
  <2>2. CASE ~(i <= a)
    <3>1. i - a \in 1..b - a /\ a + (i - a) = i
      BY <1>1, <2>2
    <3> QED
      BY Zenon, <1>4, <1>5, <1>6, <2>2, <3>1
  <2> QED
    BY Zenon, <2>1, <2>2
<1>8. u \o v = w
  <2> DEFINE y == u \o v
  <2>1. y \in Seq(S) /\ Len(y) = Len(w) /\ \A i \in 1..Len(y) : y[i] = w[i]
    BY Zenon, <1>5, <1>6, <1>7
  <2> HIDE DEF y
  <2>2. y = w
    BY ZenonT(60), <1>5, <2>1, SeqEqual
  <2> QED
    BY Zenon, <2>2 DEF y
<1> QED
  BY <1>8 DEF u, v, w

\* The chunks of a sequence, put together again.
LEMMA ChunksJoined ==
  ASSUME NEW S, NEW x \in Seq(S)
  PROVE  Pushed(chunks(x, 3)) = x
<1> DEFINE n == Len(x)
           m == (n + 2) \div 3
           End(g) == IF 3 * g <= n THEN 3 * g ELSE n
           pieces == chunks(x, 3)
           prefix == [g \in 0..m |-> SubSeq(x, 1, End(g))]
<1>1. n \in Nat /\ m \in Nat /\ 3 * m >= n /\ (m > 0 => 3 * (m - 1) < n)
  BY SMT
<1>2. pieces = [g \in 1..m |-> SubSeq(x, 3 * (g - 1) + 1, End(g))]
  <2>1. n + 3 - 1 = n + 2
    BY SMT, <1>1
  <2> QED
    BY Zenon, <2>1 DEF chunks
<1> HIDE DEF pieces, m
<1>3. Len(pieces) = m
  BY SMT, <1>1, <1>2
<1>4. ASSUME NEW g \in 1..m PROVE prefix[g] = prefix[g - 1] \o pieces[g]
  <2>1. g \in 0..m /\ g - 1 \in 0..m /\ End(g - 1) = 3 * (g - 1)
    BY SMT, <1>1
  <2>2. 3 * (g - 1) \in 0..n /\ End(g) \in 3 * (g - 1)..n
    BY SMT, <1>1
  <2>3. SubSeq(x, 1, 3 * (g - 1)) \o SubSeq(x, 3 * (g - 1) + 1, End(g)) = SubSeq(x, 1, End(g))
    BY Zenon, <2>2, Joined
  <2>4. pieces[g] = SubSeq(x, 3 * (g - 1) + 1, End(g))
    BY Zenon, <1>2
  <2> HIDE DEF End
  <2>5. prefix[g] = SubSeq(x, 1, End(g)) /\ prefix[g - 1] = SubSeq(x, 1, End(g - 1))
    BY Zenon, <2>1
  <2> QED
    BY Zenon, <2>1, <2>3, <2>4, <2>5
<1>5. prefix[0] = <<>>
  <2>1. 0 \in 0..m /\ End(0) = 0
    BY SMT, <1>1
  <2>2. SubSeq(x, 1, 0) = <<>>
    BY SMT
  <2> HIDE DEF End
  <2> QED
    BY Zenon, <2>1, <2>2
<1>6. prefix[m] = x
  <2>1. End(m) = n /\ m \in 0..m
    BY SMT, <1>1
  <2>2. SubSeq(x, 1, n) = x
    BY SMT, <1>1
  <2> QED
    BY Zenon, <2>1, <2>2
<1>7. prefix = [g \in 0..m |-> prefix[g]]
  BY Zenon
<1> HIDE DEF prefix
<1>8. Grows(prefix, pieces, m)
  BY Zenon, <1>3, <1>4, <1>5, <1>7 DEF Grows
<1>9. Pushed(pieces) = prefix[m]
  BY Zenon, <1>1, <1>8, PushedIs
<1> QED
  BY Zenon, <1>6, <1>9 DEF pieces

LEMMA FourSeq ==
  ASSUME NEW S, NEW v \in [1..4 -> S]
  PROVE  v \in Seq(S) /\ Len(v) = 4
<1> DEFINE n == 4
<1>1. n \in Nat /\ v \in [1..n -> S]
  OBVIOUS
<1> HIDE DEF n
<1>2. v \in Seq(S) /\ Len(v) = n
  BY <1>1
<1> QED
  BY <1>2 DEF n

LEMMA JoinedAt ==
  ASSUME NEW S, NEW u \in Seq(S), NEW v \in Seq(S)
  PROVE  /\ u \o v \in Seq(S) /\ Len(u \o v) = Len(u) + Len(v)
         /\ \A k \in 1..Len(u) + Len(v) : (u \o v)[k] = IF k <= Len(u) THEN u[k] ELSE v[k - Len(u)]
  OBVIOUS

\* The chunks of what was put together from fours.
LEMMA FoursFound ==
  ASSUME NEW S, NEW m \in Nat, NEW e, Listed(e, m), \A g \in 1..m : e[g] \in [1..4 -> S]
  PROVE  Len(Pushed(e)) = 4 * m /\ chunks(Pushed(e), 4) = e
<1> DEFINE At(k) == e[(k - 1) \div 4 + 1][((k - 1) % 4) + 1]
           prefix == [g \in 0..m |-> [k \in 1..4 * g |-> At(k)]]
           F == Pushed(e)
<1>1. Len(e) = m /\ \A g \in 1..m : e[g] \in Seq(S) /\ Len(e[g]) = 4
  <2>1. Len(e) = m
    BY SMT DEF Listed
  <2>2. \A g \in 1..m : e[g] \in Seq(S) /\ Len(e[g]) = 4
    BY Zenon, FourSeq
  <2> QED
    BY Zenon, <2>1, <2>2
<1>2. \A k \in 1..4 * m : (k - 1) \div 4 + 1 \in 1..m /\ ((k - 1) % 4) + 1 \in 1..4
  OBVIOUS
<1>3. \A k \in 1..4 * m : At(k) \in S
  BY Zenon, <1>2
<1> HIDE DEF At
<1>4. ASSUME NEW g \in 0..m PROVE /\ prefix[g] \in Seq(S) /\ Len(prefix[g]) = 4 * g
                                  /\ \A k \in 1..4 * g : prefix[g][k] = At(k)
  <2>1. prefix[g] = [k \in 1..4 * g |-> At(k)]
    BY Zenon
  <2>2. \A k \in 1..4 * g : At(k) \in S
    BY <1>3
  <2> HIDE DEF prefix
  <2> QED
    BY SMT, <2>1, <2>2
<1>5. ASSUME NEW g \in 1..m, NEW i \in 1..4 PROVE At(4 * (g - 1) + i) = e[g][i]
  <2>1. (4 * (g - 1) + i - 1) \div 4 + 1 = g /\ ((4 * (g - 1) + i - 1) % 4) + 1 = i
    OBVIOUS
  <2> QED
    BY SMT, <2>1 DEF At
<1>6. ASSUME NEW g \in 1..m PROVE prefix[g] = prefix[g - 1] \o e[g]
  <2>1. g \in 0..m /\ g - 1 \in 0..m /\ 4 * g = 4 * (g - 1) + 4
    OBVIOUS
  <2>2. /\ prefix[g] \in Seq(S) /\ Len(prefix[g]) = 4 * (g - 1) + 4
        /\ \A k \in 1..4 * (g - 1) + 4 : prefix[g][k] = At(k)
    BY Zenon, <1>4, <2>1
  <2>3. /\ prefix[g - 1] \in Seq(S) /\ Len(prefix[g - 1]) = 4 * (g - 1)
        /\ \A k \in 1..4 * (g - 1) : prefix[g - 1][k] = At(k)
    BY Zenon, <1>4, <2>1
  <2>4. e[g] \in Seq(S) /\ Len(e[g]) = 4 /\ \A i \in 1..4 : e[g][i] = At(4 * (g - 1) + i)
    BY Zenon, <1>1, <1>5, <2>1
  <2> HIDE DEF prefix
  <2> DEFINE u == prefix[g - 1]
             v == e[g]
             w == prefix[g]
             a == 4 * (g - 1)
  <2>5. a \in Nat
    BY <2>1
  <2>6. /\ w \in Seq(S) /\ Len(w) = a + 4 /\ \A k \in 1..a + 4 : w[k] = At(k)
        /\ u \in Seq(S) /\ Len(u) = a /\ \A k \in 1..a : u[k] = At(k)
        /\ v \in Seq(S) /\ Len(v) = 4 /\ \A i \in 1..4 : v[i] = At(a + i)
    BY Zenon, <2>2, <2>3, <2>4
  <2> HIDE DEF u, v, w, a
  <2>7. /\ u \o v \in Seq(S) /\ Len(u \o v) = a + 4
        /\ \A k \in 1..a + 4 : (u \o v)[k] = IF k <= a THEN u[k] ELSE v[k - a]
    <3>1. u \in Seq(S) /\ v \in Seq(S)
      BY Zenon, <2>6
    <3>2. /\ u \o v \in Seq(S) /\ Len(u \o v) = Len(u) + Len(v)
          /\ \A k \in 1..Len(u) + Len(v) : (u \o v)[k] = IF k <= Len(u) THEN u[k] ELSE v[k - Len(u)]
      BY Zenon, <3>1, JoinedAt
    <3> QED
      BY Zenon, <2>6, <3>2
  <2>8. ASSUME NEW k \in 1..a + 4 PROVE (u \o v)[k] = w[k]
    <3>1. k <= a => k \in 1..a
      BY SMT, <2>5
    <3>2. ~(k <= a) => k - a \in 1..4 /\ a + (k - a) = k
      BY SMT, <2>5
    <3> QED
      BY Zenon, <2>6, <2>7, <3>1, <3>2
  <2>9. w = u \o v
    BY SMTT(60), <2>5, <2>6, <2>7, <2>8
  <2> QED
    BY Zenon, <2>9 DEF u, v, w
<1>7. prefix[0] = <<>>
  <2>1. 0 \in 0..m
    BY SMT
  <2>2. prefix[0] \in Seq(S) /\ Len(prefix[0]) = 4 * 0
    BY Zenon, <1>4, <2>1
  <2> HIDE DEF prefix
  <2> QED
    BY SMT, <2>2
<1>8. prefix = [g \in 0..m |-> prefix[g]]
  BY Zenon
<1>9. F = prefix[m]
  <2> HIDE DEF prefix
  <2>1. Grows(prefix, e, m)
    BY Zenon, <1>1, <1>6, <1>7, <1>8 DEF Grows
  <2> QED
    BY Zenon, <2>1, PushedIs
<1> HIDE DEF prefix, F
<1>10. F \in Seq(S) /\ Len(F) = 4 * m /\ \A k \in 1..4 * m : F[k] = At(k)
  <2>1. m \in 0..m
    BY SMT
  <2> QED
    BY Zenon, <1>4, <1>9, <2>1
<1>11. (4 * m + 4 - 1) \div 4 = m
  BY SMT
<1>12. chunks(F, 4) = [g \in 1..m |-> SubSeq(F, 4 * (g - 1) + 1, IF 4 * g <= 4 * m THEN 4 * g ELSE 4 * m)]
  BY Zenon, <1>10, <1>11 DEF chunks
<1>13. ASSUME NEW g \in 1..m
       PROVE  SubSeq(F, 4 * (g - 1) + 1, IF 4 * g <= 4 * m THEN 4 * g ELSE 4 * m) = e[g]
  <2> DEFINE a == 4 * (g - 1)
             b == 4 * g
             s == SubSeq(F, a + 1, b)
  <2>1. a \in Nat /\ b = a + 4 /\ b <= 4 * m /\ b \in Nat /\ g \in 1..m
    OBVIOUS
  <2>2. \A i \in 1..4 : At(a + i) = e[g][i]
    BY Zenon, <1>5
  <2> HIDE DEF a, b
  <2>3. \A i \in a + 1..b : F[i] \in S
    <3>1. \A i \in a + 1..b : i \in 1..4 * m
      BY SMT, <2>1
    <3> QED
      BY Zenon, <1>3, <1>10, <3>1
  <2>4. /\ s \in Seq(S) /\ Len(s) = IF a + 1 <= b THEN b - (a + 1) + 1 ELSE 0
        /\ \A i \in 1..b - (a + 1) + 1 : s[i] = F[(a + 1) + i - 1]
    BY SMT, <2>1, <2>3, SubSeqProperties
  <2>5. /\ (IF a + 1 <= b THEN b - (a + 1) + 1 ELSE 0) = 4 /\ b - (a + 1) + 1 = 4
        /\ \A i \in 1..4 : (a + 1) + i - 1 = a + i /\ a + i \in 1..4 * m
    BY SMT, <2>1
  <2> HIDE DEF s
  <2>6. s \in Seq(S) /\ Len(s) = 4 /\ \A i \in 1..4 : s[i] = e[g][i]
    BY ZenonT(60), <1>10, <2>2, <2>4, <2>5
  <2>7. e[g] \in Seq(S) /\ Len(e[g]) = 4
    BY Zenon, <1>1, <2>1
  <2> DEFINE v == e[g]
  <2>8. v \in Seq(S) /\ Len(v) = 4 /\ \A i \in 1..4 : s[i] = v[i]
    BY Zenon, <2>6, <2>7
  <2> HIDE DEF v
  <2>9. s = v
    BY SMTT(60), <2>6, <2>8
  <2>10. s = e[g]
    BY Zenon, <2>9 DEF v
  <2> QED
    BY Zenon, <2>1, <2>10 DEF s, a, b
<1>14. chunks(F, 4) = [g \in 1..m |-> e[g]]
  BY Zenon, <1>12, <1>13
<1>15. chunks(F, 4) = e
  BY Zenon, <1>14 DEF Listed
<1> QED
  BY Zenon, <1>10, <1>15 DEF F

LEMMA Split4 ==
  ASSUME NEW x \in 0..255
  PROVE  x \div 4 \in 0..63 /\ x % 4 \in 0..3 /\ x = 4 * (x \div 4) + (x % 4)
  OBVIOUS

LEMMA Split16 ==
  ASSUME NEW y \in 0..255
  PROVE  y \div 16 \in 0..15 /\ y % 16 \in 0..15 /\ y = 16 * (y \div 16) + (y % 16)
  OBVIOUS

LEMMA Split64 ==
  ASSUME NEW z \in 0..255
  PROVE  z \div 64 \in 0..3 /\ z % 64 \in 0..63 /\ z = 64 * (z \div 64) + (z % 64)
  OBVIOUS

\* Six bits at a time and eight bits at a time are the same bits.
Six == 0..63

SixBits(w, x, y, z) ==
  w[1] = x \div 4 /\ w[2] = (x % 4) * 16 + y \div 16 /\ w[3] = (y % 16) * 4 + z \div 64 /\ w[4] = z % 64

LEMMA Unpacked ==
  ASSUME NEW x \in Byte, NEW y \in Byte, NEW z \in Byte, NEW w, SixBits(w, x, y, z)
  PROVE  /\ Octets(Packed(w)) = <<x, y, z>>
         /\ w[1] \in Six /\ w[2] \in Six /\ w[3] \in Six /\ w[4] \in Six
<1> USE DEF Byte
<1> DEFINE a == x \div 4
           b == x % 4
           c == y \div 16
           d == y % 16
           e == z \div 64
           f == z % 64
<1>1. a \in 0..63 /\ b \in 0..3 /\ x = 4 * a + b
  BY SMT, Split4
<1>2. c \in 0..15 /\ d \in 0..15 /\ y = 16 * c + d
  BY SMT, Split16
<1>3. e \in 0..3 /\ f \in 0..63 /\ z = 64 * e + f
  BY SMT, Split64
<1>4. w[1] = a /\ w[2] = b * 16 + c /\ w[3] = d * 4 + e /\ w[4] = f
  BY SMT DEF SixBits
<1> HIDE DEF a, b, c, d, e, f
<1>5. a * 262144 + (b * 16 + c) * 4096 + (d * 4 + e) * 64 + f = x * 65536 + y * 256 + z
  BY ONLY <1>1, <1>2, <1>3, SMTT(30)
<1>6. Packed(w) = x * 65536 + y * 256 + z
  BY SMT, <1>4, <1>5 DEF Packed
<1>7. b * 16 + c \in 0..63 /\ d * 4 + e \in 0..63
  BY SMT, <1>1, <1>2, <1>3
<1> DEFINE n == Packed(w)
<1>8. n = x * 65536 + y * 256 + z
  BY SMT, <1>6
<1> HIDE DEF n
<1>9. (n \div 65536) % 256 = x /\ (n \div 256) % 256 = y /\ n % 256 = z
  <2>1. n \div 65536 = x
    BY SMT, <1>8
  <2>2. n \div 256 = x * 256 + y
    BY SMT, <1>8
  <2>3. (n \div 256) % 256 = y
    BY SMT, <2>2
  <2>4. n % 256 = z
    BY SMT, <1>8
  <2> QED
    BY SMT, <2>1, <2>3, <2>4
<1>10. Octets(n) = <<x, y, z>>
  BY SMT, <1>9 DEF Octets
<1>11. w[1] \in 0..63 /\ w[2] \in 0..63 /\ w[3] \in 0..63 /\ w[4] \in 0..63
  BY SMT, <1>1, <1>3, <1>4, <1>7
<1> QED
  BY SMT, <1>10, <1>11 DEF n, Six

\* Every value has a character of its own, and none of them is the padding.
LEMMA Characters ==
  ASSUME NEW v \in Six
  PROVE  ALPHABET(v) \in Nat /\ ALPHABET(v) # Pad /\ val(ALPHABET(v)) = v
<1> USE DEF Six
<1>1. CASE v < 26
  <2>1. ALPHABET(v) = 65 + v
    BY <1>1 DEF ALPHABET
  <2> QED
    BY <1>1, <2>1 DEF val, Pad
<1>2. CASE v \in 26..51
  <2>1. ALPHABET(v) = 97 + (v - 26)
    BY <1>2 DEF ALPHABET
  <2> QED
    BY <1>2, <2>1 DEF val, Pad
<1>3. CASE v \in 52..61
  <2>1. ALPHABET(v) = 48 + (v - 52)
    BY <1>3 DEF ALPHABET
  <2> QED
    BY <1>3, <2>1 DEF val, Pad
<1>4. CASE v = 62 \/ v = 63
  <2>1. ALPHABET(v) = IF v = 62 THEN 43 ELSE 47
    BY <1>4 DEF ALPHABET
  <2> QED
    BY <1>4, <2>1 DEF val, Pad
<1> QED
  BY <1>1, <1>2, <1>3, <1>4

\* What base64_decode makes of the four characters of a chunk is the chunk.
LEMMA ChunkDecoded ==
  ASSUME NEW c \in Seq(Byte), Len(c) \in 1..3
  PROVE  DecodeChunk(EncodeChunk(c)) = <<c>>
<1> DEFINE x == c[1]
           y == IF Len(c) > 1 THEN c[2] ELSE 0
           z == IF Len(c) > 2 THEN c[3] ELSE 0
           v == Sextets(x, y, z)
           E == EncodeChunk(c)
           w == [i \in 1..4 |-> IF i > 2 /\ E[i] = Pad THEN 0 ELSE val(E[i])]
           pad == IF E[4] # Pad THEN 0 ELSE IF E[3] # Pad THEN 1 ELSE 2
<1>0. \A i \in 1..4 : i = 1 \/ i = 2 \/ i = 3 \/ i = 4
  OBVIOUS
<1>1. x \in Byte /\ y \in Byte /\ z \in Byte
  <2>1. \A i \in 1..Len(c) : c[i] \in Byte
    BY SMT
  <2> QED
    <3>1. 0 \in Byte /\ 1 \in 1..Len(c) /\ (Len(c) > 1 => 2 \in 1..Len(c)) /\ (Len(c) > 2 => 3 \in 1..Len(c))
      BY SMT DEF Byte
    <3> QED
      BY Zenon, <2>1, <3>1
<1>2. E = [i \in 1..4 |-> IF Len(c) < i - 1 THEN Pad ELSE ALPHABET(v[i])]
  BY SMT DEF EncodeChunk
<1>3. Len(c) <= 1 => y = 0 /\ z = 0
  BY SMT
<1>4. Len(c) <= 2 => z = 0
  BY SMT
<1>5. c = SubSeq(<<x, y, z>>, 1, Len(c))
  BY SMT
<1>6. DecodeChunk(E) = IF \E i \in 1..4 : w[i] < 0 THEN <<>> ELSE <<SubSeq(Octets(Packed(w)), 1, 3 - pad)>>
  BY Zenon DEF DecodeChunk
<1> HIDE DEF x, y, z, E
<1>7. SixBits(v, x, y, z)
  BY SMT DEF SixBits, Sextets
<1> HIDE DEF v
<1>8. /\ Octets(Packed(v)) = <<x, y, z>>
      /\ v[1] \in Six /\ v[2] \in Six /\ v[3] \in Six /\ v[4] \in Six
  BY SMT, <1>1, <1>7, Unpacked
<1>9. Len(c) <= 1 => v[3] = 0 /\ v[4] = 0
  BY SMT, <1>3, <1>7 DEF SixBits
<1>10. Len(c) <= 2 => v[4] = 0
  BY SMT, <1>4, <1>7 DEF SixBits
<1>11. \A i \in 1..4 : val(ALPHABET(v[i])) = v[i] /\ ALPHABET(v[i]) # Pad /\ v[i] \in Six
  <2>1. \A i \in 1..4 : v[i] \in Six
    BY SMT, <1>0, <1>8
  <2> QED
    BY <2>1, Characters
<1>12. /\ E[1] = ALPHABET(v[1]) /\ E[2] = ALPHABET(v[2])
       /\ E[3] = IF Len(c) < 2 THEN Pad ELSE ALPHABET(v[3])
       /\ E[4] = IF Len(c) < 3 THEN Pad ELSE ALPHABET(v[4])
  <2>1. \A i \in 1..4 : E[i] = IF Len(c) < i - 1 THEN Pad ELSE ALPHABET(v[i])
    BY Zenon, <1>2
  <2>2. /\ ~(Len(c) < 1 - 1) /\ ~(Len(c) < 2 - 1) /\ 3 - 1 = 2 /\ 4 - 1 = 3
        /\ 1 \in 1..4 /\ 2 \in 1..4 /\ 3 \in 1..4 /\ 4 \in 1..4
    BY SMTT(60)
  <2> QED
    BY Zenon, <2>1, <2>2
<1>13. w[1] = v[1] /\ w[2] = v[2] /\ w[3] = v[3] /\ w[4] = v[4]
  BY SMT, <1>9, <1>10, <1>11, <1>12
<1>14. 3 - pad = Len(c)
  <2>1. ALPHABET(v[3]) # Pad /\ ALPHABET(v[4]) # Pad
    BY SMT, <1>11
  <2>2. CASE Len(c) = 1
    BY SMT, <1>12, <2>1, <2>2
  <2>3. CASE Len(c) = 2
    BY SMT, <1>12, <2>1, <2>3
  <2>4. CASE Len(c) = 3
    BY SMT, <1>12, <2>1, <2>4
  <2> QED
    BY SMT, <2>2, <2>3, <2>4
<1> HIDE DEF w, pad
<1>15. Packed(w) = Packed(v)
  BY SMT, <1>13 DEF Packed
<1>16. ~ \E i \in 1..4 : w[i] < 0
  <2>1. \A s \in Six : ~(s < 0)
    BY SMT DEF Six
  <2>2. \A i \in 1..4 : w[i] \in Six
    BY SMT, <1>0, <1>8, <1>13
  <2> QED
    BY Zenon, <2>1, <2>2
<1> QED
  BY Zenon, <1>5, <1>6, <1>8, <1>14, <1>15, <1>16 DEF E

\* base64_decode inverts base64_encode, whatever the length is modulo 3.
THEOREM Base64RoundTrip ==
  ASSUME NEW x \in Seq(Byte)
  PROVE  base64_decode(base64_encode(x)) = <<x>>
<1> DEFINE n == Len(x)
           m == (n + 3 - 1) \div 3
           groups == chunks(x, 3)
           e == [g \in DOMAIN groups |-> EncodeChunk(groups[g])]
           S == {e[g][i] : g \in 1..m, i \in 1..4}
           E == Pushed(e)
           decoded == [g \in DOMAIN chunks(E, 4) |-> DecodeChunk(chunks(E, 4)[g])]
           pieces == [g \in DOMAIN chunks(E, 4) |-> decoded[g][1]]
<1>1. n \in Nat /\ m \in Nat /\ (m > 0 => 3 * (m - 1) < n)
  OBVIOUS
<1>2. groups = [g \in 1..m |-> SubSeq(x, 3 * (g - 1) + 1, IF 3 * g <= n THEN 3 * g ELSE n)]
  BY Zenon DEF chunks
<1>3. DOMAIN groups = 1..m
  BY Zenon, <1>2
<1>4. base64_encode(x) = E
  BY Zenon DEF base64_encode
<1>5. base64_decode(E) = IF Len(E) % 4 # 0 \/ \E g \in DOMAIN chunks(E, 4) : decoded[g] = <<>>
                         THEN <<>> ELSE <<Pushed(pieces)>>
  BY Zenon DEF base64_decode
<1> HIDE DEF m, n, groups
<1>6. ASSUME NEW g \in 1..m PROVE groups[g] \in Seq(Byte) /\ Len(groups[g]) \in 1..3
  <2> DEFINE a == 3 * (g - 1) + 1
             b == IF 3 * g <= n THEN 3 * g ELSE n
  <2>1. groups[g] = SubSeq(x, a, b)
    BY Zenon, <1>2
  <2>2. a \in Nat /\ b \in Nat /\ a >= 1 /\ a <= b /\ b <= n /\ b - a + 1 \in 1..3
    BY SMT, <1>1
  <2> HIDE DEF a, b
  <2>3. \A i \in a..b : x[i] \in Byte
    <3>1. \A i \in 1..n : x[i] \in Byte
      BY DEF n
    <3> QED
      BY SMT, <1>1, <2>2, <3>1
  <2> QED
    BY SMT, <2>1, <2>2, <2>3, SubSeqProperties
<1>7. e = [g \in 1..m |-> EncodeChunk(groups[g])]
  BY Zenon, <1>3
<1> HIDE DEF e
<1>8. \A g \in 1..m : e[g] = EncodeChunk(groups[g])
  BY Zenon, <1>7
<1>9. Listed(e, m)
  BY Zenon, <1>7 DEF Listed
<1>10. ASSUME NEW g \in 1..m PROVE e[g] \in [1..4 -> S]
  <2>1. PICK F : e[g] = [i \in 1..4 |-> F[i]]
    <3>1. \E F : EncodeChunk(groups[g]) = [i \in 1..4 |-> F[i]]
      <4>1. EncodeChunk(groups[g]) = [i \in 1..4 |-> EncodeChunk(groups[g])[i]]
        BY Zenon DEF EncodeChunk
      <4> QED
        BY Zenon, <4>1
    <3> QED
      BY Zenon, <1>8, <3>1
  <2>2. \A i \in 1..4 : e[g][i] \in S
    BY SMT
  <2> HIDE DEF S
  <2>3. \A i \in 1..4 : e[g][i] = F[i]
    BY Zenon, <2>1
  <2> QED
    BY Zenon, <2>1, <2>2, <2>3
<1>11. Len(E) = 4 * m /\ chunks(E, 4) = e
  <2> HIDE DEF S
  <2>1. \A g \in 1..m : e[g] \in [1..4 -> S]
    BY Zenon, <1>10
  <2> QED
    BY Zenon, <1>1, <1>9, <2>1, FoursFound
<1>12. Len(E) % 4 = 0
  BY SMT, <1>1, <1>11
<1>13. DOMAIN chunks(E, 4) = 1..m
  BY Zenon, <1>7, <1>11
<1>14. \A g \in 1..m : decoded[g] = <<groups[g]>>
  BY Zenon, <1>6, <1>8, <1>11, <1>13, ChunkDecoded
<1> HIDE DEF decoded, E
<1>15. \A g \in 1..m : decoded[g] # <<>> /\ decoded[g][1] = groups[g]
  BY SMT, <1>14
<1>16. pieces = [g \in 1..m |-> groups[g]]
  BY Zenon, <1>13, <1>15
<1>17. pieces = groups
  BY Zenon, <1>2, <1>16
<1>18. Pushed(groups) = x
  BY Zenon, ChunksJoined DEF groups
<1> HIDE DEF pieces
<1> QED
  BY Zenon, <1>4, <1>5, <1>12, <1>13, <1>15, <1>17, <1>18

\* Whatever the daemon encoded is what the front end decodes.
LEMMA DeliverIsExact ==
  ASSUME Deliver
  PROVE  (exit' = 0 /\ file'.bytes = file'.encoded) \/ exit' = 1
<1>1. PICK bytes \in Encodings :
         \/ /\ file' = [picture |-> picture, encoded |-> bytes, bytes |-> base64_decode(base64_encode(bytes))[1]]
            /\ exit' = 0
         \/ exit' = 1
  BY ZenonT(60) DEF Deliver
<1>2. bytes \in Seq(Byte)
  BY Zenon, CaptureAssumption
<1>3. base64_decode(base64_encode(bytes))[1] = bytes
  <2>1. base64_decode(base64_encode(bytes)) = <<bytes>>
    BY Zenon, <1>2, Base64RoundTrip
  <2>2. <<bytes>>[1] = bytes
    BY SMT
  <2> QED
    BY Zenon, <2>1, <2>2
<1>4. CASE file' = [picture |-> picture, encoded |-> bytes, bytes |-> bytes]
  <2>1. file'.bytes = bytes /\ file'.encoded = bytes
    BY Zenon, <1>4
  <2> QED
    BY Zenon, <1>1, <2>1
<1> QED
  BY Zenon, <1>1, <1>3, <1>4

\* All other steps leave the result alone, or set an exit code that is no success.
LEMMA OthersHandNothingOver ==
  ASSUME [Next]_vars, ~Deliver
  PROVE  UNCHANGED <<exit, file>> \/ exit' \in {None, 1, 3}
<1>1. CASE Peer
  BY ZenonT(60), <1>1 DEF Peer, PeerAnswers, PeerSendsOther, ScreenChanges, StreamBreaks, frontVars
<1>2. CASE \E request \in Requests : Invoke(request)
  BY ZenonT(60), <1>2 DEF Invoke
<1>3. ASSUME NEW class, Fail(class) PROVE UNCHANGED <<exit, file>> \/ exit' \in {None, 1, 3}
  BY ZenonT(60), <1>3 DEF Fail, Refuse, frontVars
<1>4. CASE SendRequest \/ RecvFails \/ TimesOut
  BY ZenonT(60), <1>3, <1>4 DEF SendRequest, RecvFails, TimesOut, frontVars
<1>5. CASE Recv
  BY ZenonT(60), <1>3, <1>5 DEF Recv, Received, frontVars
<1>6. CASE IdleRecv \/ IdleRecvFails \/ ReconnectSucceeds \/ ReconnectFails
  BY ZenonT(60), <1>6 DEF IdleRecv, IdleRecvFails, ReconnectSucceeds, ReconnectFails, Refuse, frontVars
<1>7. CASE UNCHANGED vars
  BY ZenonT(60), <1>7 DEF vars, frontVars
<1> QED
  BY ZenonT(60), <1>1, <1>2, <1>4, <1>5, <1>6, <1>7 DEF Next, Daemon

-----------------------------------------------------------------------------
(* Theorems.                                                               *)

\* The invariant holds in every state, whatever the peer and the stream do.
THEOREM Invariance == Spec => []IInv
<1>1. IInv /\ [Next]_vars => IInv'
  <2> SUFFICES ASSUME IInv, [Next]_vars PROVE IInv'
    BY ZenonT(60)
  <2>1. CASE Peer \/ \E request \in Requests : Invoke(request)
    BY ZenonT(60), <2>1, PeerKeeps, InvokeKeeps
  <2>2. CASE Daemon
    BY SMTT(30), <2>2, SendKeeps, RecvKeeps, LostKeeps, IdleKeeps, ReconnectKeeps, DeliverKeeps DEF Daemon
  <2>3. CASE UNCHANGED vars
    BY ZenonT(60), <2>3 DEF vars, frontVars, peerVars, IInv, TypeOK, CaptureIsFresh, CaptureShowsRegion
  <2> QED
    BY ZenonT(60), <2>1, <2>2, <2>3 DEF Next
<1> QED
  BY <1>1, InitIInv, PTL DEF Spec

\* The state of a capture has its types in every state.
THEOREM TypeCorrect == Spec => []TypeOK
<1>1. IInv => TypeOK
  BY Zenon DEF IInv
<1> QED
  BY <1>1, Invariance, PTL

\* However responses are delayed, and whichever request they answer, a capture
\* never hands out a picture taken before it started: the sid that
\* request_screenshot_with_sid compares is fresh for each request.
THEOREM FreshCorrect == Spec => []CaptureIsFresh
<1>1. IInv => CaptureIsFresh
  BY Zenon DEF IInv
<1> QED
  BY <1>1, Invariance, PTL

\* For every width of the integers and every screen: what to_capture_region's
\* casts and crop_image let through is the rectangle the user wrote.
THEOREM RegionCorrect == Spec => []CaptureShowsRegion
<1>1. IInv => CaptureShowsRegion
  BY Zenon DEF IInv
<1> QED
  BY <1>1, Invariance, PTL

\* The file holds the bytes the encoder produced, for any bytes and any length:
\* base64_decode of the front end inverts base64_encode of the daemon, and no
\* other step touches a file that was written.
THEOREM HandoffCorrect == Spec => []HandoffIsExact
<1>1. Init => HandoffIsExact
  BY Zenon, CaptureAssumption DEF Init, HandoffIsExact
<1>2. HandoffIsExact /\ [Next]_vars => HandoffIsExact'
  <2> SUFFICES ASSUME HandoffIsExact, [Next]_vars PROVE HandoffIsExact'
    BY Zenon
  <2>1. CASE Deliver
    <3>1. 1 # 0
      OBVIOUS
    <3> QED
      BY Zenon, <2>1, <3>1, DeliverIsExact DEF HandoffIsExact
  <2>2. CASE ~Deliver
    <3>1. None # 0 /\ 1 # 0 /\ 3 # 0
      BY CaptureAssumption
    <3> QED
      BY Zenon, <2>2, <3>1, OthersHandNothingOver DEF HandoffIsExact
  <2> QED
    BY Zenon, <2>1, <2>2
<1> QED
  BY <1>1, <1>2, PTL DEF Spec

=============================================================================
