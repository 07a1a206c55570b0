--------------------------- MODULE DirectTerminal ---------------------------
(***************************************************************************)
(* A terminal on a connection of its own, without the daemon: direct_exec  *)
(* (src/main.rs), run_terminal_session (src/terminal.rs) and the text      *)
(* session (src/text_session.rs).                                          *)
(*                                                                         *)
(* Every wait for a response is a recv that a timeout, or a key typed at   *)
(* the session, may drop inside a frame; module EncryptedStream shows that *)
(* nothing is received from such a stream any more.  A response may be as  *)
(* late as it likes.  A terminal whose programs print without a pause is   *)
(* `noisy': a timeout that needs silence then never has to expire.         *)
(***************************************************************************)
EXTENDS TerminalOutput

CONSTANTS
    Modes,          \* some of "exec", "session", "text"
    Outputs,        \* what an exec may print (sequences of "x" and "n", newline)
    Codes,          \* its exit status (sequences of decimal digits)
    MaxInputs,      \* bound: chunks typed at a session, commands of a text session
    MaxChatter      \* bound: bytes a terminal prints on its own

ASSUME DirectAssumption ==
    /\ Modes \subseteq {"exec", "session", "text"}
    /\ Outputs \subseteq Seq({"x", "n"}) /\ Codes \subseteq Seq(Digits)
    /\ MaxInputs \in Nat /\ MaxChatter \in Nat

VARIABLES
    mode,           \* which of the three
    pc,             \* where it is
    tid,            \* the terminal it took for its own, 0 before
    collected,      \* bytes collected by an exec
    result,         \* what it returned
    shown,          \* bytes written to stdout, or returned by the text_execs so far
    erred,          \* a text_exec has returned an error
    typed,          \* chunks typed so far; the commands given to text_exec
    stdin,          \* chunks in the channel between the reader task and the session
    ended,          \* the reader task has seen the end of the input
    stream,         \* "up", "desynced" or "broken"
    did,            \* what the exec's command really did
    ran,            \* inputs that reached a terminal, in order
    printed,        \* bytes the terminals printed, but for those lost by a close
    toPeer, wire,   \* actions on their way to the peer, responses on their way back
    opened,         \* terminals open at the peer: 1 opened unasked, 2 asked for
    unasked,        \* the peer has opened a terminal right after the login
    chatter, noisy

clientVars == <<mode, pc, tid, collected, result, shown, erred>>
inputVars == <<typed, stdin, ended>>
peerVars == <<did, ran, printed, opened, unasked, chatter, noisy>>
vars == <<clientVars, inputVars, stream, toPeer, wire, peerVars>>

NoResult == [kind |-> "none", stdout |-> <<>>, code |-> <<>>, own |-> FALSE]

NotRun == [out |-> <<>>, code |-> <<>>]

Init ==
    /\ mode \in Modes
    /\ pc = "connecting" /\ tid = 0 /\ collected = <<>> /\ result = NoResult
    /\ shown = <<>> /\ erred = FALSE
    /\ typed = 0 /\ stdin = <<>> /\ ended = FALSE
    /\ stream = "up" /\ toPeer = <<>> /\ wire = <<>>
    /\ did = NotRun /\ ran = <<>> /\ printed = <<>> /\ opened = {}
    /\ unasked = FALSE /\ chatter = 0 /\ noisy = FALSE

-----------------------------------------------------------------------------
(* The peer's terminal service (external). *)

Action(t, input) == [type |-> t, id |-> tid, input |-> input]

Response(t, id) == <<[type |-> t, id |-> id, byte |-> [ch |-> "-", of |-> 0]]>>

Data(id, bytes) == [i \in DOMAIN bytes |-> [type |-> "data", id |-> id, byte |-> bytes[i]]]

PeerTakes(t) == toPeer # <<>> /\ Head(toPeer).type = t /\ toPeer' = Tail(toPeer)

Prints(id, bytes) == wire' = wire \o Data(id, bytes) /\ printed' = printed \o bytes

(* With a prompt or without. *)
Opens(id) ==
    \/ /\ opened' = opened \cup {id}
       /\ \E prompt \in {<<>>, <<"p">>} :
             /\ wire' = wire \o Response("opened", id) \o Data(id, By(0, prompt))
             /\ printed' = printed \o By(0, prompt)
    \/ wire' = wire \o Response("error", id) /\ UNCHANGED <<opened, printed>>

(* A login for terminals may be answered by a terminal at once. *)
PeerOpensUnasked ==
    /\ mode # "text" /\ pc \in {"probing", "opening"} /\ ~unasked
    /\ unasked' = TRUE
    /\ Opens(1)
    /\ UNCHANGED <<clientVars, inputVars, stream, toPeer, did, ran, chatter, noisy>>

PeerOpens ==
    /\ PeerTakes("open")
    /\ Opens(2)
    /\ UNCHANGED <<clientVars, inputVars, stream, did, ran, unasked, chatter, noisy>>

(* Input for a terminal that is gone is dropped. *)
PeerRuns ==
    /\ PeerTakes("data")
    /\ LET a == Head(toPeer)
       IN  IF a.id \notin opened
           THEN UNCHANGED <<did, ran, wire, printed>>
           ELSE /\ ran' = Append(ran, a.input)
                /\ IF mode = "exec"
                   THEN \E out \in Outputs, code \in Codes :
                          /\ did' = [out |-> By(1, out), code |-> By(1, code)]
                          /\ Prints(a.id, Transcript(1, [out |-> out, code |-> code]))
                   ELSE Prints(a.id, By(a.input, <<"e", "x">>)) /\ UNCHANGED did
    /\ UNCHANGED <<clientVars, inputVars, stream, opened, unasked, chatter, noisy>>

(* Output not yet sent is lost; the end may be announced or not. *)
PeerCloses ==
    /\ PeerTakes("close")
    /\ LET id == Head(toPeer).id
       IN  /\ opened' = opened \ {id}
           /\ \E n \in 0 .. Len(wire) :
                 /\ \A p \in n + 1 .. Len(wire) : wire[p].type = "data" /\ wire[p].id = id
                 /\ printed' = SubSeq(printed, 1, Len(printed) - (Len(wire) - n))
                 /\ \/ wire' = SubSeq(wire, 1, n)
                    \/ id \in opened /\ wire' = SubSeq(wire, 1, n) \o Response("closed", id)
    /\ UNCHANGED <<clientVars, inputVars, stream, did, ran, unasked, chatter, noisy>>

(* The terminal's shell exits, or its service fails. *)
PeerEnds ==
    /\ \E id \in opened, t \in {"closed", "error"} :
          opened' = opened \ {id} /\ wire' = wire \o Response(t, id)
    /\ noisy' = FALSE
    /\ UNCHANGED <<clientVars, inputVars, stream, toPeer, did, ran, printed, unasked, chatter>>

PeerChatters ==
    /\ chatter < MaxChatter
    /\ chatter' = chatter + 1
    /\ \E id \in opened : Prints(id, By(0, <<"b">>))
    /\ UNCHANGED <<clientVars, inputVars, stream, toPeer, did, ran, opened, unasked, noisy>>

(* What a noisy terminal prints beyond the bound is left out: it is drained,  *)
(* or adds to what is shown.                                                  *)
Noise ==
    /\ noisy' = ~noisy
    /\ noisy' => opened # {}
    /\ UNCHANGED <<clientVars, inputVars, stream, toPeer, wire, did, ran, printed, opened, unasked, chatter>>

StreamBreaks ==
    /\ stream = "up" /\ pc # "done"
    /\ stream' = "broken"
    /\ UNCHANGED <<clientVars, inputVars, toPeer, wire, peerVars>>

Peer ==
    /\ stream # "broken"
    /\ \/ PeerOpensUnasked \/ PeerOpens \/ PeerRuns \/ PeerCloses \/ PeerEnds
       \/ PeerChatters \/ Noise \/ StreamBreaks

-----------------------------------------------------------------------------
(* recv and send. *)

Next_is(t) == stream = "up" /\ wire # <<>> /\ Head(wire).type = t

Take == wire' = Tail(wire) /\ UNCHANGED <<stream, toPeer>>

(* A chunk of n bytes, with what has been put together so far. *)
Chunk(n) ==
    /\ stream = "up" /\ n <= Len(wire)
    /\ \A p \in 1 .. n : wire[p].type = "data"
    /\ wire' = SubSeq(wire, n + 1, Len(wire))
    /\ UNCHANGED stream

Received(n) == [p \in 1 .. n |-> wire[p].byte]

(* A recv is dropped: before its first byte, or inside a frame. *)
MutantDropRecv ==
    \/ UNCHANGED <<stream, wire>>
    \/ stream = "up" /\ wire # <<>> /\ wire' = Tail(wire) /\ UNCHANGED stream
DropRecv ==
    /\ \/ UNCHANGED stream
       \/ stream = "up" /\ stream' = "desynced"
    /\ UNCHANGED wire

(* A broken stream fails, one out of step fails or waits for ever. *)
RecvFails == stream # "up" /\ UNCHANGED <<stream, toPeer, wire>>

(* send_action; nothing is sent on a broken stream. *)
Send(a) == toPeer' = IF stream = "broken" THEN toPeer ELSE Append(toPeer, a)

CanSend == stream # "broken"

Return(r) ==
    /\ pc' = "done"
    /\ result' = r
    /\ UNCHANGED <<mode, tid, collected, shown, erred>>

Fail(why) == Return([NoResult EXCEPT !.kind = why])

Goto(p) == pc' = p /\ UNCHANGED <<mode, tid, collected, result, shown, erred>>

Keep == UNCHANGED <<inputVars, peerVars>>

-----------------------------------------------------------------------------
(* The connection (module Connect), and the terminal.                         *)

(* direct_exec and text_connect open a terminal, after an OptionMessage in    *)
(* the latter; connect_terminal waits for one first.                          *)
Connected ==
    /\ pc = "connecting"
    /\ IF mode = "session"
       THEN Goto("probing") /\ UNCHANGED toPeer
       ELSE IF CanSend THEN Goto("opening") /\ Send([type |-> "open", id |-> 2, input |-> 0])
                       ELSE Fail("error") /\ UNCHANGED toPeer
    /\ UNCHANGED <<stream, wire>> /\ Keep

ConnectFails ==
    /\ pc = "connecting"
    /\ Fail("error")
    /\ UNCHANGED <<stream, toPeer, wire>> /\ Keep

TakeOpened(next) ==
    /\ Next_is("opened")
    /\ tid' = Head(wire).id
    /\ pc' = next
    /\ Take /\ Keep
    /\ UNCHANGED <<mode, collected, result, shown, erred>>

Unexpected(types) == (\E t \in types : Next_is(t) /\ Take) \/ RecvFails

(* connect_terminal: the peer's own TerminalOpened within two seconds ... *)
ProbeOpened == pc = "probing" /\ TakeOpened("session")

ProbeFails ==
    /\ pc = "probing"
    /\ Unexpected({"data", "closed", "error"})
    /\ Fail("error") /\ Keep

(* ... or open_terminal.  It takes the next TerminalOpened, also one that was *)
(* late for the probe.                                                        *)
ProbeTimesOut ==
    /\ pc = "probing"
    /\ DropRecv
    /\ IF CanSend THEN Goto("opening") ELSE Fail("error")
    /\ Send([type |-> "open", id |-> 2, input |-> 0])
    /\ Keep

OpenSucceeds ==
    /\ pc = "opening"
    /\ TakeOpened(CASE mode = "exec" -> "draining" [] mode = "session" -> "session" [] mode = "text" -> "ready")

OpenFails ==
    /\ pc = "opening"
    /\ \/ Unexpected({"data", "closed", "error"})
       \/ DropRecv /\ UNCHANGED toPeer         \* OPEN_TERMINAL_TIMEOUT
    /\ Fail("error") /\ Keep

Open ==
    \/ Connected \/ ConnectFails
    \/ ProbeOpened \/ ProbeFails \/ ProbeTimesOut
    \/ OpenSucceeds \/ OpenFails

-----------------------------------------------------------------------------
(* direct_exec after the open. *)

CloseAction == Action("close", 0)

DrainData ==
    /\ pc = "draining"
    /\ Next_is("data")
    /\ Take /\ Keep
    /\ UNCHANGED clientVars

DrainClosed ==
    /\ pc = "draining"
    /\ Next_is("closed")
    /\ Take /\ Keep
    /\ Fail("closed")

(* An error, an Opened that nobody waits for any more, or no stream. *)
DrainFails ==
    /\ pc = "draining"
    /\ \/ (Next_is("error") \/ Next_is("opened")) /\ wire' = Tail(wire)
       \/ stream # "up" /\ UNCHANGED wire
    /\ Send(CloseAction)
    /\ Fail("error")
    /\ UNCHANGED stream /\ Keep

(* Half a second without a response: send the command. *)
MutantAwaitPrompt ==
    /\ pc = "draining"
    /\ printed # <<>>
    /\ DropRecv
    /\ IF CanSend THEN Goto("collecting") ELSE Fail("error")
    /\ Send(Action("data", 1))
    /\ Keep
SendCommand ==
    /\ pc = "draining"
    /\ DropRecv
    /\ IF CanSend THEN Goto("collecting") ELSE Fail("error")
    /\ Send(Action("data", 1))
    /\ Keep

(* The sentinel, or the deadline: close and parse. *)
Complete(raw, how) ==
    LET parsed == parse_direct_exec_output(raw, 1)
    IN  /\ Return([kind |-> how, stdout |-> parsed.stdout, code |-> parsed.code,
                   own |-> \A i \in DOMAIN raw : raw[i].of = 1])
        /\ Send(CloseAction)

CollectData(n) ==
    /\ pc = "collecting"
    /\ Chunk(n)
    /\ LET raw == collected \o Received(n)
       IN  IF find_direct_sentinel_output(raw, 1) # 0
           THEN Complete(raw, "done")
           ELSE collected' = raw /\ UNCHANGED <<mode, pc, tid, result, shown, erred, toPeer>>
    /\ Keep

CollectClosed ==
    /\ pc = "collecting"
    /\ Next_is("closed")
    /\ wire' = Tail(wire)
    /\ Return([NoResult EXCEPT !.kind = "closed", !.stdout = Trim(collected)])
    /\ Send(CloseAction)
    /\ UNCHANGED stream /\ Keep

CollectFails ==
    /\ pc = "collecting"
    /\ \/ (Next_is("error") \/ Next_is("opened")) /\ wire' = Tail(wire)
       \/ stream # "up" /\ UNCHANGED wire
    /\ Send(CloseAction)
    /\ Fail("error")
    /\ UNCHANGED stream /\ Keep

(* The deadline is for the whole loop: output does not put it off. *)
MutantNoClose ==
    /\ pc = "collecting"
    /\ Return([NoResult EXCEPT !.kind = "timed_out", !.stdout = Trim(collected)])
    /\ UNCHANGED toPeer
    /\ DropRecv /\ Keep
MutantDeadline ==
    /\ pc = "collecting"
    /\ ~noisy
    /\ Complete(collected, "timed_out")
    /\ DropRecv /\ Keep
CollectTimesOut ==
    /\ pc = "collecting"
    /\ Complete(collected, "timed_out")
    /\ DropRecv /\ Keep

Exec ==
    \/ DrainData \/ DrainClosed \/ DrainFails \/ SendCommand
    \/ \E n \in 1 .. Len(wire) : CollectData(n)
    \/ CollectClosed \/ CollectFails \/ CollectTimesOut

-----------------------------------------------------------------------------
(* run_terminal_session after the open.  What is typed before is for the      *)
(* session too: the reader task starts later and finds it.                    *)

UserTypes ==
    /\ mode = "session" /\ pc # "done" /\ ~ended
    /\ typed < MaxInputs
    /\ typed' = typed + 1
    /\ stdin' = Append(stdin, typed')
    /\ UNCHANGED <<clientVars, ended, stream, toPeer, wire, peerVars>>

UserEnds ==
    /\ mode = "session" /\ pc # "done" /\ ~ended
    /\ ended' = TRUE
    /\ UNCHANGED <<clientVars, typed, stdin, stream, toPeer, wire, peerVars>>

(* A chunk from the channel drops the recv. *)
SessionInput ==
    /\ pc = "session"
    /\ stdin # <<>>
    /\ DropRecv
    /\ Send(Action("data", Head(stdin)))
    /\ stdin' = Tail(stdin)
    /\ IF CanSend THEN UNCHANGED clientVars ELSE Fail("error")
    /\ UNCHANGED <<typed, ended, peerVars>>

(* The channel is empty and its sender gone: the only exit that closes. *)
MutantSessionEof ==
    /\ pc = "session"
    /\ ended
    /\ DropRecv
    /\ Send(CloseAction)
    /\ Fail("eof") /\ Keep
MutantBiasedEof ==
    /\ pc = "session"
    /\ ended /\ stdin = <<>> /\ ~noisy
    /\ DropRecv
    /\ Send(CloseAction)
    /\ Fail("eof") /\ Keep
SessionEof ==
    /\ pc = "session"
    /\ ended /\ stdin = <<>>
    /\ DropRecv
    /\ Send(CloseAction)
    /\ Fail("eof") /\ Keep

SessionData(n) ==
    /\ pc = "session"
    /\ Chunk(n)
    /\ shown' = shown \o Received(n)
    /\ UNCHANGED <<mode, pc, tid, collected, result, erred, toPeer>> /\ Keep

SessionClosed ==
    /\ pc = "session"
    /\ Next_is("closed")
    /\ Take /\ Keep
    /\ Fail("closed")

(* An error, a second TerminalOpened, no stream, or fifteen seconds of        *)
(* silence.                                                                   *)
SessionFails ==
    /\ pc = "session"
    /\ \/ Unexpected({"error", "opened"})
       \/ DropRecv /\ UNCHANGED toPeer
    /\ Fail("error") /\ Keep

Session ==
    \/ UserTypes \/ UserEnds \/ SessionInput \/ SessionEof
    \/ \E n \in 1 .. Len(wire) : SessionData(n)
    \/ SessionClosed \/ SessionFails

-----------------------------------------------------------------------------
(* The text session, called by a program that gives it one command after      *)
(* another and may go on after an error.                                      *)

Back(p) == pc' = p /\ UNCHANGED <<mode, tid, result>>

text_exec ==
    /\ pc = "ready"
    /\ typed < MaxInputs
    /\ typed' = typed + 1
    /\ Send(Action("data", typed'))
    /\ collected' = <<>>
    /\ IF CanSend THEN Back("gathering") /\ UNCHANGED erred
                  ELSE Back("ready") /\ erred' = TRUE
    /\ UNCHANGED <<shown, stdin, ended, stream, wire, peerVars>>

TextData(n) ==
    /\ pc = "gathering"
    /\ Chunk(n)
    /\ collected' = collected \o Received(n)
    /\ UNCHANGED <<mode, pc, tid, result, shown, erred, toPeer>> /\ Keep

(* Silence for idle_timeout, or the end of the terminal: return the output. *)
TextIdle ==
    /\ pc = "gathering"
    /\ DropRecv /\ UNCHANGED toPeer
    /\ shown' = shown \o collected /\ collected' = <<>>
    /\ Back("ready") /\ UNCHANGED erred /\ Keep

TextClosed ==
    /\ pc = "gathering"
    /\ Next_is("closed") /\ Take
    /\ shown' = shown \o collected /\ collected' = <<>>
    /\ Back("ready") /\ UNCHANGED erred /\ Keep

(* What was collected is lost with the error. *)
TextFails ==
    /\ pc = "gathering"
    /\ Unexpected({"error", "opened"})
    /\ erred' = TRUE /\ collected' = <<>>
    /\ Back("ready") /\ UNCHANGED shown /\ Keep

(* TERMINAL_RESPONSE_TIMEOUT, when idle_timeout is longer. *)
TextTimesOut ==
    /\ pc = "gathering"
    /\ DropRecv /\ UNCHANGED toPeer
    /\ erred' = TRUE /\ collected' = <<>>
    /\ Back("ready") /\ UNCHANGED shown /\ Keep

text_disconnect ==
    /\ pc = "ready"
    /\ Send(CloseAction)
    /\ IF CanSend THEN Fail("eof") ELSE Fail("error")
    /\ UNCHANGED <<stream, wire>> /\ Keep

Text ==
    \/ text_exec \/ text_disconnect
    \/ \E n \in 1 .. Len(wire) : TextData(n)
    \/ TextIdle \/ TextClosed \/ TextFails \/ TextTimesOut

-----------------------------------------------------------------------------
Next == Peer \/ Open \/ Exec \/ Session \/ Text

Spec == Init /\ [][Next]_vars

Silent == ~noisy /\ (wire = <<>> \/ stream # "up")

(* Timers run, and what has arrived is received.  A timeout that needs        *)
(* silence expires in silence; the deadline of direct_exec needs none.        *)
(* select! takes its branches in random order, so output does not starve the  *)
(* input of a session.                                                        *)
Fairness ==
    /\ WF_vars(Open)
    /\ WF_vars(DrainData \/ DrainClosed \/ DrainFails)
    /\ WF_vars(Silent /\ SendCommand)
    /\ WF_vars(CollectTimesOut)
    /\ WF_vars(SessionInput)
    /\ WF_vars(SessionEof)
    /\ WF_vars((\E n \in 1 .. Len(wire) : TextData(n)) \/ TextClosed \/ TextFails)
    /\ WF_vars(Silent /\ TextIdle)

LiveSpec == Spec /\ Fairness

-----------------------------------------------------------------------------
(* Properties. *)

Actions == [type : {"open", "data", "close"}, id : {1, 2}, input : Nat]

Responses == [type : {"opened", "data", "closed", "error"}, id : {1, 2}, byte : Bytes]

(* The types, and which mode is at which place. *)
TypeOK ==
    /\ mode \in {"exec", "session", "text"}
    /\ pc \in {"connecting", "probing", "opening", "draining", "collecting", "session",
               "ready", "gathering", "done"}
    /\ pc \in {"draining", "collecting"} => mode = "exec"
    /\ pc \in {"probing", "session"} => mode = "session"
    /\ pc \in {"ready", "gathering"} => mode = "text"
    /\ tid \in 0 .. 2
    /\ stream \in {"up", "desynced", "broken"}
    /\ toPeer \in Seq(Actions) /\ wire \in Seq(Responses)
    /\ typed \in Nat /\ stdin \in Seq(Nat) /\ ran \in Seq(Nat)
    /\ opened \subseteq {1, 2}

(* What a session writes to stdout, and what the text_execs return one after  *)
(* another, is what the terminal printed, in order and from the beginning,    *)
(* although every key and every timeout drops a recv: a message is shown or   *)
(* nothing after it is.  A text_exec that fails loses what it had collected.  *)
ShownIsPrefix ==
    mode \in {"session", "text"} /\ ~erred =>
        Len(shown) <= Len(printed) /\ shown = SubSeq(printed, 1, Len(shown))

(* The remote shell reads what was typed, in the order it was typed and       *)
(* without gaps, and a session that ends with its input has passed it all on. *)
InputIsWhatWasTyped ==
    /\ \A k \in DOMAIN ran : ran[k] = k
    /\ result.kind = "eof" => stdin = <<>>

(* An exec that completed has seen the end of its own command, however its    *)
(* output was cut into chunks; the output is kept to the last byte, also      *)
(* without a final newline, behind the echo of the command, and nothing of    *)
(* the sentinel is left in it (parse_direct_exec_output).                     *)
DirectStdoutExact ==
    result.kind = "done" =>
        /\ result.code # <<>>
        /\ result.code = SubSeq(did.code, 1, Len(result.code))
        /\ result.own => result.stdout = Trim(By(1, <<"e", "n">>) \o did.out)

(* Every way out of direct_exec and text_disconnect, and the regular ways out *)
(* of a session, close the terminal in use if the stream still works.         *)
TerminalIsClosed ==
    /\ pc = "done" /\ stream = "up" /\ tid # 0
    /\ mode = "session" => result.kind # "error"
    => tid \notin opened \/ \E i \in DOMAIN toPeer : toPeer[i].type = "close" /\ toPeer[i].id = tid

(* The inductive invariant behind InputIsWhatWasTyped and TerminalIsClosed.   *)

Trying == {"connecting", "probing", "opening"}

(* Terminal id has not been heard of yet. *)
Fresh(id) ==
    /\ tid # id /\ id \notin opened
    /\ \A p \in DOMAIN wire : wire[p].id # id

(* A terminal is opened at most once: unasked, or by the one open action,     *)
(* which is the first thing sent.  The rest is for the terminal in use.       *)
OpensOnce ==
    /\ ~unasked => Fresh(1)
    /\ pc \in {"connecting", "probing"} => toPeer = <<>> /\ Fresh(2)
    /\ \A i \in DOMAIN toPeer :
          /\ toPeer[i].type = "open" => i = 1 /\ toPeer[i].id = 2 /\ Fresh(2)
          /\ toPeer[i].type # "open" => toPeer[i].id = tid
          /\ toPeer[i].type = "close" => pc = "done"
    /\ pc \in Trying => tid = 0
    /\ pc \notin Trying \cup {"done"} => tid # 0
    /\ tid = 0 => ran = <<>> /\ \A i \in DOMAIN toPeer : toPeer[i].type = "open"

(* A terminal that was reported closed is; that of another one than ours is   *)
(* behind the report that it was opened, which ends the exec or session.      *)
ReportsFit ==
    /\ \A p \in DOMAIN wire : wire[p].type = "closed" => wire[p].id \notin opened
    /\ stream = "up" /\ pc \in Trying \cup {"draining", "collecting", "session"} =>
          /\ \A id \in opened \ {tid} : \E q \in DOMAIN wire : wire[q].type = "opened" /\ wire[q].id = id
          /\ \A p \in DOMAIN wire : wire[p].type = "closed" /\ wire[p].id # tid =>
                \E q \in 1 .. p - 1 : wire[q].type = "opened" /\ wire[q].id = wire[p].id

(* How many inputs have been sent. *)
Given ==
    IF mode = "exec" THEN (IF pc = "collecting" THEN 1 ELSE 0) ELSE typed - Len(stdin)

Unopened == IF toPeer # <<>> /\ toPeer[1].type = "open" THEN 1 ELSE 0

(* The inputs that have not arrived follow the ones that have. *)
InputFits ==
    /\ Len(stdin) <= typed
    /\ \A k \in DOMAIN stdin : stdin[k] = typed - Len(stdin) + k
    /\ mode = "text" => stdin = <<>>
    /\ pc \in Trying => Given = 0
    /\ tid \in opened /\ stream # "broken" =>
          /\ \A i \in DOMAIN toPeer :
                toPeer[i].type = "data" => toPeer[i].input = Len(ran) + i - Unopened
          /\ pc # "done" => Given = Len(ran) + Len(toPeer) - Unopened

IInv ==
    /\ TypeOK /\ OpensOnce /\ ReportsFit /\ InputFits
    /\ result.kind = "eof" => pc = "done"
    /\ InputIsWhatWasTyped /\ TerminalIsClosed

(* The types, and where there is a terminal in use. *)
Typed ==
    /\ TypeOK
    /\ pc \in Trying => tid = 0
    /\ pc \notin Trying \cup {"done"} => tid # 0

(* The inductive invariant behind ShownIsPrefix, with Typed.                  *)

(* How many of the first p responses are output. *)
IsOutput(w, q) == IF w[q].type = "data" THEN 1 ELSE 0

DataCount(w, p) ==
    LET count[q \in 0 .. p] == IF q = 0 THEN 0 ELSE count[q - 1] + IsOutput(w, q) IN count[p]

(* What was received, and then the output on the wire, is what was printed. *)
Reading(received, output, w) ==
    /\ Len(output) = Len(received) + DataCount(w, Len(w))
    /\ \A p \in 1 .. Len(received) : received[p] = output[p]
    /\ \A p \in 1 .. Len(w) : w[p].type = "data" => w[p].byte = output[Len(received) + DataCount(w, p)]

(* Until a text_exec fails, or no terminal was opened. *)
ShownFits ==
    /\ shown \in Seq(Bytes) /\ collected \in Seq(Bytes) /\ printed \in Seq(Bytes)
    /\ mode # "exec" /\ pc # "gathering" => collected = <<>>
    /\ tid = 0 => shown = <<>>
    /\ mode # "exec" /\ ~erred /\ (tid # 0 \/ pc # "done") => Reading(shown \o collected, printed, wire)

(* The inductive invariant behind DirectStdoutExact, with Typed.              *)

(* What an exec has collected and what is on its way to it. *)
Incoming == collected \o [p \in DOMAIN wire |-> wire[p].byte]

OutputArrives ==
    \E out \in Outputs, code \in Codes :
        /\ did = [out |-> By(1, out), code |-> By(1, code)]
        /\ \E k \in 0 .. Len(Incoming) : LiesBehind(Incoming, k, Transcript(1, [out |-> out, code |-> code]))

(* The command is sent once, and the close last. *)
CommandSentOnce ==
    /\ pc \in Trying \cup {"draining"} => ran = <<>> /\ \A i \in DOMAIN toPeer : toPeer[i].type = "open"
    /\ \A i \in DOMAIN toPeer : toPeer[i].type = "close" => pc = "done"
    /\ \A i \in DOMAIN toPeer : toPeer[i].type = "data" =>
          ran = <<>> /\ \A j \in DOMAIN toPeer : toPeer[j].type = "data" => i = j

ExecFits ==
    /\ collected \in Seq(Bytes)
    /\ result.kind = "done" => mode = "exec" /\ pc = "done" /\ ran # <<>> /\ DirectStdoutExact
    /\ mode = "exec" => CommandSentOnce
    /\ mode = "exec" /\ pc # "done" =>
          /\ pc # "collecting" => collected = <<>>
          /\ IF ran = <<>> THEN OnlyNoise(Incoming) ELSE OutputArrives

(* Once its command is sent, direct_exec returns by its deadline, also from a *)
(* terminal that never stops printing.                                        *)
DeadlineHolds == pc = "collecting" ~> pc = "done"

(* The waits for silence (the prompt drain, text_exec) have no deadline, and  *)
(* end once the terminal goes quiet.                                          *)
QuietTerminalReturns ==
    <>[](~noisy) => (pc \in {"draining", "gathering"} ~> pc \in {"ready", "done"})

(* The end of the input ends a session, whatever the terminal prints.         *)
SessionEndsAtEof == ended ~> pc = "done"
=============================================================================
