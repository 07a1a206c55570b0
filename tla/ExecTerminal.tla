---------------------------- MODULE ExecTerminal ----------------------------
(***************************************************************************)
(* Terminals over one peer stream: exec_command_inner and shell_session    *)
(* (src/daemon.rs) with the calls of src/terminal.rs they make, one job    *)
(* after another, as the event loop runs them.                             *)
(*                                                                         *)
(* The stream is reliable and ordered; bytes arrive in chunks of any size  *)
(* and a response may be as late as it likes, so that every timeout may    *)
(* expire.  The daemon never looks at the terminal id of a response.  A    *)
(* stream that is replaced takes its terminals and messages with it;       *)
(* failing streams and failing reconnects are in module Daemon.  Every     *)
(* OpenTerminal asks for the same id; the model tells the peer's terminals *)
(* apart by the job that asked, which only the properties make use of.     *)
(***************************************************************************)
EXTENDS TerminalOutput

CONSTANTS
    NumJobs,        \* bound: jobs in a behaviour
    Kinds,          \* what a job may be: "exec", "shell"
    Outputs,        \* what a command may print (sequences of "x" and "n", newline)
    Codes,          \* its exit status (sequences of decimal digits)
    MaxChatter      \* bound: bytes a terminal prints on its own

ASSUME JobsAssumption ==
    /\ NumJobs \in Nat \ {0} /\ Kinds \subseteq {"exec", "shell"} /\ MaxChatter \in Nat
    /\ Outputs \subseteq Seq({"x", "n"}) /\ Codes \subseteq Seq(Digits)

Jobs == 1 .. NumJobs

VARIABLES
    pc,             \* idle: the event loop; else where the job is
    job,            \* the current or last job, 0 before the first
    kind,           \* its kind
    run,            \* 1, or 2 on the stream of the reconnect
    tid,            \* terminal the job took for its own: the job it was opened for
    collected,      \* bytes collected by an exec
    result,         \* result[j]: what exec j reported
    did,            \* did[j]: what command j really did, once a terminal ran it
    toPeer,         \* actions on their way to the peer
    wire,           \* responses on their way back, data byte by byte
    opened,         \* terminals open at the peer
    chatter         \* bytes printed by terminals on their own

daemonVars == <<pc, job, kind, run, tid, collected, result>>
peerVars == <<did, toPeer, wire, opened, chatter>>
vars == <<daemonVars, peerVars>>

-----------------------------------------------------------------------------
(* `strays': the terminals that printed in between what the exec collected. *)
NoResult == [kind |-> "none", stdout |-> <<>>, code |-> <<>>, strays |-> {}]

NotRun == [out |-> <<>>, code |-> <<>>]

Init ==
    /\ pc = "idle" /\ job = 0 /\ kind = "none" /\ run = 1 /\ tid = 0
    /\ collected = <<>>
    /\ result = [j \in Jobs |-> NoResult]
    /\ did = [j \in Jobs |-> NotRun]
    /\ toPeer = <<>> /\ wire = <<>> /\ opened = {} /\ chatter = 0

-----------------------------------------------------------------------------
(* The peer's terminal service (external). *)

Action(t, id, j) == [type |-> t, id |-> id, job |-> j]

Response(t, id) == [type |-> t, id |-> id, byte |-> [ch |-> "-", of |-> id]]

Data(id, bytes) == [i \in 1 .. Len(bytes) |-> [type |-> "data", id |-> id, byte |-> bytes[i]]]

PeerTakes(t) == toPeer # <<>> /\ Head(toPeer).type = t /\ toPeer' = Tail(toPeer)

PeerOpens ==
    /\ PeerTakes("open")
    /\ LET id == Head(toPeer).id
       IN  \/ /\ opened' = opened \cup {id}
              /\ wire' = wire \o <<Response("opened", id)>> \o Data(id, By(id, <<"p">>))
           \/ wire' = Append(wire, Response("error", id)) /\ UNCHANGED opened
    /\ UNCHANGED <<daemonVars, did, chatter>>

(* Input for a terminal that is gone is dropped. *)
PeerRuns ==
    /\ PeerTakes("data")
    /\ LET id == Head(toPeer).id
           j == Head(toPeer).job
       IN  IF id \in opened
           THEN \E out \in Outputs, code \in Codes :
                   /\ did' = [did EXCEPT ![j] = [out |-> By(j, out), code |-> By(j, code)]]
                   /\ wire' = wire \o Data(id, Transcript(j, [out |-> out, code |-> code]))
           ELSE UNCHANGED <<did, wire>>
    /\ UNCHANGED <<daemonVars, opened, chatter>>

(* The output not yet sent is lost, and the end may be announced or not. *)
PeerCloses ==
    /\ PeerTakes("close")
    /\ LET id == Head(toPeer).id
       IN  /\ opened' = opened \ {id}
           /\ \E n \in 0 .. Len(wire) :
                 /\ \A p \in n + 1 .. Len(wire) : wire[p].type = "data" /\ wire[p].id = id
                 /\ \/ wire' = SubSeq(wire, 1, n)
                    \/ id \in opened /\ wire' = Append(SubSeq(wire, 1, n), Response("closed", id))
    /\ UNCHANGED <<daemonVars, did, chatter>>

(* The terminal's shell exits, or its service fails. *)
PeerEnds(id) ==
    /\ id \in opened
    /\ opened' = opened \ {id}
    /\ \E t \in {"closed", "error"} : wire' = Append(wire, Response(t, id))
    /\ UNCHANGED <<daemonVars, did, toPeer, chatter>>

(* A terminal prints by itself, perhaps in the middle of what another prints. *)
PeerChatters(id) ==
    /\ id \in opened
    /\ chatter < MaxChatter
    /\ chatter' = chatter + 1
    /\ \E n \in 0 .. Len(wire) :
          /\ \A p \in n + 1 .. Len(wire) : wire[p].type = "data"
          /\ wire' = SubSeq(wire, 1, n) \o Data(id, By(id, <<"b">>)) \o SubSeq(wire, n + 1, Len(wire))
    /\ UNCHANGED <<daemonVars, did, toPeer, opened>>

-----------------------------------------------------------------------------
(* What the daemon does with a response is decided by its type alone. *)

Next_is(t) == wire # <<>> /\ Head(wire).type = t

Take == wire' = Tail(wire)

Send(a) == toPeer' = Append(toPeer, a)

MutantCloseFixedId == Action("close", 0, 0)
CloseAction == Action("close", tid, 0)

(* The exec answers: the job is over. *)
Report(r) ==
    /\ result' = [result EXCEPT ![job] = r]
    /\ pc' = "idle"
    /\ collected' = <<>>
    /\ UNCHANGED <<job, kind, run, tid>>

Failed(why) == [NoResult EXCEPT !.kind = why]

(* The stream is replaced: nothing in flight and no terminal survives. *)
FreshStream == wire' = <<>> /\ opened' = {} /\ UNCHANGED <<did, chatter>>

(* An exec fails with an error that should_reconnect accepts ("lost"), which  *)
(* runs it again once, or not; `why' names the error it reports.              *)
FailExec(class, why, wireAfter, actionsAfter) ==
    IF class = "lost" /\ run = 1
    THEN /\ FreshStream
         /\ toPeer' = <<Action("open", job, 0)>>
         /\ pc' = "opening" /\ run' = 2 /\ collected' = <<>>
         /\ UNCHANGED <<job, kind, tid, result>>
    ELSE /\ Report(Failed(why))
         /\ wire' = wireAfter /\ toPeer' = actionsAfter
         /\ UNCHANGED <<did, opened, chatter>>

(* A shell that fails to open reports it; "lost" replaces the stream. *)
FailShell(class, wireAfter) ==
    /\ pc' = "idle"
    /\ IF class = "lost"
       THEN FreshStream /\ toPeer' = <<>>
       ELSE wire' = wireAfter /\ UNCHANGED <<did, toPeer, opened, chatter>>
    /\ UNCHANGED <<job, kind, run, tid, collected, result>>

FailOpen(class, why, wireAfter) ==
    \/ kind = "exec" /\ FailExec(class, why, wireAfter, toPeer)
    \/ kind = "shell" /\ FailShell(class, wireAfter)

-----------------------------------------------------------------------------
(* The event loop between jobs: handle_peer_message ignores terminal          *)
(* responses.                                                                 *)
IdleReceive ==
    /\ pc = "idle"
    /\ wire # <<>>
    /\ Take
    /\ UNCHANGED <<daemonVars, did, toPeer, opened, chatter>>

(* A job starts: open_terminal sends OpenTerminal ... *)
Start(k) ==
    /\ pc = "idle"
    /\ job < NumJobs
    /\ pc' = "opening" /\ job' = job + 1 /\ kind' = k /\ run' = 1
    /\ Send(Action("open", job + 1, 0))
    /\ UNCHANGED <<tid, collected, result, did, wire, opened, chatter>>

(* ... and takes the next response, whichever terminal it is of: *)
OpenSucceeds ==
    /\ pc = "opening"
    /\ Next_is("opened")
    /\ tid' = Head(wire).id
    /\ pc' = IF kind = "exec" THEN "draining" ELSE "shell"
    /\ Take
    /\ UNCHANGED <<job, kind, run, collected, result, did, toPeer, opened, chatter>>

(* ("expected TerminalOpened, got Data(..)" is no reconnectable error, the    *)
(* same with Closed(..) is; the text of a refusal is the peer's.)             *)
OpenFails ==
    /\ pc = "opening"
    /\ \/ Next_is("data") /\ FailOpen("error", "confused", Tail(wire))
       \/ Next_is("closed") /\ FailOpen("lost", "confused", Tail(wire))
       \/ Next_is("error") /\ \E class \in {"lost", "error"} : FailOpen(class, "refused", Tail(wire))

OpenTimesOut ==
    /\ pc = "opening"
    /\ FailOpen("lost", "timeout", wire)

-----------------------------------------------------------------------------
(* exec_command_inner after the open. *)

DrainData ==
    /\ pc = "draining"
    /\ Next_is("data")
    /\ Take
    /\ UNCHANGED <<daemonVars, did, toPeer, opened, chatter>>

DrainClosed ==
    /\ pc = "draining"
    /\ Next_is("closed")
    /\ Take
    /\ Report(Failed("closed"))
    /\ UNCHANGED <<did, toPeer, opened, chatter>>

(* A terminal error, or an Opened that nobody waits for any more. *)
DrainFails ==
    /\ pc = "draining"
    /\ \/ Next_is("error") /\ \E class \in {"lost", "error"} :
             FailExec(class, "refused", Tail(wire), Append(toPeer, CloseAction))
       \/ Next_is("opened") /\ FailExec("error", "confused", Tail(wire), Append(toPeer, CloseAction))

(* EXEC_PROMPT_DRAIN_TIMEOUT without a response: send the command. *)
SendCommand ==
    /\ pc = "draining"
    /\ pc' = "collecting"
    /\ Send(Action("data", tid, job))
    /\ UNCHANGED <<job, kind, run, tid, collected, result, did, wire, opened, chatter>>

(* What was printed by itself since the echo of the command. *)
Strays(raw, j) == {k \in 1 .. Len(raw) : raw[k].ch = "b" /\ \E i \in 1 .. k : raw[i] = [ch |-> "e", of |-> j]}

(* The exec is complete, or its timeout has passed: close and parse. *)
Complete(raw, how) ==
    /\ Report([kind |-> how, stdout |-> parse_exec_output(raw, job).stdout,
               code |-> parse_exec_output(raw, job).code, strays |-> {raw[k].of : k \in Strays(raw, job)}])
    /\ Send(CloseAction)

(* A chunk of n bytes of one terminal. *)
CollectData(n) ==
    /\ pc = "collecting"
    /\ n <= Len(wire)
    /\ \A p \in 1 .. n : wire[p].type = "data" /\ wire[p].id = wire[1].id
    /\ wire' = SubSeq(wire, n + 1, Len(wire))
    /\ LET raw == collected \o [p \in 1 .. n |-> wire[p].byte]
       IN  IF find_sentinel_output(raw, job) # 0
           THEN Complete(raw, "done")
           ELSE /\ collected' = raw
                /\ UNCHANGED <<pc, job, kind, run, tid, result, toPeer>>
    /\ UNCHANGED <<did, opened, chatter>>

CollectClosed ==
    /\ pc = "collecting"
    /\ Next_is("closed")
    /\ Take
    /\ Report([NoResult EXCEPT !.kind = "closed", !.stdout = Trim(collected)])
    /\ Send(CloseAction)
    /\ UNCHANGED <<did, opened, chatter>>

CollectFails ==
    /\ pc = "collecting"
    /\ \/ Next_is("error") /\ \E class \in {"lost", "error"} :
             FailExec(class, "refused", Tail(wire), Append(toPeer, CloseAction))
       \/ Next_is("opened") /\ FailExec("error", "confused", Tail(wire), Append(toPeer, CloseAction))

CollectTimesOut ==
    /\ pc = "collecting"
    /\ Complete(collected, "timed_out")
    /\ UNCHANGED <<did, wire, opened, chatter>>

-----------------------------------------------------------------------------
(* shell_session after the open; the client's lines are left out. *)

ShellEnd == pc' = "idle" /\ UNCHANGED <<job, kind, run, tid, collected, result, did, opened, chatter>>

ShellData ==
    /\ pc = "shell"
    /\ Next_is("data")
    /\ Take
    /\ UNCHANGED <<daemonVars, did, toPeer, opened, chatter>>

(* End of the client's input: the only exit that closes the terminal. *)
ShellEof ==
    /\ pc = "shell"
    /\ Send(CloseAction)
    /\ ShellEnd
    /\ UNCHANGED wire

ShellTerminalEnds ==
    /\ pc = "shell"
    /\ Next_is("closed") \/ Next_is("error") \/ Next_is("opened")
    /\ Take
    /\ ShellEnd
    /\ UNCHANGED toPeer

(* TERMINAL_RESPONSE_TIMEOUT without output. *)
ShellQuiet ==
    /\ pc = "shell"
    /\ ShellEnd
    /\ UNCHANGED <<toPeer, wire>>

-----------------------------------------------------------------------------
Peer == PeerOpens \/ PeerRuns \/ PeerCloses \/ \E id \in Jobs : PeerEnds(id) \/ PeerChatters(id)

Exec ==
    \/ DrainData \/ DrainClosed \/ DrainFails
    \/ SendCommand
    \/ \E n \in 1 .. Len(wire) : CollectData(n)
    \/ CollectClosed \/ CollectFails \/ CollectTimesOut

Shell == ShellData \/ ShellEof \/ ShellTerminalEnds \/ ShellQuiet

Open == (\E k \in Kinds : Start(k)) \/ OpenSucceeds \/ OpenFails \/ OpenTimesOut

Next == Peer \/ IdleReceive \/ Open \/ Exec \/ Shell

Spec == Init /\ [][Next]_vars

-----------------------------------------------------------------------------
(* Properties. *)

Actions == [type : {"open", "data", "close"}, id : Jobs, job : 0 .. NumJobs]

Responses == [type : {"opened", "data", "closed", "error"}, id : Jobs, byte : Bytes]

(* The types; where a terminal is in use there is one to close. *)
TypeOK ==
    /\ pc \in {"idle", "opening", "draining", "collecting", "shell"}
    /\ job \in 0 .. NumJobs /\ kind \in Kinds \cup {"none"} /\ run \in {1, 2}
    /\ pc # "idle" => job # 0
    /\ tid \in 0 .. NumJobs /\ (pc \in {"draining", "collecting", "shell"} => tid # 0)
    /\ collected \in Seq(Bytes)
    /\ DOMAIN result = Jobs
    /\ \A j \in Jobs : result[j].kind \in {"none", "done", "timed_out", "closed", "confused",
                                           "refused", "timeout"}
    /\ did \in [Jobs -> [out : Seq(Bytes), code : Seq(Bytes)]]
    /\ toPeer \in Seq(Actions) /\ wire \in Seq(Responses)
    /\ opened \subseteq Jobs
    /\ chatter \in 0 .. MaxChatter

(* An exec that reports an exit code has seen its own command end: neither    *)
(* the echo of the sentinel, nor output of an earlier job, nor a terminal     *)
(* taken for another's completes it, and the code starts as the real one.     *)
CompletionIsOwn ==
    \A j \in Jobs : result[j].kind = "done" =>
        /\ result[j].code # <<>>
        /\ result[j].code = SubSeq(did[j].code, 1, Len(result[j].code))

(* What is left of s without a last line that has no newline. *)
CompleteLines(s) == SubSeq(s, 1, SentinelLineStart(s, Len(s) + 1) - 1)

(* However its output was cut into chunks and whatever earlier jobs left on   *)
(* the stream, an exec that is done returns the lines its command printed,    *)
(* without the echoed commands, the sentinel and the prompt, unless another   *)
(* program printed while it ran.  A last line without a newline shares the    *)
(* sentinel's line and is dropped.                                            *)
StdoutExact ==
    \A j \in Jobs : result[j].kind = "done" /\ result[j].strays = {} =>
        result[j].stdout = TrimEnd(CompleteLines(did[j].out))

(* The digits after the sentinel are "= exit code" (find_sentinel_output's    *)
(* comment): a completed exec reports the code of its command.  It does not   *)
(* hold: a code that is cut by a chunk boundary is reported short.            *)
ExitCodeExact ==
    \A j \in Jobs : result[j].kind = "done" => result[j].code = did[j].code

-----------------------------------------------------------------------------
(* The inductive invariant behind CompletionIsOwn and StdoutExact.            *)

Contents(w) == [p \in 1 .. Len(w) |-> w[p].byte]

(* What the exec has collected and what is on its way. *)
Incoming == collected \o Contents(wire)

Unmarked(text, j) == \A p \in 1 .. Len(text) : text[p] # Mark(j)

(* The digits from p + 2 on are those of the exit code. *)
CodeFollows(text, p, d) ==
    \A q \in p + 2 .. Len(text) : (\A k \in p + 2 .. q : text[k].ch \in Digits) =>
        q - p - 1 \in 1 .. Len(d.code) /\ text[q] = d.code[q - p - 1]

(* In front of p are the echoed lines and the output, and no sentinel before. *)
OutputPrecedes(text, p, j, d) ==
    LET start == p - Len(d.out)
    IN  /\ start > 7
        /\ \A i \in 1 .. 7 : text[start - 8 + i] = By(j, <<"e", "n", "q", "s", "t", "k", "n">>)[i]
        /\ \A i \in 1 .. Len(d.out) : text[start - 1 + i] = d.out[i]
        /\ \A q \in 1 .. start - 5 : text[q] # Mark(j)

(* A sentinel of job j in front of a digit is the one its command printed. *)
EndsOutput(text, p, j, d) ==
    /\ CodeFollows(text, p, d)
    /\ (\A k \in Strays(text, j) : k > p) => OutputPrecedes(text, p, j, d)

Fits(text, j, d) ==
    \A p \in 1 .. Len(text) :
        /\ text[p] = Mark(j) /\ p + 2 <= Len(text)
        /\ text[p + 1] = [ch |-> "t", of |-> j] /\ text[p + 2].ch \in Digits
        => EndsOutput(text, p, j, d)

(* Commands on their way: the current one is the last, and none is done. *)
CommandsFit ==
    \A i \in 1 .. Len(toPeer) : toPeer[i].type = "data" =>
        /\ toPeer[i].job \in 1 .. job
        /\ result[toPeer[i].job].kind # "done"
        /\ toPeer[i].job = job => /\ pc \notin {"opening", "draining"}
                                  /\ \A k \in i + 1 .. Len(toPeer) : toPeer[k].type # "data"

(* Until its command has run, nothing of the current job looks like its end. *)
IncomingFits ==
    /\ pc # "collecting" => collected = <<>>
    /\ \A p \in 1 .. Len(wire) : wire[p].byte.ch = "s" => wire[p].byte.of <= job
    /\ \/ pc \in {"opening", "draining"}
       \/ pc = "collecting" /\ \E i \in 1 .. Len(toPeer) : toPeer[i].type = "data"
       => Unmarked(Incoming, job)
    /\ pc = "collecting" => Fits(Incoming, job, did[job])

ResultsFit == \A j \in Jobs : j > job \/ (j = job /\ pc # "idle") => result[j].kind # "done"

IInv ==
    /\ TypeOK /\ CommandsFit /\ IncomingFits /\ ResultsFit
    /\ CompletionIsOwn /\ StdoutExact
=============================================================================
