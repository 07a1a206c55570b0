------------------------------- MODULE Daemon -------------------------------
(***************************************************************************)
(* The session daemon's event loop (run_daemon in src/daemon.rs), from the *)
(* moment the lock file is written to the moment the process returns.      *)
(*                                                                         *)
(* The loop serves one command-line client at a time.  Exec and Shell need *)
(* a stream logged in for terminals, everything else a default stream, so  *)
(* a command may first replace the stream (a mode switch); a stream that   *)
(* fails is replaced with up to MaxAttempts connection attempts, and the   *)
(* command that was running on it is run once more.                        *)
(*                                                                         *)
(* Durations are abstracted to the order of events: a timer that may have  *)
(* expired is a step that may be taken.  Peer data are left out; what the  *)
(* stream does to the loop is its `health'.                                *)
(***************************************************************************)
EXTENDS Naturals

CONSTANTS
    Clients,        \* command-line invocations; each sends one command
    Commands,       \* the kinds of command they may send
    ServiceIds,     \* terminal service ids the peer hands out
    MaxAttempts,    \* RECONNECT_MAX_ATTEMPTS
    None            \* Option::None

ASSUME AttemptsAssumption == MaxAttempts \in Nat \ {0}

ASSUME NoneAssumption == None \notin ServiceIds /\ None \notin Clients

VARIABLES
    pc,                 \* where the loop is
    cur,                \* the client being served, or None
    kind,               \* kind[c]: the command read from c ("none" before)
    run,                \* 1, or 2 when the command is run again after a reconnect
    session,            \* Session.state
    active_conn_type,
    active_service_id,
    encrypted,          \* the peer stream: mode, login service, health
    attempt,            \* connection attempt of reconnect_with_retry
    cont,               \* what follows the reconnect: "select", "retry", "switch"
    heartbeat_rx,       \* a tick is waiting in the one-slot heartbeat channel
    quiet,              \* recv_idle_for() > KEEPALIVE_TIMEOUT
    signal,             \* SIGTERM or SIGINT received and not yet handled
    cli,                \* cli[c]: c's connection to the daemon's socket
    gone,               \* clients that closed their end
    replies,            \* replies[c]: final responses c has received
    acked,              \* clients whose final response reported success
    sent                \* sent[c]: times c's command reached the peer stream

loopVars == <<pc, cur, run, attempt, cont>>
peerVars == <<session, active_conn_type, active_service_id, encrypted>>
eventVars == <<heartbeat_rx, quiet, signal>>
clientVars == <<kind, cli, gone, replies, acked, sent>>
vars == <<loopVars, peerVars, eventVars, clientVars>>

-----------------------------------------------------------------------------
(* Commands.  Query stands for ClipboardGet, ClipboardSet and Capture, which  *)
(* talk to the peer in execute_daemon_command; Input for the keyboard and     *)
(* mouse commands, which Session::dispatch answers as it does the other four; *)
(* Invalid for a line that is no command.                                     *)

Dispatched == {"Connect", "Disconnect", "Status", "Displays", "Input"}

Kinds == {"Exec", "Shell", "Push", "Query", "Invalid"} \cup Dispatched

ASSUME CommandsAssumption == Commands \subseteq Kinds

Modes == {"DefaultConn", "Terminal"}

conn_type_for_command(k) == IF k \in {"Exec", "Shell"} THEN "Terminal" ELSE "DefaultConn"

(* The Terminal login carries the service id to resume (None stands for ""). *)
login_union_for_conn_type(mode, sid) == IF mode = "Terminal" THEN sid ELSE None

(* up: frames flow.  silent: the link is dead but no error has surfaced.      *)
(* broken: reads and writes fail.  desynced: a recv future was dropped inside *)
(* a frame, so the next recv starts in the middle of one.                     *)
Healths == {"up", "silent", "broken", "desynced"}

Streams == [mode : Modes, login : ServiceIds \cup {None}, health : Healths]

(* EncryptedStream::recv is not cancellation safe: dropping it between two    *)
(* reads of one frame loses the bytes already read.                           *)
DroppedRecv(s) ==
    {s} \cup (IF s.health = "up" THEN {[s EXCEPT !.health = "desynced"]} ELSE {})

Terminals == {"Exec", "Shell"}

RunPc(k) == IF k \in Terminals THEN "open" ELSE "run"

-----------------------------------------------------------------------------
Init ==
    /\ pc = "select"
    /\ cur = None
    /\ kind = [c \in Clients |-> "none"]
    /\ run = 1
    /\ session = "Connected"
    /\ active_conn_type = "DefaultConn"
    /\ active_service_id = None
    /\ encrypted = [mode |-> "DefaultConn", login |-> None, health |-> "up"]
    /\ attempt = 0
    /\ cont = "select"
    /\ heartbeat_rx = FALSE
    /\ quiet = FALSE
    /\ signal = FALSE
    /\ cli = [c \in Clients |-> "out"]
    /\ gone = {}
    /\ replies = [c \in Clients |-> 0]
    /\ acked = {}
    /\ sent = [c \in Clients |-> 0]

-----------------------------------------------------------------------------
(* Pieces of the handlers. *)

Goto(l) == pc' = l /\ UNCHANGED <<attempt, cont>>

(* reconnect_encrypted_stream: start the attempts; c says where to go on. *)
Reconnect(c) == pc' = "reconnect" /\ attempt' = 1 /\ cont' = c

(* A response written to a client that has gone is lost; write errors of a    *)
(* final response are ignored.                                                *)
MutantRespondOnlyOk(ok) ==
    /\ replies' = IF cur \in gone \/ ~ok THEN replies ELSE [replies EXCEPT ![cur] = @ + 1]
    /\ acked' = IF ok /\ cur \notin gone THEN acked \cup {cur} ELSE acked
Respond(ok) ==
    /\ replies' = IF cur \in gone THEN replies ELSE [replies EXCEPT ![cur] = @ + 1]
    /\ acked' = IF ok /\ cur \notin gone THEN acked \cup {cur} ELSE acked

NoResponse == UNCHANGED <<replies, acked>>

(* The handler of one connection ends: its writer is dropped. *)
Hangup == cur' = None /\ run' = 1 /\ cli' = [cli EXCEPT ![cur] = "closed"]

KeepClient == UNCHANGED <<cur, run, cli>>

(* Every path of Push, Exec and the generic commands ends in one of these:    *)
(* the response is sent and the loop goes on (or shuts down after             *)
(* Disconnect) ...                                                            *)
Finish(ok) ==
    /\ Respond(ok)
    /\ Hangup
    /\ Goto(IF kind[cur] = "Disconnect" THEN "shutdown" ELSE "select")

(* ... or the command failed with an error that should_reconnect accepts      *)
(* ("lost") or not ("error"); only the first run is repeated.                 *)
MutantFailAnswersFirst(class) ==
    \/ class = "lost" /\ run = 1 /\ Reconnect("retry") /\ Respond(FALSE) /\ KeepClient
    \/ (class = "error" \/ run = 2) /\ Finish(FALSE)
MutantFailRetriesAgain(class) ==
    \/ class = "lost" /\ Reconnect("retry") /\ NoResponse /\ KeepClient
    \/ class = "error" /\ Finish(FALSE)
Fail(class) ==
    \/ /\ class = "lost" /\ run = 1
       /\ Reconnect("retry")
       /\ NoResponse /\ KeepClient
    \/ /\ class = "error" \/ run = 2
       /\ Finish(FALSE)

Classes == {"lost", "error"}

-----------------------------------------------------------------------------
(* The environment. *)

ClientConnects(c) ==
    /\ cli[c] = "out"
    /\ pc # "exited"
    /\ cli' = [cli EXCEPT ![c] = "waiting"]
    /\ UNCHANGED <<loopVars, peerVars, eventVars, kind, gone, replies, acked, sent>>

ClientLeaves(c) ==
    /\ cli[c] \in {"waiting", "served"}
    /\ c \notin gone
    /\ gone' = gone \cup {c}
    /\ UNCHANGED <<loopVars, peerVars, eventVars, kind, cli, replies, acked, sent>>

StreamFails(h) ==
    /\ pc # "exited"
    /\ encrypted.health \notin {"broken", h}
    /\ encrypted' = [encrypted EXCEPT !.health = h]
    /\ UNCHANGED <<loopVars, session, active_conn_type, active_service_id,
                   eventVars, clientVars>>

PeerFallsQuiet ==
    /\ ~quiet
    /\ pc # "exited"
    /\ quiet' = TRUE
    /\ UNCHANGED <<loopVars, peerVars, heartbeat_rx, signal, clientVars>>

SignalArrives ==
    /\ ~signal
    /\ pc # "exited"
    /\ signal' = TRUE
    /\ UNCHANGED <<loopVars, peerVars, heartbeat_rx, quiet, clientVars>>

(* The heartbeat task: try_send drops the tick when the slot is taken. *)
HeartbeatTaskTicks ==
    /\ pc # "exited"
    /\ ~heartbeat_rx
    /\ heartbeat_rx' = TRUE
    /\ UNCHANGED <<loopVars, peerVars, quiet, signal, clientVars>>

-----------------------------------------------------------------------------
(* The select! of the loop, one action per event.  Every branch but the       *)
(* peer's drops the pending encrypted.recv().                                 *)

(* PeerMessage(Ok): empty frames, TestDelay (echoed; a failed echo is only    *)
(* logged) and everything ignored.  recv has updated last_recv_at.            *)
PeerMessage ==
    /\ pc = "select"
    /\ encrypted.health \in {"up", "desynced"}
    /\ quiet' = FALSE
    /\ UNCHANGED <<loopVars, peerVars, heartbeat_rx, signal, clientVars>>

(* handle_peer_message returned false: the peer sent a close_reason. *)
PeerCloseReason ==
    /\ pc = "select"
    /\ encrypted.health = "up"
    /\ Goto("shutdown")
    /\ UNCHANGED <<cur, run, peerVars, eventVars, clientVars>>

(* PeerMessage(Err). *)
PeerError ==
    /\ pc = "select"
    /\ encrypted.health \in {"broken", "desynced"}
    /\ Reconnect("select")
    /\ UNCHANGED <<cur, run, peerVars, eventVars, clientVars>>

MutantKeepaliveNeverExpires == FALSE
is_keepalive_expired == quiet

(* send_heartbeat may fail only on a broken stream, and need not: the kernel  *)
(* may still take the byte.  Then the keepalive check.                        *)
HeartbeatTick ==
    /\ pc = "select"
    /\ heartbeat_rx
    /\ heartbeat_rx' = FALSE
    /\ encrypted' \in DroppedRecv(encrypted)
    /\ \/ (encrypted.health = "broken" \/ is_keepalive_expired) /\ Reconnect("select")
       \/ ~is_keepalive_expired /\ Goto("select")
    /\ UNCHANGED <<cur, run, session, active_conn_type, active_service_id,
                   quiet, signal, clientVars>>

(* A client of the backlog is accepted; the daemon then waits for its line. *)
Accept(c) ==
    /\ pc = "select"
    /\ cli[c] = "waiting"
    /\ cli' = [cli EXCEPT ![c] = "served"]
    /\ cur' = c
    /\ Goto("read")
    /\ encrypted' \in DroppedRecv(encrypted)
    /\ UNCHANGED <<run, session, active_conn_type, active_service_id,
                   eventVars, kind, gone, replies, acked, sent>>

(* read_line failed (the client reset the connection): drop it, no response. *)
ReadLineFails ==
    /\ pc = "read"
    /\ cur \in gone
    /\ Hangup
    /\ Goto("select")
    /\ UNCHANGED <<peerVars, eventVars, kind, gone, replies, acked, sent>>

(* Leaving Terminal mode forgets the service id, before the reconnect. *)
ServiceIdFor(mode) == IF mode = "Terminal" THEN active_service_id ELSE None

(* The line was read: answer what is no command, else choose the stream. *)
ReadCommand(k) ==
    /\ pc = "read"
    /\ cur \in gone => k = "Invalid"
    /\ kind' = [kind EXCEPT ![cur] = k]
    /\ IF k = "Invalid"
       THEN Respond(FALSE) /\ Hangup /\ Goto("select") /\ UNCHANGED active_service_id
       ELSE /\ NoResponse
            /\ KeepClient
            /\ IF conn_type_for_command(k) = active_conn_type
               THEN Goto(RunPc(k)) /\ UNCHANGED active_service_id
               ELSE /\ Reconnect("switch")
                    /\ active_service_id' = ServiceIdFor(conn_type_for_command(k))
    /\ UNCHANGED <<session, active_conn_type, encrypted, eventVars, gone, sent>>

(* timeout() polls the listener before its own timer: a client that is        *)
(* already waiting is accepted instead.                                       *)
IdleTimeout ==
    /\ pc = "select"
    /\ \A c \in Clients : cli[c] # "waiting"
    /\ Goto("shutdown")
    /\ UNCHANGED <<cur, run, peerVars, eventVars, clientVars>>

MutantSignalIgnored ==
    /\ pc = "select" /\ signal
    /\ signal' = FALSE
    /\ UNCHANGED <<loopVars, peerVars, heartbeat_rx, quiet, clientVars>>
HandleSignal ==
    /\ pc = "select"
    /\ signal
    /\ signal' = FALSE
    /\ Goto("shutdown")
    /\ UNCHANGED <<cur, run, peerVars, heartbeat_rx, quiet, clientVars>>

-----------------------------------------------------------------------------
(* reconnect_encrypted_stream. *)

TargetMode == IF cont = "switch" THEN conn_type_for_command(kind[cur]) ELSE active_conn_type

(* What each call site does with an Err: the mode switch answers and keeps    *)
(* the old stream, the retry answers and shuts down, the others shut down.    *)
MutantSwitchFailureIsSuccess ==
    /\ attempt' = 0
    /\ UNCHANGED cont
    /\ IF cont = "select" THEN NoResponse /\ KeepClient ELSE Respond(cont = "switch") /\ Hangup
    /\ pc' = IF cont = "switch" THEN "select" ELSE "shutdown"
    /\ UNCHANGED <<peerVars, eventVars, kind, gone, sent>>
MutantNeverGivesUp ==
    attempt' = 1 /\ UNCHANGED <<pc, cur, run, cont, peerVars, eventVars, clientVars>>
ReconnectFails ==
    /\ attempt' = 0
    /\ UNCHANGED cont
    /\ IF cont = "select"
       THEN NoResponse /\ KeepClient
       ELSE Respond(FALSE) /\ Hangup
    /\ pc' = IF cont = "switch" THEN "select" ELSE "shutdown"
    /\ UNCHANGED <<peerVars, eventVars, kind, gone, sent>>

MoreAttempts == attempt < MaxAttempts

(* connect_with_mode failed: the next backoff, or last_error after all. *)
AttemptFails ==
    /\ pc = "reconnect"
    /\ IF MoreAttempts
       THEN /\ attempt' = attempt + 1
            /\ UNCHANGED <<pc, cur, run, cont, peerVars, eventVars, clientVars>>
       ELSE ReconnectFails

(* connect_with_mode succeeded but initialize_stream_for_mode did not: that   *)
(* error is not retried.  Only a default stream sends anything.               *)
InitializeFails ==
    /\ pc = "reconnect"
    /\ TargetMode = "DefaultConn"
    /\ ReconnectFails

(* The mode switch records the mode of the stream it installs. *)
MutantSwitchForgetsMode == active_conn_type
InstalledConnType == TargetMode

(* The new stream replaces the old one and the call site goes on. *)
AttemptSucceeds ==
    /\ pc = "reconnect"
    /\ encrypted' = [mode |-> TargetMode,
                     login |-> login_union_for_conn_type(TargetMode, active_service_id),
                     health |-> "up"]
    /\ session' = "Connected"
    /\ active_conn_type' = InstalledConnType
    /\ quiet' = FALSE
    /\ attempt' = 0
    /\ run' = IF cont = "retry" THEN 2 ELSE 1
    /\ pc' = IF cont = "select" THEN "select" ELSE RunPc(kind[cur])
    /\ UNCHANGED <<cur, cont, active_service_id, heartbeat_rx, signal, clientVars>>

-----------------------------------------------------------------------------
(* exec_command_inner, and the opening of shell_session. *)

(* TerminalOpened arrived.  The shell's ack goes through `?': a client that   *)
(* has gone makes it a broken pipe, which should_reconnect accepts.           *)
OpenTerminal(s) ==
    /\ pc = "open"
    /\ encrypted.health = "up"
    /\ active_service_id' = s
    /\ quiet' = FALSE
    /\ \/ kind[cur] = "Exec" /\ Goto("drain") /\ KeepClient /\ NoResponse
       \/ kind[cur] = "Shell" /\ cur \notin gone /\ Goto("shell") /\ KeepClient /\ Respond(TRUE)
       \/ kind[cur] = "Shell" /\ cur \in gone /\ Reconnect("select") /\ Hangup /\ NoResponse
    /\ UNCHANGED <<session, active_conn_type, encrypted, heartbeat_rx, signal,
                   kind, gone, sent>>

(* Refused, timed out (which drops the recv) or the stream failed; the        *)
(* service id is as it was.  The shell answers before it fails.               *)
OpenFails(class) ==
    /\ pc = "open"
    /\ encrypted' \in DroppedRecv(encrypted)
    /\ \/ kind[cur] = "Exec" /\ Fail(class)
       \/ /\ kind[cur] = "Shell"
          /\ Respond(FALSE)
          /\ Hangup
          /\ IF class = "lost" THEN Reconnect("select") ELSE Goto("select")
    /\ UNCHANGED <<session, active_conn_type, active_service_id, eventVars,
                   kind, gone, sent>>

(* The prompt drain timed out, and the command was written to the terminal. *)
SendExec ==
    /\ pc = "drain"
    /\ encrypted.health # "broken"
    /\ sent' = [sent EXCEPT ![cur] = @ + 1]
    /\ Goto("collect")
    /\ encrypted' \in DroppedRecv(encrypted)
    /\ UNCHANGED <<cur, run, session, active_conn_type, active_service_id,
                   eventVars, kind, cli, gone, replies, acked>>

(* The terminal closed by itself, before the command was sent or after; or    *)
(* the sentinel was seen; or the completion timeout passed.  All of these     *)
(* forget the service id and answer success.                                  *)
ExecEnds ==
    /\ \/ pc = "drain" /\ encrypted.health = "up"
       \/ pc = "collect" /\ encrypted.health # "broken"
    /\ active_service_id' = None
    /\ encrypted' \in DroppedRecv(encrypted)
    /\ Finish(TRUE)
    /\ UNCHANGED <<session, active_conn_type, eventVars, kind, gone, sent>>

(* TerminalResponse::Error, whose text the peer chooses, in either loop; a    *)
(* recv error in the collect loop.  The service id is forgotten.              *)
ExecTerminalError(class) ==
    /\ \/ pc = "drain" /\ encrypted.health = "up"
       \/ pc = "collect"
    /\ active_service_id' = None
    /\ Fail(class)
    /\ UNCHANGED <<session, active_conn_type, encrypted, eventVars, kind, gone, sent>>

(* A recv error in the drain loop or a failed write of the command: the       *)
(* service id stays set.                                                      *)
DrainFails(class) ==
    /\ pc = "drain"
    /\ Fail(class)
    /\ UNCHANGED <<peerVars, eventVars, kind, gone, sent>>

(* Output for a client that has gone: writing the chunk is a broken pipe, and *)
(* `?' leaves the terminal open and the service id set.                       *)
ChunkWriteFails ==
    /\ pc = "collect"
    /\ cur \in gone
    /\ Fail("lost")
    /\ UNCHANGED <<peerVars, eventVars, kind, gone, sent>>

-----------------------------------------------------------------------------
(* shell_session's loop, and the commands that are one call. *)

(* End of the client's input, terminal closed or failed, or a recv error      *)
(* (15 s without output is one): the session returns Ok.                      *)
ShellEnds ==
    /\ pc = "shell"
    /\ active_service_id' = None
    /\ encrypted' \in DroppedRecv(encrypted)
    /\ Hangup
    /\ Goto("select")
    /\ UNCHANGED <<session, active_conn_type, eventVars, kind, gone, replies, acked, sent>>

(* send_terminal_data or a write to the client failed: `?' leaves the service *)
(* id set.                                                                    *)
ShellFails(class) ==
    /\ pc = "shell"
    /\ encrypted.health = "broken" \/ cur \in gone
    /\ encrypted' \in DroppedRecv(encrypted)
    /\ Hangup
    /\ IF class = "lost" THEN Reconnect("select") ELSE Goto("select")
    /\ UNCHANGED <<session, active_conn_type, active_service_id, eventVars,
                   kind, gone, replies, acked, sent>>

(* push_file_command, clipboard_get/set and capture succeeded. *)
PeerCommandSucceeds ==
    /\ pc = "run"
    /\ kind[cur] \in {"Push", "Query"}
    /\ encrypted.health = "up"
    /\ quiet' = FALSE
    /\ sent' = [sent EXCEPT ![cur] = @ + 1]
    /\ Finish(TRUE)
    /\ UNCHANGED <<peerVars, heartbeat_rx, signal, kind, gone>>

(* They failed, before or after the request reached the peer.  A Push whose   *)
(* client has gone fails on its progress line.                                *)
PeerCommandFails(class) ==
    /\ pc = "run"
    /\ kind[cur] \in {"Push", "Query"}
    /\ encrypted' \in DroppedRecv(encrypted)
    /\ \E n \in {0, 1} : sent' = [sent EXCEPT ![cur] = @ + n]
    /\ Fail(class)
    /\ UNCHANGED <<session, active_conn_type, active_service_id, eventVars, kind, gone>>

(* Session::dispatch, by what it does to the session ... *)
SessionAfter(k) ==
    CASE k = "Disconnect" /\ session = "Connected" -> "Disconnected"
      [] k = "Connect" -> "Connected"
      [] OTHER -> session

(* ... and whether it succeeds: Connect only once, Status always, the others  *)
(* start with require_connected.                                              *)
Succeeds(k) ==
    CASE k = "Connect" -> session # "Connected"
      [] k = "Status" -> TRUE
      [] OTHER -> session = "Connected"

(* The protocol messages that dispatch returns are discarded. *)
Dispatch ==
    /\ pc = "run"
    /\ kind[cur] \in Dispatched
    /\ session' = SessionAfter(kind[cur])
    /\ Finish(Succeeds(kind[cur]))
    /\ UNCHANGED <<active_conn_type, active_service_id, encrypted, eventVars,
                   kind, gone, sent>>

(* graceful_shutdown, and the return that drops the listener: whoever still   *)
(* waits in the backlog is disconnected.                                      *)
Exit ==
    /\ pc = "shutdown"
    /\ Goto("exited")
    /\ cli' = [c \in Clients |-> IF cli[c] = "waiting" THEN "closed" ELSE cli[c]]
    /\ UNCHANGED <<cur, run, peerVars, eventVars, kind, gone, replies, acked, sent>>

-----------------------------------------------------------------------------
Environment ==
    \/ \E c \in Clients : ClientConnects(c) \/ ClientLeaves(c)
    \/ \E h \in {"silent", "broken"} : StreamFails(h)
    \/ PeerFallsQuiet
    \/ SignalArrives
    \/ HeartbeatTaskTicks

Select ==
    \/ PeerMessage
    \/ PeerCloseReason
    \/ PeerError
    \/ HeartbeatTick
    \/ \E c \in Clients : Accept(c)
    \/ IdleTimeout
    \/ HandleSignal

ReadLine == ReadLineFails \/ \E k \in Commands \cup {"Invalid"} : ReadCommand(k)

ReconnectStep == AttemptFails \/ InitializeFails \/ AttemptSucceeds

RunCommand ==
    \/ \E s \in ServiceIds : OpenTerminal(s)
    \/ SendExec
    \/ ExecEnds
    \/ ChunkWriteFails
    \/ ShellEnds
    \/ PeerCommandSucceeds
    \/ Dispatch
    \/ \E class \in Classes :
          \/ OpenFails(class)
          \/ ExecTerminalError(class)
          \/ DrainFails(class)
          \/ ShellFails(class)
          \/ PeerCommandFails(class)

Next == Environment \/ Select \/ ReadLine \/ ReconnectStep \/ RunCommand \/ Exit

Spec == Init /\ [][Next]_vars

(* What the scheduler gives: a step that only the daemon decides is taken,    *)
(* and tokio::select! polls its ready branches in random order, so a branch   *)
(* that is ready again and again is eventually chosen.                        *)
SchedulerFairness ==
    /\ WF_vars(Exit)
    /\ WF_vars(pc = "run" /\ Dispatch)
    /\ WF_vars(HeartbeatTaskTicks)
    /\ SF_vars(HandleSignal)
    /\ SF_vars(HeartbeatTick)
    /\ SF_vars(PeerError)
    /\ \A c \in Clients : SF_vars(Accept(c))

(* What the environment must give for the loop to move on: an accepted client *)
(* writes its line or leaves (read_line has no timeout), connect_with_mode    *)
(* returns (a reconnect has no overall timeout), and a command returns.       *)
EnvironmentFairness ==
    /\ WF_vars(ReadLine)
    /\ WF_vars(ReconnectStep)
    /\ WF_vars(RunCommand)
    /\ WF_vars(encrypted.health = "silent" /\ PeerFallsQuiet)

LiveSpec == Spec /\ SchedulerFairness /\ EnvironmentFairness

-----------------------------------------------------------------------------
(* Properties. *)

Serving == {"read", "open", "drain", "collect", "shell", "run"}

Running == {"open", "drain", "collect", "shell", "run"}

Pcs == {"select", "reconnect", "shutdown", "exited"} \cup Serving

LoopTypeOK ==
    /\ pc \in Pcs
    /\ cur \in Clients \cup {None}
    /\ run \in {1, 2}
    /\ attempt \in 0 .. MaxAttempts
    /\ cont \in {"select", "retry", "switch"}

PeerTypeOK ==
    /\ session \in {"Connected", "Disconnected"}
    /\ active_conn_type \in Modes
    /\ active_service_id \in ServiceIds \cup {None}
    /\ encrypted \in Streams

EventTypeOK ==
    /\ heartbeat_rx \in BOOLEAN
    /\ quiet \in BOOLEAN
    /\ signal \in BOOLEAN

ClientTypeOK ==
    /\ kind \in [Clients -> Kinds \cup {"none"}]
    /\ cli \in [Clients -> {"out", "waiting", "served", "closed"}]
    /\ gone \subseteq Clients
    /\ replies \in [Clients -> Nat]
    /\ acked \subseteq Clients
    /\ sent \in [Clients -> Nat]

(* The variables have their types; the attempt counter stays within bounds. *)
TypeOK == LoopTypeOK /\ PeerTypeOK /\ EventTypeOK /\ ClientTypeOK

(* A command runs only on a stream logged in for it, and between commands the *)
(* loop's active_conn_type says what the stream is: a mode switch that failed *)
(* half way has not left the two apart (src/daemon.rs, the mode switch).      *)
StreamMatchesCommand ==
    /\ pc # "exited" => encrypted.mode = active_conn_type
    /\ pc \in Running => encrypted.mode = conn_type_for_command(kind[cur])

(* A service id is remembered only while the stream is a terminal one, so no  *)
(* later login resumes the terminal of a mode that was left.                  *)
ServiceIdOnlyInTerminalMode ==
    active_service_id # None => active_conn_type = "Terminal"

(* Every client whose line was read gets one final response, never two: a     *)
(* retry, a failed reconnect and a failed mode switch each answer, and no     *)
(* path answers twice or hangs up without an answer on a client still there.  *)
AnsweredExactlyOnce ==
    \A c \in Clients :
        /\ replies[c] <= 1
        /\ (cli[c] = "closed" /\ kind[c] # "none" /\ c \notin gone) => replies[c] = 1

(* The loop never serves on a session that was given up: Disconnect is the    *)
(* only way out of Connected and the daemon is then shutting down, so         *)
(* require_connected never refuses a command.                                 *)
ConnectedWhileServing ==
    pc \notin {"shutdown", "exited"} => session = "Connected"

(* However often the stream fails, a command reaches the peer at most twice:  *)
(* once, and once more after one reconnect.                                   *)
SentAtMostTwice ==
    \A c \in Clients :
        /\ sent[c] <= 2
        /\ sent[c] = 2 => (c = cur /\ run = 2) \/ cli[c] = "closed"

(* No way out of the loop leaves a client half served: when the daemon shuts  *)
(* down its last client has been answered and hung up on.                     *)
ShutdownAbandonsNobody ==
    pc \in {"select", "shutdown", "exited"} =>
        cur = None /\ \A c \in Clients : cli[c] # "served"

(* "Exits on `disconnect` command or idle timeout" (src/daemon.rs, the module *)
(* comment): once a Disconnect has been answered, the daemon is on its way    *)
(* out.  It does not hold: a mode switch that fails before the command is run *)
(* leaves the daemon serving.                                                 *)
DisconnectEndsDaemon ==
    \A c \in Clients :
        kind[c] = "Disconnect" /\ cli[c] = "closed" => pc \in {"shutdown", "exited"}

(* A Disconnect that was answered with success is final: the session is given *)
(* up and the daemon on its way out, and no client or reconnect that comes    *)
(* between brings it back.                                                    *)
AckedDisconnectIsFinal ==
    \A c \in Clients : kind[c] = "Disconnect" /\ c \in acked =>
        pc \in {"shutdown", "exited"} /\ session = "Disconnected"

(* SIGTERM or SIGINT ends the daemon, whatever it is doing when it arrives:   *)
(* the loop looks at signals only between commands and between reconnects.    *)
SignalStopsDaemon == signal ~> pc = "exited"

(* A client in the backlog is served and hung up on, or dropped by the exit;  *)
(* no sequence of failures makes it wait for ever.                            *)
WaitingClientReleased == \A c \in Clients : cli[c] = "waiting" ~> cli[c] = "closed"

(* A stream that died, even without an error, is found out by the keepalive   *)
(* check and replaced, or the daemon exits.                                   *)
FailedStreamReplaced ==
    encrypted.health \in {"silent", "broken"} ~> encrypted.health = "up" \/ pc = "exited"

-----------------------------------------------------------------------------
(* The inductive invariant behind the safety properties. *)

(* The client being served is the one whose connection is open, and there is  *)
(* one exactly when the loop is inside a handler.                             *)
ServesOne ==
    /\ cur = None <=> \/ pc \in {"select", "shutdown", "exited"}
                      \/ pc = "reconnect" /\ cont = "select"
    /\ \A c \in Clients : cli[c] = "served" <=> c = cur

(* Where the loop is fits the command it has read; clients not yet accepted   *)
(* have no history.                                                           *)
KindFits ==
    /\ \A c \in Clients :
          cli[c] \in {"out", "waiting"} => kind[c] = "none" /\ replies[c] = 0 /\ sent[c] = 0
    /\ pc = "read" => kind[cur] = "none"
    /\ pc = "open" => kind[cur] \in Terminals
    /\ pc \in {"drain", "collect"} => kind[cur] = "Exec"
    /\ pc = "shell" => kind[cur] = "Shell"
    /\ pc = "run" => kind[cur] \in {"Push", "Query"} \cup Dispatched
    /\ pc = "reconnect" /\ cont = "retry" => kind[cur] \in {"Exec", "Push", "Query"}
    /\ pc = "reconnect" /\ cont = "switch" => kind[cur] \in Kinds \ {"Invalid"}

(* The stream, active_conn_type and the running command agree, and a switch   *)
(* to a default stream has already forgotten the service id.                  *)
StreamFits ==
    /\ encrypted.mode = active_conn_type
    /\ pc \in Running => active_conn_type = conn_type_for_command(kind[cur])
    /\ pc = "reconnect" /\ cont = "retry" => active_conn_type = conn_type_for_command(kind[cur])
    /\ pc = "reconnect" /\ cont = "switch" =>
          active_service_id = None \/ conn_type_for_command(kind[cur]) = "Terminal"
    /\ ServiceIdOnlyInTerminalMode

(* The client being served has no answer yet, unless its shell has started. *)
RepliesFit ==
    /\ cur # None => replies[cur] = IF pc = "shell" THEN 1 ELSE 0
    /\ AnsweredExactlyOnce

(* Each of the two runs sends the command at most once. *)
SentFits ==
    /\ (cur = None \/ pc \in {"read", "reconnect"} \/ kind[cur] = "Shell") => run = 1
    /\ cur # None =>
          sent[cur] <= (run - 1)
                       + (IF pc = "collect" \/ (pc = "reconnect" /\ cont = "retry") THEN 1 ELSE 0)
    /\ \A c \in Clients : sent[c] <= 2

(* The conjunction the theorems of DaemonProofs carry from step to step. *)
IInv ==
    /\ TypeOK
    /\ ServesOne
    /\ KindFits
    /\ StreamFits
    /\ RepliesFit
    /\ SentFits
    /\ ConnectedWhileServing

-----------------------------------------------------------------------------
(* The promise to the clients, seen through the loop's state. *)
Server == INSTANCE CommandServer WITH
    up <- pc # "exited",
    serving <- cur,
    waiting <- {c \in Clients : cli[c] = "waiting"},
    answered <- {c \in Clients : replies[c] # 0},
    released <- {c \in Clients : cli[c] = "closed"}

(* The event loop, with its mode switches, reconnects and retries, implements *)
(* the one-client-at-a-time server of CommandServer.                          *)
ImplementsCommandServer == Server!Spec
=============================================================================
