---------------------------- MODULE CommandLine ----------------------------
(***************************************************************************)
(* The command-line front end (run in src/main.rs): invocations that run   *)
(* beside each other, ask for permission, look for a daemon, send it one   *)
(* command over its socket and turn the answer into an exit code.          *)
(*                                                                         *)
(* The daemon is reduced to what an invocation can see of it: the socket,  *)
(* the lock file, and the lines it writes (Daemon models its loop,         *)
(* DaemonLifecycle its files step by step).  It may stop or crash at any   *)
(* time.  Files are looked at one at a time, so what an invocation knows   *)
(* may be out of date when it acts on it.                                  *)
(***************************************************************************)
EXTENDS Naturals, Sequences, FiniteSets

CONSTANTS
  Invocations,
  Asks,          \* Asks[i]: what may be typed for invocation i (see Ask)
  StartsWith,    \* pairs <<command line, prefix>>
  Within,        \* pairs <<command line or path, part of it>>
  MaxCrashes,    \* bound: crashes of a daemon
  None

VARIABLES
  ask,           \* ask[i]: what invocation i was asked to do, or None
  at,            \* at[i]: where it is
  res,           \* res[i]: the response it holds
  exit,          \* exit[i]: its exit code, or None
  said,          \* said[i]: "connected", "disconnected" or "stub" where it said so
  conn,          \* conn[i]: its connection to the daemon
  lines,         \* lines[i]: responses written and not yet read
  phase,         \* the daemon: "none", "starting", "ready", "up", "closing", "closed"
  born,          \* daemon processes spawned that have not looked at the files yet
  cur,           \* the invocation it is serving, or None
  queue,         \* the listener's backlog; None is a connection that only probed
  socket,        \* the socket file: "none", "live" or "stale"
  lock,          \* the lock file: "none", "empty", "live", "stale" or "foreign"
  crashes,
  final,         \* final[i]: the last response the daemon wrote for i
  cut,           \* invocations being served when a daemon crashed
  touched,       \* invocations that reached a daemon or a peer
  seen           \* seen[i]: what was true of the daemon while i ran

cliVars == <<ask, at, res, exit, said>>
wireVars == <<conn, lines>>
fileVars == <<socket, lock>>
daemonVars == <<phase, born, cur, queue, crashes>>
ghostVars == <<final, cut, touched, seen>>
vars == <<cliVars, wireVars, fileVars, daemonVars, ghostVars>>

Kinds == {"connect", "disconnect", "shell", "exec", "push", "clipboard", "status",
          "displays", "capture", "input", "do"}

\* `direct' is --peer, or --terminal of connect.  `usage' says what is wrong with
\* the words (or the password on stdin), `stdin' what is typed at the prompts:
\* "yes once" is no at the second, "closed" is no terminal.
Ask == [kind : Kinds, direct : BOOLEAN, json : BOOLEAN,
        usage : {"fine", "help", "wrong", "bad password", "bad steps"},
        skip : BOOLEAN, stdin : {"yes", "yes once", "no", "closed"},
        sandbox : [mode : {"off", "missing", "rules"}],
        peer : STRING, line : STRING, paths : SUBSET STRING]

\* Only exec and push have --peer, only connect has --terminal.
ASSUME AskAssumption ==
  /\ \A i \in Invocations : \A a \in Asks[i] :
       a.kind \in Kinds /\ (a.direct => a.kind \in {"connect", "exec", "push"}) /\ a # None
  /\ None \notin Invocations \cup 0..4

-----------------------------------------------------------------------------
(* permissions.rs.                                                         *)

Sandboxed(a) == a.sandbox.mode = "rules"

\* The first or the second prompt of an invocation.
confirm(a, prompt) == a.skip \/ a.stdin = "yes" \/ (a.stdin = "yes once" /\ prompt = 1)

\* An empty list of peers or commands admits nothing.
ensure_connect_allowed(a, prompt) ==
  /\ Sandboxed(a) => a.peer \in a.sandbox.allowed_peers
  /\ confirm(a, prompt)

Blocked(a, text) == \E part \in a.sandbox.blocked_paths : part # "" /\ <<text, part>> \in Within

ensure_exec_allowed(a) ==
  /\ Sandboxed(a) => /\ \E p \in a.sandbox.allowed_commands : <<a.line, p>> \in StartsWith
                     /\ ~Blocked(a, a.line)
  /\ confirm(a, 1)

ensure_shell_allowed(a) == ~Sandboxed(a) /\ confirm(a, 1)

ensure_path_allowed(a, path) == Sandboxed(a) => ~Blocked(a, path)

ensure_push_allowed(a) == (\A path \in a.paths : ensure_path_allowed(a, path)) /\ confirm(a, 1)

-----------------------------------------------------------------------------
Init ==
  /\ ask = [i \in Invocations |-> None]
  /\ at = [i \in Invocations |-> "out"]
  /\ res = [i \in Invocations |-> "none"]
  /\ exit = [i \in Invocations |-> None]
  /\ said = [i \in Invocations |-> "nothing"]
  /\ conn = [i \in Invocations |-> "none"]
  /\ lines = [i \in Invocations |-> <<>>]
  /\ \/ phase = "none" /\ socket = "none" /\ lock = "none"
     \/ phase = "up" /\ socket = "live" /\ lock = "live"
  /\ born = 0
  /\ cur = None
  /\ queue = <<>>
  /\ crashes = 0
  /\ final = [i \in Invocations |-> "none"]
  /\ cut = {}
  /\ touched = {}
  /\ seen = [i \in Invocations |-> {}]

pid_is_alive == lock \in {"live", "foreign"}

\* The test of cleanup_stale_daemon_artifacts, in one step (DaemonLifecycle takes
\* it apart).
Occupied == socket = "live" \/ pid_is_alive

\* What can be said of the daemon at one moment: is_daemon_running in one step,
\* and whether commands are served.
View ==
  {IF Occupied THEN "present" ELSE "absent",
   IF phase = "up" THEN "serving" ELSE "not serving"}

\* A step that changes it is noticed by whoever is running.
Notice ==
  seen' = [i \in Invocations |-> IF at[i] \in {"out", "done"} THEN seen[i] ELSE seen[i] \cup View']

Goto(i, place) == at' = [at EXCEPT ![i] = place]

Stay == UNCHANGED <<wireVars, fileVars, daemonVars, ghostVars>>

\* emit_response and process::exit.
Exit(i, code) ==
  /\ at' = [at EXCEPT ![i] = "done"]
  /\ exit' = [exit EXCEPT ![i] = code]
  /\ UNCHANGED <<ask, res, said>>

Say(i, code, what) ==
  /\ at' = [at EXCEPT ![i] = "done"]
  /\ exit' = [exit EXCEPT ![i] = code]
  /\ said' = [said EXCEPT ![i] = what]
  /\ UNCHANGED <<ask, res>>

MoveTo(i, place) == Goto(i, place) /\ UNCHANGED <<ask, res, exit, said>>

-----------------------------------------------------------------------------
(* run, up to the match on the command: clap, then the sandbox's rules.    *)

run(i, a) ==
  /\ at[i] = "out"
  /\ ask' = [ask EXCEPT ![i] = a]
  /\ LET code == IF a.usage = "help" THEN 0
                 ELSE IF a.usage = "wrong" THEN 3
                 ELSE IF a.sandbox.mode = "missing" THEN 4
                 ELSE None
     IN  /\ exit' = [exit EXCEPT ![i] = code]
         /\ Goto(i, IF code = None THEN "start" ELSE "done")
  /\ seen' = [seen EXCEPT ![i] = View]
  /\ UNCHANGED <<res, said, wireVars, fileVars, daemonVars, final, cut, touched>>

-----------------------------------------------------------------------------
(* is_daemon_running: connect to the socket, then look at the lock's pid.  *)
(* The probe's connection stays in the backlog.                            *)

ProbeSocket(i) ==
  /\ at[i] = "probe"
  /\ IF socket = "live"
     THEN MoveTo(i, "found") /\ queue' = Append(queue, None)
     ELSE MoveTo(i, "probe lock") /\ UNCHANGED queue
  /\ UNCHANGED <<wireVars, fileVars, phase, cur, born, crashes, ghostVars>>

MutantProbeLock(i) ==
  /\ at[i] = "probe lock"
  /\ MoveTo(i, IF lock = "live" /\ socket = "live" THEN "found" ELSE "absent")
  /\ Stay

ProbeLock(i) ==
  /\ at[i] = "probe lock"
  /\ MoveTo(i, IF pid_is_alive THEN "found" ELSE "absent")
  /\ Stay

is_daemon_running(i) == ProbeSocket(i) \/ ProbeLock(i)

-----------------------------------------------------------------------------
(* send_command and send_to_daemon_streaming: LockFile::read, connect,     *)
(* write the command, then read one line, or all of them.                  *)

Streaming(i) == ask[i].kind \in {"exec", "push"}

Return(i, r) ==
  /\ Goto(i, "returned")
  /\ res' = [res EXCEPT ![i] = r]
  /\ UNCHANGED <<ask, exit, said>>

ReadLock(i) ==
  /\ at[i] = "send"
  /\ IF lock \in {"none", "empty"} THEN Return(i, "error") ELSE MoveTo(i, "dial")
  /\ Stay

Dial(i) ==
  /\ at[i] = "dial"
  /\ IF socket = "live"
     THEN /\ MoveTo(i, "await")
          /\ conn' = [conn EXCEPT ![i] = "queued"]
          /\ queue' = Append(queue, i)
          /\ touched' = touched \cup {i}
     ELSE Return(i, "error") /\ UNCHANGED <<conn, queue, touched>>
  /\ UNCHANGED <<lines, fileVars, phase, cur, born, crashes, final, cut, seen>>

\* read_line of send_command: the first line, or an empty one at the end.
MutantReadResponse(i) ==
  /\ at[i] = "await"
  /\ ~Streaming(i)
  /\ lines[i] # <<>> /\ Return(i, Head(lines[i]))
  /\ lines' = [lines EXCEPT ![i] = <<>>]
  /\ UNCHANGED <<conn, fileVars, daemonVars, ghostVars>>

ReadResponse(i) ==
  /\ at[i] = "await"
  /\ ~Streaming(i)
  /\ \/ lines[i] # <<>> /\ Return(i, Head(lines[i]))
     \/ lines[i] = <<>> /\ conn[i] = "closed" /\ Return(i, "error")
  /\ lines' = [lines EXCEPT ![i] = <<>>]
  /\ UNCHANGED <<conn, fileVars, daemonVars, ghostVars>>

\* The loop of send_to_daemon_streaming keeps the last response it reads.
MutantReadResponses(i) ==
  /\ at[i] = "await"
  /\ Streaming(i)
  /\ \/ /\ lines[i] # <<>>
        /\ res' = [res EXCEPT ![i] = IF @ = "none" THEN Head(lines[i]) ELSE @]
        /\ lines' = [lines EXCEPT ![i] = Tail(@)]
        /\ UNCHANGED <<ask, at, exit, said>>
     \/ /\ lines[i] = <<>> /\ conn[i] = "closed"
        /\ Return(i, IF res[i] = "none" THEN "error" ELSE res[i])
        /\ UNCHANGED lines
  /\ UNCHANGED <<conn, fileVars, daemonVars, ghostVars>>

ReadResponses(i) ==
  /\ at[i] = "await"
  /\ Streaming(i)
  /\ \/ /\ lines[i] # <<>>
        /\ res' = [res EXCEPT ![i] = Head(lines[i])]
        /\ lines' = [lines EXCEPT ![i] = Tail(@)]
        /\ UNCHANGED <<ask, at, exit, said>>
     \/ /\ lines[i] = <<>> /\ conn[i] = "closed"
        /\ Return(i, IF res[i] = "none" THEN "error" ELSE res[i])
        /\ UNCHANGED lines
  /\ UNCHANGED <<conn, fileVars, daemonVars, ghostVars>>

SendToDaemon(i) == ReadLock(i) \/ Dial(i) \/ ReadResponse(i) \/ ReadResponses(i)

\* resp.success: chunk and progress lines are successes too.
Success(i) == res[i] \in {"ok", "chunk"}

-----------------------------------------------------------------------------
(* The arms of the match.                                                  *)

Arm(i, kind, place) == ask[i] # None /\ at[i] = place /\ ask[i].kind = kind

Permitted(i, allowed, place) ==
  /\ IF allowed THEN MoveTo(i, place) ELSE Exit(i, 4)
  /\ Stay

\* A command that needs an answer: exit 0 for success, 1 for all else.
ExitByAnswer(i) == Exit(i, IF Success(i) THEN 0 ELSE 1) /\ Stay

\* --peer and --terminal: the invocation connects to the peer by itself.
GoDirect(i) ==
  /\ MoveTo(i, "direct")
  /\ touched' = touched \cup {i}
  /\ UNCHANGED <<wireVars, fileVars, daemonVars, final, cut, seen>>

DirectReturns(i) ==
  /\ at[i] = "direct"
  /\ \E code \in {0, 1} : Exit(i, code)
  /\ Stay

\* spawn_daemon: refuses beside a live daemon, else removes what is left, starts
\* a process, and waits for a lock file to appear.
SpawnDaemon(i) ==
  IF Occupied
  THEN Exit(i, 1) /\ Stay
  ELSE /\ MoveTo(i, "spawned")
       /\ born' = born + 1
       /\ socket' = "none"
       /\ lock' = "none"
       /\ touched' = touched \cup {i}
       /\ UNCHANGED <<wireVars, phase, cur, queue, crashes, final, cut, seen>>

ConnectArm(i) ==
  \/ /\ Arm(i, "connect", "start")
     /\ IF ask[i].usage = "bad password"
        THEN Exit(i, 3) /\ Stay
        ELSE Permitted(i, ensure_connect_allowed(ask[i], 1), "allowed")
  \/ /\ Arm(i, "connect", "allowed")
     /\ IF ask[i].direct
        THEN IF ask[i].json THEN Exit(i, 3) /\ Stay ELSE GoDirect(i)
        ELSE SpawnDaemon(i)
  \/ /\ Arm(i, "connect", "spawned")
     /\ \/ lock # "none" /\ Exit(i, 0)
        \/ lock = "none" /\ Exit(i, 1)
     /\ Stay

\* The answer to Disconnect is not looked at.
DisconnectArm(i) ==
  \/ Arm(i, "disconnect", "start") /\ MoveTo(i, "probe") /\ Stay
  \/ Arm(i, "disconnect", "found") /\ MoveTo(i, "send") /\ Stay
  \/ Arm(i, "disconnect", "absent") /\ Exit(i, 2) /\ Stay
  \/ Arm(i, "disconnect", "returned") /\ Exit(i, 0) /\ Stay

ShellArm(i) ==
  \/ Arm(i, "shell", "start") /\ Permitted(i, ensure_shell_allowed(ask[i]), "send")
  \/ Arm(i, "shell", "returned") /\ ExitByAnswer(i)

MutantExecArm(i) ==
  \/ /\ Arm(i, "exec", "start")
     /\ Permitted(i, ensure_exec_allowed(ask[i]), IF ask[i].direct THEN "allowed" ELSE "send")
  \/ Arm(i, "exec", "allowed") /\ GoDirect(i)
  \/ Arm(i, "exec", "returned") /\ ExitByAnswer(i)

ExecArm(i) ==
  \/ /\ Arm(i, "exec", "start")
     /\ Permitted(i, ensure_exec_allowed(ask[i]), IF ask[i].direct THEN "allowed" ELSE "send")
  \/ /\ Arm(i, "exec", "allowed")
     /\ IF ensure_connect_allowed(ask[i], 2) THEN GoDirect(i) ELSE Exit(i, 4) /\ Stay
  \/ Arm(i, "exec", "returned") /\ ExitByAnswer(i)

PushArm(i) ==
  \/ /\ Arm(i, "push", "start")
     /\ Permitted(i, ensure_push_allowed(ask[i]), IF ask[i].direct THEN "allowed" ELSE "send")
  \/ /\ Arm(i, "push", "allowed")
     /\ IF ensure_connect_allowed(ask[i], 2) THEN GoDirect(i) ELSE Exit(i, 4) /\ Stay
  \/ Arm(i, "push", "returned") /\ ExitByAnswer(i)

ClipboardArm(i) ==
  \/ Arm(i, "clipboard", "start") /\ MoveTo(i, "send") /\ Stay
  \/ Arm(i, "clipboard", "returned") /\ ExitByAnswer(i)

DisplaysArm(i) ==
  \/ Arm(i, "displays", "start") /\ MoveTo(i, "send") /\ Stay
  \/ Arm(i, "displays", "returned") /\ ExitByAnswer(i)

\* type, key, click, scroll, move and drag differ only in what they print.
InputArm(i) ==
  \/ Arm(i, "input", "start") /\ MoveTo(i, "send") /\ Stay
  \/ Arm(i, "input", "returned") /\ ExitByAnswer(i)

\* status always exits with 0; anything but a success is "disconnected".
StatusArm(i) ==
  \/ Arm(i, "status", "start") /\ MoveTo(i, "probe") /\ Stay
  \/ Arm(i, "status", "found") /\ MoveTo(i, "send") /\ Stay
  \/ Arm(i, "status", "absent") /\ Say(i, 0, "disconnected") /\ Stay
  \/ /\ Arm(i, "status", "returned")
     /\ Say(i, 0, IF Success(i) THEN "connected" ELSE "disconnected")
     /\ Stay

\* Without a daemon capture reports a made-up success.  The bytes of a real one
\* may fail to be written (module Capture).
CaptureArm(i) ==
  \/ Arm(i, "capture", "start") /\ MoveTo(i, "probe") /\ Stay
  \/ Arm(i, "capture", "found") /\ MoveTo(i, "send") /\ Stay
  \/ Arm(i, "capture", "absent") /\ (\E code \in {0, 1} : Say(i, code, "stub")) /\ Stay
  \/ /\ Arm(i, "capture", "returned")
     /\ \/ ExitByAnswer(i)
        \/ Success(i) /\ Say(i, 1, "not written") /\ Stay

\* do parses its steps and answers for them by itself (module Batch).
DoArm(i) ==
  \/ Arm(i, "do", "start") /\ MoveTo(i, "probe") /\ Stay
  \/ Arm(i, "do", "absent") /\ Exit(i, 2) /\ Stay
  \/ /\ Arm(i, "do", "found")
     /\ IF ask[i].usage = "bad steps" THEN Exit(i, 1) ELSE Say(i, 0, "stub")
     /\ Stay

FrontEnd(i) ==
  \/ \E a \in Asks[i] : run(i, a)
  \/ is_daemon_running(i)
  \/ SendToDaemon(i)
  \/ DirectReturns(i)
  \/ ConnectArm(i) \/ DisconnectArm(i) \/ ShellArm(i) \/ ExecArm(i) \/ PushArm(i)
  \/ ClipboardArm(i) \/ DisplaysArm(i) \/ InputArm(i) \/ StatusArm(i) \/ CaptureArm(i)
  \/ DoArm(i)

-----------------------------------------------------------------------------
(* The daemon, as seen from outside.                                       *)

\* run_daemon looks at the files again, and ends beside a live daemon; else it
\* binds the socket.
Binds ==
  /\ born > 0
  /\ born' = born - 1
  /\ IF Occupied
     THEN UNCHANGED <<phase, fileVars>>
     ELSE phase' = "starting" /\ socket' = "live" /\ lock' = "none"
  /\ UNCHANGED <<cliVars, wireVars, cur, queue, crashes, final, cut, touched>>
  /\ Notice

\* Connected and initialised: LockFile::write creates the file, then fills it.
CreatesLock ==
  /\ phase = "starting"
  /\ phase' = "ready"
  /\ lock' = "empty"
  /\ UNCHANGED <<cliVars, wireVars, socket, cur, queue, born, crashes, final, cut, touched>>
  /\ Notice

FillsLock ==
  /\ phase = "ready"
  /\ phase' = "up"
  /\ lock' = "live"
  /\ UNCHANGED <<cliVars, wireVars, socket, cur, queue, born, crashes, final, cut, touched>>
  /\ Notice

\* The end of the process: the listener goes, and with it whoever waited.
HangUp(clients) == conn' = [i \in Invocations |-> IF i \in clients THEN "closed" ELSE conn[i]]

Waiting == {i \in Invocations : conn[i] = "queued"}

StartFails ==
  /\ phase = "starting"
  /\ phase' = "none"
  /\ socket' = "none"
  /\ lock' = "none"
  /\ queue' = <<>>
  /\ HangUp(Waiting)
  /\ UNCHANGED <<cliVars, lines, cur, born, crashes, final, cut, touched>>
  /\ Notice

\* A probe's connection is at its end at once; its line is no command.
Accept ==
  /\ phase = "up"
  /\ cur = None
  /\ queue # <<>>
  /\ queue' = Tail(queue)
  /\ IF Head(queue) = None
     THEN UNCHANGED <<cur, conn>>
     ELSE /\ cur' = Head(queue)
          /\ conn' = [conn EXCEPT ![Head(queue)] = "served"]
  /\ UNCHANGED <<cliVars, lines, fileVars, phase, born, crashes, ghostVars>>

\* One chunk or progress line stands for any number: only the last line counts.
WritesChunk ==
  /\ phase = "up"
  /\ cur # None
  /\ Streaming(cur)
  /\ final[cur] = "none"
  /\ lines' = [lines EXCEPT ![cur] = Append(@, "chunk")]
  /\ final' = [final EXCEPT ![cur] = "chunk"]
  /\ UNCHANGED <<cliVars, conn, fileVars, daemonVars, cut, touched, seen>>

\* The final response.  A successful Disconnect ends the daemon, and so does a
\* stream that could not be replaced.
Answers(r, next) ==
  /\ phase = "up"
  /\ cur # None
  /\ lines' = [lines EXCEPT ![cur] = Append(@, r)]
  /\ final' = [final EXCEPT ![cur] = r]
  /\ HangUp({cur})
  /\ cur' = None
  /\ phase' = next
  /\ UNCHANGED <<cliVars, fileVars, queue, born, crashes, cut, touched>>
  /\ Notice

Succeeds == Answers("ok", IF ask[cur].kind = "disconnect" THEN "closing" ELSE "up")

Fails == \E next \in {"up", "closing"} : Answers("err", next)

\* A signal, the idle timeout, or the peer.
Stops ==
  /\ phase = "up"
  /\ cur = None
  /\ phase' = "closing"
  /\ UNCHANGED <<cliVars, wireVars, fileVars, cur, queue, born, crashes, final, cut, touched>>
  /\ Notice

RemovesSocket ==
  /\ phase = "closing"
  /\ phase' = "closed"
  /\ socket' = "none"
  /\ UNCHANGED <<cliVars, wireVars, lock, cur, queue, born, crashes, final, cut, touched>>
  /\ Notice

RemovesLock ==
  /\ phase = "closed"
  /\ phase' = "none"
  /\ lock' = "none"
  /\ queue' = <<>>
  /\ HangUp(Waiting)
  /\ UNCHANGED <<cliVars, lines, socket, cur, born, crashes, final, cut, touched>>
  /\ Notice

\* A crash leaves the files behind ...
Crash ==
  /\ phase # "none"
  /\ crashes < MaxCrashes
  /\ crashes' = crashes + 1
  /\ phase' = "none"
  /\ socket' = IF socket = "live" THEN "stale" ELSE socket
  /\ lock' = IF lock = "live" THEN "stale" ELSE lock
  /\ queue' = <<>>
  /\ cut' = cut \cup ({cur} \ {None})
  /\ HangUp(Waiting \cup {cur})
  /\ cur' = None
  /\ UNCHANGED <<cliVars, lines, born, final, touched>>
  /\ Notice

\* ... and the system may give the lock's pid to another process.
PidReused ==
  /\ lock = "stale"
  /\ lock' = "foreign"
  /\ UNCHANGED <<cliVars, wireVars, socket, daemonVars, final, cut, touched>>
  /\ Notice

Daemon ==
  \/ Binds \/ CreatesLock \/ FillsLock \/ StartFails \/ Accept \/ WritesChunk \/ Succeeds \/ Fails
  \/ Stops \/ RemovesSocket \/ RemovesLock \/ Crash \/ PidReused

-----------------------------------------------------------------------------
Next == Daemon \/ \E i \in Invocations : FrontEnd(i)

Spec == Init /\ [][Next]_vars

\* Processes are scheduled; a daemon connects or fails; a served command and a
\* direct session end.
Returning(i) ==
  \/ is_daemon_running(i) \/ SendToDaemon(i) \/ DirectReturns(i)
  \/ ConnectArm(i) \/ DisconnectArm(i) \/ ShellArm(i) \/ ExecArm(i) \/ PushArm(i)
  \/ ClipboardArm(i) \/ DisplaysArm(i) \/ InputArm(i) \/ StatusArm(i) \/ CaptureArm(i)
  \/ DoArm(i)

Fairness ==
  /\ \A i \in Invocations : WF_vars(Returning(i))
  /\ WF_vars(Binds)
  /\ WF_vars(CreatesLock \/ StartFails)
  /\ WF_vars(FillsLock)
  /\ WF_vars(Accept)
  /\ WF_vars(Succeeds \/ Fails)
  /\ WF_vars(RemovesSocket \/ RemovesLock)

LiveSpec == Spec /\ Fairness

-----------------------------------------------------------------------------
(* Properties.                                                             *)

Places == {"out", "start", "allowed", "probe", "probe lock", "found", "absent",
           "send", "dial", "await", "returned", "spawned", "direct", "done"}

\* What a command does to a daemon or a peer has been allowed: the sandbox's
\* rules admit the peer an invocation connects to (directly or by a daemon), the
\* command it runs and the files it touches, and the prompt was answered or
\* skipped.  Skipping prompts does not skip the sandbox, and a --peer command
\* passes both of its checks (permissions.rs).
Entitled(a) ==
  /\ a.sandbox.mode # "missing"
  /\ a.kind \in {"connect", "shell"} => a.skip \/ a.stdin \in {"yes", "yes once"}
  /\ a.kind \in {"exec", "push"} =>
       a.skip \/ a.stdin = "yes" \/ (a.stdin = "yes once" /\ ~a.direct)
  /\ a.sandbox.mode = "rules" =>
       /\ a.kind # "shell"
       /\ a.kind = "connect" \/ a.direct => a.peer \in a.sandbox.allowed_peers
       /\ a.kind = "exec" => \E p \in a.sandbox.allowed_commands : <<a.line, p>> \in StartsWith
       /\ \A part \in a.sandbox.blocked_paths \ {""} :
            /\ a.kind = "exec" => <<a.line, part>> \notin Within
            /\ a.kind = "push" => \A path \in a.paths : <<path, part>> \notin Within

NothingWithoutPermission == \A i \in touched : Entitled(ask[i])

\* The inductive invariant behind it: where an invocation is tells which checks
\* it has passed.
Checked(a, place) ==
  /\ place = "allowed" =>
       \/ a.kind = "connect" /\ ensure_connect_allowed(a, 1)
       \/ a.kind = "exec" /\ a.direct /\ ensure_exec_allowed(a)
       \/ a.kind = "push" /\ a.direct /\ ensure_push_allowed(a)
  /\ place \in {"probe", "probe lock", "found", "absent"} =>
       a.kind \in {"disconnect", "status", "capture", "do"}
  /\ place \in {"send", "dial"} => Entitled(a)

PermissionInv ==
  /\ at \in [Invocations -> Places]
  /\ ask \in [Invocations -> {None} \cup UNION {Asks[i] : i \in Invocations}]
  /\ touched \subseteq Invocations
  /\ \A i \in Invocations :
       /\ at[i] \notin {"out", "done"} => ask[i] \in Asks[i] /\ ask[i].sandbox.mode # "missing"
       /\ Checked(ask[i], at[i])
       /\ i \in touched => at[i] # "out" /\ Entitled(ask[i])

\* The exit code is the daemon's last word: a command that was sent exits with 0
\* exactly when the final response was a success.  Lines before the final one do
\* not decide it.  The exception is a daemon that crashes after a chunk: its
\* client takes the chunk for the answer (send_to_daemon_streaming).
Answered(i) ==
  /\ at[i] = "done"
  /\ ask[i].kind \notin {"connect", "disconnect", "status"}
  /\ ~ask[i].direct
  => /\ exit[i] = 0 => final[i] = "ok" \/ (i \in cut /\ final[i] = "chunk")
     /\ final[i] = "ok" => exit[i] = 0 \/ said[i] = "not written"

ExitCodeIsTheAnswer == \A i \in touched : Answered(i)

\* The inductive invariant behind it.  The last line written for an invocation is
\* the last it has read or will read, and what it returns with; only a crash
\* leaves a chunk for the last.
LastLine(i) == IF lines[i] = <<>> THEN res[i] ELSE lines[i][Len(lines[i])]

Talks(i) ==
  /\ at[i] \notin {"await", "returned", "done"} => conn[i] = "none" /\ res[i] = "none"
  /\ at[i] = "await" =>
       /\ conn[i] # "none" /\ LastLine(i) = final[i]
       /\ ~Streaming(i) => res[i] = "none" /\ Len(lines[i]) <= 1
  /\ at[i] = "returned" => res[i] = final[i] \/ (res[i] = "error" /\ final[i] = "none")
  /\ conn[i] = "none" => final[i] = "none" /\ lines[i] = <<>>
  /\ conn[i] = "queued" => final[i] = "none"
  /\ conn[i] \in {"queued", "served"} => at[i] = "await" /\ final[i] \in {"none", "chunk"}
  /\ cur = i => conn[i] = "served"
  /\ final[i] = "chunk" => Streaming(i) /\ (cur = i \/ i \in cut)
  /\ i \in touched /\ ask[i].kind # "connect" /\ ~ask[i].direct => conn[i] # "none"

BacklogFits ==
  /\ queue \in Seq(Invocations \cup {None})
  /\ \A k \in DOMAIN queue : queue[k] # None => conn[queue[k]] = "queued"
  /\ \A k, l \in DOMAIN queue : queue[k] # None /\ queue[k] = queue[l] => k = l

WireTypeOK ==
  /\ conn \in [Invocations -> {"none", "queued", "served", "closed"}]
  /\ res \in [Invocations -> {"none", "ok", "chunk", "err", "error"}]
  /\ lines \in [Invocations -> Seq({"ok", "chunk", "err"})]
  /\ final \in [Invocations -> {"none", "ok", "chunk", "err"}]
  /\ DOMAIN exit = Invocations /\ DOMAIN said = Invocations
  /\ cur \in Invocations \cup {None}

AnswerInv ==
  /\ WireTypeOK
  /\ BacklogFits
  /\ \A i \in Invocations : Talks(i)
  /\ ExitCodeIsTheAnswer

\* What a command says of the daemon was true at some moment while the command
\* ran, however the daemon starts, stops or crashes between the looks at socket
\* and lock, and although the lock's pid may belong to a stranger.  status says
\* "connected" only if a daemon was serving commands, and "disconnected" only if
\* none was or it answered with an error; "No active session" (exit code 2) is
\* said only if there was neither a live socket nor a live pid, so the two looks
\* of is_daemon_running are not fooled by a daemon that ends or starts between.
SaidTrue(i) ==
  /\ said[i] = "connected" => "serving" \in seen[i]
  /\ said[i] = "disconnected" => "not serving" \in seen[i] \/ final[i] = "err"
  /\ exit[i] = 2 => "absent" \in seen[i]

SaidWasTrue == \A i \in Invocations : SaidTrue(i)

\* The inductive invariant behind it: the files fit the daemon's phase, whoever
\* runs has seen the present, and an invocation between its two looks has seen
\* that nobody was there or has the second look ahead that finds the lock.
FilesFit ==
  /\ socket = "live" <=> phase \in {"starting", "ready", "up", "closing"}
  /\ lock = "live" <=> phase \in {"up", "closing", "closed"}

Hidden == socket # "live" /\ pid_is_alive

Looks(i) ==
  /\ at[i] \notin {"out", "done"} => View \subseteq seen[i]
  /\ at[i] = "probe lock" => {"absent", "not serving"} \subseteq seen[i] \/ Hidden
  /\ at[i] = "absent" => {"absent", "not serving"} \subseteq seen[i]
  /\ at[i] = "returned" => res[i] # "none" /\ (res[i] = "error" => "not serving" \in seen[i])
  /\ conn[i] = "closed" /\ final[i] = "none" => "not serving" \in seen[i]
  /\ final[i] # "none" => "serving" \in seen[i]
  /\ at[i] # "done" => said[i] = "nothing" /\ exit[i] = None

LookInv ==
  /\ FilesFit
  /\ DOMAIN seen = Invocations
  /\ \A i \in Invocations : Looks(i) /\ SaidTrue(i)

\* The variables have their types.
TypeOK ==
  /\ at \in [Invocations -> Places]
  /\ ask \in [Invocations -> {None} \cup UNION {Asks[i] : i \in Invocations}]
  /\ WireTypeOK
  /\ queue \in Seq(Invocations \cup {None})
  /\ touched \subseteq Invocations
  /\ FilesFit

\* Every invocation returns: a client in the backlog of a daemon that stops or
\* crashes is released, and one behind other clients has its turn.
InvocationReturns ==
  \A i \in Invocations : at[i] # "out" ~> at[i] = "done"

\* What SPEC.md says of disconnect: when it reports success the daemon has been
\* told, and ends the session.
DisconnectEndsSession ==
  \A i \in Invocations :
    ask[i] # None /\ at[i] = "done" =>
      (ask[i].kind = "disconnect" /\ ask[i].usage = "fine" /\ exit[i] = 0 => final[i] = "ok")
=============================================================================
