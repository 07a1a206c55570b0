------------------------- MODULE CommandLineProofs -------------------------
(***************************************************************************)
(* Proofs about CommandLine, for any number of invocations and crashes and *)
(* any sandbox rules: no invocation reaches a daemon or a peer without     *)
(* permission, its exit code is the daemon's last word, and what it says   *)
(* of the daemon was true.                                                 *)
(***************************************************************************)
EXTENDS CommandLine, TLAPS

-----------------------------------------------------------------------------
(* Sequences.                                                              *)

LEMMA EmptySeq ==
  ASSUME NEW S
  PROVE  /\ <<>> \in Seq(S) /\ Len(<<>>) = 0
         /\ \A seq \in Seq(S) : seq # <<>> => Len(seq) \in Nat \ {0}
  OBVIOUS

LEMMA HeadTailProperties ==
  ASSUME NEW S, NEW s \in Seq(S), s # <<>>
  PROVE  /\ Head(s) \in S /\ Tail(s) \in Seq(S) /\ Len(Tail(s)) = Len(s) - 1
         /\ \A i \in 1 .. Len(Tail(s)) : Tail(s)[i] = s[i + 1]
  OBVIOUS

-----------------------------------------------------------------------------
(* What each check of permissions.rs is good for.                          *)

LEMMA ConnectEntitles ==
  ASSUME NEW a, a.kind = "connect", a.sandbox.mode # "missing", ensure_connect_allowed(a, 1)
  PROVE  Entitled(a)
  BY Zenon DEF Entitled, ensure_connect_allowed, confirm, Sandboxed

LEMMA ShellEntitles ==
  ASSUME NEW a, a.kind = "shell", ~a.direct, a.sandbox.mode # "missing", ensure_shell_allowed(a)
  PROVE  Entitled(a)
  BY Zenon DEF Entitled, ensure_shell_allowed, confirm, Sandboxed

\* The two prompts.
LEMMA Confirmed ==
  ASSUME NEW a
  PROVE  /\ confirm(a, 1) => a.skip \/ a.stdin \in {"yes", "yes once"}
         /\ confirm(a, 2) => a.skip \/ a.stdin = "yes"
<1>1. 2 # 1
  OBVIOUS
<1> QED
  BY <1>1, Zenon DEF confirm

LEMMA ExecEntitles ==
  ASSUME NEW a, a.kind = "exec", a.sandbox.mode # "missing", ensure_exec_allowed(a),
         ~a.direct \/ ensure_connect_allowed(a, 2)
  PROVE  Entitled(a)
<1>1. a.skip \/ a.stdin = "yes" \/ (a.stdin = "yes once" /\ ~a.direct)
  BY Confirmed, Zenon DEF ensure_exec_allowed, ensure_connect_allowed
<1>2. a.sandbox.mode = "rules" =>
        /\ a.direct => a.peer \in a.sandbox.allowed_peers
        /\ \E p \in a.sandbox.allowed_commands : <<a.line, p>> \in StartsWith
        /\ \A part \in a.sandbox.blocked_paths \ {""} : <<a.line, part>> \notin Within
  BY Zenon DEF ensure_exec_allowed, ensure_connect_allowed, Sandboxed, Blocked
<1> QED
  BY Zenon, <1>1, <1>2 DEF Entitled

LEMMA PushEntitles ==
  ASSUME NEW a, a.kind = "push", a.sandbox.mode # "missing", ensure_push_allowed(a),
         ~a.direct \/ ensure_connect_allowed(a, 2)
  PROVE  Entitled(a)
<1>1. a.skip \/ a.stdin = "yes" \/ (a.stdin = "yes once" /\ ~a.direct)
  BY Confirmed, Zenon DEF ensure_push_allowed, ensure_connect_allowed
<1>2. a.sandbox.mode = "rules" =>
        /\ a.direct => a.peer \in a.sandbox.allowed_peers
        /\ \A part \in a.sandbox.blocked_paths \ {""}, path \in a.paths : <<path, part>> \notin Within
  BY Zenon DEF ensure_push_allowed, ensure_path_allowed, ensure_connect_allowed, Sandboxed, Blocked
<1> QED
  BY Zenon, <1>1, <1>2 DEF Entitled

LEMMA OthersEntitled ==
  ASSUME NEW a, a.kind \in {"disconnect", "clipboard", "status", "displays", "capture", "input", "do"},
         ~a.direct, a.sandbox.mode # "missing"
  PROVE  Entitled(a)
  BY Zenon DEF Entitled

-----------------------------------------------------------------------------
(* The inductive invariant.                                                *)

LEMMA InitPermission == Init => PermissionInv
  BY DEF Init, PermissionInv, Checked, Places

\* A step of a running invocation, to a place whose checks it has passed.
LEMMA MoveKeeps ==
  ASSUME PermissionInv, NEW i \in Invocations, NEW place \in Places,
         at[i] \notin {"out", "done"}, place # "out", Checked(ask[i], place),
         at' = [at EXCEPT ![i] = place], ask' = ask,
         touched' = touched \/ (touched' = touched \cup {i} /\ Entitled(ask[i]))
  PROVE  PermissionInv'
<1>1. at' \in [Invocations -> Places] /\ ask' = ask /\ touched' \subseteq Invocations
  BY Zenon DEF PermissionInv
<1>2. ASSUME NEW j \in Invocations
      PROVE  /\ at'[j] \notin {"out", "done"} => ask[j] \in Asks[j] /\ ask[j].sandbox.mode # "missing"
             /\ Checked(ask[j], at'[j])
             /\ j \in touched' => at'[j] # "out" /\ Entitled(ask[j])
  <2>1. CASE j = i
    BY Zenon, <2>1 DEF PermissionInv
  <2>2. CASE j # i
    <3>1. at'[j] = at[j] /\ (j \in touched' => j \in touched)
      BY Zenon, <2>2 DEF PermissionInv
    <3> QED
      BY Zenon, <3>1 DEF PermissionInv
  <2> QED
    BY Zenon, <2>1, <2>2
<1>3. ask' \in [Invocations -> {None} \cup UNION {Asks[k] : k \in Invocations}]
  BY Zenon DEF PermissionInv
<1> QED
  BY Zenon, <1>1, <1>2, <1>3 DEF PermissionInv

\* What is known of an invocation that is running.
LEMMA Running ==
  ASSUME PermissionInv, NEW i \in Invocations, at[i] \notin {"out", "done"}
  PROVE  /\ ask[i] \in Asks[i] /\ ask[i].sandbox.mode # "missing" /\ ask[i].kind \in Kinds
         /\ ask[i].direct => ask[i].kind \in {"connect", "exec", "push"}
         /\ Checked(ask[i], at[i])
  BY Zenon, AskAssumption DEF PermissionInv

LEMMA RunKeeps ==
  ASSUME PermissionInv, NEW i \in Invocations, NEW a \in Asks[i], run(i, a)
  PROVE  PermissionInv'
<1>1. /\ at[i] = "out" /\ ask' = [ask EXCEPT ![i] = a] /\ touched' = touched
      /\ \/ at' = [at EXCEPT ![i] = "start"] /\ a.sandbox.mode # "missing"
         \/ at' = [at EXCEPT ![i] = "done"]
  <2>1. None # 0 /\ None # 3 /\ None # 4
    BY AskAssumption
  <2>2. at[i] = "out" /\ ask' = [ask EXCEPT ![i] = a] /\ touched' = touched
    BY Zenon DEF run
  <2> DEFINE code == IF a.usage = "help" THEN 0
                     ELSE IF a.usage = "wrong" THEN 3
                     ELSE IF a.sandbox.mode = "missing" THEN 4
                     ELSE None
  <2>3. at' = [at EXCEPT ![i] = IF code = None THEN "start" ELSE "done"]
    BY Zenon DEF run, Goto
  <2>4. code = None => a.sandbox.mode # "missing"
    BY Zenon, <2>1
  <2> HIDE DEF code
  <2> QED
    BY Zenon, <2>2, <2>3, <2>4
<1>2. PICK place \in {"start", "done"} :
          at' = [at EXCEPT ![i] = place] /\ (place = "start" => a.sandbox.mode # "missing")
  BY Zenon, <1>1
<1>3. /\ at' \in [Invocations -> Places] /\ at'[i] = place /\ touched' \subseteq Invocations
      /\ ask' \in [Invocations -> {None} \cup UNION {Asks[k] : k \in Invocations}] /\ ask'[i] = a
  BY ZenonT(60), <1>1, <1>2 DEF PermissionInv, Places
<1>4. ASSUME NEW j \in Invocations
      PROVE  /\ at'[j] \notin {"out", "done"} => ask'[j] \in Asks[j] /\ ask'[j].sandbox.mode # "missing"
             /\ Checked(ask'[j], at'[j])
             /\ j \in touched' => at'[j] # "out" /\ Entitled(ask'[j])
  <2>1. CASE j = i
    BY Zenon, <1>1, <1>2, <1>3, <2>1 DEF PermissionInv, Checked
  <2>2. CASE j # i
    <3>1. at'[j] = at[j] /\ ask'[j] = ask[j]
      BY Zenon, <1>1, <1>2, <2>2 DEF PermissionInv
    <3> QED
      BY Zenon, <1>1, <3>1 DEF PermissionInv
  <2> QED
    BY Zenon, <2>1, <2>2
<1> QED
  BY Zenon, <1>3, <1>4 DEF PermissionInv

\* Looking for a daemon, and talking to it.
LEMMA TalkKeeps ==
  ASSUME PermissionInv, NEW i \in Invocations, is_daemon_running(i) \/ SendToDaemon(i) \/ DirectReturns(i)
  PROVE  PermissionInv'
<1> USE DEF MoveTo, Goto, Return, Exit, Stay, ghostVars
<1>1. CASE is_daemon_running(i)
  <2>1. at[i] \in {"probe", "probe lock"} /\ ask' = ask /\ touched' = touched
        /\ \E place \in {"found", "absent", "probe lock"} : at' = [at EXCEPT ![i] = place]
    BY Zenon, <1>1 DEF is_daemon_running, ProbeSocket, ProbeLock
  <2>2. Checked(ask[i], at[i])
    BY Zenon, <2>1, Running
  <2>3. \A place \in {"found", "absent", "probe lock"} : Checked(ask[i], place) /\ place \in Places /\ place # "out"
    BY Zenon, <2>1, <2>2 DEF Checked, Places
  <2> QED
    BY Zenon, <2>1, <2>3, MoveKeeps
<1>2. CASE ReadLock(i) \/ Dial(i)
  <2>1. at[i] \in {"send", "dial"} /\ ask' = ask /\ touched' \in {touched, touched \cup {i}}
        /\ \E place \in {"dial", "await", "returned"} : at' = [at EXCEPT ![i] = place]
    BY Zenon, <1>2 DEF ReadLock, Dial
  <2>2. Checked(ask[i], at[i])
    BY Zenon, <2>1, Running
  <2>3. Entitled(ask[i])
    BY Zenon, <2>1, <2>2 DEF Checked
  <2>4. \A place \in {"dial", "await", "returned"} : Checked(ask[i], place) /\ place \in Places /\ place # "out"
    BY Zenon, <2>3 DEF Checked, Places
  <2> QED
    BY Zenon, <2>1, <2>3, <2>4, MoveKeeps
<1>3. CASE ReadResponse(i) \/ ReadResponses(i) \/ DirectReturns(i)
  <2>1. at[i] \in {"await", "direct"} /\ ask' = ask /\ touched' = touched
        /\ (at' = at \/ \E place \in {"returned", "done"} : at' = [at EXCEPT ![i] = place])
    BY Zenon, <1>3 DEF ReadResponse, ReadResponses, DirectReturns
  <2>2. \A place \in {"returned", "done"} : Checked(ask[i], place) /\ place \in Places /\ place # "out"
    BY Zenon DEF Checked, Places
  <2>3. CASE at' = at
    BY Zenon, <2>1, <2>3 DEF PermissionInv
  <2> QED
    BY Zenon, <2>1, <2>2, <2>3, MoveKeeps
<1> QED
  BY Zenon, <1>1, <1>2, <1>3 DEF SendToDaemon

-----------------------------------------------------------------------------
(* The arms of the match.                                                  *)

LEMMA ExitKeeps ==
  ASSUME PermissionInv, NEW i \in Invocations, at[i] \notin {"out", "done"}, NEW code,
         Exit(i, code) \/ (\E what : Say(i, code, what)), Stay
  PROVE  PermissionInv'
<1>1. at' = [at EXCEPT ![i] = "done"] /\ ask' = ask /\ touched' = touched
  BY Zenon DEF Exit, Say, Stay, ghostVars
<1>2. Checked(ask[i], "done") /\ "done" \in Places
  BY Zenon DEF Checked, Places
<1> QED
  BY Zenon, <1>1, <1>2, MoveKeeps

LEMMA PassKeeps ==
  ASSUME PermissionInv, NEW i \in Invocations, at[i] \notin {"out", "done"},
         NEW place \in Places, place # "out", Checked(ask[i], place), MoveTo(i, place), Stay
  PROVE  PermissionInv'
<1>1. at' = [at EXCEPT ![i] = place] /\ ask' = ask /\ touched' = touched
  BY Zenon DEF MoveTo, Goto, Stay, ghostVars
<1> QED
  BY Zenon, <1>1, MoveKeeps

LEMMA DirectKeeps ==
  ASSUME PermissionInv, NEW i \in Invocations, at[i] \notin {"out", "done"}, Entitled(ask[i]), GoDirect(i)
  PROVE  PermissionInv'
<1>1. at' = [at EXCEPT ![i] = "direct"] /\ ask' = ask /\ touched' = touched \cup {i}
  BY Zenon DEF GoDirect, MoveTo, Goto
<1>2. Checked(ask[i], "direct") /\ "direct" \in Places
  BY Zenon DEF Checked, Places
<1> QED
  BY Zenon, <1>1, <1>2, MoveKeeps

\* The commands that ask nobody, and their way to the answer.
LEMMA FreeArmsKeep ==
  ASSUME PermissionInv, NEW i \in Invocations,
         \/ DisconnectArm(i) \/ ClipboardArm(i) \/ DisplaysArm(i) \/ InputArm(i)
         \/ StatusArm(i) \/ CaptureArm(i) \/ DoArm(i)
  PROVE  PermissionInv'
<1> DEFINE free == {"disconnect", "clipboard", "status", "displays", "capture", "input", "do"}
<1>1. at[i] \in {"start", "found", "absent", "returned"} /\ ask[i].kind \in free
  BY Zenon DEF DisconnectArm, ClipboardArm, DisplaysArm, InputArm, StatusArm, CaptureArm, DoArm, Arm
<1>2. ask[i].sandbox.mode # "missing" /\ ~ask[i].direct
  BY Zenon, <1>1, Running
<1>3. Entitled(ask[i])
  BY <1>1, <1>2, OthersEntitled
<1>4. \/ /\ \/ MoveTo(i, "send")
            \/ MoveTo(i, "probe") /\ ask[i].kind \in {"disconnect", "status", "capture", "do"}
         /\ Stay
      \/ \E code : (Exit(i, code) \/ (\E what : Say(i, code, what))) /\ Stay
  BY Zenon DEF DisconnectArm, ClipboardArm, DisplaysArm, InputArm, StatusArm, CaptureArm, DoArm, Arm, ExitByAnswer
<1>5. "send" \in Places /\ "probe" \in Places
  BY Zenon DEF Places
<1>6. Checked(ask[i], "send")
  BY Zenon, <1>3 DEF Checked
<1>7. ask[i].kind \in {"disconnect", "status", "capture", "do"} => Checked(ask[i], "probe")
  BY Zenon DEF Checked
<1> QED
  BY Zenon, <1>1, <1>4, <1>5, <1>6, <1>7, PassKeeps, ExitKeeps

LEMMA ShellArmKeeps ==
  ASSUME PermissionInv, NEW i \in Invocations, ShellArm(i)
  PROVE  PermissionInv'
<1>1. at[i] \in {"start", "returned"} /\ ask[i].kind = "shell"
  BY Zenon DEF ShellArm, Arm
<1>2. ask[i].sandbox.mode # "missing" /\ ~ask[i].direct
  BY Zenon, <1>1, Running
<1>3. \/ ensure_shell_allowed(ask[i]) /\ MoveTo(i, "send") /\ Stay
      \/ \E code : Exit(i, code) /\ Stay
  BY Zenon DEF ShellArm, Permitted, ExitByAnswer
<1>4. ensure_shell_allowed(ask[i]) => Checked(ask[i], "send")
  BY Zenon, <1>1, <1>2, ShellEntitles DEF Checked
<1>5. "send" \in Places
  BY Zenon DEF Places
<1> QED
  BY Zenon, <1>1, <1>3, <1>4, <1>5, PassKeeps, ExitKeeps

LEMMA ExecArmKeeps ==
  ASSUME PermissionInv, NEW i \in Invocations, ExecArm(i)
  PROVE  PermissionInv'
<1>1. at[i] \in {"start", "allowed", "returned"} /\ ask[i].kind = "exec"
  BY Zenon DEF ExecArm, Arm
<1>2. ask[i].sandbox.mode # "missing" /\ Checked(ask[i], at[i])
  BY Zenon, <1>1, Running
<1>3. \/ ensure_exec_allowed(ask[i]) /\ ~ask[i].direct /\ MoveTo(i, "send") /\ Stay
      \/ ensure_exec_allowed(ask[i]) /\ ask[i].direct /\ MoveTo(i, "allowed") /\ Stay
      \/ at[i] = "allowed" /\ ensure_connect_allowed(ask[i], 2) /\ GoDirect(i)
      \/ \E code : Exit(i, code) /\ Stay
  BY Zenon DEF ExecArm, Arm, Permitted, ExitByAnswer
<1>4. /\ ensure_exec_allowed(ask[i]) /\ ~ask[i].direct => Checked(ask[i], "send")
      /\ ensure_exec_allowed(ask[i]) /\ ask[i].direct => Checked(ask[i], "allowed")
      /\ at[i] = "allowed" /\ ensure_connect_allowed(ask[i], 2) => Entitled(ask[i])
  BY Zenon, <1>1, <1>2, ExecEntitles DEF Checked
<1>5. "send" \in Places /\ "allowed" \in Places
  BY Zenon DEF Places
<1> QED
  BY Zenon, <1>1, <1>3, <1>4, <1>5, PassKeeps, DirectKeeps, ExitKeeps

LEMMA PushArmKeeps ==
  ASSUME PermissionInv, NEW i \in Invocations, PushArm(i)
  PROVE  PermissionInv'
<1>1. at[i] \in {"start", "allowed", "returned"} /\ ask[i].kind = "push"
  BY Zenon DEF PushArm, Arm
<1>2. ask[i].sandbox.mode # "missing" /\ Checked(ask[i], at[i])
  BY Zenon, <1>1, Running
<1>3. \/ ensure_push_allowed(ask[i]) /\ ~ask[i].direct /\ MoveTo(i, "send") /\ Stay
      \/ ensure_push_allowed(ask[i]) /\ ask[i].direct /\ MoveTo(i, "allowed") /\ Stay
      \/ at[i] = "allowed" /\ ensure_connect_allowed(ask[i], 2) /\ GoDirect(i)
      \/ \E code : Exit(i, code) /\ Stay
  BY Zenon DEF PushArm, Arm, Permitted, ExitByAnswer
<1>4. /\ ensure_push_allowed(ask[i]) /\ ~ask[i].direct => Checked(ask[i], "send")
      /\ ensure_push_allowed(ask[i]) /\ ask[i].direct => Checked(ask[i], "allowed")
      /\ at[i] = "allowed" /\ ensure_connect_allowed(ask[i], 2) => Entitled(ask[i])
  BY Zenon, <1>1, <1>2, PushEntitles DEF Checked
<1>5. "send" \in Places /\ "allowed" \in Places
  BY Zenon DEF Places
<1> QED
  BY Zenon, <1>1, <1>3, <1>4, <1>5, PassKeeps, DirectKeeps, ExitKeeps

LEMMA ConnectArmKeeps ==
  ASSUME PermissionInv, NEW i \in Invocations, ConnectArm(i)
  PROVE  PermissionInv'
<1>1. at[i] \in {"start", "allowed", "spawned"} /\ ask[i].kind = "connect"
  BY Zenon DEF ConnectArm, Arm
<1>2. ask[i].sandbox.mode # "missing" /\ Checked(ask[i], at[i])
  BY Zenon, <1>1, Running
<1>3. \/ ensure_connect_allowed(ask[i], 1) /\ MoveTo(i, "allowed") /\ Stay
      \/ at[i] = "allowed" /\ GoDirect(i)
      \/ at[i] = "allowed" /\ MoveTo(i, "spawned") /\ touched' = touched \cup {i}
      \/ \E code : Exit(i, code) /\ Stay
  BY Zenon DEF ConnectArm, Arm, Permitted, SpawnDaemon
<1>4. /\ ensure_connect_allowed(ask[i], 1) => Checked(ask[i], "allowed")
      /\ at[i] = "allowed" => Entitled(ask[i])
      /\ Checked(ask[i], "spawned")
  BY Zenon, <1>1, <1>2, ConnectEntitles DEF Checked
<1>5. "allowed" \in Places /\ "spawned" \in Places
  BY Zenon DEF Places
<1>6. CASE at[i] = "allowed" /\ MoveTo(i, "spawned") /\ touched' = touched \cup {i}
  <2>1. at' = [at EXCEPT ![i] = "spawned"] /\ ask' = ask
    BY Zenon, <1>6 DEF MoveTo, Goto
  <2> QED
    BY Zenon, <1>1, <1>4, <1>5, <1>6, <2>1, MoveKeeps
<1> QED
  BY Zenon, <1>1, <1>3, <1>4, <1>5, <1>6, PassKeeps, DirectKeeps, ExitKeeps

-----------------------------------------------------------------------------
\* Where an invocation is tells which checks it has passed, whatever the daemon
\* and the other invocations do.
THEOREM PermissionInvariance == Spec => []PermissionInv
<1>1. PermissionInv /\ [Next]_vars => PermissionInv'
  <2> SUFFICES ASSUME PermissionInv, [Next]_vars PROVE PermissionInv'
    BY Zenon
  <2>1. ASSUME NEW i \in Invocations, FrontEnd(i)
        PROVE  PermissionInv'
    BY Zenon, <2>1, RunKeeps, TalkKeeps, FreeArmsKeep, ShellArmKeeps, ExecArmKeeps, PushArmKeeps, ConnectArmKeeps
       DEF FrontEnd
  <2>2. CASE Daemon \/ UNCHANGED vars
    <3>1. at' = at /\ ask' = ask /\ touched' = touched
      BY Zenon, <2>2 DEF Daemon, Binds, CreatesLock, FillsLock, StartFails, Accept, WritesChunk, Succeeds, Fails,
         Answers, Stops, RemovesSocket, RemovesLock, Crash, PidReused, vars, cliVars, ghostVars
    <3> QED
      BY Zenon, <3>1 DEF PermissionInv
  <2> QED
    BY Zenon, <2>1, <2>2 DEF Next
<1> QED
  BY <1>1, InitPermission, PTL DEF Spec

\* An invocation that reached a daemon or a peer was entitled to, for every
\* sandbox, every prompt and every interleaving: no arm of the match forgets a
\* check of permissions.rs.
THEOREM PermissionCorrect == Spec => []NothingWithoutPermission
<1>1. PermissionInv => NothingWithoutPermission
  BY Zenon DEF PermissionInv, NothingWithoutPermission
<1> QED
  BY <1>1, PermissionInvariance, PTL

-----------------------------------------------------------------------------
(* The answer.                                                             *)

LEMMA InitAnswer == Init => AnswerInv
<1> SUFFICES ASSUME Init PROVE AnswerInv
  BY Zenon
<1>1. WireTypeOK /\ BacklogFits
  BY DEF Init, WireTypeOK, BacklogFits
<1>2. ASSUME NEW i \in Invocations PROVE Talks(i)
  BY Zenon, AskAssumption DEF Init, Talks, LastLine
<1>3. ExitCodeIsTheAnswer
  BY Zenon DEF Init, ExitCodeIsTheAnswer
<1> QED
  BY Zenon, <1>1, <1>2, <1>3 DEF AnswerInv

\* What a step leaves alone of an invocation stays as it is.
Untouched(j) ==
  /\ at'[j] = at[j] /\ ask'[j] = ask[j] /\ res'[j] = res[j]
  /\ exit'[j] = exit[j] /\ said'[j] = said[j]
  /\ conn'[j] = conn[j] /\ lines'[j] = lines[j] /\ final'[j] = final[j]
  /\ (j \in touched' => j \in touched) /\ (j \in cut => j \in cut')

LEMMA UntouchedKeeps ==
  ASSUME AnswerInv, NEW j \in Invocations, Untouched(j), cur' = j <=> cur = j
  PROVE  Talks(j)' /\ (j \in touched' => Answered(j)')
<1>1. Talks(j) /\ (j \in touched => Answered(j))
  BY Zenon DEF AnswerInv, ExitCodeIsTheAnswer
<1>2. Talks(j)'
  BY ZenonT(60), <1>1 DEF Untouched, Talks, LastLine, Streaming
<1>3. j \in touched' => Answered(j)'
  BY Zenon, <1>1 DEF Untouched, Answered
<1> QED
  BY Zenon, <1>2, <1>3

\* A step of invocation i.
LEMMA OneMoves ==
  ASSUME AnswerInv, PermissionInv', NEW i \in Invocations, WireTypeOK', BacklogFits',
         Talks(i)', i \in touched' => Answered(i)', cur' = cur,
         \A j \in Invocations \ {i} : Untouched(j)
  PROVE  AnswerInv'
<1>1. \A j \in Invocations : Talks(j)' /\ (j \in touched' => Answered(j)')
  BY Zenon, UntouchedKeeps
<1>2. touched' \subseteq Invocations
  BY Zenon DEF PermissionInv
<1> QED
  BY Zenon, <1>1, <1>2 DEF AnswerInv, ExitCodeIsTheAnswer

\* What the front end changes when it neither dials nor reads.
LEMMA FunctionsApply ==
  ASSUME PermissionInv, AnswerInv, NEW i \in Invocations
  PROVE  /\ DOMAIN at = Invocations /\ DOMAIN ask = Invocations /\ DOMAIN res = Invocations
         /\ DOMAIN exit = Invocations /\ DOMAIN said = Invocations /\ DOMAIN conn = Invocations
         /\ DOMAIN lines = Invocations /\ DOMAIN final = Invocations
  BY Zenon DEF PermissionInv, AnswerInv, WireTypeOK

\* The end of an invocation that holds its answer, or has asked for none.
LEMMA EndAnswers ==
  ASSUME PermissionInv, AnswerInv, PermissionInv', NEW i \in Invocations,
         at[i] \notin {"out", "await", "done"}, NEW code, NEW what,
         Exit(i, code) \/ Say(i, code, what), Stay,
         at[i] = "returned" /\ ask[i].kind \notin {"connect", "disconnect", "status"} =>
            /\ code = 0 => Success(i)
            /\ Success(i) => code = 0 \/ (what = "not written" /\ Say(i, code, what))
  PROVE  AnswerInv'
<1> USE FunctionsApply DEF Exit, Say, Stay, wireVars, daemonVars, ghostVars
<1>1. Talks(i) /\ WireTypeOK /\ BacklogFits
  BY Zenon DEF AnswerInv
<1>2. WireTypeOK' /\ BacklogFits'
  <2>1. DOMAIN exit' = Invocations /\ DOMAIN said' = Invocations
    BY Zenon
  <2>2. conn' = conn /\ res' = res /\ lines' = lines /\ final' = final /\ cur' = cur /\ queue' = queue
    BY Zenon
  <2> QED
    BY ZenonT(60), <1>1, <2>1, <2>2 DEF WireTypeOK, BacklogFits
<1>3. /\ at'[i] = "done" /\ exit'[i] = code /\ (Say(i, code, what) => said'[i] = what)
      /\ ask' = ask /\ res' = res /\ conn' = conn /\ lines' = lines /\ final' = final
      /\ cur' = cur /\ touched' = touched /\ cut' = cut
  BY Zenon
<1>4. Talks(i)'
  BY Zenon, <1>1, <1>3 DEF Talks, Streaming
<1>5. i \in touched' => Answered(i)'
  <2>1. CASE conn[i] = "none"
    BY Zenon, <1>1, <1>3, <2>1 DEF Talks, Answered
  <2>2. CASE conn[i] # "none"
    <3>1. at[i] = "returned"
      BY Zenon, <1>1, <2>2 DEF Talks, PermissionInv, Places
    <3>2. /\ Success(i) => final[i] = "ok" \/ (final[i] = "chunk" /\ i \in cut)
          /\ final[i] = "ok" => Success(i)
      BY Zenon, <1>1, <3>1 DEF Talks, Success
    <3> QED
      BY Zenon, <1>3, <3>1, <3>2 DEF Answered
  <2> QED
    BY Zenon, <2>1, <2>2
<1>6. \A j \in Invocations \ {i} : Untouched(j)
  BY Zenon DEF Untouched
<1> QED
  BY Zenon, <1>2, <1>3, <1>4, <1>5, <1>6, OneMoves


\* On the way to the dial, to a daemon of its own, or to the peer.
LEMMA WayAnswers ==
  ASSUME PermissionInv, AnswerInv, PermissionInv', NEW i \in Invocations,
         at[i] \notin {"await", "returned", "done"}, NEW place \in Places,
         place \notin {"out", "await", "returned", "done"}, MoveTo(i, place),
         UNCHANGED <<wireVars, cur, final, cut>>,
         queue' = queue \/ queue' = Append(queue, None),
         \/ touched' = touched
         \/ touched' = touched \cup {i} /\ (ask[i].kind = "connect" \/ ask[i].direct)
  PROVE  AnswerInv'
<1> USE FunctionsApply DEF MoveTo, Goto, wireVars
<1>1. Talks(i) /\ WireTypeOK /\ BacklogFits
  BY Zenon DEF AnswerInv
<1>2. WireTypeOK'
  BY Zenon, <1>1 DEF WireTypeOK
<1>3. BacklogFits'
  <2>1. CASE queue' = queue
    BY Zenon, <1>1, <2>1 DEF BacklogFits
  <2>2. CASE queue' = Append(queue, None)
    BY SMTT(60), <1>1, <2>2 DEF BacklogFits
  <2> QED
    BY Zenon, <2>1, <2>2
<1>4. Talks(i)'
  BY Zenon, <1>1 DEF Talks, Streaming
<1>5. i \in touched' => Answered(i)'
  BY ZenonT(60) DEF Answered
<1>6. \A j \in Invocations \ {i} : Untouched(j)
  BY Zenon DEF Untouched
<1> QED
  BY Zenon, <1>2, <1>3, <1>4, <1>5, <1>6, OneMoves

LEMMA RunAnswers ==
  ASSUME PermissionInv, AnswerInv, PermissionInv', NEW i \in Invocations, NEW a \in Asks[i], run(i, a)
  PROVE  AnswerInv'
<1> USE FunctionsApply DEF run, Goto, wireVars, daemonVars
<1>1. Talks(i) /\ WireTypeOK /\ BacklogFits
  BY Zenon DEF AnswerInv
<1>2. WireTypeOK' /\ BacklogFits'
  BY Zenon, <1>1 DEF WireTypeOK, BacklogFits
<1>3. /\ at[i] = "out" /\ at'[i] \in {"start", "done"} /\ i \notin touched
      /\ res' = res /\ conn' = conn /\ lines' = lines /\ final' = final
      /\ cur' = cur /\ touched' = touched /\ cut' = cut
  BY Zenon DEF PermissionInv
<1>4. Talks(i)'
  BY Zenon, <1>1, <1>3 DEF Talks
<1>5. \A j \in Invocations \ {i} : Untouched(j)
  BY Zenon DEF Untouched
<1> QED
  BY Zenon, <1>2, <1>3, <1>4, <1>5, OneMoves

\* is_daemon_running.
LEMMA ProbeAnswers ==
  ASSUME PermissionInv, AnswerInv, PermissionInv', NEW i \in Invocations, is_daemon_running(i)
  PROVE  AnswerInv'
<1>1. /\ at[i] \in {"probe", "probe lock"}
      /\ UNCHANGED <<wireVars, cur, final, cut, touched>>
      /\ queue' = queue \/ queue' = Append(queue, None)
      /\ \E place \in {"found", "absent", "probe lock"} : MoveTo(i, place)
  BY Zenon DEF is_daemon_running, ProbeSocket, ProbeLock, Stay, daemonVars, ghostVars
<1>2. \A place \in {"found", "absent", "probe lock"} : place \in Places
  BY Zenon DEF Places
<1> QED
  BY Zenon, <1>1, <1>2, WayAnswers

\* send_command and send_to_daemon_streaming.
LEMMA ReadLockAnswers ==
  ASSUME PermissionInv, AnswerInv, PermissionInv', NEW i \in Invocations, ReadLock(i)
  PROVE  AnswerInv'
<1>1. CASE MoveTo(i, "dial")
  <2>1. "dial" \in Places
    BY Zenon DEF Places
  <2> QED
    BY Zenon, <1>1, <2>1, WayAnswers DEF ReadLock, Stay, daemonVars, ghostVars
<1>2. CASE Return(i, "error")
  <2> USE FunctionsApply DEF ReadLock, Return, Goto, Stay, wireVars, daemonVars, ghostVars
  <2>1. Talks(i) /\ WireTypeOK /\ BacklogFits
    BY Zenon DEF AnswerInv
  <2>2. WireTypeOK' /\ BacklogFits'
    BY Zenon, <1>2, <2>1 DEF WireTypeOK, BacklogFits
  <2>3. Talks(i)'
    BY Zenon, <1>2, <2>1 DEF Talks, Streaming
  <2>4. i \in touched' => Answered(i)'
    BY ZenonT(60), <1>2 DEF Answered
  <2>5. \A j \in Invocations \ {i} : Untouched(j)
    BY Zenon, <1>2 DEF Untouched
  <2> QED
    BY Zenon, <2>2, <2>3, <2>4, <2>5, OneMoves
<1> QED
  BY Zenon, <1>1, <1>2 DEF ReadLock

LEMMA DialAnswers ==
  ASSUME PermissionInv, AnswerInv, PermissionInv', NEW i \in Invocations, Dial(i)
  PROVE  AnswerInv'
<1> USE FunctionsApply DEF Dial, Return, MoveTo, Goto
<1>1. Talks(i) /\ WireTypeOK /\ BacklogFits
  BY Zenon DEF AnswerInv
<1>2. WireTypeOK'
  BY Zenon, <1>1 DEF WireTypeOK
<1>3. BacklogFits'
  <2>1. CASE queue' = queue /\ conn' = conn
    BY Zenon, <1>1, <2>1 DEF BacklogFits
  <2>2. CASE queue' = Append(queue, i) /\ conn' = [conn EXCEPT ![i] = "queued"]
    <3>1. conn[i] = "none" /\ \A k \in DOMAIN queue : queue[k] # i
      BY Zenon, <1>1, AskAssumption DEF Talks, BacklogFits
    <3>2. queue' \in Seq(Invocations \cup {None})
      BY <1>1, <2>2 DEF BacklogFits
    <3>3. /\ DOMAIN queue = 1..Len(queue) /\ Len(queue) \in Nat
          /\ DOMAIN queue' = 1..(Len(queue) + 1)
          /\ \A k \in DOMAIN queue : queue'[k] = queue[k]
          /\ queue'[Len(queue) + 1] = i
      BY <1>1, <2>2 DEF BacklogFits
    <3>4. \A k \in DOMAIN queue' : queue'[k] # None => conn'[queue'[k]] = "queued"
      <4> SUFFICES ASSUME NEW k \in DOMAIN queue', queue'[k] # None
                   PROVE  conn'[queue'[k]] = "queued"
        BY Zenon
      <4>1. CASE k \in DOMAIN queue
        <5>1. queue'[k] = queue[k]
          BY Zenon, <3>3, <4>1
        <5>2. queue[k] \in Invocations /\ conn[queue[k]] = "queued"
          BY SMTT(30), <1>1, <4>1, <5>1 DEF BacklogFits
        <5> QED
          BY Zenon, <2>2, <5>1, <5>2
      <4>2. CASE k = Len(queue) + 1
        BY ZenonT(60), <2>2, <3>3, <4>2
      <4> QED
        BY <3>3, <4>1, <4>2
    <3>5. \A k, l \in DOMAIN queue' : queue'[k] # None /\ queue'[k] = queue'[l] => k = l
      BY <1>1, <3>1, <3>3 DEF BacklogFits
    <3> QED
      BY Zenon, <3>2, <3>4, <3>5 DEF BacklogFits
  <2> QED
    BY Zenon, <2>1, <2>2
<1>4. Talks(i)'
  BY <1>1, AskAssumption DEF Talks, LastLine, Streaming, WireTypeOK
<1>5. i \in touched' => Answered(i)'
  BY Zenon DEF Answered
<1>6. \A j \in Invocations \ {i} : Untouched(j)
  BY ZenonT(60) DEF Untouched
<1> QED
  BY Zenon, <1>2, <1>3, <1>4, <1>5, <1>6, OneMoves


\* Reading the first line leaves the last one.
LEMMA TailLast ==
  ASSUME NEW S, NEW l \in Seq(S), l # <<>>
  PROVE  /\ Len(l) = 1 => Tail(l) = <<>> /\ Head(l) = l[Len(l)]
         /\ Len(l) # 1 => Tail(l) # <<>> /\ Tail(l)[Len(Tail(l))] = l[Len(l)]
<1>1. Len(l) \in Nat \ {0}
  BY Zenon, EmptySeq
<1>2. PICK t : t = Tail(l)
  BY ZenonT(60)
<1>3. t \in Seq(S) /\ Len(t) = Len(l) - 1 /\ \A k \in 1..Len(t) : t[k] = l[k + 1]
  BY Zenon, <1>2, HeadTailProperties
<1>4. t = <<>> <=> Len(l) = 1
  <2>1. t # <<>> => Len(t) \in Nat \ {0}
    BY Zenon, <1>3, EmptySeq
  <2>2. t = <<>> => Len(t) = 0
    BY Zenon, EmptySeq
  <2> QED
    BY <1>1, <1>3, <2>1, <2>2
<1>5. Head(l) = l[1]
  BY <1>1
<1>6. Len(l) # 1 => t[Len(t)] = l[Len(l)]
  BY <1>1, <1>3
<1> QED
  BY <1>2, <1>4, <1>5, <1>6, Zenon

LEMMA ReadAnswers ==
  ASSUME PermissionInv, AnswerInv, PermissionInv', NEW i \in Invocations, ReadResponse(i) \/ ReadResponses(i)
  PROVE  AnswerInv'
<1> USE FunctionsApply DEF Return, Goto, daemonVars, ghostVars
<1>1. Talks(i) /\ WireTypeOK /\ BacklogFits
  BY Zenon DEF AnswerInv
<1>2. /\ lines[i] \in Seq({"ok", "chunk", "err"}) /\ at[i] = "await"
      /\ LastLine(i) = final[i] /\ (~Streaming(i) => res[i] = "none" /\ Len(lines[i]) <= 1)
  BY Zenon, <1>1 DEF WireTypeOK, Talks, ReadResponse, ReadResponses
<1>3. /\ lines[i] # <<>> => Head(lines[i]) \in {"ok", "chunk", "err"}
      /\ Tail(lines[i]) \in Seq({"ok", "chunk", "err"}) \/ lines[i] = <<>>
      /\ Len(lines[i]) \in Nat /\ (lines[i] # <<>> => Len(lines[i]) > 0 /\ Head(lines[i]) = lines[i][1])
  BY <1>2
<1>4. conn' = conn /\ cur' = cur /\ queue' = queue /\ final' = final /\ touched' = touched /\ cut' = cut
      /\ ask' = ask /\ exit' = exit /\ said' = said
  BY Zenon DEF ReadResponse, ReadResponses
<1>5. \A j \in Invocations \ {i} : Untouched(j)
  BY ZenonT(60), <1>4 DEF Untouched, ReadResponse, ReadResponses
<1>6. BacklogFits'
  BY Zenon, <1>1, <1>4 DEF BacklogFits
<1>7. i \in touched' => Answered(i)'
  BY ZenonT(60), <1>2 DEF Answered, ReadResponse, ReadResponses
<1>8. CASE ReadResponse(i)
  <2> USE DEF ReadResponse
  <2>1. WireTypeOK'
    <3>1. \E r \in {"ok", "chunk", "err", "error"} : res' = [res EXCEPT ![i] = r]
      BY Zenon, <1>3, <1>8
    <3>2. lines' = [lines EXCEPT ![i] = <<>>] /\ <<>> \in Seq({"ok", "chunk", "err"})
      BY SMTT(60), <1>8
    <3>3. res' \in [Invocations -> {"none", "ok", "chunk", "err", "error"}]
      BY Zenon, <1>1, <3>1 DEF WireTypeOK
    <3>4. lines' \in [Invocations -> Seq({"ok", "chunk", "err"})]
      BY Zenon, <1>1, <3>2 DEF WireTypeOK
    <3> QED
      BY Zenon, <1>1, <1>4, <3>3, <3>4 DEF WireTypeOK
  <2>2. lines'[i] = <<>> /\ at'[i] = "returned"
    BY Zenon, <1>8
  <2>3. \/ lines[i] # <<>> /\ res'[i] = Head(lines[i])
        \/ lines[i] = <<>> /\ conn[i] = "closed" /\ res'[i] = "error"
    BY Zenon, <1>8 DEF WireTypeOK
  <2>4. res'[i] = final[i] \/ (res'[i] = "error" /\ final[i] = "none")
    BY SMTT(60), <1>2, <1>3, <1>8, <2>3 DEF LastLine
  <2>5. conn[i] = "closed"
    <3>1. CASE lines[i] = <<>>
      BY Zenon, <2>3, <3>1
    <3>2. CASE lines[i] # <<>>
      <4>1. final[i] \in {"ok", "chunk", "err"}
        BY SMTT(60), <1>2, <1>3, <1>8, <3>2 DEF LastLine
      <4>2. final[i] # "chunk"
        BY Zenon, <1>1, <1>8 DEF Talks
      <4> QED
        BY Zenon, <1>1, <1>2, <4>1, <4>2 DEF Talks, WireTypeOK
    <3> QED
      BY Zenon, <3>1, <3>2
  <2>6. Talks(i)'
    BY Zenon, <1>1, <1>4, <2>2, <2>4, <2>5 DEF Talks, Streaming
  <2> QED
    BY Zenon, <1>4, <1>5, <1>6, <1>7, <2>1, <2>6, OneMoves
<1>9. CASE ReadResponses(i) /\ lines[i] # <<>>
  <2>1. /\ at' = at /\ res' = [res EXCEPT ![i] = Head(lines[i])]
        /\ lines' = [lines EXCEPT ![i] = Tail(lines[i])]
    BY Zenon, <1>9 DEF ReadResponses
  <2>2. WireTypeOK'
    <3>1. Head(lines[i]) \in {"ok", "chunk", "err"} /\ Tail(lines[i]) \in Seq({"ok", "chunk", "err"})
      BY Zenon, <1>3, <1>9
    <3>2. res' \in [Invocations -> {"none", "ok", "chunk", "err", "error"}]
      <4>1. Head(lines[i]) \in {"none", "ok", "chunk", "err", "error"}
        BY Zenon, <3>1
      <4> QED
        BY Zenon, <1>1, <2>1, <4>1 DEF WireTypeOK
    <3>3. lines' \in [Invocations -> Seq({"ok", "chunk", "err"})]
      BY Zenon, <1>1, <2>1, <3>1 DEF WireTypeOK
    <3> QED
      BY Zenon, <1>1, <1>4, <3>2, <3>3 DEF WireTypeOK
  <2>3. res'[i] = Head(lines[i]) /\ lines'[i] = Tail(lines[i])
    BY Zenon, <1>1, <2>1 DEF WireTypeOK
  <2>4. LastLine(i)' = LastLine(i)
    <3>1. PICK l : l = lines[i]
      BY Zenon 
    <3>2. l \in Seq({"ok", "chunk", "err"}) /\ l # <<>>
      BY Zenon, <1>2, <1>9, <3>1
    <3>3. /\ Len(l) = 1 => Tail(l) = <<>> /\ Head(l) = l[Len(l)]
          /\ Len(l) # 1 => Tail(l) # <<>> /\ Tail(l)[Len(Tail(l))] = l[Len(l)]
      BY Zenon, <3>2, TailLast
    <3>4. LastLine(i) = l[Len(l)]
      BY Zenon, <3>1, <3>2 DEF LastLine
    <3>5. LastLine(i)' = IF Tail(l) = <<>> THEN Head(l) ELSE Tail(l)[Len(Tail(l))]
      BY Zenon, <2>3, <3>1 DEF LastLine
    <3> QED
      BY Zenon, <3>3, <3>4, <3>5
  <2>5. Talks(i)'
    BY Zenon, <1>1, <1>2, <1>4, <1>9, <2>1, <2>4 DEF Talks, Streaming, ReadResponses
  <2> QED
    BY ZenonT(60), <1>4, <1>5, <1>6, <1>7, <2>2, <2>5, OneMoves
<1>10. CASE ReadResponses(i) /\ lines[i] = <<>>
  <2>1. /\ at'[i] = "returned" /\ conn[i] = "closed" /\ lines' = lines
        /\ res' = [res EXCEPT ![i] = IF res[i] = "none" THEN "error" ELSE res[i]]
    BY ZenonT(60), <1>10 DEF ReadResponses
  <2>2. WireTypeOK'
    <3>1. res[i] \in {"none", "ok", "chunk", "err", "error"}
      BY Zenon, <1>1 DEF WireTypeOK
    <3>2. (IF res[i] = "none" THEN "error" ELSE res[i]) \in {"none", "ok", "chunk", "err", "error"}
      BY Zenon, <3>1
    <3>3. res' \in [Invocations -> {"none", "ok", "chunk", "err", "error"}]
      BY ZenonT(60), <1>1, <2>1, <3>2 DEF WireTypeOK
    <3> QED
      BY Zenon, <1>1, <1>4, <2>1, <3>3 DEF WireTypeOK
  <2>3. res'[i] = final[i] \/ (res'[i] = "error" /\ final[i] = "none")
    BY Zenon, <1>1, <1>2, <1>10, <2>1 DEF LastLine, WireTypeOK
  <2>4. Talks(i)'
    BY Zenon, <1>1, <1>4, <2>1, <2>3 DEF Talks, Streaming
  <2> QED
    BY Zenon, <1>4, <1>5, <1>6, <1>7, <2>2, <2>4, OneMoves
<1> QED
  BY Zenon, <1>8, <1>9, <1>10

\* The arms of the match.
LEMMA ArmsAnswer ==
  ASSUME PermissionInv, AnswerInv, PermissionInv', NEW i \in Invocations,
         \/ DirectReturns(i)
         \/ ConnectArm(i) \/ DisconnectArm(i) \/ ShellArm(i) \/ ExecArm(i) \/ PushArm(i)
         \/ ClipboardArm(i) \/ DisplaysArm(i) \/ InputArm(i) \/ StatusArm(i) \/ CaptureArm(i)
         \/ DoArm(i)
  PROVE  AnswerInv'
<1> DEFINE start == {"start", "allowed", "found", "absent", "spawned", "direct"}
<1> DEFINE Quits ==
      \E code, what : (Exit(i, code) \/ Say(i, code, what)) /\ Stay /\ at[i] \in start
<1> DEFINE GoesOn ==
      \E place \in {"probe", "send", "allowed"} : MoveTo(i, place) /\ Stay /\ at[i] \in start
<1> DEFINE Reaches ==
      /\ at[i] = "allowed"
      /\ \E place \in {"direct", "spawned"} : MoveTo(i, place)
      /\ ask[i].kind = "connect" \/ ask[i].direct
      /\ touched' = touched \cup {i} /\ UNCHANGED <<wireVars, cur, queue, final, cut>>
<1> DEFINE Ends ==
      /\ at[i] = "returned"
      /\ \/ ExitByAnswer(i)
         \/ Success(i) /\ Say(i, 1, "not written") /\ Stay
         \/ /\ ask[i].kind \in {"disconnect", "status"}
            /\ \E code, what : (Exit(i, code) \/ Say(i, code, what)) /\ Stay
<1>1. ASSUME DisconnectArm(i) \/ ClipboardArm(i) \/ DisplaysArm(i) \/ InputArm(i)
             \/ StatusArm(i) \/ CaptureArm(i) \/ DoArm(i) \/ ShellArm(i)
      PROVE  Quits \/ GoesOn \/ Ends
  BY Zenon, <1>1 DEF DisconnectArm, ClipboardArm, DisplaysArm, InputArm, StatusArm, CaptureArm, DoArm, ShellArm,
     Arm, Permitted
<1>2. at[i] = "allowed" => ask[i].kind = "connect" \/ ask[i].direct
  BY Zenon, Running DEF Checked
<1>3. ASSUME DirectReturns(i) \/ ExecArm(i) \/ PushArm(i) \/ ConnectArm(i)
      PROVE  Quits \/ GoesOn \/ Reaches \/ Ends
  BY Zenon, <1>2, <1>3 DEF DirectReturns, ExecArm, PushArm, ConnectArm, Arm, Permitted, GoDirect, SpawnDaemon,
     Stay, daemonVars, ghostVars
<1>4. CASE Quits
  BY ZenonT(60), <1>4, EndAnswers
<1>5. CASE GoesOn
  <2>1. \A place \in {"probe", "send", "allowed"} : place \in Places
    BY Zenon DEF Places
  <2> QED
    BY Zenon, <1>5, <2>1, WayAnswers DEF Stay, daemonVars, ghostVars
<1>6. CASE Reaches
  <2>1. "direct" \in Places /\ "spawned" \in Places
    BY Zenon DEF Places
  <2> QED
    BY Zenon, <1>6, <2>1, WayAnswers
<1>7. CASE Ends
  <2>1. 1 # 0
    OBVIOUS
  <2> QED
    BY Zenon, <1>7, <2>1, EndAnswers DEF ExitByAnswer
<1> QED
  BY Zenon, <1>1, <1>3, <1>4, <1>5, <1>6, <1>7


\* Steps of the daemon leave the front end alone.
LEMMA DaemonMoves ==
  ASSUME PermissionInv, AnswerInv, UNCHANGED <<ask, at, res, exit, said, touched>>,
         WireTypeOK', BacklogFits', \A i \in Invocations : Talks(i)',
         \A i \in Invocations : final'[i] = final[i] \/ at[i] # "done",
         cut \subseteq cut'
  PROVE  AnswerInv'
<1>1. touched \subseteq Invocations /\ ExitCodeIsTheAnswer
  BY Zenon DEF PermissionInv, AnswerInv
<1>2. ASSUME NEW i \in touched PROVE Answered(i)'
  BY ZenonT(60), <1>1, <1>2 DEF ExitCodeIsTheAnswer, Answered
<1> QED
  BY Zenon, <1>2 DEF AnswerInv, ExitCodeIsTheAnswer

\* Binding, readiness and the removal of files.
LEMMA QuietAnswers ==
  ASSUME PermissionInv, AnswerInv, UNCHANGED <<cliVars, wireVars, cur, queue, final, cut, touched>>
  PROVE  AnswerInv'
<1> USE DEF cliVars, wireVars
<1>1. WireTypeOK' /\ BacklogFits'
  BY Zenon DEF AnswerInv, WireTypeOK, BacklogFits
<1>2. \A i \in Invocations : Talks(i)'
  BY ZenonT(60) DEF AnswerInv, Talks, LastLine, Streaming
<1> QED
  BY Zenon, <1>1, <1>2, DaemonMoves

\* The backlog is let go.
LEMMA HangUpAnswers ==
  ASSUME PermissionInv, AnswerInv, UNCHANGED <<cliVars, lines, final, touched>>,
         queue' = <<>>,
         \/ HangUp(Waiting) /\ cur' = cur /\ cut' = cut
         \/ HangUp(Waiting \cup {cur}) /\ cur' = None /\ cut' = cut \cup ({cur} \ {None})
  PROVE  AnswerInv'
<1> USE DEF cliVars
<1>1. WireTypeOK /\ BacklogFits
  BY Zenon DEF AnswerInv
<1>2. WireTypeOK'
  <2>1. conn' \in [Invocations -> {"none", "queued", "served", "closed"}]
    BY Zenon, <1>1 DEF HangUp, WireTypeOK
  <2> QED
    BY Zenon, <1>1, <2>1 DEF WireTypeOK
<1>3. BacklogFits'
  BY SMTT(60) DEF BacklogFits
<1>4. ASSUME NEW i \in Invocations PROVE Talks(i)'
  <2>1. Talks(i) /\ i # None
    BY Zenon, AskAssumption DEF AnswerInv
  <2>2. \/ conn'[i] = conn[i] /\ conn[i] # "queued" /\ (cur' = i <=> cur = i) /\ cut' = cut
        \/ conn'[i] = conn[i] /\ conn[i] # "queued" /\ cur # i /\ cur' # i /\ (i \in cut => i \in cut')
        \/ conn'[i] = "closed" /\ conn[i] = "queued" /\ cur' # i
        \/ conn'[i] = "closed" /\ cur = i /\ cur' # i /\ i \in cut'
    BY Zenon, <2>1 DEF HangUp, Waiting, Talks
  <2>3. LastLine(i)' = LastLine(i) /\ Streaming(i)' = Streaming(i)
    BY Zenon DEF LastLine, Streaming
  <2> QED
    BY ZenonT(60), <2>1, <2>2, <2>3 DEF Talks
<1>5. cut \subseteq cut'
  BY Zenon
<1> QED
  BY Zenon, <1>2, <1>3, <1>4, <1>5, DaemonMoves

LEMMA AcceptAnswers ==
  ASSUME PermissionInv, AnswerInv, Accept
  PROVE  AnswerInv'
<1> USE DEF Accept, cliVars, ghostVars
<1>1. WireTypeOK /\ BacklogFits /\ queue # <<>>
  BY Zenon DEF AnswerInv
<1>2. /\ Len(queue) \in Nat \ {0} /\ DOMAIN queue = 1..Len(queue)
      /\ Head(queue) = queue[1] /\ Head(queue) \in Invocations \cup {None}
      /\ queue' \in Seq(Invocations \cup {None}) /\ Len(queue') = Len(queue) - 1
      /\ DOMAIN queue' = 1..Len(queue')
      /\ \A k \in 1..Len(queue') : queue'[k] = queue[k + 1]
  <2>1. PICK S : S = Invocations \cup {None}
    BY Zenon
  <2>2. queue \in Seq(S)
    BY Zenon, <1>1, <2>1 DEF BacklogFits
  <2>3. /\ Head(queue) \in S /\ queue' \in Seq(S) /\ Len(queue') = Len(queue) - 1
        /\ \A k \in 1..Len(queue') : queue'[k] = queue[k + 1]
    BY Zenon, <1>1, <2>2, HeadTailProperties
  <2>4. Len(queue) \in Nat \ {0}
    BY Zenon, <1>1, <2>2, EmptySeq
  <2>5. /\ Head(queue) = queue[1] /\ DOMAIN queue = 1..Len(queue)
        /\ DOMAIN queue' = 1..Len(queue')
    BY <2>2, <2>3, <2>4
  <2> QED
    BY Zenon, <2>1, <2>3, <2>4, <2>5
<1>3. CASE Head(queue) = None
  <2>1. conn' = conn /\ cur' = cur
    BY Zenon, <1>3
  <2>2. BacklogFits'
    BY SMTT(60), <1>1, <1>2, <2>1 DEF BacklogFits
  <2>3. WireTypeOK'
    BY Zenon, <1>1, <2>1 DEF WireTypeOK
  <2>4. \A i \in Invocations : Talks(i)'
    BY SMTT(60), <2>1 DEF AnswerInv, Talks, LastLine, Streaming
  <2> QED
    BY Zenon, <2>2, <2>3, <2>4, DaemonMoves
<1>4. CASE Head(queue) # None
  <2>1. PICK w \in Invocations : w = Head(queue)
    BY Zenon, <1>2, <1>4
  <2>2. cur = None /\ cur' = w /\ conn' = [conn EXCEPT ![w] = "served"] /\ conn[w] = "queued"
    BY SMTT(60), <1>1, <1>2, <1>4, <2>1 DEF BacklogFits
  <2>3. WireTypeOK'
    BY Zenon, <1>1, <2>2 DEF WireTypeOK
  <2>4. BacklogFits'
    <3>1. ASSUME NEW k \in DOMAIN queue', queue'[k] # None PROVE conn'[queue'[k]] = "queued"
      <4>1. k + 1 \in DOMAIN queue /\ queue'[k] = queue[k + 1] /\ k + 1 # 1 /\ 1 \in DOMAIN queue
        BY SMTT(60), <1>2
      <4>2. queue[k + 1] # w /\ conn[queue[k + 1]] = "queued" /\ queue[k + 1] \in Invocations
        BY SMTT(60), <1>1, <1>2, <2>1, <3>1, <4>1 DEF BacklogFits
      <4> QED
        BY Zenon, <1>1, <2>2, <4>1, <4>2 DEF WireTypeOK
    <3>2. \A k, l \in DOMAIN queue' : queue'[k] # None /\ queue'[k] = queue'[l] => k = l
      BY SMTT(60), <1>1, <1>2 DEF BacklogFits
    <3> QED
      BY Zenon, <1>2, <3>1, <3>2 DEF BacklogFits
  <2>5. ASSUME NEW i \in Invocations PROVE Talks(i)'
    <3>1. Talks(i) /\ i # None
      BY Zenon, AskAssumption DEF AnswerInv
    <3>2. LastLine(i)' = LastLine(i) /\ Streaming(i)' = Streaming(i)
      BY Zenon DEF LastLine, Streaming
    <3>3. \/ i = w /\ conn[i] = "queued" /\ conn'[i] = "served" /\ cur' = i
          \/ i # w /\ conn'[i] = conn[i] /\ cur # i /\ cur' # i
      BY Zenon, <1>1, <2>2, <3>1 DEF WireTypeOK
    <3> QED
      BY Zenon, <3>1, <3>2, <3>3 DEF Talks
  <2> QED
    BY Zenon, <2>3, <2>4, <2>5, DaemonMoves
<1> QED
  BY Zenon, <1>3, <1>4


\* A line written becomes the last one.
LEMMA LineIsLast ==
  ASSUME NEW S, NEW l \in Seq(S), NEW r \in S
  PROVE  /\ Append(l, r) \in Seq(S) /\ Append(l, r) # <<>> /\ Len(Append(l, r)) = Len(l) + 1
         /\ Append(l, r)[Len(Append(l, r))] = r
  OBVIOUS

\* Writing a line for the client that is served; the final one ends it.
LEMMA WritingAnswers ==
  ASSUME PermissionInv, AnswerInv, NEW r \in {"ok", "chunk", "err"}, cur # None,
         UNCHANGED <<cliVars, queue, cut, touched>>,
         lines' = [lines EXCEPT ![cur] = Append(@, r)], final' = [final EXCEPT ![cur] = r],
         \/ r = "chunk" /\ Streaming(cur) /\ UNCHANGED <<conn, cur>>
         \/ r # "chunk" /\ HangUp({cur}) /\ cur' = None
  PROVE  AnswerInv'
<1> USE DEF cliVars
<1>1. WireTypeOK /\ BacklogFits
  BY Zenon DEF AnswerInv
<1>2. PICK w \in Invocations : w = cur
  BY Zenon, <1>1 DEF WireTypeOK
<1>3. Talks(w) /\ w # None
  BY Zenon, AskAssumption DEF AnswerInv
<1>4. at[w] = "await" /\ conn[w] = "served" /\ final[w] \in {"none", "chunk"}
  BY Zenon, <1>2, <1>3 DEF Talks
<1>5. /\ lines[w] \in Seq({"ok", "chunk", "err"}) /\ lines'[w] = Append(lines[w], r)
      /\ final'[w] = r
  BY Zenon, <1>1, <1>2 DEF WireTypeOK
<1>6. /\ lines'[w] \in Seq({"ok", "chunk", "err"}) /\ lines'[w] # <<>>
      /\ Len(lines'[w]) = Len(lines[w]) + 1 /\ lines'[w][Len(lines'[w])] = r
  BY SMTT(60), <1>5, LineIsLast
<1>7. WireTypeOK'
  <2>1. conn' \in [Invocations -> {"none", "queued", "served", "closed"}]
    BY Zenon, <1>1 DEF HangUp, WireTypeOK
  <2>2. lines' \in [Invocations -> Seq({"ok", "chunk", "err"})]
    BY Zenon, <1>1, <1>2, <1>5, <1>6 DEF WireTypeOK
  <2>3. final' \in [Invocations -> {"none", "ok", "chunk", "err"}]
    BY Zenon, <1>1, <1>2 DEF WireTypeOK
  <2> QED
    BY ZenonT(60), <1>1, <2>1, <2>2, <2>3 DEF WireTypeOK
<1>8. \A j \in Invocations : j # w => conn'[j] = conn[j]
  BY Zenon, <1>2 DEF HangUp
<1>9. BacklogFits'
  <2>1. ASSUME NEW k \in DOMAIN queue, queue[k] # None PROVE conn'[queue[k]] = "queued"
    <3>1. queue[k] \in Invocations /\ conn[queue[k]] = "queued"
      BY SMTT(30), <1>1, <2>1 DEF BacklogFits
    <3> QED
      BY Zenon, <1>4, <1>8, <3>1
  <2> QED
    BY Zenon, <1>1, <2>1 DEF BacklogFits
<1>10. ASSUME NEW i \in Invocations, i # w PROVE Talks(i)'
  <2>1. Talks(i) /\ i # None
    BY Zenon, AskAssumption DEF AnswerInv
  <2>2. conn'[i] = conn[i] /\ lines'[i] = lines[i] /\ final'[i] = final[i] /\ cur # i /\ cur' # i
    BY Zenon, <1>1, <1>2, <1>8, <1>10, <2>1 DEF WireTypeOK
  <2> QED
    BY Zenon, <2>1, <2>2 DEF Talks, LastLine, Streaming
<1>11. Talks(w)'
  <2>1. LastLine(w)' = final'[w]
    BY Zenon, <1>5, <1>6 DEF LastLine
  <2>2. Streaming(w)' = Streaming(w)
    BY Zenon DEF Streaming
  <2>3. ~Streaming(w) => Len(lines'[w]) <= 1
    <3> SUFFICES ASSUME ~Streaming(w) PROVE Len(lines'[w]) <= 1
      BY Zenon 
    <3>1. final[w] = "none" /\ LastLine(w) = "none"
      BY Zenon, <1>3, <1>4 DEF Talks
    <3>2. lines[w] = <<>>
      <4>1. lines[w] # <<>> => Len(lines[w]) \in Nat \ {0}
        BY Zenon, <1>5, EmptySeq
      <4>2. lines[w] # <<>> => lines[w][Len(lines[w])] \in {"ok", "chunk", "err"}
        BY SMTT(60), <1>5, <4>1
      <4> QED
        BY Zenon, <3>1, <4>2 DEF LastLine
    <3> QED
      BY <1>6, <3>2
  <2>4. \/ r = "chunk" /\ Streaming(w) /\ conn'[w] = "served" /\ cur' = w
        \/ r # "chunk" /\ conn'[w] = "closed" /\ cur' # w
    BY Zenon, <1>2, <1>3, <1>4 DEF HangUp
  <2> QED
    BY ZenonT(60), <1>3, <1>4, <1>5, <2>1, <2>2, <2>3, <2>4 DEF Talks
<1>12. \A i \in Invocations : final'[i] = final[i] \/ at[i] # "done"
  BY Zenon, <1>1, <1>2, <1>4 DEF WireTypeOK
<1> QED
  BY Zenon, <1>7, <1>9, <1>10, <1>11, <1>12, DaemonMoves

\* The last line is the answer, for any number of invocations and crashes.
THEOREM AnswerInvariance == Spec => []AnswerInv
<1>1. PermissionInv /\ PermissionInv' /\ AnswerInv /\ [Next]_vars => AnswerInv'
  <2> SUFFICES ASSUME PermissionInv, PermissionInv', AnswerInv, [Next]_vars PROVE AnswerInv'
    BY Zenon
  <2>1. ASSUME NEW i \in Invocations, FrontEnd(i)
        PROVE  AnswerInv'
    BY ZenonT(60), <2>1, RunAnswers, ProbeAnswers, ReadLockAnswers, DialAnswers, ReadAnswers, ArmsAnswer
       DEF FrontEnd, SendToDaemon
  <2>2. CASE UNCHANGED vars
    BY Zenon, <2>2, QuietAnswers DEF vars, daemonVars, ghostVars
  <2>3. CASE Daemon
    <3>1. CASE Binds \/ CreatesLock \/ FillsLock \/ Stops \/ RemovesSocket \/ PidReused
      BY Zenon, <3>1, QuietAnswers DEF Binds, CreatesLock, FillsLock, Stops, RemovesSocket, PidReused, daemonVars
    <3>2. CASE StartFails \/ RemovesLock \/ Crash
      BY Zenon, <3>2, HangUpAnswers DEF StartFails, RemovesLock, Crash
    <3>3. CASE WritesChunk
      BY Zenon, <3>3, WritingAnswers DEF WritesChunk, daemonVars
    <3>4. CASE Succeeds \/ Fails
      BY Zenon, <3>4, WritingAnswers DEF Succeeds, Fails, Answers
    <3> QED
      BY Zenon, <2>3, <3>1, <3>2, <3>3, <3>4, AcceptAnswers DEF Daemon
  <2> QED
    BY Zenon, <2>1, <2>2, <2>3 DEF Next
<1> QED
  BY <1>1, InitAnswer, PermissionInvariance, PTL DEF Spec

\* A command's exit code is the daemon's last word, however the lines of other
\* invocations, crashes and restarts interleave; only after a crash may a chunk
\* have been the last line (send_command, send_to_daemon_streaming).
THEOREM ExitCodeCorrect == Spec => []ExitCodeIsTheAnswer
<1>1. AnswerInv => ExitCodeIsTheAnswer
  BY Zenon DEF AnswerInv
<1> QED
  BY <1>1, AnswerInvariance, PTL


-----------------------------------------------------------------------------
(* What was said was true.                                                 *)

LEMMA Views ==
  /\ "serving" \in View <=> phase = "up"
  /\ "not serving" \in View <=> phase # "up"
  /\ "absent" \in View <=> ~Occupied
  BY Zenon DEF View

\* Nobody serves where nobody is found.
LEMMA AbsentView ==
  ASSUME FilesFit, ~Occupied
  PROVE  {"absent", "not serving"} \subseteq View
  BY Zenon, Views DEF FilesFit, Occupied

LEMMA InitLook == Init => LookInv
<1> SUFFICES ASSUME Init PROVE LookInv
  BY Zenon
<1>1. FilesFit /\ DOMAIN seen = Invocations
  BY Zenon DEF Init, FilesFit
<1>2. None # 2
  BY SMTT(60), AskAssumption
<1>3. ASSUME NEW i \in Invocations PROVE Looks(i) /\ SaidTrue(i)
  BY Zenon, <1>2 DEF Init, Looks, SaidTrue
<1> QED
  BY Zenon, <1>1, <1>3 DEF LookInv

\* A step that leaves what can be seen, and this invocation, alone.
LEMMA UntouchedLooks ==
  ASSUME LookInv, NEW j \in Invocations, Untouched(j), View' = View, Hidden => Hidden', seen'[j] = seen[j]
  PROVE  Looks(j)' /\ SaidTrue(j)'
<1>1. Looks(j) /\ SaidTrue(j)
  BY Zenon DEF LookInv
<1>2. Looks(j)'
  BY ZenonT(60), <1>1 DEF Untouched, Looks
<1>3. SaidTrue(j)'
  BY Zenon, <1>1 DEF Untouched, SaidTrue
<1> QED
  BY Zenon, <1>2, <1>3

\* A step of invocation i that changes nothing others can see.
LEMMA OneLooks ==
  ASSUME LookInv, NEW i \in Invocations, FilesFit', View' = View, Hidden => Hidden',
         DOMAIN seen' = Invocations, Looks(i)', SaidTrue(i)',
         \A j \in Invocations \ {i} : Untouched(j) /\ seen'[j] = seen[j]
  PROVE  LookInv'
<1>1. \A j \in Invocations : Looks(j)' /\ SaidTrue(j)'
  BY Zenon, UntouchedLooks
<1> QED
  BY Zenon, <1>1 DEF LookInv

LEMMA FilesStay ==
  ASSUME LookInv, UNCHANGED <<phase, fileVars>>
  PROVE  FilesFit' /\ View' = View /\ (Hidden => Hidden')
<1>1. FilesFit'
  BY Zenon DEF LookInv, FilesFit, fileVars
<1>2. View' = View
  BY Zenon DEF View, Occupied, pid_is_alive, fileVars
<1>3. Hidden => Hidden'
  BY Zenon DEF Hidden, pid_is_alive, fileVars
<1> QED
  BY Zenon, <1>1, <1>2, <1>3

LEMMA EndLooks ==
  ASSUME PermissionInv, AnswerInv, LookInv, NEW i \in Invocations, NEW code, NEW what,
         Exit(i, code) \/ Say(i, code, what), Stay,
         code = 2 => at[i] = "absent",
         Exit(i, code) \/ what \notin {"connected", "disconnected"}
           \/ (what = "connected" /\ "serving" \in seen[i])
           \/ (what = "disconnected" /\ ("not serving" \in seen[i] \/ final[i] = "err")),
         at[i] \notin {"out", "done"}
  PROVE  LookInv'
<1> USE FunctionsApply DEF Exit, Say, Stay, wireVars, daemonVars, ghostVars
<1>1. Looks(i) /\ SaidTrue(i) /\ DOMAIN seen = Invocations
  BY Zenon DEF LookInv
<1>2. FilesFit' /\ View' = View /\ (Hidden => Hidden')
  BY ZenonT(60), FilesStay
<1>3. /\ at'[i] = "done" /\ exit'[i] = code
      /\ conn' = conn /\ final' = final /\ seen' = seen
      /\ said'[i] = said[i] \/ (said'[i] = what /\ ~Exit(i, code))
  BY Zenon
<1>4. Looks(i)'
  BY Zenon, <1>1, <1>3 DEF Looks
<1>5. SaidTrue(i)'
  BY Zenon, <1>1, <1>3 DEF Looks, SaidTrue
<1>6. \A j \in Invocations \ {i} : Untouched(j) /\ seen'[j] = seen[j]
  BY ZenonT(60), <1>3 DEF Untouched
<1> QED
  BY Zenon, <1>1, <1>2, <1>3, <1>4, <1>5, <1>6, OneLooks


LEMMA WayLooks ==
  ASSUME PermissionInv, AnswerInv, LookInv, NEW i \in Invocations, at[i] \notin {"out", "done"},
         NEW place, place \notin {"probe lock", "absent", "returned", "done"}, MoveTo(i, place),
         UNCHANGED <<wireVars, final, cut, seen>>, touched' \in {touched, touched \cup {i}},
         FilesFit', View' = View, Hidden => Hidden'
  PROVE  LookInv'
<1> USE FunctionsApply DEF MoveTo, Goto, wireVars
<1>1. Looks(i) /\ SaidTrue(i) /\ DOMAIN seen = Invocations
  BY ZenonT(60) DEF LookInv
<1>2. at'[i] = place /\ res' = res /\ said' = said /\ exit' = exit /\ conn' = conn /\ final' = final /\ seen' = seen
  BY Zenon
<1>3. Looks(i)'
  BY Zenon, <1>1, <1>2 DEF Looks
<1>4. SaidTrue(i)'
  BY Zenon, <1>1, <1>2 DEF SaidTrue
<1>5. \A j \in Invocations \ {i} : Untouched(j) /\ seen'[j] = seen[j]
  BY Zenon, <1>2 DEF Untouched
<1> QED
  BY Zenon, <1>1, <1>2, <1>3, <1>4, <1>5, OneLooks

LEMMA RunLooks ==
  ASSUME PermissionInv, AnswerInv, LookInv, NEW i \in Invocations, NEW a \in Asks[i], run(i, a)
  PROVE  LookInv'
<1> USE FunctionsApply DEF Goto, wireVars, daemonVars
<1>1. Looks(i) /\ SaidTrue(i) /\ Talks(i) /\ DOMAIN seen = Invocations
  BY Zenon DEF LookInv, AnswerInv
<1>2. FilesFit' /\ View' = View /\ (Hidden => Hidden')
  BY Zenon, FilesStay DEF run
<1>3. /\ at[i] = "out" /\ res' = res /\ said' = said /\ conn' = conn /\ final' = final
      /\ seen' = [seen EXCEPT ![i] = View]
  BY Zenon DEF run
<1>4. \/ at'[i] = "start" /\ exit'[i] = None
      \/ at'[i] = "done" /\ exit'[i] \in {0, 3, 4}
  <2> DEFINE code == IF a.usage = "help" THEN 0
                     ELSE IF a.usage = "wrong" THEN 3
                     ELSE IF a.sandbox.mode = "missing" THEN 4
                     ELSE None
  <2>1. exit'[i] = code /\ at'[i] = IF code = None THEN "start" ELSE "done"
    BY Zenon DEF run
  <2>2. code = None \/ code \in {0, 3, 4}
    BY Zenon
  <2> HIDE DEF code
  <2> QED
    BY Zenon, <2>1, <2>2
<1>5. conn[i] = "none" /\ final[i] = "none" /\ said[i] = "nothing"
  BY Zenon, <1>1, <1>3 DEF Talks, Looks
<1>6. Looks(i)'
  BY ZenonT(60), <1>1, <1>2, <1>3, <1>4, <1>5 DEF Looks
<1>7. SaidTrue(i)'
  <2>1. exit'[i] # 2
    BY SMTT(30), <1>4, AskAssumption
  <2> QED
    BY Zenon, <1>3, <1>5, <2>1 DEF SaidTrue
<1>8. \A j \in Invocations \ {i} : Untouched(j) /\ seen'[j] = seen[j]
  BY Zenon, <1>1, <1>3 DEF Untouched, run
<1> QED
  BY ZenonT(60), <1>1, <1>2, <1>3, <1>6, <1>7, <1>8, OneLooks

\* The two looks of is_daemon_running.
LEMMA ProbeLooks ==
  ASSUME PermissionInv, AnswerInv, LookInv, NEW i \in Invocations, is_daemon_running(i)
  PROVE  LookInv'
<1> USE FunctionsApply DEF MoveTo, Goto, Stay, wireVars, daemonVars, ghostVars
<1>1. Looks(i) /\ SaidTrue(i) /\ DOMAIN seen = Invocations /\ FilesFit
  BY Zenon DEF LookInv
<1>2. FilesFit' /\ View' = View /\ (Hidden => Hidden')
  BY Zenon, FilesStay DEF is_daemon_running, ProbeSocket, ProbeLock
<1>3. /\ at[i] \in {"probe", "probe lock"} /\ res' = res /\ said' = said /\ exit' = exit /\ conn' = conn
      /\ final' = final /\ seen' = seen
  BY Zenon DEF is_daemon_running, ProbeSocket, ProbeLock
<1>4. View \subseteq seen[i] /\ said[i] = "nothing" /\ exit[i] = None
  BY Zenon, <1>1, <1>3 DEF Looks
<1>5. ~Occupied => {"absent", "not serving"} \subseteq seen[i]
  BY Zenon, <1>1, <1>4, AbsentView
<1>6. \/ at'[i] = "found"
      \/ at'[i] = "probe lock" /\ ({"absent", "not serving"} \subseteq seen[i] \/ Hidden)
      \/ at'[i] = "absent" /\ {"absent", "not serving"} \subseteq seen[i]
  <2>1. CASE ProbeSocket(i)
    BY Zenon, <1>5, <2>1 DEF ProbeSocket, Hidden, Occupied
  <2>2. CASE ProbeLock(i)
    BY Zenon, <1>1, <2>2 DEF ProbeLock, Looks, Hidden
  <2> QED
    BY Zenon, <2>1, <2>2 DEF is_daemon_running
<1>7. Looks(i)'
  BY Zenon, <1>1, <1>2, <1>3, <1>4, <1>6 DEF Looks
<1>8. SaidTrue(i)'
  BY Zenon, <1>1, <1>3 DEF SaidTrue
<1>9. \A j \in Invocations \ {i} : Untouched(j) /\ seen'[j] = seen[j]
  BY Zenon DEF Untouched, is_daemon_running, ProbeSocket, ProbeLock
<1> QED
  BY Zenon, <1>1, <1>2, <1>3, <1>7, <1>8, <1>9, OneLooks

\* Returning with an answer, or because there is nobody to talk to.
LEMMA ReturnLooks ==
  ASSUME PermissionInv, AnswerInv, LookInv, NEW i \in Invocations, at[i] \in {"send", "dial", "await"},
         NEW r, r # "none", Return(i, r), r = "error" => "not serving" \in seen[i],
         UNCHANGED <<conn, final, touched, cut, seen, phase, fileVars>>,
         \A j \in Invocations \ {i} : lines'[j] = lines[j]
  PROVE  LookInv'
<1> USE FunctionsApply DEF Return, Goto
<1>1. Looks(i) /\ SaidTrue(i) /\ DOMAIN seen = Invocations /\ DOMAIN res = Invocations
  BY Zenon DEF LookInv
<1>2. FilesFit' /\ View' = View /\ (Hidden => Hidden')
  BY Zenon, FilesStay
<1>3. Looks(i)'
  BY Zenon, <1>1, <1>2 DEF Looks
<1>4. SaidTrue(i)'
  BY Zenon, <1>1 DEF SaidTrue
<1>5. \A j \in Invocations \ {i} : Untouched(j) /\ seen'[j] = seen[j]
  BY Zenon DEF Untouched
<1> QED
  BY Zenon, <1>1, <1>2, <1>3, <1>4, <1>5, OneLooks

LEMMA SendLooks ==
  ASSUME PermissionInv, AnswerInv, LookInv, NEW i \in Invocations, SendToDaemon(i)
  PROVE  LookInv'
<1>1. Looks(i) /\ Talks(i) /\ FilesFit /\ WireTypeOK
  BY Zenon DEF LookInv, AnswerInv
<1>2. at[i] \in {"send", "dial", "await"}
  BY Zenon DEF SendToDaemon, ReadLock, Dial, ReadResponse, ReadResponses
<1>3. View \subseteq seen[i]
  BY Zenon, <1>1, <1>2 DEF Looks
<1>4. phase # "up" => "not serving" \in seen[i]
  BY Zenon, <1>3, Views
<1>5. CASE ReadLock(i)
  <2>1. CASE MoveTo(i, "dial")
    <3>1. FilesFit' /\ View' = View /\ (Hidden => Hidden')
      BY Zenon, <1>5, FilesStay DEF ReadLock, Stay, daemonVars
    <3> QED
      BY Zenon, <1>5, <2>1, <3>1, WayLooks DEF ReadLock, Stay, ghostVars
  <2>2. CASE Return(i, "error") /\ lock \in {"none", "empty"}
    <3>1. phase # "up"
      BY Zenon, <1>1, <2>2 DEF FilesFit
    <3> QED
      BY Zenon, <1>2, <1>4, <1>5, <2>2, <3>1, ReturnLooks DEF ReadLock, Stay, wireVars, daemonVars, ghostVars
  <2> QED
    BY Zenon, <1>5, <2>1, <2>2 DEF ReadLock
<1>6. CASE Dial(i)
  <2>1. FilesFit' /\ View' = View /\ (Hidden => Hidden')
    BY Zenon, <1>6, FilesStay DEF Dial
  <2>2. CASE socket # "live"
    <3>1. phase # "up"
      BY Zenon, <1>1, <2>2 DEF FilesFit
    <3> QED
      BY ZenonT(60), <1>2, <1>4, <1>6, <2>2, <3>1, ReturnLooks DEF Dial
  <2>3. CASE socket = "live"
    <3> USE FunctionsApply DEF Dial, MoveTo, Goto
    <3>1. DOMAIN seen = Invocations /\ SaidTrue(i)
      BY Zenon DEF LookInv
    <3>2. Looks(i)'
      BY Zenon, <1>1, <1>6, <2>1, <2>3 DEF Looks
    <3>3. SaidTrue(i)'
      BY ZenonT(60), <1>6, <2>3, <3>1 DEF SaidTrue
    <3>4. \A j \in Invocations \ {i} : Untouched(j) /\ seen'[j] = seen[j]
      BY ZenonT(60), <1>6, <2>3 DEF Untouched
    <3>5. seen' = seen
      BY Zenon, <1>6
    <3> QED
      BY ZenonT(60), <2>1, <3>1, <3>2, <3>3, <3>4, <3>5, OneLooks
  <2> QED
    BY Zenon, <2>2, <2>3
<1>7. CASE ReadResponse(i) \/ ReadResponses(i)
  <2> USE FunctionsApply DEF ReadResponse, ReadResponses, daemonVars, ghostVars
  <2>1. UNCHANGED <<conn, final, touched, cut, seen, phase, fileVars>>
    BY ZenonT(60), <1>7
  <2>2. \A j \in Invocations \ {i} : lines'[j] = lines[j]
    BY Zenon, <1>7
  <2>3. lines[i] # <<>> => Head(lines[i]) \in {"ok", "chunk", "err"}
    <3>1. lines[i] \in Seq({"ok", "chunk", "err"})
      BY Zenon, <1>1 DEF WireTypeOK
    <3> QED
      BY Zenon, <3>1, HeadTailProperties
  <2>4. lines[i] = <<>> /\ conn[i] = "closed" /\ res[i] = "none" => "not serving" \in seen[i]
    BY Zenon, <1>1, <1>7 DEF Talks, LastLine, Looks
  <2>5. ~Streaming(i) => res[i] = "none"
    BY Zenon, <1>1, <1>7 DEF Talks
  <2>6. lines[i] = <<>> => res[i] # "error"
    BY Zenon, <1>1, <1>7 DEF Talks, LastLine, WireTypeOK
  <2>7. \/ \E r : Return(i, r) /\ r # "none" /\ (r = "error" => "not serving" \in seen[i])
        \/ ReadResponses(i) /\ lines[i] # <<>>
    BY Zenon, <1>7, <2>3, <2>4, <2>5, <2>6
  <2>8. CASE ReadResponses(i) /\ lines[i] # <<>>
    <3>1. DOMAIN seen = Invocations /\ SaidTrue(i)
      BY Zenon DEF LookInv
    <3>2. FilesFit' /\ View' = View /\ (Hidden => Hidden')
      BY ZenonT(60), <2>1, FilesStay
    <3>3. at' = at /\ exit' = exit /\ said' = said /\ ask' = ask /\ (\A j \in Invocations \ {i} : res'[j] = res[j])
      <4>1. UNCHANGED <<ask, at, exit, said>> /\ res' = [res EXCEPT ![i] = Head(lines[i])]
        BY Zenon, <2>8
      <4>2. DOMAIN res = Invocations
        BY ZenonT(60), FunctionsApply
      <4> HIDE DEF ReadResponse, ReadResponses, daemonVars, ghostVars
      <4> HIDE FunctionsApply
      <4> QED
        BY Zenon, <4>1, <4>2
    <3>4. Looks(i)'
      BY ZenonT(60), <1>1, <2>1, <2>8, <3>2, <3>3 DEF Looks
    <3>5. SaidTrue(i)'
      BY ZenonT(60), <2>1, <3>1, <3>3 DEF SaidTrue
    <3>6. \A j \in Invocations \ {i} : Untouched(j) /\ seen'[j] = seen[j]
      BY Zenon, <2>1, <2>2, <3>3 DEF Untouched
    <3> QED
      BY Zenon, <2>1, <3>1, <3>2, <3>4, <3>5, <3>6, OneLooks
  <2> QED
    BY Zenon, <1>2, <2>1, <2>2, <2>7, <2>8, ReturnLooks
<1> QED
  BY Zenon, <1>5, <1>6, <1>7 DEF SendToDaemon


\* The arms of the match that say nothing of the daemon.
LEMMA ArmsLook ==
  ASSUME PermissionInv, AnswerInv, LookInv, NEW i \in Invocations,
         \/ DirectReturns(i)
         \/ ConnectArm(i) \/ DisconnectArm(i) \/ ShellArm(i) \/ ExecArm(i) \/ PushArm(i)
         \/ ClipboardArm(i) \/ DisplaysArm(i) \/ InputArm(i) \/ CaptureArm(i) \/ DoArm(i)
  PROVE  LookInv'
<1> DEFINE Ends ==
      /\ Stay
      /\ \/ \E code \in {0, 1, 3, 4} : Exit(i, code)
         \/ \E code \in {0, 1} : Say(i, code, "stub") \/ Say(i, code, "not written")
         \/ Exit(i, 2) /\ at[i] = "absent"
<1> DEFINE GoesOn ==
      \E place \in {"probe", "send", "allowed"} : MoveTo(i, place) /\ Stay
<1> DEFINE Spawns == ~Occupied /\ SpawnDaemon(i)
<1>1. at[i] \notin {"out", "done"}
  BY Zenon DEF DirectReturns, ConnectArm, DisconnectArm, ShellArm, ExecArm, PushArm, ClipboardArm, DisplaysArm,
     InputArm, CaptureArm, DoArm, Arm
<1>2. ASSUME DisconnectArm(i) \/ ShellArm(i) \/ ClipboardArm(i) \/ DisplaysArm(i) \/ InputArm(i)
             \/ CaptureArm(i) \/ DoArm(i)
      PROVE  Ends \/ GoesOn
  <2>1. ExitByAnswer(i) => Ends
    BY Zenon DEF ExitByAnswer
  <2> QED
    BY Zenon, <1>2, <2>1 DEF DisconnectArm, ShellArm, ClipboardArm, DisplaysArm, InputArm, CaptureArm, DoArm,
       Arm, Permitted
<1>3. ASSUME DirectReturns(i) \/ ConnectArm(i) \/ ExecArm(i) \/ PushArm(i)
      PROVE  Ends \/ GoesOn \/ GoDirect(i) \/ Spawns
  <2>1. ExitByAnswer(i) => Ends
    BY Zenon DEF ExitByAnswer
  <2>2. SpawnDaemon(i) => Ends \/ Spawns
    BY Zenon DEF SpawnDaemon
  <2> QED
    BY Zenon, <1>3, <2>1, <2>2 DEF DirectReturns, ConnectArm, ExecArm, PushArm, Permitted
<1>4. CASE Ends
  <2>1. \A code \in {0, 1, 3, 4} : code # 2
    OBVIOUS
  <2> QED
    BY Zenon, <1>1, <1>4, <2>1, EndLooks
<1>5. CASE GoesOn
  <2>1. FilesFit' /\ View' = View /\ (Hidden => Hidden')
    BY Zenon, <1>5, FilesStay DEF Stay, daemonVars
  <2> QED
    BY ZenonT(60), <1>1, <1>5, <2>1, WayLooks DEF Stay, ghostVars
<1>6. CASE GoDirect(i)
  <2>1. FilesFit' /\ View' = View /\ (Hidden => Hidden')
    BY Zenon, <1>6, FilesStay DEF GoDirect, daemonVars
  <2> QED
    BY ZenonT(60), <1>1, <1>6, <2>1, WayLooks DEF GoDirect
<1>7. CASE Spawns
  <2>1. socket' = "none" /\ lock' = "none" /\ phase' = phase
    BY Zenon, <1>7 DEF SpawnDaemon
  <2>2. FilesFit'
    BY Zenon, <1>7, <2>1 DEF LookInv, FilesFit, Occupied, pid_is_alive
  <2>3. View' = View /\ ~Hidden
    BY Zenon, <1>7, <2>1 DEF View, Occupied, pid_is_alive, Hidden
  <2> QED
    BY ZenonT(60), <1>1, <1>7, <2>2, <2>3, WayLooks DEF SpawnDaemon
<1> QED
  BY Zenon, <1>2, <1>3, <1>4, <1>5, <1>6, <1>7

LEMMA StatusLooks ==
  ASSUME PermissionInv, AnswerInv, LookInv, NEW i \in Invocations, StatusArm(i)
  PROVE  LookInv'
<1>1. Looks(i) /\ Talks(i) /\ WireTypeOK
  BY Zenon DEF LookInv, AnswerInv
<1>2. at[i] \notin {"out", "done"} /\ 0 # 2
  BY DEF StatusArm, Arm
<1>3. CASE (MoveTo(i, "probe") \/ MoveTo(i, "send")) /\ Stay
  <2>1. FilesFit' /\ View' = View /\ (Hidden => Hidden')
    BY Zenon, <1>3, FilesStay DEF Stay, daemonVars
  <2> QED
    BY Zenon, <1>2, <1>3, <2>1, WayLooks DEF Stay, ghostVars
<1>4. CASE at[i] = "absent" /\ Say(i, 0, "disconnected") /\ Stay
  <2>1. "not serving" \in seen[i]
    BY Zenon, <1>1, <1>4 DEF Looks
  <2> QED
    BY Zenon, <1>2, <1>4, <2>1, EndLooks
<1>5. CASE at[i] = "returned" /\ Say(i, 0, IF Success(i) THEN "connected" ELSE "disconnected") /\ Stay
  <2>1. Success(i) => "serving" \in seen[i]
    BY Zenon, <1>1, <1>5 DEF Success, Talks, Looks
  <2>2. ~Success(i) => "not serving" \in seen[i] \/ final[i] = "err"
    BY Zenon, <1>1, <1>5 DEF Success, Talks, Looks, WireTypeOK
  <2> QED
    BY Zenon, <1>2, <1>5, <2>1, <2>2, EndLooks
<1> QED
  BY Zenon, <1>3, <1>4, <1>5 DEF StatusArm, Arm

\* A step of the daemon that its environment notices.
LEMMA NoticeLooks ==
  ASSUME PermissionInv, AnswerInv, LookInv, UNCHANGED cliVars, Notice, FilesFit',
         Hidden => Hidden' \/ ~Occupied',
         \A i \in Invocations :
            /\ final'[i] = final[i] \/ (phase = "up" /\ at[i] = "await" /\ final'[i] # "none")
            /\ conn'[i] = "closed" /\ final'[i] = "none" =>
                 conn[i] = "closed" \/ (phase' # "up" /\ at[i] = "await")
  PROVE  LookInv'
<1> USE DEF cliVars
<1>1. DOMAIN seen' = Invocations
  BY Zenon DEF Notice
<1>2. ASSUME NEW i \in Invocations PROVE Looks(i)' /\ SaidTrue(i)'
  <2>1. Looks(i) /\ SaidTrue(i)
    BY Zenon DEF LookInv
  <2>2. /\ seen[i] \subseteq seen'[i]
        /\ at[i] \notin {"out", "done"} => View' \subseteq seen'[i]
    BY Zenon DEF Notice
  <2>3. ~Occupied' => {"absent", "not serving"} \subseteq View'
    <3>1. ASSUME FilesFit', ~Occupied' PROVE ({"absent", "not serving"} \subseteq View)'
      BY Zenon, <3>1 DEF View, FilesFit, Occupied
    <3> QED
      BY ZenonT(60), <3>1
  <2>4. at[i] = "probe lock" => {"absent", "not serving"} \subseteq seen'[i] \/ Hidden'
    BY Zenon, <2>1, <2>2, <2>3 DEF Looks
  <2>5. conn'[i] = "closed" /\ final'[i] = "none" => "not serving" \in seen'[i]
    <3>1. phase' # "up" => "not serving" \in View'
      BY Zenon DEF View
    <3>2. final[i] # "none" => final'[i] # "none"
      BY Zenon
    <3> QED
      BY ZenonT(60), <2>1, <2>2, <3>1, <3>2 DEF Looks
  <2>6. final'[i] # "none" => "serving" \in seen'[i]
    <3>1. phase = "up" => "serving" \in View
      BY Zenon, Views
    <3> QED
      BY Zenon, <2>1, <2>2, <3>1 DEF Looks
  <2>7. Looks(i)'
    BY Zenon, <2>1, <2>2, <2>4, <2>5, <2>6 DEF Looks
  <2>8. SaidTrue(i)'
    BY Zenon, <2>1, <2>2 DEF Looks, SaidTrue
  <2> QED
    BY Zenon, <2>7, <2>8
<1> QED
  BY Zenon, <1>1, <1>2 DEF LookInv


\* Binding, readiness and the removal of files: nobody is answered or hung up on.
LEMMA FilesLook ==
  ASSUME PermissionInv, AnswerInv, LookInv,
         Binds \/ CreatesLock \/ FillsLock \/ Stops \/ RemovesSocket \/ PidReused
  PROVE  LookInv'
<1> USE DEF Binds, CreatesLock, FillsLock, Stops, RemovesSocket, PidReused, wireVars, fileVars, daemonVars
<1>1. FilesFit /\ UNCHANGED <<cliVars, conn, final>> /\ Notice
  BY Zenon DEF LookInv
<1>2. FilesFit'
  BY Zenon, <1>1 DEF FilesFit, Occupied, pid_is_alive
<1>3. Hidden => Hidden' \/ ~Occupied'
  BY Zenon, <1>1 DEF FilesFit, Hidden, Occupied, pid_is_alive
<1> QED
  BY ZenonT(60), <1>1, <1>2, <1>3, NoticeLooks

LEMMA HangUpLooks ==
  ASSUME PermissionInv, AnswerInv, LookInv, StartFails \/ RemovesLock \/ Crash
  PROVE  LookInv'
<1> USE DEF StartFails, RemovesLock, Crash
<1>1. FilesFit /\ UNCHANGED <<cliVars, final>> /\ Notice /\ phase' = "none"
  BY Zenon DEF LookInv
<1>2. FilesFit'
  BY Zenon, <1>1 DEF FilesFit
<1>3. Hidden => Hidden' \/ ~Occupied'
  BY Zenon, <1>1 DEF FilesFit, Hidden, Occupied, pid_is_alive
<1>4. ASSUME NEW i \in Invocations
      PROVE  conn'[i] = "closed" => conn[i] = "closed" \/ at[i] = "await"
  <2>1. Talks(i)
    BY Zenon DEF AnswerInv
  <2>2. conn'[i] = conn[i] \/ conn[i] = "queued" \/ cur = i
    BY Zenon DEF HangUp, Waiting
  <2> QED
    BY ZenonT(60), <2>1, <2>2 DEF Talks
<1> QED
  BY ZenonT(60), <1>1, <1>2, <1>3, <1>4, NoticeLooks

LEMMA AnswersLook ==
  ASSUME PermissionInv, AnswerInv, LookInv, Succeeds \/ Fails
  PROVE  LookInv'
<1>1. PICK r \in {"ok", "err"}, next \in {"up", "closing"} : Answers(r, next)
  BY Zenon DEF Succeeds, Fails
<1>2. /\ phase = "up" /\ cur # None /\ UNCHANGED <<cliVars, fileVars>> /\ phase' = next /\ Notice
      /\ final' = [final EXCEPT ![cur] = r] /\ HangUp({cur})
  BY Zenon, <1>1 DEF Answers
<1>3. FilesFit'
  BY Zenon, <1>2 DEF LookInv, FilesFit, fileVars
<1>4. Hidden => Hidden'
  BY Zenon, <1>2 DEF Hidden, pid_is_alive, fileVars
<1>5. ASSUME NEW i \in Invocations
      PROVE  \/ i = cur /\ at[i] = "await" /\ final'[i] = r
             \/ final'[i] = final[i] /\ conn'[i] = conn[i]
  <2>1. Talks(i) /\ DOMAIN final = Invocations
    BY Zenon DEF AnswerInv, WireTypeOK
  <2> QED
    BY Zenon, <1>2, <2>1 DEF HangUp, Talks
<1> QED
  BY ZenonT(60), <1>2, <1>3, <1>4, <1>5, NoticeLooks

\* Steps of the daemon that change nothing that can be seen from outside.
LEMMA ServesLook ==
  ASSUME PermissionInv, AnswerInv, LookInv, Accept \/ WritesChunk \/ UNCHANGED vars
  PROVE  LookInv'
<1> USE DEF Accept, WritesChunk, vars, cliVars, daemonVars, ghostVars, wireVars
<1>1. UNCHANGED <<phase, fileVars, cliVars, seen>>
  BY Zenon 
<1>2. FilesFit' /\ View' = View /\ (Hidden => Hidden')
  BY Zenon, <1>1, FilesStay
<1>3. ASSUME NEW i \in Invocations PROVE Looks(i)' /\ SaidTrue(i)'
  <2>1. Looks(i) /\ SaidTrue(i) /\ Talks(i) /\ WireTypeOK /\ BacklogFits
    BY Zenon DEF LookInv, AnswerInv
  <2>2. conn'[i] = "closed" => conn[i] = "closed"
    BY Zenon, <2>1 DEF WireTypeOK
  <2>3. \/ final'[i] = final[i]
        \/ at[i] = "await" /\ phase = "up" /\ final'[i] = "chunk"
    BY Zenon, <2>1 DEF WireTypeOK, Talks
  <2>4. phase = "up" => "serving" \in View
    BY Zenon, Views
  <2>5. Looks(i)'
    BY Zenon, <1>1, <1>2, <2>1, <2>2, <2>3, <2>4 DEF Looks
  <2>6. SaidTrue(i)'
    BY Zenon, <1>1, <2>1, <2>3 DEF Looks, SaidTrue
  <2> QED
    BY Zenon, <2>5, <2>6
<1> QED
  BY Zenon, <1>1, <1>2, <1>3 DEF LookInv

\* Looks at socket and lock, taken one after the other, are never fooled by
\* daemons that start, stop, crash or are replaced in between.
THEOREM LookInvariance == Spec => []LookInv
<1>1. PermissionInv /\ AnswerInv /\ LookInv /\ [Next]_vars => LookInv'
  <2> SUFFICES ASSUME PermissionInv, AnswerInv, LookInv, [Next]_vars PROVE LookInv'
    BY Zenon
  <2>1. ASSUME NEW i \in Invocations, FrontEnd(i)
        PROVE  LookInv'
    BY ZenonT(60), <2>1, RunLooks, ProbeLooks, SendLooks, ArmsLook, StatusLooks DEF FrontEnd
  <2>2. CASE Daemon \/ UNCHANGED vars
    BY ZenonT(60), <2>2, FilesLook, HangUpLooks, AnswersLook, ServesLook DEF Daemon
  <2> QED
    BY Zenon, <2>1, <2>2 DEF Next
<1> QED
  BY <1>1, InitLook, PermissionInvariance, AnswerInvariance, PTL DEF Spec

\* What status, disconnect and do say of the daemon was true while they ran, for
\* any number of invocations and crashes (is_daemon_running, send_command).
THEOREM SaidCorrect == Spec => []SaidWasTrue
<1>1. LookInv => SaidWasTrue
  BY Zenon DEF LookInv, SaidWasTrue
<1> QED
  BY <1>1, LookInvariance, PTL

\* The state of the front end and of its wire has its types in every state.
THEOREM TypeCorrect == Spec => []TypeOK
<1>1. PermissionInv /\ AnswerInv /\ LookInv => TypeOK
  BY Zenon DEF PermissionInv, AnswerInv, BacklogFits, LookInv, TypeOK
<1> QED
  BY <1>1, PermissionInvariance, AnswerInvariance, LookInvariance, PTL

=============================================================================
