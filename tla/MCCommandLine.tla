--------------------------- MODULE MCCommandLine ---------------------------
(***************************************************************************)
(* CommandLine with two invocations: i1 is asked anything, i2 changes the  *)
(* daemon under it.  Policies cover every rule of the sandbox, admitted    *)
(* and not, with and without prompts.                                      *)
(***************************************************************************)
EXTENDS CommandLine

CONSTANTS i1, i2

MCStartsWith == {<<"ls", "ls">>, <<"ls /etc", "ls">>, <<"rm", "rm">>}
MCWithin == {<<"ls /etc", "/etc">>, <<"/etc/f", "/etc">>}

Off == [mode |-> "off", allowed_peers |-> {}, allowed_commands |-> {}, blocked_paths |-> {}]
Missing == [Off EXCEPT !.mode = "missing"]
Rules(peers, commands, blocked) ==
  [mode |-> "rules", allowed_peers |-> peers, allowed_commands |-> commands, blocked_paths |-> blocked]

Plain(k) ==
  [kind |-> k, direct |-> FALSE, json |-> FALSE, usage |-> "fine", skip |-> TRUE,
   stdin |-> "closed", sandbox |-> Off, peer |-> "p", line |-> "ls", paths |-> {"/tmp/f"}]

\* The ways of being allowed or not.
Policies ==
  {[skip |-> FALSE, stdin |-> s, sandbox |-> Off] : s \in {"yes once", "no", "closed"}}
  \cup {[skip |-> TRUE, stdin |-> "closed", sandbox |-> b] :
          b \in {Missing, Rules({"p"}, {"ls"}, {"", "/etc"}), Rules({"q"}, {"ls"}, {}),
                 Rules({"p"}, {}, {})}}
  \cup {[skip |-> FALSE, stdin |-> "no", sandbox |-> Rules({"p"}, {"ls"}, {})]}

Under(a, p) == [a EXCEPT !.skip = p.skip, !.stdin = p.stdin, !.sandbox = p.sandbox]

Guarded ==
  {Plain("connect"), [Plain("connect") EXCEPT !.direct = TRUE], Plain("shell"),
   Plain("exec"), [Plain("exec") EXCEPT !.direct = TRUE], [Plain("exec") EXCEPT !.line = "ls /etc"],
   Plain("push"), [Plain("push") EXCEPT !.direct = TRUE], [Plain("push") EXCEPT !.paths = {"/tmp/f", "/etc/f"}]}

Unguarded == {Plain(k) : k \in {"disconnect", "clipboard", "status", "displays", "capture", "input", "do"}}

Odd ==
  {[Plain("status") EXCEPT !.usage = "help"], [Plain("input") EXCEPT !.usage = "wrong"],
   [Plain("connect") EXCEPT !.usage = "bad password"], [Plain("do") EXCEPT !.usage = "bad steps"],
   [Plain("connect") EXCEPT !.direct = TRUE, !.json = TRUE]}

MCAsks ==
  [i \in Invocations |->
     IF i = i1 THEN Unguarded \cup Odd \cup {Under(a, p) : a \in Guarded, p \in Policies}
                    \cup {[Plain("exec") EXCEPT !.direct = TRUE, !.skip = FALSE, !.stdin = "yes"]}
     ELSE {Plain(k) : k \in {"connect", "disconnect"}}]

\* The question of the disagreement about disconnect.
DisconnectAsks == [i \in Invocations |-> {Plain(IF i = i1 THEN "disconnect" ELSE "connect")}]
=============================================================================
