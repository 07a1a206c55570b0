------------------------------ MODULE MCBatch ------------------------------
(***************************************************************************)
(* Batch on two kinds of input: every sequence of up to MaxWords words of  *)
(* a vocabulary with a step of every shape, and every batch of up to       *)
(* MaxSteps usages of the stand-alone commands, written the ways clap      *)
(* accepts them (main.rs, enum Commands): positional arguments in order,   *)
(* flags anywhere.                                                         *)
(***************************************************************************)
EXTENDS Batch

CONSTANTS MaxWords, MaxSteps

Vocabulary ==
  {"status", "type", "move", "click", "clipboard", "exec", "connect", "get", "set",
   "--command", "--text", "--button", "--double", "--other", "5"}

MCInputs == SeqOf(Vocabulary, MaxWords) \ {<<>>}

\* The positional words in order with the options (short sequences of words)
\* anywhere among them.
Arrange(positionals, options) ==
  LET n == Len(positionals)
      opt == SetToSeq(options)
      block == [i \in 1..n + Len(opt) |-> IF i <= n THEN <<positionals[i]>> ELSE opt[i - n]]
      orders == {p \in SetToSeqs(1..n + Len(opt)) :
                   \A i, j \in DOMAIN p : p[i] < p[j] /\ p[j] <= n => i < j}
  IN  {FlattenSeq([k \in DOMAIN p |-> block[p[k]]]) : p \in orders}

Written(name, forms, meaning) ==
  {[words |-> <<name>> \o w, means |-> [command |-> name] @@ meaning] : w \in forms}

\* A value that is also the name of a step, and one that is not.
Texts == {"status", "hello"}

\* --double goes last: anywhere else positional_args takes the word after it for
\* its value, which the README records as a difference from the documentation.
ClickForms(button, double) ==
  {w \o (IF double THEN <<"--double">> ELSE <<>>) :
     w \in Arrange(<<"5", "3">>, IF button = "left" THEN {} ELSE {<<"--button", button>>})}

Bare == UNION {Written(c, {<<>>}, [command |-> c]) : c \in {"disconnect", "shell", "status", "displays"}}
Types == UNION {Written("type", {<<t>>}, [text |-> t]) : t \in Texts}
Pointers ==
  Written("scroll", {<<"5", "3", "7">>}, [at |-> <<5, 3, 7>>])
  \cup Written("move", {<<"5", "3">>}, [at |-> <<5, 3>>])
  \cup Written("drag", {<<"5", "3", "7", "5">>}, [at |-> <<5, 3, 7, 5>>])
Clicks ==
  UNION {Written("click", ClickForms(b, d), [button |-> b, double |-> d, at |-> <<5, 3>>]) :
           b \in {"left", "right"}, d \in BOOLEAN}
Connects ==
  Written("connect", Arrange(<<"7">>, {}) \cup Arrange(<<"7">>, {<<"--password", "status">>}),
          [id |-> "7", server |-> <<>>])
  \cup Written("connect", Arrange(<<"7">>, {<<"--server", "s">>, <<"--timeout", "5">>}),
               [id |-> "7", server |-> <<"s">>])
Execs == UNION {Written("exec", {<<"--command", t>>}, [line |-> t]) : t \in Texts}
Keys ==
  Written("key", {<<"enter">>}, [key |-> "enter", modifiers |-> <<>>])
  \cup Written("key", Arrange(<<"a">>, {<<"--modifiers", "ctrl,shift">>}),
               [key |-> "a", modifiers |-> <<"ctrl", "shift">>])
Clipboards ==
  {[words |-> <<"clipboard", "get">>, means |-> [command |-> "clipboard get"]]}
  \cup {[words |-> <<"clipboard", "set", "--text", t>>,
         means |-> [command |-> "clipboard set", text |-> t]] : t \in Texts}
Captures ==
  Written("capture", {<<"shot.jpg">>},
          [file |-> "shot.jpg", format |-> "jpg", region |-> <<>>, display |-> <<>>, timeout |-> 10])
  \cup Written("capture", Arrange(<<"shot.jpg">>, {<<"--format", "png">>, <<"--region", "0,0,2,2">>}),
               [file |-> "shot.jpg", format |-> "png", region |-> << <<0, 0, 2, 2>> >>,
                display |-> <<>>, timeout |-> 10])
  \cup Written("capture", Arrange(<<"a.png">>, {<<"--display", "3">>, <<"--timeout", "5">>}),
               [file |-> "a.png", format |-> "png", region |-> <<>>, display |-> <<3>>, timeout |-> 5])

Usages ==
  Bare \cup Types \cup Pointers \cup Clicks \cup Connects \cup Execs \cup Keys \cup Clipboards
  \cup Captures

MCScripts == SeqOf(Usages, MaxSteps) \ {<<>>}
=============================================================================
