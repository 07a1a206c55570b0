------------------------------- MODULE Batch -------------------------------
(***************************************************************************)
(* `rustdesk-cli do <step>...`: the words after `do` are cut into steps by *)
(* parse_batch_steps and every step is then answered by step_to_response.  *)
(* The front end never sends a step to the daemon: the answers are made    *)
(* from the step's words alone.                                            *)
(*                                                                         *)
(* A word is a string of a small vocabulary.  What the code asks of a word *)
(* is whether it names a step, whether it starts with "--", and what it    *)
(* converts to; the tables below answer these questions.  An optional      *)
(* value is a sequence of length at most one.                              *)
(*                                                                         *)
(* The parser is a state machine: one action for each arm of the match on  *)
(* the step's name, and one for each turn of the loops of parse_click_step *)
(* and parse_flagged_step.                                                 *)
(***************************************************************************)
EXTENDS Naturals, SequencesExt

CONSTANTS
  Scripts,      \* what a user means: sequences of usages [words, means], where
                \* means are the fields of the stand-alone command's answer
  Inputs        \* sequences of words that need not mean anything

VARIABLES
  script,       \* the usages the words were written from, or <<>>
  tokens,       \* the words after `do`
  index,        \* the next word to read (the code counts from 0, this from 1)
  steps,        \* the steps parsed so far
  command,      \* the step whose arguments are being scanned, or "none"
  args,         \* its arguments so far
  positional,   \* how many of them are not flags
  outcome,      \* "parsing", "parsed", "error" or "answered"
  answers       \* the answers of do_response

vars == <<script, tokens, index, steps, command, args, positional, outcome, answers>>
inputVars == <<script, tokens>>

-----------------------------------------------------------------------------
(* The questions asked of a word.                                          *)

is_step_command(t) ==
  t \in {"connect", "disconnect", "shell", "exec", "clipboard", "status", "displays",
         "capture", "type", "key", "click", "scroll", "move", "drag"}

\* Words that start with "--"; "--other" stands for every one no step knows.
IsFlag(t) ==
  t \in {"--password", "--server", "--timeout", "--command", "--modifiers", "--display",
         "--format", "--quality", "--region", "--text", "--button", "--double", "--other"}

\* str::parse and the parse_* functions: the value a word converts to, if any.
Convert(table, word) == IF word \in DOMAIN table THEN <<table[word]>> ELSE <<>>

Numbers == [w \in {"3", "5", "7"} |-> CASE w = "3" -> 3 [] w = "5" -> 5 [] w = "7" -> 7]
Regions == [w \in {"0,0,2,2"} |-> <<0, 0, 2, 2>>]
parse_capture_format == [w \in {"png", "jpg", "jpeg"} |-> IF w = "png" THEN "png" ELSE "jpg"]
parse_mouse_button == [w \in {"left", "right", "middle"} |-> w]

\* The items between the commas of a modifier list, and the ones kept.
Items(word) == IF word = "ctrl,shift" THEN <<"ctrl", "shift">> ELSE <<word>>
parse_modifier_list(word) ==
  SelectSeq(Items(word), LAMBDA item : item \in {"ctrl", "shift", "alt"})

infer_format(file) == IF file \in {"shot.jpg", "shot.jpeg"} THEN "jpg" ELSE "png"

OrElse(option, default) == IF option = <<>> THEN default ELSE option[1]
AndThen(option, table) == IF option = <<>> THEN <<>> ELSE Convert(table, option[1])

-----------------------------------------------------------------------------
(* Looking words up in a parsed step's arguments.                          *)

flag_value(a, flag) ==
  LET at == {i \in 1..Len(a) - 1 : a[i] = flag}
  IN  IF at = {} THEN <<>> ELSE <<a[Min(at) + 1]>>

flag_present(a, flag) == Contains(a, flag)

\* The word after ANY flag is skipped, whether or not the flag takes a value.
Skipped(a) ==
  LET skip[i \in 0..Len(a)] == i > 1 /\ ~skip[i - 1] /\ IsFlag(a[i - 1])
  IN  {i \in 1..Len(a) : skip[i]}

positional_args(a) ==
  LET kept == {i \in 1..Len(a) : i \notin Skipped(a) /\ ~IsFlag(a[i])}
  IN  [k \in 1..Cardinality(kept) |->
         a[CHOOSE i \in kept : Cardinality({j \in kept : j <= i}) = k]]

first_non_flag_arg(a) == SubSeq(positional_args(a), 1, IF positional_args(a) = <<>> THEN 0 ELSE 1)

\* The k-th of some words as an i32; 0 when it is missing or does not parse.
Coordinate(words, k) ==
  IF k > Len(words) THEN 0 ELSE OrElse(Convert(Numbers, words[k]), 0)

-----------------------------------------------------------------------------
(* step_to_response: the fields an answer reports.                         *)

NoAnswer(c) == [ok |-> FALSE, command |-> c]

ConnectAnswer(a) ==
  [ok |-> TRUE, command |-> "connect", id |-> OrElse(first_non_flag_arg(a), "unknown"),
   server |-> flag_value(a, "--server")]

ClipboardAnswer(a) ==
  LET action == OrElse(first_non_flag_arg(a), "get")
  IN  CASE action = "get" -> [ok |-> TRUE, command |-> "clipboard get"]
        [] action = "set" -> [ok |-> TRUE, command |-> "clipboard set",
                              text |-> OrElse(flag_value(a, "--text"), "")]
        [] OTHER -> NoAnswer("clipboard")

CaptureAnswer(a) ==
  LET file == OrElse(first_non_flag_arg(a), "screenshot.png")
  IN  [ok |-> TRUE, command |-> "capture", file |-> file,
       format |-> OrElse(AndThen(flag_value(a, "--format"), parse_capture_format),
                         infer_format(file)),
       region |-> AndThen(flag_value(a, "--region"), Regions),
       display |-> AndThen(flag_value(a, "--display"), Numbers),
       timeout |-> OrElse(AndThen(flag_value(a, "--timeout"), Numbers), 10)]

KeyAnswer(a) ==
  LET list == flag_value(a, "--modifiers")
  IN  [ok |-> TRUE, command |-> "key", key |-> OrElse(first_non_flag_arg(a), "enter"),
       modifiers |-> IF list = <<>> THEN <<>> ELSE parse_modifier_list(list[1])]

ClickAnswer(a) ==
  [ok |-> TRUE, command |-> "click",
   button |-> OrElse(AndThen(flag_value(a, "--button"), parse_mouse_button), "left"),
   double |-> flag_present(a, "--double"),
   at |-> [k \in 1..2 |-> Coordinate(positional_args(a), k)]]

\* scroll, move and drag: so many coordinates, in order.
PointerAnswer(c, a, n) ==
  [ok |-> TRUE, command |-> c, at |-> [k \in 1..n |-> Coordinate(a, k)]]

step_to_response(s) ==
  CASE s.command \in {"disconnect", "shell", "status", "displays"} ->
         [ok |-> TRUE, command |-> s.command]
    [] s.command = "connect" -> ConnectAnswer(s.args)
    [] s.command = "exec" -> [ok |-> TRUE, command |-> "exec",
                              line |-> OrElse(flag_value(s.args, "--command"), "")]
    [] s.command = "clipboard" -> ClipboardAnswer(s.args)
    [] s.command = "capture" -> CaptureAnswer(s.args)
    [] s.command = "type" -> [ok |-> TRUE, command |-> "type",
                              text |-> OrElse(s.args, "")]
    [] s.command = "key" -> KeyAnswer(s.args)
    [] s.command = "click" -> ClickAnswer(s.args)
    [] s.command = "scroll" -> PointerAnswer("scroll", s.args, 3)
    [] s.command = "move" -> PointerAnswer("move", s.args, 2)
    [] s.command = "drag" -> PointerAnswer("drag", s.args, 4)
    [] OTHER -> NoAnswer(s.command)

-----------------------------------------------------------------------------
(* parse_batch_steps.                                                      *)

Init ==
  /\ \/ script \in Scripts /\ tokens = FlattenSeq([k \in DOMAIN script |-> script[k].words])
     \/ script = <<>> /\ tokens \in Inputs
  /\ index = 1
  /\ steps = <<>>
  /\ command = "none"
  /\ args = <<>>
  /\ positional = 0
  /\ outcome = "parsing"
  /\ answers = <<>>

More == index <= Len(tokens)

\* The match on tokens[index] at the head of the outer loop.
AtStep(names) ==
  /\ outcome = "parsing"
  /\ command = "none"
  /\ More
  /\ tokens[index] \in names

Fail ==
  /\ outcome' = "error"
  /\ UNCHANGED <<inputVars, index, steps, command, args, positional, answers>>

Push(c, a, next) ==
  /\ steps' = Append(steps, [command |-> c, args |-> a])
  /\ index' = next
  /\ command' = "none"
  /\ args' = <<>>
  /\ positional' = 0
  /\ UNCHANGED <<inputVars, outcome, answers>>

UnknownCommand ==
  /\ outcome = "parsing"
  /\ command = "none"
  /\ More
  /\ ~is_step_command(tokens[index])
  /\ Fail

BareStep ==
  /\ AtStep({"disconnect", "status", "displays", "shell"})
  /\ Push(tokens[index], <<>>, index + 1)

\* A step of exactly n arguments takes the next n words whatever they are.
MutantFixedStep(c, n) ==
  /\ AtStep({c})
  /\ IF index + n > Len(tokens)
     THEN Fail
     ELSE Push(c, SubSeq(tokens, index + 1, index + n), index + n)

FixedStep(c, n) ==
  /\ AtStep({c})
  /\ IF index + n > Len(tokens)
     THEN Fail
     ELSE Push(c, SubSeq(tokens, index + 1, index + n), index + 1 + n)

TypeStep == FixedStep("type", 1)
ScrollStep == FixedStep("scroll", 3)
MoveStep == FixedStep("move", 2)
DragStep == FixedStep("drag", 4)

\* The steps with flags: their words are scanned one turn of a loop at a time.
StartScan(c, a, next) ==
  /\ command' = c
  /\ args' = a
  /\ index' = next
  /\ UNCHANGED <<inputVars, steps, positional, outcome, answers>>

FlaggedStep ==
  /\ AtStep({"click", "connect", "exec", "key", "capture"})
  /\ StartScan(tokens[index], <<>>, index + 1)

ClipboardStep ==
  /\ AtStep({"clipboard"})
  /\ CASE index = Len(tokens) -> Fail
       [] index < Len(tokens) /\ tokens[index + 1] = "get" ->
            Push("clipboard", <<"get">>, index + 2)
       [] index < Len(tokens) /\ tokens[index + 1] = "set" ->
            StartScan("clipboard", <<"set">>, index + 2)
       [] OTHER -> Fail

ParseEnds ==
  /\ outcome = "parsing"
  /\ command = "none"
  /\ ~More
  /\ outcome' = "parsed"
  /\ UNCHANGED <<inputVars, index, steps, command, args, positional, answers>>

-----------------------------------------------------------------------------
(* parse_click_step and parse_flagged_step.                                *)

value_flags(c) ==
  CASE c = "click" -> {"--button"}
    [] c = "connect" -> {"--password", "--server", "--timeout"}
    [] c = "exec" -> {"--command"}
    [] c = "key" -> {"--modifiers"}
    [] c = "capture" -> {"--display", "--format", "--quality", "--region", "--timeout"}
    [] c = "clipboard" -> {"--text"}

required_positionals(c) ==
  CASE c = "click" -> 2
    [] c \in {"connect", "key"} -> 1
    [] OTHER -> 0

\* The loop ends at the end of the words, or at a step's name once the step
\* has the positional arguments it needs.
MutantScanIsOver ==
  More => (positional > required_positionals(command) /\ is_step_command(tokens[index]))

ScanIsOver ==
  More => (positional >= required_positionals(command) /\ is_step_command(tokens[index]))

Scanning == outcome = "parsing" /\ command # "none"

Consume(n) ==
  /\ args' = args \o SubSeq(tokens, index, index + n - 1)
  /\ index' = index + n
  /\ UNCHANGED <<inputVars, steps, command, outcome, answers>>

ScanValueFlag ==
  /\ Scanning /\ ~ScanIsOver
  /\ tokens[index] \in value_flags(command)
  /\ IF index = Len(tokens)
     THEN Fail
     ELSE Consume(2) /\ UNCHANGED positional

ScanDouble ==
  /\ Scanning /\ ~ScanIsOver
  /\ command = "click" /\ tokens[index] = "--double"
  /\ Consume(1) /\ UNCHANGED positional

ScanUnsupported ==
  /\ Scanning /\ ~ScanIsOver
  /\ tokens[index] \notin value_flags(command)
  /\ ~(command = "click" /\ tokens[index] = "--double")
  /\ IsFlag(tokens[index])
  /\ Fail

ScanPositional ==
  /\ Scanning /\ ~ScanIsOver
  /\ ~IsFlag(tokens[index])
  /\ Consume(1) /\ positional' = positional + 1

\* After the loop: enough positional arguments, and the flag that exec and
\* clipboard set cannot do without.
Complete ==
  /\ positional >= required_positionals(command)
  /\ command = "exec" => flag_value(args, "--command") # <<>>
  /\ command = "clipboard" => flag_value(args, "--text") # <<>>

ScanEnds ==
  /\ Scanning /\ ScanIsOver
  /\ IF Complete THEN Push(command, args, index) ELSE Fail

\* do_response: every parsed step is answered, in order.
do_response ==
  /\ outcome = "parsed"
  /\ outcome' = "answered"
  /\ answers' = [k \in DOMAIN steps |-> step_to_response(steps[k])]
  /\ UNCHANGED <<inputVars, index, steps, command, args, positional>>

Next ==
  \/ UnknownCommand \/ BareStep \/ TypeStep \/ ScrollStep \/ MoveStep \/ DragStep
  \/ FlaggedStep \/ ClipboardStep \/ ParseEnds
  \/ ScanValueFlag \/ ScanDouble \/ ScanUnsupported \/ ScanPositional \/ ScanEnds
  \/ do_response

Spec == Init /\ [][Next]_vars

-----------------------------------------------------------------------------
(* Properties.                                                             *)

\* The parser's words about a step that is cut off, and the finished steps.
Flat(list) == FlattenSeq([k \in DOMAIN list |-> <<list[k].command>> \o list[k].args])
Pending == IF command = "none" THEN <<>> ELSE <<command>> \o args

\* No word is dropped, repeated or moved: at every turn of the loops of
\* parse_batch_steps, the steps parsed so far and the step in hand are together
\* exactly the words read so far, so a step's arguments never leak into the next
\* step and none is left out at a boundary between two steps.
EveryWordHasItsStep ==
  Flat(steps) \o Pending = SubSeq(tokens, 1, index - 1)

\* A batch means what its commands mean one by one: words written as a sequence
\* of usages of the stand-alone commands (flags before, between and after the
\* positional arguments; values that are themselves the name of a step) are cut
\* at the same places and answered with the values the stand-alone command
\* would read.  It says of parse_batch_steps what DESIGN.md says: `do` consumes
\* a sequence of normal subcommands.
BatchMeansItsCommands ==
  script # <<>> =>
    /\ outcome # "error"
    /\ outcome = "answered" =>
         answers = [k \in DOMAIN script |-> [ok |-> TRUE] @@ script[k].means]
=============================================================================
