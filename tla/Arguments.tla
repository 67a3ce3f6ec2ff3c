-------------------------------- MODULE Arguments --------------------------------
(***************************************************************************)
(* The command line (src/src/runner.cpp): parse_args walks argv, one       *)
(* action per turn of its loop, and run_all runs the Runner or exits.      *)
(***************************************************************************)
EXTENDS Integers, Sequences, SequencesExt

CONSTANTS
  Words,    \* what a user may type that no option is spelled like
  atoll,    \* what atoll makes of a word; of an option's spelling it makes 0
  MaxArgs   \* bound: arguments

Help == {"-h", "--help"}
Valued == [filter |-> {"-f", "--filter"}, tag |-> {"-t", "--tag"},
           exclude |-> {"-x", "--exclude-tag"}, timeout |-> {"--timeout"},
           reporter |-> {"-r", "--reporter"}, output |-> {"-o", "--output"},
           suite |-> {"--suite"}]
Switches == [list |-> {"-l", "--list"}, no_color |-> {"--no-color"}]
Kinds == [console |-> "Console", tap |-> "Tap", junit |-> "Junit"]

Spellings(table) == UNION {table[k] : k \in DOMAIN table}
Meaning(table, a) == CHOOSE k \in DOMAIN table : a \in table[k]
Options == Help \cup Spellings(Valued) \cup Spellings(Switches)
Argument == Options \cup Words

ASSUME ArgumentsAssumption ==
  MaxArgs \in Nat /\ atoll \in [Words -> Int] /\ Words \cap Options = {}

VARIABLES
  argv,         \* the arguments after the program's name
  i,            \* the next one the loop reads
  opts,         \* RunOptions
  should_exit, exit_code,
  printed,      \* what went to "out" and to "err"
  at,           \* "parsing", "parsed" or "ended"
  ran           \* Runner::run was called

argVars == <<argv, i, opts, should_exit, exit_code, printed, at, ran>>

RunOptions ==
  [name_filter |-> "", include_tags |-> {}, exclude_tags |-> {}, default_timeout |-> 0,
   list_only |-> FALSE, color |-> TRUE, format |-> "Console", junit_suite |-> "edtf",
   output_path |-> ""]

Milliseconds(v) == IF v \in Words THEN atoll[v] ELSE 0

Set(o, k, v) ==
  CASE k = "filter"   -> [o EXCEPT !.name_filter = v]
    [] k = "tag"      -> [o EXCEPT !.include_tags = @ \cup {v}]
    [] k = "exclude"  -> [o EXCEPT !.exclude_tags = @ \cup {v}]
    [] k = "timeout"  -> [o EXCEPT !.default_timeout = Milliseconds(v)]
    [] k = "reporter" -> [o EXCEPT !.format = Kinds[v]]
    [] k = "output"   -> [o EXCEPT !.output_path = v]
    [] k = "suite"    -> [o EXCEPT !.junit_suite = v]

CommandLines == SeqOf(Argument, MaxArgs)

ArgumentsInit ==
  /\ i = 1 /\ opts = RunOptions
  /\ should_exit = FALSE /\ exit_code = 0
  /\ printed = {} /\ at = "parsing" /\ ran = FALSE

Reading(set) == at = "parsing" /\ i <= Len(argv) /\ argv[i] \in set

(* parse_args returns early. *)
Leave(code, what) ==
  /\ should_exit' = TRUE /\ exit_code' = code
  /\ printed' = what /\ at' = "parsed"
  /\ UNCHANGED <<argv, i, opts, ran>>

GoOn(o, n) ==
  /\ opts' = o /\ i' = i + n
  /\ UNCHANGED <<argv, should_exit, exit_code, printed, at, ran>>

PrintHelp == Reading(Help) /\ Leave(0, {<<"out", "usage">>})

(* need_value at the end of argv *)
ValueMissing ==
  Reading(Spellings(Valued)) /\ i = Len(argv) /\ Leave(2, {<<"err", "requires a value">>})

UnknownReporter ==
  /\ Reading(Valued.reporter) /\ i < Len(argv)
  /\ argv[i + 1] \notin DOMAIN Kinds
  /\ Leave(2, {<<"err", "unknown reporter">>})

(* Broken: the value is looked at and left for the loop to read again. *)
TakeValueTwice ==
  /\ Reading(Spellings(Valued)) /\ i < Len(argv)
  /\ LET k == Meaning(Valued, argv[i])
         v == argv[i + 1]
     IN  /\ k = "reporter" => v \in DOMAIN Kinds
         /\ GoOn(Set(opts, k, v), IF v \in Options THEN 1 ELSE 2)

(* The value is whatever comes next, an option's spelling too. *)
TakeValue ==
  /\ Reading(Spellings(Valued)) /\ i < Len(argv)
  /\ LET k == Meaning(Valued, argv[i])
         v == argv[i + 1]
     IN  /\ k = "reporter" => v \in DOMAIN Kinds
         /\ GoOn(Set(opts, k, v), 2)

Switch ==
  \/ Reading(Switches.list) /\ GoOn([opts EXCEPT !.list_only = TRUE], 1)
  \/ Reading(Switches.no_color) /\ GoOn([opts EXCEPT !.color = FALSE], 1)

(* Broken: an argument no option is spelled like is reported and skipped. *)
UnknownArgumentSkipped ==
  /\ Reading(Argument \ Options)
  /\ printed' = {<<"err", "unknown argument">>} /\ i' = i + 1
  /\ UNCHANGED <<argv, opts, should_exit, exit_code, at, ran>>

UnknownArgument ==
  Reading(Argument \ Options) /\ Leave(2, {<<"err", "unknown argument">>, <<"err", "usage">>})

(* Broken: the loop's bound is one too small. *)
ParseEndsEarly ==
  /\ at = "parsing" /\ i >= Len(argv)
  /\ at' = "parsed"
  /\ UNCHANGED <<argv, i, opts, should_exit, exit_code, printed, ran>>

ParseEnds ==
  /\ at = "parsing" /\ i > Len(argv)
  /\ at' = "parsed"
  /\ UNCHANGED <<argv, i, opts, should_exit, exit_code, printed, ran>>

Exit ==
  /\ at = "parsed" /\ should_exit
  /\ at' = "ended"
  /\ UNCHANGED <<argv, i, opts, should_exit, exit_code, printed, ran>>

(* Runner::run returned ok; only an output file that does not open makes a *)
(* listing fail.                                                           *)
RunTests(ok) ==
  /\ at = "parsed" /\ ~should_exit
  /\ opts.list_only /\ opts.output_path = "" => ok
  /\ exit_code' = IF ok THEN 0 ELSE 1
  /\ ran' = TRUE /\ at' = "ended"
  /\ UNCHANGED <<argv, i, opts, should_exit, printed>>

Ended == at = "ended" /\ UNCHANGED argVars

ArgumentsNext ==
  \/ PrintHelp \/ ValueMissing \/ UnknownReporter \/ TakeValue \/ Switch
  \/ UnknownArgument \/ ParseEnds \/ Exit \/ (\E ok \in BOOLEAN : RunTests(ok)) \/ Ended

ArgumentsSpec == argv \in CommandLines /\ ArgumentsInit /\ [][ArgumentsNext]_argVars

----------------------------------------------------------------------------
(* The command line read without a loop: an argument is a value when the   *)
(* one before it is an option that takes one and is not itself a value.    *)
Option(args) ==
  LET option[p \in DOMAIN args] ==
        p = 1 \/ ~option[p - 1] \/ args[p - 1] \notin Spellings(Valued)
  IN  option

(* What the arguments before the n-th ask for. *)
Given(args, k, n) ==
  {p \in DOMAIN args : p < n /\ p < Len(args) /\ Option(args)[p] /\ args[p] \in Valued[k]}
LastValue(args, k, default, n) ==
  IF Given(args, k, n) = {} THEN default
  ELSE args[(CHOOSE p \in Given(args, k, n) : \A q \in Given(args, k, n) : q <= p) + 1]
Values(args, k, n) == {args[p + 1] : p \in Given(args, k, n)}
Switched(args, k, n) == \E p \in DOMAIN args : p < n /\ Option(args)[p] /\ args[p] \in Switches[k]

AskedFor(args, n) ==
  [name_filter |-> LastValue(args, "filter", "", n),
   include_tags |-> Values(args, "tag", n), exclude_tags |-> Values(args, "exclude", n),
   default_timeout |-> Milliseconds(LastValue(args, "timeout", "--timeout", n)),
   list_only |-> Switched(args, "list", n), color |-> ~Switched(args, "no_color", n),
   format |-> Kinds[LastValue(args, "reporter", "console", n)],
   junit_suite |-> LastValue(args, "suite", "edtf", n),
   output_path |-> LastValue(args, "output", "", n)]

Problem(args, p) ==
  /\ Option(args)[p]
  /\ \/ args[p] \in Help \cup Words
     \/ args[p] \in Spellings(Valued) /\ p = Len(args)
     \/ args[p] \in Valued.reporter /\ p < Len(args) /\ args[p + 1] \notin DOMAIN Kinds

Problems(args) == {p \in DOMAIN args : Problem(args, p)}

(* The exit code and the stream that tell of a problem. *)
Told(p) ==
  /\ exit_code = IF argv[p] \in Help THEN 0 ELSE 2
  /\ printed # {}
  /\ \A m \in printed : m[1] = IF argv[p] \in Help THEN "out" ELSE "err"

(* What runs is what the user asked for: the last value given for an       *)
(* option that holds one, every value for a repeatable one, the default    *)
(* for one not given; a value spelled like an option is not taken for one, *)
(* nor an option for a value (runner.cpp:243-318).                         *)
TheRunIsTheOneAskedFor == ran => opts = AskedFor(argv, Len(argv) + 1)

(* The first thing wrong with the command line decides: help and only help *)
(* ends well, with the usage on out; anything else ends with 2 and a       *)
(* diagnostic on err; no test runs then, and one runs always otherwise,    *)
(* so that 1 means failed tests (or a report that cannot be written) and 0 *)
(* passed ones or help (runner.cpp:251-316, 321-331).                      *)
ExitCodeTellsWhy ==
  at = "ended" =>
    IF Problems(argv) = {} THEN ran /\ exit_code \in {0, 1} /\ printed = {}
    ELSE ~ran /\ Told(CHOOSE p \in Problems(argv) : \A q \in Problems(argv) : p <= q)

(* Each turn of the loop begins at an option, with nothing wrong behind it *)
(* and RunOptions as asked for so far; it is left at the first problem or  *)
(* at the end of argv (runner.cpp:251-318).  Both properties follow.       *)
LoopInv ==
  /\ i \in 1 .. Len(argv) + 1
  /\ i \in DOMAIN argv => Option(argv)[i]
  /\ \A p \in 1 .. i - 1 : ~Problem(argv, p)
  /\ opts = AskedFor(argv, i)
  /\ IF should_exit THEN at # "parsing" /\ ~ran /\ i \in Problems(argv) /\ Told(i)
     ELSE /\ printed = {}
          /\ at # "parsing" => i = Len(argv) + 1
          /\ ran <=> at = "ended"
          /\ ran => exit_code \in {0, 1}
================================================================================
