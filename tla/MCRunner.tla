-------------------------------- MODULE MCRunner --------------------------------
(* Small instances of Runner for TLC. *)
EXTENDS Runner

CONSTANTS hung, quick, Slow

(* hung has a deadline of its own, quick takes the default one, or none.   *)
MCCases == <<hung, quick>>
MCTimeout == [t \in TestCases |-> IF t = hung THEN 50 ELSE 0]
MCTags == [t \in TestCases |-> IF t = hung THEN {Slow} ELSE {}]

Opt(format) ==
  [matching |-> TestCases, include_tags |-> {}, exclude_tags |-> {},
   default_timeout |-> 0, list_only |-> FALSE, to_file |-> FALSE, format |-> format]

(* One run in each format, with a default deadline or a negative one       *)
(* (which is none), filters that keep and drop cases, a listing, a report  *)
(* that goes to a file.                                                    *)
MCOptions ==
  {[Opt("Console") EXCEPT !.default_timeout = 250],
   [Opt("Tap") EXCEPT !.default_timeout = -1],
   [Opt("Junit") EXCEPT !.default_timeout = 250]}
    \cup {[Opt("Tap") EXCEPT !.exclude_tags = {Slow}],
          [Opt("Junit") EXCEPT !.include_tags = {Slow}, !.to_file = TRUE],
          [Opt("Tap") EXCEPT !.matching = {quick}],
          [Opt("Console") EXCEPT !.list_only = TRUE]}

(* Two runs of one Runner, of one test or of two, or two listings.  The    *)
(* negative timeout of quick keeps the default one from it.                *)
MCRepeatTimeout == [t \in TestCases |-> IF t = hung THEN 50 ELSE -1]
MCRepeatOptions ==
  {[Opt("Console") EXCEPT !.matching = {hung}, !.to_file = TRUE],
   [Opt("Tap") EXCEPT !.default_timeout = 250],
   [Opt("Junit") EXCEPT !.list_only = TRUE]}

(* hung times out and never ends; quick has no deadline, or times out and  *)
(* ends later.                                                             *)
MCLiveOptions == {[Opt("Tap") EXCEPT !.default_timeout = d] : d \in {0, 250}}

MCPlainOptions == {Opt("Tap")}
================================================================================
