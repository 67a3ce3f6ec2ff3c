--------------------------------- MODULE MCStartup ---------------------------------
(* The program up to its first test, for TLC: static initialisation, then  *)
(* main's command line.  Of the three inputs, what the translation units   *)
(* declare, what the user types, and a text that one of them holds, one    *)
(* varies and the others are empty.                                        *)
EXTENDS Registration, Arguments

CONSTANTS
  MaxTags, MaxLines, MaxMarkup   \* bounds: lengths of the texts tried

VARIABLE text

vars == <<registryVars, argVars, text>>

(* Two report formats and a number besides the options themselves. *)
MCAtoll == [w \in Words |-> IF w = "50" THEN 50 ELSE 0]

(* Call sites that give no option, one, both, or the same one twice; a     *)
(* negative timeout is one that means no deadline.                         *)
Tags(spec) == [call |-> "tags", arg |-> spec]
Timeout(ms) == [call |-> "timeout_ms_", arg |-> ms]

MCChains ==
  {<<>>, <<Tags(<<"a", ",", "b">>)>>, <<Timeout(50), Timeout(-1)>>,
   <<Tags(<<"s">>), Timeout(20)>>, <<Tags(<<"a">>), Tags(<<",">>)>>}

Texts ==
  SeqOf({",", " ", "\t", "a", "b"}, MaxTags)
    \cup SeqOf({"\n", " ", ".", "x"}, MaxLines)
    \cup SeqOf({"&", "<", "l", "t", ";", "\""}, MaxMarkup)

Nothing == [u \in Units |-> <<>>]

Init ==
  /\ \/ declared \in Sources /\ argv = <<>> /\ text = <<>>
     \/ declared = Nothing /\ argv \in CommandLines /\ text = <<>>
     \/ declared = Nothing /\ argv = <<>> /\ text \in Texts
  /\ RegistryInit /\ ArgumentsInit

(* main is called when every unit is initialised. *)
Next ==
  \/ RegistryNext /\ UNCHANGED <<argVars, text>>
  \/ AtMain /\ ArgumentsNext /\ UNCHANGED <<registryVars, text>>

Spec == Init /\ [][Next]_vars

(* The tags of a specification are its maximal runs of characters that are *)
(* no separators: none is empty, cut or joined to the next, the last one   *)
(* included (registry.cpp:23-41).                                          *)
Run(n, j) == n <= j /\ \A k \in n .. j : text[k] \notin Separators

TagsAreMaximalRuns ==
  parse_tags(text) =
    {SubSeq(text, ij[1], ij[2]) : ij \in
       {ij \in (DOMAIN text) \X (DOMAIN text) :
          /\ Run(ij[1], ij[2])
          /\ ij[1] = 1 \/ text[ij[1] - 1] \in Separators
          /\ ij[2] = Len(text) \/ text[ij[2] + 1] \in Separators}}

(* Whatever a failure's message holds, each of its lines comes out behind  *)
(* the prefix, so that none can be read as a TAP point, as the end of the  *)
(* diagnostic or as the next result, and no line is lost                   *)
(* (reporter.cpp:34-46, 92-94, 131-137).                                   *)
prefix == <<" ", " ", " ", " ">>

LinesStayIndented ==
  LET lines == Lines(text)
      indented == Lines(indent(text, prefix))
  IN  /\ Len(indented) = Len(lines)
      /\ \A n \in DOMAIN lines : indented[n] = prefix \o lines[n]

(* An XML parser reads one character after the other; a reference begins   *)
(* with an ampersand and ends with a semicolon.                            *)
Referred(ref) == IF \E c \in Markup : Entity(c) = ref THEN CHOOSE c \in Markup : Entity(c) = ref
                 ELSE ""

ReadMarkup(s, c) ==
  CASE s.ref = <<>> /\ c # "&" -> [s EXCEPT !.out = Append(@, c)]
    [] s.ref # <<>> /\ c = ";" -> [out |-> Append(s.out, Referred(Append(s.ref, c))), ref |-> <<>>]
    [] OTHER -> [s EXCEPT !.ref = Append(@, c)]

Unescape(s) == FoldLeft(ReadMarkup, [out |-> <<>>, ref |-> <<>>], s)

(* It reads back the text that was escaped, with every reference complete, *)
(* and finds no markup in it: an entity typed by the user is not one in    *)
(* the report (reporter.cpp:49-63).                                        *)
EscapeIsReversible ==
  /\ Unescape(xml_escape(text)) = [out |-> text, ref |-> <<>>]
  /\ \A n \in DOMAIN xml_escape(text) : xml_escape(text)[n] \notin Markup \ {"&"}
================================================================================
