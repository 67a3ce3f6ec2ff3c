----------------------------------- MODULE Text -----------------------------------
(***************************************************************************)
(* The framework's text algorithms: parse_tags (src/src/registry.cpp),     *)
(* indent and xml_escape (src/src/reporter.cpp).  A std::string is a       *)
(* sequence of characters, a character a string of length 1.               *)
(***************************************************************************)
EXTENDS Naturals, Sequences, SequencesExt

Separators == {",", " ", "\t"}

(* The lambda flush: the current entry, unless it is empty, is a tag. *)
Flush(s) == IF s.cur = <<>> THEN s ELSE [out |-> s.out \cup {s.cur}, cur |-> <<>>]

Scan(s, c) == IF c \in Separators THEN Flush(s) ELSE [s EXCEPT !.cur = Append(@, c)]

(* Broken: the last entry is not flushed. *)
ParseTagsUnflushed(spec) == FoldLeft(Scan, [out |-> {}, cur |-> <<>>], spec).out

parse_tags(spec) == Flush(FoldLeft(Scan, [out |-> {}, cur |-> <<>>], spec)).out

(* What getline reads one after the other: a newline at the end of the     *)
(* text begins no line.                                                    *)
ReadChar(s, c) == IF c = "\n" THEN [lines |-> Append(s.lines, s.cur), cur |-> <<>>]
                              ELSE [s EXCEPT !.cur = Append(@, c)]

Lines(text) ==
  LET read == FoldLeft(ReadChar, [lines |-> <<>>, cur |-> <<>>], text)
  IN  IF read.cur = <<>> THEN read.lines ELSE Append(read.lines, read.cur)

(* Broken: empty lines are not indented. *)
IndentText(text, prefix) ==
  LET lines == Lines(text) IN
  FlattenSeq([i \in DOMAIN lines |->
                (IF i = 1 THEN <<>> ELSE <<"\n">>)
                  \o (IF lines[i] = <<>> THEN <<>> ELSE prefix) \o lines[i]])

indent(text, prefix) ==
  LET lines == Lines(text) IN
  FlattenSeq([i \in DOMAIN lines |->
                (IF i = 1 THEN <<>> ELSE <<"\n">>) \o prefix \o lines[i]])

Entity(c) ==
  CASE c = "&"  -> <<"&", "a", "m", "p", ";">>
    [] c = "<"  -> <<"&", "l", "t", ";">>
    [] c = ">"  -> <<"&", "g", "t", ";">>
    [] c = "\"" -> <<"&", "q", "u", "o", "t", ";">>
    [] c = "'"  -> <<"&", "a", "p", "o", "s", ";">>

Markup == {"&", "<", ">", "\"", "'"}

(* Broken: an ampersand is copied. *)
EscapeMarkup(s) ==
  FlattenSeq([i \in DOMAIN s |-> IF s[i] \in Markup \ {"&"} THEN Entity(s[i]) ELSE <<s[i]>>])

xml_escape(s) ==
  FlattenSeq([i \in DOMAIN s |-> IF s[i] \in Markup THEN Entity(s[i]) ELSE <<s[i]>>])
================================================================================
