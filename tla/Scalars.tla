------------------------------- MODULE Scalars -------------------------------
(***************************************************************************)
(* How a value is written behind its key in the frontmatter of a file, and *)
(* how it is read back: bare or quoted, alone or in a list.  A text is a   *)
(* sequence of characters; "x" stands for every letter.  What no          *)
(* character decides (booleans, numbers, other indicators) is left out.    *)
(*                                                                         *)
(* Code: dit-parse/src/frontmatter.rs, quote.rs.                           *)
(***************************************************************************)
EXTENDS Naturals, Sequences, SequencesExt

Trim(text) ==
    LET held == {i \in DOMAIN text : text[i] # " "}
    IN  IF held = {} THEN <<>> ELSE SubSeq(text, Min(held), Max(held))
TrimEnd(text) ==
    LET held == {i \in DOMAIN text : text[i] # " "}
    IN  IF held = {} THEN <<>> ELSE SubSeq(text, 1, Max(held))

(* A text holds one character right before another.                        *)
Has(text, a, b) == \E i \in 1..Len(text) - 1 : text[i] = a /\ text[i + 1] = b

-----------------------------------------------------------------------------
(* Where a character sits relative to quotes, from left to right: a quote  *)
(* opens one only where a value begins.                                    *)
Outside == [quote |-> "none", escaped |-> FALSE, start |-> TRUE]

(* A quote opens wherever it stands.                                       *)
QuoteScan_Anywhere(q, ch, next) ==
    IF q.quote # "none" THEN [q EXCEPT !.quote = IF ch = q.quote THEN "none" ELSE @]
    ELSE [q EXCEPT !.quote = IF ch \in {"'", "\""} THEN ch ELSE "none"]

QuoteScan(q, ch, next) ==
    CASE q.quote = "\"" ->
            IF q.escaped THEN [q EXCEPT !.escaped = FALSE]
            ELSE [q EXCEPT !.escaped = (ch = "\\"), !.quote = IF ch = "\"" THEN "none" ELSE @]
      [] q.quote = "'" ->
            IF q.escaped THEN [q EXCEPT !.escaped = FALSE]
            ELSE IF ch = "'" /\ next = "'" THEN [q EXCEPT !.escaped = TRUE]
            ELSE [q EXCEPT !.quote = IF ch = "'" THEN "none" ELSE @]
      [] q.start /\ ch \in {"'", "\""} -> [q EXCEPT !.quote = ch, !.start = FALSE]
      [] OTHER ->
            [q EXCEPT !.start = IF ch \in {"[", ","} \/ (ch = ":" /\ next = " ") THEN TRUE
                                ELSE IF ch = "-" /\ q.start /\ next = " " THEN @
                                ELSE @ /\ ch = " "]

Next(text, i) == IF i < Len(text) THEN text[i + 1] ELSE " "
Scanned(text) ==
    LET at[i \in 0..Len(text)] ==
            IF i = 0 THEN Outside ELSE QuoteScan(at[i - 1], text[i], Next(text, i))
    IN  at
(* The characters outside every quoted value.                              *)
Structural(text) ==
    LET at == Scanned(text)
    IN  {i \in DOMAIN text : /\ at[i - 1].quote = "none"
                             /\ ~(at[i - 1].start /\ text[i] \in {"'", "\""})}

(* A value without the comment behind it.                                  *)
WithoutComment(value) ==
    LET marks == {i \in Structural(value) :
                      value[i] = "#" /\ (i = 1 \/ value[i - 1] = " ")}
    IN  IF marks = {} THEN value ELSE TrimEnd(SubSeq(value, 1, Min(marks) - 1))

-----------------------------------------------------------------------------
(* A quote or a bracket that does not close makes the file unreadable.     *)
validate_value(value) ==
    LET v == WithoutComment(value)
        outside == Structural(v)
        Count(ch) == Len(SelectSeq([i \in DOMAIN v |-> IF i \in outside THEN v[i] ELSE "x"],
                                   LAMBDA c : c = ch))
    IN  /\ Scanned(v)[Len(v)].quote = "none"
        /\ Count("[") = Count("]")

unquote(text) ==
    IF Len(text) >= 2 /\ Head(text) \in {"'", "\""} /\ Last(text) = Head(text)
    THEN SubSeq(text, 2, Len(text) - 1) ELSE text

(* The items of a list stand between the commas outside quotes.            *)
parse_flow_seq(text) ==
    LET inner == IF Head(text) = "[" /\ Last(text) = "]"
                 THEN SubSeq(text, 2, Len(text) - 1) ELSE text
        cuts  == SetToSortSeq({i \in Structural(inner) : inner[i] = ","}, <)
        ends  == <<0>> \o cuts \o <<Len(inner) + 1>>
        cells == [k \in 1..Len(ends) - 1 |-> Trim(SubSeq(inner, ends[k] + 1, ends[k + 1] - 1))]
        last  == Last(cells)
        kept  == IF last = <<>> THEN Front(cells) ELSE cells
    IN  [k \in DOMAIN kept |-> unquote(kept[k])]

(* A value as it is read: none, one text, or a list.                       *)
parse_value(value) ==
    LET bare == Trim(WithoutComment(value))
    IN  IF bare = <<>> THEN [shape |-> "empty"]
        ELSE IF Head(bare) = "[" THEN [shape |-> "seq", items |-> parse_flow_seq(bare)]
        ELSE [shape |-> "scalar", text |-> unquote(bare)]

(* A line is split at its key and trimmed, checked, and read.              *)
Read(value) ==
    IF validate_value(Trim(value)) THEN parse_value(Trim(value)) ELSE [shape |-> "unreadable"]

-----------------------------------------------------------------------------
(* Bare whenever that is safe, otherwise in double quotes with escapes.    *)
Safe(text) ==
    /\ text # <<>>
    /\ Head(text) \notin {" ", "-", ":", ",", "[", "]", "#", "'", "\""}
    /\ Last(text) \notin {" ", ":"}
    /\ ~Has(text, ":", " ") /\ ~Has(text, " ", "#")
Escaped(text) ==
    FlattenSeq([i \in DOMAIN text |->
                   IF text[i] \in {"\"", "\\"} THEN <<"\\", text[i]>> ELSE <<text[i]>>])
serialize_scalar(text) ==
    IF Safe(text) THEN text ELSE <<"\"">> \o Escaped(text) \o <<"\"">>

serialize_seq(items) ==
    LET written == [i \in DOMAIN items |->
                       (IF i > 1 THEN <<",", " ">> ELSE <<>>) \o serialize_scalar(items[i])]
    IN  <<"[">> \o FlattenSeq(written) \o <<"]">>

-----------------------------------------------------------------------------
(* A text that is written is read back as it was, alone, with a comment    *)
(* behind it, and as an item of a list.                                    *)
ScalarIsRead(text) ==
    \A behind \in {<<>>, <<" ", "#", "x">>} :
        Read(serialize_scalar(text) \o behind) = [shape |-> "scalar", text |-> text]
ListIsRead(items) == Read(serialize_seq(items)) = [shape |-> "seq", items |-> items]
=============================================================================
