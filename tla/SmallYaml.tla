------------------------------ MODULE SmallYaml ------------------------------
(***************************************************************************)
(* The small YAML that config files and fences are written in, and its     *)
(* reader: lines of a block, by their indentation, to a tree of maps,      *)
(* sequences and texts.  A text is the sequence of its lines, a line its   *)
(* spaces and its word.  What stands behind a key on its own line (a       *)
(* scalar, [..] or {..}) is given as the tree it is.                       *)
(*                                                                         *)
(* Code: dit-parse/src/yaml.rs.                                            *)
(***************************************************************************)
EXTENDS Naturals, SequencesExt

NoText  == <<>>                 \* no text
T(word) == <<<<0, word>>>>      \* a text of one line

Null          == [is |-> "null"]
Str(text)     == [is |-> "text", text |-> text]
ListOf(items) == [is |-> "seq", items |-> items]
MapOf(pairs)  == [is |-> "map", pairs |-> pairs]
Pair(k, node) == [key |-> k, node |-> node]

Has(node, k) == node.is = "map" /\ \E i \in DOMAIN node.pairs : node.pairs[i].key = k
Get(node, k) ==
    IF Has(node, k) THEN node.pairs[SelectInSeq(node.pairs, LAMBDA p : p.key = k)].node ELSE Null
as_str(node) == IF node.is = "text" THEN node.text ELSE NoText

-----------------------------------------------------------------------------
(* Lines: `key: value', `- value', `- key: value', a word, a remark.       *)
Absent == [is |-> "absent"]     \* nothing behind the colon, or the dash
Bar    == [is |-> "bar"]        \* `|': the lines below are a text
NoKey  == "(none)"
KeyLine(indent, k, v)  == [indent |-> indent, dash |-> FALSE, key |-> k, value |-> v]
DashLine(indent, k, v) == [indent |-> indent, dash |-> TRUE, key |-> k, value |-> v]
WordLine(indent, word) == KeyLine(indent, NoKey, Str(T(word)))
BlankLine == WordLine(0, "")
WordOf(line) == IF line.key = NoKey /\ line.value.is = "text" THEN line.value.text[1][2] ELSE line.key
IsRemark(line) == WordOf(line) = "# remark"

(* The lines deeper than their key, without the spaces of the first.       *)
Deeper(line, indent) == line = BlankLine \/ line.indent > indent
TextEnd(lines, i) ==
    LET ends == {j \in i + 1..Len(lines) : ~Deeper(lines[j], lines[i].indent)}
    IN  IF ends = {} THEN Len(lines) + 1 ELSE Min(ends)
gather_block(lines, i) ==
    LET held  == {j \in i + 1..TextEnd(lines, i) - 1 : lines[j] # BlankLine}
        strip == lines[Min(held)].indent
        Cut(line) == IF line = BlankLine THEN <<0, "">>
                     ELSE IF line.indent >= strip THEN <<line.indent - strip, WordOf(line)>>
                     ELSE <<0, "(cut)">>
        body == SubSeq(lines, i + 1, Max(held))
    IN  IF held = {} THEN T("") ELSE [j \in DOMAIN body |-> Cut(body[j])]

RECURSIVE Content(_, _)
Content(lines, i) ==
    IF i > Len(lines) THEN <<>>
    ELSE IF lines[i] = BlankLine \/ IsRemark(lines[i]) THEN Content(lines, i + 1)
    ELSE IF lines[i].value = Bar
    THEN <<[lines[i] EXCEPT !.value = Str(gather_block(lines, i))]>> \o Content(lines, TextEnd(lines, i))
    ELSE <<lines[i]>> \o Content(lines, i + 1)

-----------------------------------------------------------------------------
(* A tree, and the line that is next; or nothing that can be read.         *)
Read(node, next) == [ok |-> TRUE, node |-> node, next |-> next]
Unreadable       == [ok |-> FALSE]

In(lines, i, indent)    == i <= Len(lines) /\ lines[i].indent >= indent
Below(lines, i, indent) == In(lines, i, indent + 1)
Listed(lines, i, indent) == In(lines, i, indent) /\ lines[i].dash

RECURSIVE parse_map(_, _, _, _), parse_seq(_, _, _, _), parse_item(_, _, _, _)

(* On to the next entry, or to the next item, when this one could be read. *)
NextEntry(Parse(_, _, _, _), lines, child, indent, pairs, k) ==
    IF child.ok THEN Parse(lines, child.next, indent, Append(pairs, Pair(k, child.node))) ELSE Unreadable
NextItem(lines, item, indent, items) ==
    IF item.ok THEN parse_seq(lines, item.next, indent, Append(items, item.node)) ELSE Unreadable

parse_block(lines, i) ==
    IF lines[i].dash THEN parse_seq(lines, i, lines[i].indent, <<>>)
    ELSE parse_map(lines, i, lines[i].indent, <<>>)

(* A list may stand under its key without being deeper.                    *)
parse_child(lines, i, indent) ==
    IF Below(lines, i, indent) THEN parse_block(lines, i)
    ELSE IF Listed(lines, i, indent) THEN parse_seq(lines, i, indent, <<>>)
    ELSE Read(Null, i)
parse_value(lines, i) ==
    IF lines[i].value = Absent THEN parse_child(lines, i + 1, lines[i].indent)
    ELSE Read(lines[i].value, i + 1)

parse_map(lines, i, indent, pairs) ==
    IF ~In(lines, i, indent) THEN Read(MapOf(pairs), i)
    ELSE IF lines[i].indent > indent THEN Unreadable
    ELSE IF lines[i].dash THEN Read(MapOf(pairs), i)
    ELSE IF lines[i].key = NoKey THEN Unreadable
    ELSE NextEntry(parse_map, lines, parse_value(lines, i), indent, pairs, lines[i].key)

(* The entries of a map that begins on a dash line.                        *)
parse_item(lines, i, indent, pairs) ==
    IF ~In(lines, i, indent) THEN Read(MapOf(pairs), i)
    ELSE IF lines[i].dash \/ lines[i].key = NoKey THEN Unreadable
    ELSE NextEntry(parse_item, lines, parse_value(lines, i), indent, pairs, lines[i].key)

parse_seq(lines, i, indent, items) ==
    LET line == lines[i]
        item == IF line.key # NoKey
                THEN IF line.value = Absent THEN Unreadable
                     ELSE parse_item(lines, i + 1, indent + 2, <<Pair(line.key, line.value)>>)
                ELSE IF line.value # Absent THEN Read(line.value, i + 1)
                ELSE IF Below(lines, i + 1, indent) THEN parse_block(lines, i + 1)
                ELSE Read(Null, i + 1)
    IN  IF ~Listed(lines, i, indent) THEN Read(ListOf(items), i)
        ELSE IF line.indent > indent THEN Unreadable
        ELSE NextItem(lines, item, indent, items)

(* What stands behind the first block is not read.                         *)
ReadFrom(lines) == IF lines = <<>> THEN Read(Null, 1) ELSE parse_block(lines, 1)
parse(text)     == ReadFrom(Content(text, 1))

-----------------------------------------------------------------------------
RECURSIVE Entries(_)
Entries(node) ==
    LET Sum(nodes) == FoldLeft(LAMBDA n, each : n + Entries(each), 0, nodes) IN
    CASE node.is = "map" -> Len(node.pairs) + Sum([i \in DOMAIN node.pairs |-> node.pairs[i].node])
      [] node.is = "seq" -> Sum(node.items)
      [] OTHER -> 0

(* The reader takes no line for another and drops none: every key of what  *)
(* was read is an entry of the tree, and reading only stops before the end *)
(* at a line that is left of the first, at an item that stands below       *)
(* entries, or at what is no item below a list.                            *)
IsWhole(lines, read) ==
    LET passed == SubSeq(lines, 1, read.next - 1)
        rest   == SubSeq(lines, read.next, Len(lines))
        Keys(ls) == Len(SelectSeq(ls, LAMBDA line : line.key # NoKey))
        InLine(line) == IF line.value \in {Absent, Bar} THEN 0 ELSE Entries(line.value)
        Entered(ls) == FoldLeft(LAMBDA n, line : n + InLine(line), 0, ls)
    IN  lines # <<>> /\ read.ok =>
           /\ Entries(read.node) = Keys(passed) + Entered(passed)
           /\ rest # <<>> => \/ Head(rest).indent < lines[1].indent
                             \/ Head(rest).dash # lines[1].dash
                                  /\ (Head(rest).dash => Head(rest).indent = lines[1].indent)
NothingIsDropped(text) == IsWhole(Content(text, 1), parse(text))
=============================================================================
