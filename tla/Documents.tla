------------------------------ MODULE Documents ------------------------------
(***************************************************************************)
(* The files of a workspace: frontmatter, edited key by key in place, and  *)
(* a body.  An issue, a comment and a release are views of the known keys; *)
(* what is not known, and remarks, stay as they are.                       *)
(*                                                                         *)
(* A line of the frontmatter is a key with its value, a list item or a     *)
(* nested entry below a key, a remark, or loose (a blank line, a remark in *)
(* the first column).  How a value is written is in Scalars; the body      *)
(* takes no part.                                                          *)
(*                                                                         *)
(* Code: dit-parse/src/frontmatter.rs, issue.rs, comment.rs, release.rs.   *)
(***************************************************************************)
EXTENDS Naturals, Sequences, FiniteSets, SequencesExt

CONSTANTS
    Key           \* keys: "title", "lane", "labels", "updated" and one of nobody

Empty == [shape |-> "empty"]
Scalar(text) == [shape |-> "scalar", text |-> text]
List(items) == [shape |-> "seq", items |-> items]
Nested == [shape |-> "map"]
Absent == [shape |-> "absent"]

KeyLine(key, value, noted) == [is |-> "key", key |-> key, value |-> value, noted |-> noted]
ItemLine(text) == [is |-> "item", text |-> text]
NestedLine == [is |-> "nested"]
RemarkLine == [is |-> "remark"]
LooseLine  == [is |-> "loose"]

-----------------------------------------------------------------------------
(* Entries: a key with the lines below it, or a loose line.                *)
IsPair(entry) == Head(entry).is = "key"
Unreadable == <<"unreadable">>

(* One line after another; only an empty value is continued.               *)
parse_entries(lines) ==
    LET Open(entries) == /\ entries # <<>> /\ IsPair(Last(entries))
                         /\ Head(Last(entries)).value = Empty
        Take(entries, line) ==
            IF entries = Unreadable THEN Unreadable
            ELSE IF line.is \in {"item", "nested", "remark"} /\ Open(entries)
            THEN Append(Front(entries), Append(Last(entries), line))
            ELSE IF line.is \in {"item", "nested"} THEN Unreadable
            ELSE Append(entries, <<line>>)
    IN  FoldLeft(Take, <<>>, lines)
serialize(entries) == FlattenSeq(entries)

Pairs(entries) == {i \in DOMAIN entries : IsPair(entries[i])}
Of(entries, key) == {i \in Pairs(entries) : Head(entries[i]).key = key}

(* The first entry of a key speaks.  Below an empty value that a list item *)
(* follows, every line is an item.                                         *)
get(entries, key) ==
    IF Of(entries, key) = {} THEN Absent
    ELSE LET entry == entries[Min(Of(entries, key))]
             below == Tail(entry)
         IN  IF Head(entry).value # Empty THEN Head(entry).value
             ELSE IF below = <<>> THEN Empty
             ELSE IF Head(below).is = "item"
             THEN List([i \in DOMAIN below |->
                           IF below[i].is = "item" THEN below[i].text ELSE below[i].is])
             ELSE Nested

(* The line of a key is replaced, with what is below it, and keeps its     *)
(* note; a new key follows the last one.                                   *)
set_raw_KeepsBelow(entries, key, value) ==
    LET own == Of(entries, key) IN
    IF own # {}
    THEN [entries EXCEPT ![Min(own)] = <<KeyLine(key, value, Head(@).noted)>> \o Tail(@)]
    ELSE InsertAt(entries, (IF Pairs(entries) = {} THEN 0 ELSE Max(Pairs(entries))) + 1,
                  <<KeyLine(key, value, FALSE)>>)
set_raw(entries, key, value) ==
    LET own == Of(entries, key) IN
    IF own # {}
    THEN [entries EXCEPT ![Min(own)] = <<KeyLine(key, value, Head(@).noted)>>]
    ELSE InsertAt(entries, (IF Pairs(entries) = {} THEN 0 ELSE Max(Pairs(entries))) + 1,
                  <<KeyLine(key, value, FALSE)>>)
remove(entries, key) ==
    SelectSeq(entries, LAMBDA e : ~(IsPair(e) /\ Head(e).key = key))

-----------------------------------------------------------------------------
(* The views.  A list where one value belongs is an error; one value where *)
(* a list belongs is no list in an issue, an error in a release.           *)
One(entries, key) ==
    LET value == get(entries, key) IN
    IF value.shape \in {"absent", "empty"} THEN {"none"}
    ELSE IF value.shape = "scalar" THEN {value.text} ELSE {}
Many(entries, key, strict) ==
    LET value == get(entries, key) IN
    IF value.shape = "seq" THEN {value.items}
    ELSE IF strict /\ value.shape \in {"scalar", "map"} THEN {} ELSE {<<>>}

Issue   == [required |-> {"title", "updated"}, single |-> {"lane"}, lists |-> {"labels"},
            strict |-> FALSE]
Comment == [required |-> {"title", "updated"}, single |-> {"lane"}, lists |-> {},
            strict |-> FALSE]
Release == [required |-> {"title"}, single |-> {"lane"}, lists |-> {"labels"},
            strict |-> TRUE]

(* What a file says, as a set: empty when it cannot be read.               *)
from_document(kind, entries) ==
    IF \/ \E k \in kind.required : One(entries, k) \in {{}, {"none"}}
       \/ \E k \in kind.single : One(entries, k) = {}
       \/ \E k \in kind.lists : Many(entries, k, kind.strict) = {}
    THEN {}
    ELSE {[k \in kind.required \union kind.single \union kind.lists |->
              IF k \in kind.lists THEN CHOOSE v \in Many(entries, k, kind.strict) : TRUE
              ELSE CHOOSE v \in One(entries, k) : TRUE]}

(* A patch gives values to keys and clears others, each key one of these;  *)
(* an issue that is touched gets the time.                                 *)
Refused(patch) == patch.clear \cap DOMAIN patch.set # {}
Patched(entries, patch) ==
    LET given == FoldLeft(LAMBDA doc, k : set_raw(doc, k, patch.set[k]),
                          entries, SetToSeq(DOMAIN patch.set))
    IN  FoldLeft(LAMBDA doc, k : remove(doc, k), given, SetToSeq(patch.clear))
apply_patch(entries, patch, now) ==
    IF DOMAIN patch.set \union patch.clear = {} THEN entries
    ELSE set_raw(Patched(entries, patch), "updated", now)
apply_release_patch(entries, patch) == Patched(entries, patch)

(* A new file: the keys it has, in order, from an empty first one.         *)
New(first, values) ==
    FoldLeft(LAMBDA doc, pair : set_raw(doc, pair[1], pair[2]),
             <<<<KeyLine(first, Empty, FALSE)>>>>, values)
serialize_new_issue(values)   == New("id", values)
serialize_new_release(values) == New("version", values)
serialize_comment(values)     == New("id", values)

-----------------------------------------------------------------------------
(* The lines that are not an entry of one of these keys.                   *)
Rest(entries, keys) ==
    FlattenSeq(SelectSeq(entries, LAMBDA e : ~(IsPair(e) /\ Head(e).key \in keys)))
Shown(value) == IF value.shape = "scalar" THEN value.text ELSE value.items

(* An edit of any file, also one with keys twice, blocks and remarks: what *)
(* it gives is read back, what it clears is gone, every other key reads as *)
(* before and every line of theirs is where it was, a note behind a value  *)
(* stays, and the file that is written is parsed as what was meant.        *)
EditKeepsTheRest(kind, entries, patch, now) ==
    LET after   == IF kind = Issue THEN apply_patch(entries, patch, now)
                   ELSE apply_release_patch(entries, patch)
        stamp   == IF after # entries /\ kind = Issue THEN {"updated"} ELSE {}
        touched == DOMAIN patch.set \union patch.clear \union stamp
    IN  /\ parse_entries(serialize(after)) = after
        /\ Rest(after, touched) = Rest(entries, touched)
        /\ \A k \in DOMAIN patch.set : get(after, k) = patch.set[k]
        /\ \A k \in patch.clear : get(after, k) = Absent
        /\ \A k \in Key \ touched : get(after, k) = get(entries, k)
        /\ \A k \in DOMAIN patch.set :
              Of(entries, k) # {} =>
                  Head(after[Min(Of(after, k))]).noted = Head(entries[Min(Of(entries, k))]).noted
        /\ from_document(kind, entries) # {} => from_document(kind, after) # {}
EditsAreSurgical(kind, lines, patch, now) ==
    LET entries == parse_entries(lines) IN
    entries # Unreadable /\ ~Refused(patch) =>
        /\ serialize(entries) = lines
        /\ EditKeepsTheRest(kind, entries, patch, now)

(* A file that was just written, from any keys at most once and all it     *)
(* must have, is read as it was meant.                                     *)
NewIsRead(kind, lines) ==
    LET keys == [i \in DOMAIN lines |-> lines[i].key]
        values == [i \in DOMAIN lines |-> <<lines[i].key, lines[i].value>>]
        doc  == IF kind = Issue THEN serialize_new_issue(values)
                ELSE IF kind = Release THEN serialize_new_release(values)
                ELSE serialize_comment(values)
    IN  (/\ \A i \in DOMAIN lines : lines[i].is = "key" /\ lines[i].value # Empty
         /\ IsInjective(keys) /\ kind.required \subseteq Range(keys))
        => /\ parse_entries(serialize(doc)) = doc
           /\ from_document(kind, doc) =
                 {[k \in kind.required \union kind.single \union kind.lists |->
                     IF k \in Range(keys)
                     THEN Shown(lines[CHOOSE i \in DOMAIN lines : keys[i] = k].value)
                     ELSE IF k \in kind.lists THEN <<>> ELSE "none"]}
=============================================================================
