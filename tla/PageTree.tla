------------------------------ MODULE PageTree ------------------------------
(***************************************************************************)
(* The bridge between a page in markdown and the document an editor holds. *)
(*                                                                         *)
(* A page is a tree of nodes [is, data, kids], as comrak parses one and as *)
(* `dit fmt` prints one: emphasis and links nest.  A document is a tree of *)
(* nodes [type, attrs, content, marks], where a run of text is flat and    *)
(* every piece of it lists the marks around it, the outermost first.       *)
(* Opening a page makes a document of the tree, saving it makes a tree of  *)
(* the document; the printing and the parsing in between are comrak's.  A  *)
(* text is a sequence, for runs of code are put together.  The cap on the  *)
(* number of nodes and the refusal of conflict markers are left out.       *)
(*                                                                         *)
(* Code: dit-parse/src/prosemirror.rs; dit-wasm/src/lib.rs.                *)
(***************************************************************************)
EXTENDS Naturals, Sequences, SequencesExt

CONSTANTS
    MaxDepth,     \* MAX_DEPTH: nesting deeper than this is refused
    BadInfo,      \* languages with a backtick or a line break in them
    BadTarget     \* link targets that are empty or hold a bracket, a pipe
                  \* or a line break

Node(is, data, kids) == [is |-> is, data |-> data, kids |-> kids]
Json(type, attrs, content, marks) ==
    [type |-> type, attrs |-> attrs, content |-> content, marks |-> marks]
Each(seq, Op(_)) == [i \in DOMAIN seq |-> Op(seq[i])]

(* What is nested in the page and a mark in the document.                  *)
MarkName == [emph |-> "italic", strong |-> "bold", strikethrough |-> "strike", link |-> "link"]
Markers  == DOMAIN MarkName
Mark(node) == [type |-> MarkName[node.is], attrs |-> node.data]
Code == [type |-> "code", attrs |-> <<>>]
MarkTypes == {MarkName[is] : is \in Markers}
Nesting(mark) == CHOOSE is \in Markers : MarkName[is] = mark.type

Inner  == {"image", "wikiLink"}           \* with a run of their own
Leaves == {"text", "hardBreak", "htmlInline"} \union Inner

-----------------------------------------------------------------------------
(* Opening: a page made a document.                                        *)

RECURSIVE inlines_to_json(_, _)
inlines_to_json(nodes, marks) ==
    LET Marked(node) == inlines_to_json(node.kids, Append(marks, Mark(node)))
        (* A link over nothing is kept, on an empty text.                  *)
        Out(node) ==
            CASE node.is = "code" -> <<Json("text", node.data, <<>>, Append(marks, Code))>>
              [] node.is = "link" /\ Marked(node) = <<>> ->
                    <<Json("text", <<>>, <<>>, Append(marks, Mark(node)))>>
              [] node.is \in Markers /\ ~(node.is = "link" /\ Marked(node) = <<>>) -> Marked(node)
              [] OTHER -> <<Json(node.is, node.data, inlines_to_json(node.kids, <<>>), marks)>>
    IN  FlattenSeq(Each(nodes, Out))

Unmarked(type, attrs, content) == Json(type, attrs, content, <<>>)

RECURSIVE block_to_json(_)
item_to_json(item) ==
    Unmarked("listItem", item.data, Each(item.kids, LAMBDA b : block_to_json(b)))
row_to_json(row) ==
    Unmarked("tableRow", row.data,
        Each(row.kids, LAMBDA cell :
            Unmarked(IF row.data = "header" THEN "tableHeader" ELSE "tableCell", <<>>,
                     <<Unmarked("paragraph", <<>>, inlines_to_json(cell.kids, <<>>))>>)))
block_to_json(b) ==
    CASE b.is \in {"paragraph", "heading"} ->
            Unmarked(b.is, b.data, inlines_to_json(b.kids, <<>>))
      [] b.is = "blockquote" -> Unmarked(b.is, b.data, Each(b.kids, LAMBDA k : block_to_json(k)))
      [] b.is = "codeBlock" -> Unmarked(b.is, b.data.language,
                                        <<Unmarked("text", b.data.literal, <<>>)>>)
      [] b.is \in {"bulletList", "orderedList"} ->
            Unmarked(b.is, b.data, Each(b.kids, item_to_json))
      [] b.is = "table" -> Unmarked(b.is, b.data, Each(b.kids, row_to_json))
      [] b.is \in {"horizontalRule", "htmlBlock"} -> Unmarked(b.is, b.data, <<>>)

markdown_to_doc(page) == Each(page, block_to_json)

(* The guard on the depth, on the way in.                                  *)
RECURSIVE InlinesOpen(_, _)
InlinesOpen(nodes, depth) ==
    /\ depth <= MaxDepth
    /\ \A i \in DOMAIN nodes :
          nodes[i].is \in Markers \union Inner => InlinesOpen(nodes[i].kids, depth + 1)

RECURSIVE Opens(_, _)
Opens(blocks, depth) ==
    /\ depth <= MaxDepth
    /\ \A i \in DOMAIN blocks :
          LET b == blocks[i]
          IN  CASE b.is \in {"paragraph", "heading"} -> InlinesOpen(b.kids, depth)
                [] b.is = "blockquote" -> Opens(b.kids, depth + 1)
                [] b.is \in {"bulletList", "orderedList"} ->
                      \A k \in DOMAIN b.kids : Opens(b.kids[k].kids, depth + 1)
                [] b.is = "table" ->
                      \A r \in DOMAIN b.kids : \A c \in DOMAIN b.kids[r].kids :
                          InlinesOpen(b.kids[r].kids[c].kids, depth)
                [] OTHER -> TRUE

-----------------------------------------------------------------------------
(* Saving: a document made a page.  Neighbours under the same outermost    *)
(* mark are put under one node, and so on inside it; a run of code is one  *)
(* literal.                                                                *)
Peeled(items) == Each(items, LAMBDA v : [v EXCEPT !.marks = Tail(@)])
Same_Kind(v, mark) == v.marks # <<>> /\ Head(v.marks).type = mark.type
Same(v, mark) == v.marks # <<>> /\ Head(v.marks) = mark
SameRun(items, mark) ==
    LET other == {i \in DOMAIN items : ~Same(items[i], mark)}
    IN  IF other = {} THEN Len(items) ELSE (CHOOSE i \in other : \A j \in other : i <= j) - 1

RECURSIVE build_inline_run(_)
build_inline_leaf(v) == Node(v.type, v.attrs, build_inline_run(v.content))
build_inline_run(items) ==
    IF items = <<>> THEN <<>>
    ELSE IF Head(items).marks = <<>>
    THEN <<build_inline_leaf(Head(items))>> \o build_inline_run(Tail(items))
    ELSE LET mark == Head(Head(items).marks)
             n    == SameRun(items, mark)
             run  == Peeled(SubSeq(items, 1, n))
         IN  <<IF mark = Code THEN Node("code", FlattenSeq(Each(run, LAMBDA v : v.attrs)), <<>>)
               ELSE Node(Nesting(mark), mark.attrs, build_inline_run(run))>>
             \o build_inline_run(SubSeq(items, n + 1, Len(items)))

RECURSIVE build_block(_)
build_item(v) == Node("item", v.attrs, Each(v.content, LAMBDA b : build_block(b)))
build_row(v) ==
    Node("row", v.attrs,
         Each(v.content, LAMBDA cell :
             Node("cell", <<>>, IF cell.content = <<>> THEN <<>>
                                ELSE build_inline_run(Head(cell.content).content))))
build_block(v) ==
    CASE v.type \in {"paragraph", "heading"} -> Node(v.type, v.attrs, build_inline_run(v.content))
      [] v.type = "blockquote" -> Node(v.type, v.attrs, Each(v.content, LAMBDA b : build_block(b)))
      [] v.type = "codeBlock" ->
            Node(v.type, [language |-> v.attrs,
                          literal |-> FlattenSeq(Each(v.content, LAMBDA t : t.attrs))], <<>>)
      [] v.type \in {"bulletList", "orderedList"} ->
            Node(v.type, v.attrs, Each(v.content, build_item))
      [] v.type = "table" -> Node(v.type, v.attrs, Each(v.content, build_row))
      [] v.type \in {"horizontalRule", "htmlBlock"} -> Node(v.type, v.attrs, <<>>)

doc_to_markdown(doc) == Each(doc, build_block)

-----------------------------------------------------------------------------
(* What saving refuses.  In a run: marks and nodes it does not know, code  *)
(* around a mark or around what is no text, a wiki link to nowhere or with *)
(* no label, raw HTML that is empty.                                       *)
RECURSIVE RunStands(_, _)
LeafStands(v, depth) ==
    /\ depth <= MaxDepth
    /\ v.type \in Leaves
    /\ v.type \in Inner => RunStands(v.content, depth + 1)
    /\ v.type = "wikiLink" => v.attrs \notin BadTarget /\ v.content # <<>>
    /\ v.type = "htmlInline" => v.attrs # <<>>
RunStands(items, depth) ==
    /\ depth <= MaxDepth
    /\ \A i \in DOMAIN items :
          LET v == items[i]
              n == Len(v.marks)
          IN  /\ \A k \in 1..n : v.marks[k].type \in MarkTypes \/ (v.marks[k] = Code /\ k = n)
              /\ IF n > 0 /\ v.marks[n] = Code
                 THEN v.type = "text" /\ depth + n - 1 <= MaxDepth
                 ELSE LeafStands(v, depth + n)

(* In a list, an item with no block; in a table, rows that are not as wide *)
(* as the table, a header row that is not the first, a cell with more than *)
(* a paragraph; in a code block, a language the fence cannot carry.        *)
Tasks == {"none", "open", "x", "X"}
Alignments == {"none", "left", "center", "right"}

RECURSIVE BlockStands(_, _)
ItemStands(v, depth) ==
    /\ v.type = "listItem" /\ v.attrs \in Tasks
    /\ v.content # <<>>
    /\ \A i \in DOMAIN v.content : BlockStands(v.content[i], depth + 1)
CellStands(cell, type, depth) ==
    /\ cell.type = type
    /\ Len(cell.content) <= 1
    /\ cell.content # <<>> =>
          Head(cell.content).type = "paragraph" /\ RunStands(Head(cell.content).content, depth + 2)
RowStands(v, first, width, depth) ==
    /\ v.type = "tableRow"
    /\ (v.attrs = "header") = first
    /\ Len(v.content) = width
    /\ \A i \in DOMAIN v.content :
          CellStands(v.content[i], IF first THEN "tableHeader" ELSE "tableCell", depth)
BlockStands(v, depth) ==
    /\ depth <= MaxDepth
    /\ CASE v.type = "paragraph" -> RunStands(v.content, depth + 1)
         [] v.type = "heading" -> v.attrs \in 1..6 /\ RunStands(v.content, depth + 1)
         [] v.type = "blockquote" ->
               \A i \in DOMAIN v.content : BlockStands(v.content[i], depth + 1)
         [] v.type = "horizontalRule" -> TRUE
         [] v.type = "codeBlock" ->
               v.attrs \notin BadInfo /\ \A i \in DOMAIN v.content : v.content[i].type = "text"
         [] v.type = "htmlBlock" -> v.attrs # <<>>
         [] v.type \in {"bulletList", "orderedList"} ->
               v.content # <<>> /\ \A i \in DOMAIN v.content : ItemStands(v.content[i], depth)
         [] v.type = "table" ->
               /\ \A i \in DOMAIN v.attrs : v.attrs[i] \in Alignments
               /\ v.content # <<>>
               /\ \A i \in DOMAIN v.content : RowStands(v.content[i], i = 1, Len(v.attrs), depth)
         [] OTHER -> FALSE

Saves(doc) == \A i \in DOMAIN doc : BlockStands(doc[i], 1)

-----------------------------------------------------------------------------
(* What the bridge promises.                                               *)

(* A run as it is printed: neighbours of the same emphasis, or the same    *)
(* link, are one; emphasis of nothing is none, and a link over nothing is  *)
(* over an empty text.                                                     *)
EmptyText == Node("text", <<>>, <<>>)
RECURSIVE Joined(_)
Joined(nodes) ==
    LET Kids(n) == IF n.is = "link" /\ Joined(n.kids) = <<>> THEN <<EmptyText>>
                   ELSE Joined(n.kids)
        Add(out, n) ==
            LET like == out # <<>> /\ Last(out).is = n.is
            IN  CASE n.is = "code" /\ like ->
                        Front(out) \o <<Node("code", Last(out).data \o n.data, <<>>)>>
                  [] n.is \in Markers /\ Kids(n) = <<>> -> out
                  [] n.is \in Markers /\ Kids(n) # <<>> /\ like /\ Last(out).data = n.data ->
                        Front(out) \o <<Node(n.is, n.data, Joined(Last(out).kids \o Kids(n)))>>
                  [] OTHER -> Append(out, Node(n.is, n.data, Kids(n)))
    IN  FoldLeft(Add, <<>>, nodes)

RECURSIVE Printed(_)
Printed(b) ==
    CASE b.is \in {"paragraph", "heading", "cell"} -> [b EXCEPT !.kids = Joined(@)]
      [] b.is \notin {"paragraph", "heading", "cell"} ->
            [b EXCEPT !.kids = Each(@, LAMBDA k : Printed(k))]

(* What a page may hold that the editor cannot save: an item with nothing  *)
(* in it, a language between tildes that no backtick fence carries, a wiki *)
(* link to nowhere, or nesting at the limit.                               *)
RECURSIVE Nodes(_)
Nodes(kids) == UNION {{kids[i]} \union Nodes(kids[i].kids) : i \in DOMAIN kids}
Unsavable(n) ==
    \/ n.is = "item" /\ n.kids = <<>>
    \/ n.is = "codeBlock" /\ n.data.language \in BadInfo
    \/ n.is = "wikiLink" /\ (n.data \in BadTarget \/ inlines_to_json(n.kids, <<>>) = <<>>)
RECURSIVE Height(_)
Height(kids) ==
    IF kids = <<>> THEN 0
    ELSE LET highs == {Height(kids[i].kids) : i \in DOMAIN kids}
         IN  1 + CHOOSE h \in highs : \A g \in highs : g <= h

(* A page that is opened and saved is the page, printed; and it can be     *)
(* saved when nothing in it is one of those.                               *)
PagesAreKept(page) ==
    LET doc == markdown_to_doc(page)
    IN  /\ Saves(doc) => doc_to_markdown(doc) = Each(page, Printed)
        /\ Saves(doc) => Opens(page, 0)
        /\ Height(page) < MaxDepth => (Saves(doc) <=> \A n \in Nodes(page) : ~Unsavable(n))

(* What is saved opens, and saving it again changes nothing.               *)
SavesAreSteady(doc) ==
    Saves(doc) => LET page  == doc_to_markdown(doc)
                      again == markdown_to_doc(page)
                  IN  Opens(page, 0) /\ Saves(again) /\ doc_to_markdown(again) = page
=============================================================================
