------------------------------- MODULE Query -------------------------------
(***************************************************************************)
(* DQL, the language issues are listed with: a recursive-descent parser    *)
(* over tokens (dit-query/src/parser.rs), a compiler to a WHERE clause     *)
(* with bound parameters (dit-query/src/compile.rs) that SQLite evaluates. *)
(*                                                                         *)
(* A token is <<"(">>, <<")">>, <<"AND">>, <<"OR">>, a whole ORDER BY      *)
(* clause, a whole LIMIT clause, or <<"cmp", comparison>>.  A comparison   *)
(* is a record: the field's kind (a plain column, which may be NULL, or a  *)
(* set in a side table), the polarity (= and IN, or != and NOT IN) and its *)
(* values, more than one only in a list.  A row gives the column a value   *)
(* or NULL and the set its members.                                        *)
(***************************************************************************)
EXTENDS Naturals, Sequences, FiniteSets, SequencesExt

CONSTANTS
    Comparisons,  \* the comparisons queries are built from
    Value,        \* what a column or a set may hold
    Null          \* a column without a value

Order == <<"ORDER BY">>
Limit == <<"LIMIT">>
Open  == <<"(">>
Close == <<")">>

Atoms  == {<<"cmp", c>> : c \in Comparisons}
Tokens == {Open, Close, <<"AND">>, <<"OR">>, Order, Limit} \union Atoms

Rows == [column : Value \union {Null}, set : SUBSET Value]

-----------------------------------------------------------------------------
(* The parser.  A result is the tree read and the position after it; a     *)
(* tree is <<op, left, right>>, or <<"cmp", comparison>>.                  *)

Failed == [tree |-> <<>>, at |-> 0]
Ok(r)  == r.at # 0

At(toks, i, tok) == i \in DOMAIN toks /\ toks[i] = tok

RECURSIVE OrExpr(_, _), AndExpr(_, _)

(* A parenthesised group, or a comparison.                                 *)
Primary(toks, i) ==
    IF At(toks, i, Open)
    THEN LET inner == OrExpr(toks, i + 1)
         IN  IF Ok(inner) /\ At(toks, inner.at, Close)
             THEN [inner EXCEPT !.at = @ + 1] ELSE Failed
    ELSE IF i \in DOMAIN toks /\ toks[i] \in Atoms
         THEN [tree |-> toks[i], at |-> i + 1]
         ELSE Failed

(* `left' and, as long as the keyword follows, one more operand: the tree  *)
(* leans left.                                                             *)
RECURSIVE More(_, _, _)
More(op, toks, left) ==
    IF ~Ok(left) \/ ~At(toks, left.at, <<op>>) THEN left
    ELSE LET right == IF op = "AND" THEN Primary(toks, left.at + 1)
                                    ELSE AndExpr(toks, left.at + 1)
         IN  IF ~Ok(right) THEN Failed
             ELSE More(op, toks, [tree |-> <<op, left.tree, right.tree>>, at |-> right.at])

AndExpr(toks, i) == More("AND", toks, Primary(toks, i))
OrExpr(toks, i)  == More("OR", toks, AndExpr(toks, i))

(* The clauses after the filter: any number of ORDER BY, then any number   *)
(* of LIMIT; nothing else.                                                 *)
Clauses(toks, i) ==
    /\ \A j \in i..Len(toks) : toks[j] \in {Order, Limit}
    /\ \A j, k \in i..Len(toks) : j < k /\ toks[j] = Limit => toks[k] # Order

(* The empty text matches everything; any other must begin with a filter.  *)
Parse(toks) ==
    IF toks = <<>> THEN [ok |-> TRUE, filter |-> <<>>]
    ELSE LET filter == OrExpr(toks, 1)
         IN  IF Ok(filter) /\ Clauses(toks, filter.at)
             THEN [ok |-> TRUE, filter |-> filter.tree]
             ELSE [ok |-> FALSE, filter |-> <<>>]

-----------------------------------------------------------------------------
(* The compiler: the tokens of the WHERE clause and the parameters, each   *)
(* value bound and named by its 1-based position.                          *)

(* push_param for every value of the comparison, in order.                 *)
Pushed(params, cmp) == params \o cmp.values
Places(params, cmp) == [i \in DOMAIN cmp.values |-> Len(params) + i]

(* cmp and set_membership.  No value at all is the list `()': SQLite has   *)
(* no `column IN ()', so the constants 0 and 1 stand for it.               *)
CompiledCmp(params, cmp) ==
    [sql |-> <<<<"test", IF cmp.field = "column" /\ cmp.values = <<>>
                THEN [test |-> "constant", not |-> cmp.not, places |-> <<>>]
                ELSE [test |-> cmp.field, not |-> cmp.not, places |-> Places(params, cmp)]>>>>,
     params |-> Pushed(params, cmp)]

RECURSIVE Compiled_Bare(_, _), Compiled(_, _)
Compiled_Bare(tree, params) ==
    IF tree[1] = "cmp" THEN CompiledCmp(params, tree[2])
    ELSE LET l == Compiled_Bare(tree[2], params)
             r == Compiled_Bare(tree[3], l.params)
         IN  [sql |-> l.sql \o <<<<tree[1]>>>> \o r.sql, params |-> r.params]

Compiled(tree, params) ==
    IF tree[1] = "cmp" THEN CompiledCmp(params, tree[2])
    ELSE LET l == Compiled(tree[2], params)
             r == Compiled(tree[3], l.params)
         IN  [sql |-> <<Open>> \o l.sql \o <<<<tree[1]>>>> \o r.sql \o <<Close>>,
              params |-> r.params]

-----------------------------------------------------------------------------
(* SQLite, as far as these clauses use it: AND binds tighter than OR, and  *)
(* a comparison with NULL is neither true nor false.                       *)

True == 2
Unknown == 1
False == 0
Truth(b) == IF b THEN True ELSE False
Negate(t) == 2 - t
Least(S)    == CHOOSE x \in S : \A y \in S : x <= y
Greatest(S) == CHOOSE x \in S : \A y \in S : x >= y

TestOn(test, params, row) ==
    LET bound == {params[test.places[i]] : i \in DOMAIN test.places}
        found == CASE test.test = "constant" -> False
                   [] test.test = "set"      -> Truth(row.set \intersect bound # {})
                   [] test.test = "column"   -> IF row.column = Null THEN Unknown
                                                ELSE Truth(row.column \in bound)
    IN  IF test.not THEN Negate(found) ELSE found

Depth(sql, i) == Cardinality({j \in 1..(i - 1) : sql[j] = Open})
                   - Cardinality({j \in 1..i : sql[j] = Close})
Splits(sql, op) == {i \in DOMAIN sql : sql[i] = <<op>> /\ Depth(sql, i) = 0}

(* The value of a clause: cut at the ORs outside every parenthesis, then   *)
(* at the ANDs, then inside the parentheses.                               *)
RECURSIVE SqlValue(_, _, _)
SqlValue(sql, params, row) ==
    LET Cut(op) == LET at == Greatest(Splits(sql, op))
                   IN  {SqlValue(SubSeq(sql, 1, at - 1), params, row),
                        SqlValue(SubSeq(sql, at + 1, Len(sql)), params, row)}
    IN  IF Splits(sql, "OR") # {} THEN Greatest(Cut("OR"))
        ELSE IF Splits(sql, "AND") # {} THEN Least(Cut("AND"))
        ELSE IF sql[1] = Open THEN SqlValue(SubSeq(sql, 2, Len(sql) - 1), params, row)
        ELSE TestOn(sql[1][2], params, row)

-----------------------------------------------------------------------------
(* What a text means, said without the parser: a filter is a disjunction   *)
(* of conjunctions of comparisons and of filters in parentheses.           *)

RECURSIVE IsFilter(_)
IsFilter(toks) ==
    \/ Len(toks) = 1 /\ toks[1] \in Atoms
    \/ Len(toks) > 2 /\ toks[1] = Open /\ toks[Len(toks)] = Close
         /\ IsFilter(SubSeq(toks, 2, Len(toks) - 1))
    \/ \E i \in DOMAIN toks : /\ toks[i] \in {<<"AND">>, <<"OR">>}
                              /\ IsFilter(SubSeq(toks, 1, i - 1))
                              /\ IsFilter(SubSeq(toks, i + 1, Len(toks)))

Meaning(cmp, row) ==
    LET wanted == {cmp.values[i] : i \in DOMAIN cmp.values}
    IN  IF cmp.field = "column"
        THEN IF cmp.values = <<>> THEN Truth(cmp.not)
             ELSE IF row.column = Null THEN Unknown
             ELSE Truth((row.column \in wanted) # cmp.not)
        ELSE Truth((row.set \intersect wanted # {}) # cmp.not)

RECURSIVE Means(_, _)
Means(toks, row) ==
    LET Cut(op) == LET at == Greatest(Splits(toks, op))
                   IN  {Means(SubSeq(toks, 1, at - 1), row),
                        Means(SubSeq(toks, at + 1, Len(toks)), row)}
    IN  IF Splits(toks, "OR") # {} THEN Greatest(Cut("OR"))
        ELSE IF Splits(toks, "AND") # {} THEN Least(Cut("AND"))
        ELSE IF toks[1] = Open THEN Means(SubSeq(toks, 2, Len(toks) - 1), row)
        ELSE Meaning(toks[1][2], row)

FilterOf(toks) == SelectSeq(toks, LAMBDA t : t \notin {Order, Limit})

(* The parser reads a text exactly when it is a filter followed by ORDER   *)
(* BY clauses and then LIMIT clauses.                                      *)
ReadsTheLanguage(toks) ==
    LET n == Len(FilterOf(toks))
    IN  toks # <<>> =>
          (Parse(toks).ok <=> /\ FilterOf(toks) = SubSeq(toks, 1, n)
                              /\ IsFilter(FilterOf(toks)) /\ Clauses(toks, n + 1))

(* Whatever the nesting, the clause that reaches SQLite, with its          *)
(* parameters found by position, is true of a row exactly when the text    *)
(* means the row: no parenthesis is lost, no value bound to another test.  *)
AnswersTheQuestion(toks) ==
    Parse(toks).ok /\ toks # <<>> =>
        LET c == Compiled(Parse(toks).filter, <<>>)
        IN  \A row \in Rows : SqlValue(c.sql, c.params, row) = Means(FilterOf(toks), row)

=============================================================================
