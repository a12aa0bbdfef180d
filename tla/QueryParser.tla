---------------------------- MODULE QueryParser ----------------------------
(***************************************************************************)
(* Lucy::Search::QueryParser (Search/QueryParser.c with ParserElem.c):     *)
(* from the tokens of a query string to a tree of Queries, and what        *)
(* Expand and Prune make of it.  A word is named by its place among the    *)
(* tokens, and so is a field; the "-" and the "NOT" of the lexer, which    *)
(* the parser treats alike, are one token "not".  A leaf expands to a      *)
(* query for its word, or to nothing if its analyzer leaves none of it.    *)
(***************************************************************************)
EXTENDS Integers, SequencesExt, FiniteSetsExt

CONSTANTS Tokens,     \* those typed, of the types "open", "close", "string",
                      \* "field", "plus", "not", "and" and "or"
          MaxTokens   \* bound on the length of a query string

VARIABLES text,          \* the types of the tokens
          default_occur  \* "SHOULD", or "MUST" if default_boolop is AND

vars == <<text, default_occur>>

TypeOK == text \in BoundedSeq(Tokens, MaxTokens)
          /\ default_occur \in {"SHOULD", "MUST"}

-----------------------------------------------------------------------------
(* ParserElems.                                                            *)

ParserElem(type, value) == [type |-> type, value |-> value, occur |-> "SHOULD"]

Require(elem) ==
    IF elem.occur = "SHOULD" THEN [elem EXCEPT !.occur = "MUST"] ELSE elem

\* A mutant: two negations are one.
NegateOnce(elem) == [elem EXCEPT !.occur = "MUST_NOT"]

Negate(elem) ==
    [elem EXCEPT !.occur = IF @ = "MUST_NOT" THEN "MUST" ELSE "MUST_NOT"]

\* What is required unless something else is said.
ByDefault(elem) == IF default_occur = "MUST" THEN Require(elem) ELSE elem

S_discard_elems(elems, type) == SelectSeq(elems, LAMBDA e : e.type # type)

-----------------------------------------------------------------------------
(* Queries: what they are made of, and which documents they match.  A      *)
(* document is the set of its words.                                       *)

Leaf(word, field) == [op |-> "leaf", word |-> word, field |-> field]
NoMatchQuery(fails_to_match) == [op |-> "nomatch", fails |-> fails_to_match]
MatchAllQuery == [op |-> "matchall"]
Query(op, kids) == [op |-> op, kids |-> kids]

\* The Matchers that the compilers of the queries make.  An ANDQuery without
\* children matches nothing.
RECURSIVE Matches(_, _)
Matches(q, doc) ==
    CASE q.op = "leaf"     -> q.word \in doc
      [] q.op = "nomatch"  -> FALSE
      [] q.op = "matchall" -> TRUE
      [] q.op = "or"       -> \E i \in DOMAIN q.kids : Matches(q.kids[i], doc)
      [] q.op = "and"      -> /\ q.kids # <<>>
                              /\ \A i \in DOMAIN q.kids :
                                    Matches(q.kids[i], doc)
      [] q.op = "not"      -> ~Matches(q.kids[1], doc)
      [] q.op = "reqopt"   -> Matches(q.kids[1], doc)

-----------------------------------------------------------------------------
(* Tree.                                                                   *)

\* Right parens without a left one are dropped, and those that are missing
\* added at the end.
S_balance_parens(elems) ==
    LET scan == FoldLeft(LAMBDA s, e :
            CASE e.type = "open" ->
                    [elems |-> Append(s.elems, e), depth |-> s.depth + 1]
              [] e.type = "close" /\ s.depth = 0 -> s
              [] e.type = "close" /\ s.depth > 0 ->
                    [elems |-> Append(s.elems, e), depth |-> s.depth - 1]
              [] OTHER -> [s EXCEPT !.elems = Append(@, e)],
            [elems |-> <<>>, depth |-> 0], elems)
    IN  scan.elems \o [d \in 1..scan.depth |-> ParserElem("close", 0)]

\* Strings become queries for the field before them or for that of the group.
S_compose_inner_queries(elems, default_field) ==
    LET field(i) == IF i > 1 /\ elems[i - 1].type = "field"
                    THEN elems[i - 1].value ELSE default_field
    IN  [i \in DOMAIN elems |->
            IF elems[i].type # "string" THEN elems[i]
            ELSE ByDefault(ParserElem("query", Leaf(elems[i].value, field(i))))]

\* What stands directly before a query is applied to it, the nearest first.
S_apply_plusses_and_negations(elems) ==
    LET before(i) == 1 + Max({0} \union
            {j \in 1..(i - 1) : elems[j].type \notin {"plus", "not"}})
        apply(sign, e) == IF sign.type = "plus" THEN Require(e) ELSE Negate(e)
    IN  [i \in DOMAIN elems |->
            IF elems[i].type # "query" THEN elems[i]
            ELSE FoldRight(apply, SubSeq(elems, before(i), i - 1), elems[i])]

S_compose_not_queries(elems) ==
    [i \in DOMAIN elems |->
        IF elems[i].type = "query" /\ elems[i].occur = "MUST_NOT"
        THEN [elems[i] EXCEPT !.value = Query("not", <<@>>)] ELSE elems[i]]

\* An operator stays if it is alone between two queries: of several in a row
\* all are zapped, as are those at the ends.
S_winnow_boolops(elems) ==
    LET query(i) == i \in DOMAIN elems /\ elems[i].type = "query"
    IN  FoldLeftDomain(LAMBDA es, i :
            IF query(i) \/ (query(i - 1) /\ query(i + 1))
            THEN Append(es, elems[i]) ELSE es, <<>>, elems)

\* S_compose_and_queries and S_compose_or_queries: queries with the operator
\* between them become one, in the place and with the occur of the first.
Composed(elems, boolop) ==
    LET joins(i) == i > 1 /\ elems[i - 1].type = boolop
        chains == FoldLeftDomain(LAMBDA cs, i :
            CASE elems[i].type = boolop -> cs
              [] elems[i].type # boolop /\ joins(i) ->
                    [cs EXCEPT ![Len(cs)].kids = Append(@, elems[i].value)]
              [] OTHER -> Append(cs, [head |-> elems[i],
                                      kids |-> <<elems[i].value>>]),
            <<>>, elems)
    IN  [n \in DOMAIN chains |->
            IF Len(chains[n].kids) = 1 THEN chains[n].head
            ELSE ByDefault([chains[n].head EXCEPT
                                !.value = Query(boolop, chains[n].kids)])]

\* The elements that are left are sorted by occur and bound together.
S_compose_subquery(elems, enclosed) ==
    LET bin(occur) == SelectSeq(elems, LAMBDA e : e.occur = occur)
        queries(es) == [i \in DOMAIN es |-> es[i].value]
        required == queries(bin("MUST"))
        negated == queries(bin("MUST_NOT"))
        optional == queries(bin("SHOULD"))
        mandatory == required \o negated
        bound(op, qs) == IF enclosed \/ Len(qs) > 1 THEN Query(op, qs)
                                                    ELSE qs[1]
        req_query == bound("and", mandatory)
        opt_query == bound("or", optional)
    IN  CASE elems = <<>> /\ enclosed ->
                Query(IF default_occur = "SHOULD" THEN "or" ELSE "and", <<>>)
          [] elems = <<>> /\ ~enclosed -> NoMatchQuery(TRUE)
          [] Len(elems) = 1 /\ ~enclosed -> elems[1].value
          [] OTHER ->
                CASE mandatory = <<>> -> opt_query
                  [] optional = <<>> -> req_query
                  [] OTHER ->
                        Query(IF required # <<>> THEN "reqopt" ELSE "and",
                              <<req_query, opt_query>>)

\* There are no parens left in elems.  A group that is a single conjunction or
\* disjunction is not wrapped again.
S_parse_subquery(elems, default_field, enclosed) ==
    LET inner == S_compose_inner_queries(elems, default_field)
        signed == S_apply_plusses_and_negations(S_discard_elems(inner, "field"))
        unsigned == SelectSeq(signed,
                              LAMBDA e : e.type \notin {"plus", "not"})
        clauses == S_winnow_boolops(S_compose_not_queries(unsigned))
        anded == Composed(clauses, "and")
        ored == Composed(anded, "or")
        joined == Len(clauses) > 2 /\ Len(ored) = 1
    IN  S_compose_subquery(ored, enclosed /\ ~joined)

\* The leftmost innermost group becomes a query, with the field before it, or
\* before the nearest group around it that has one; until there is none.
RECURSIVE S_parse_subqueries(_)
S_parse_subqueries(elems) ==
    LET closes == {i \in DOMAIN elems : elems[i].type = "close"}
        right == Min(closes)
        left == Max({i \in 1..right : elems[i].type = "open"})
        fields == {i \in 1..left : /\ elems[i].type = "field"
                                   /\ elems[i + 1].type = "open"}
        field == IF fields = {} THEN 0 ELSE elems[Max(fields)].value
        subquery == S_parse_subquery(SubSeq(elems, left + 1, right - 1),
                                     field, TRUE)
        from == IF left - 1 \in fields THEN left - 1 ELSE left
    IN  IF closes = {} THEN elems
        ELSE S_parse_subqueries(
                SubSeq(elems, 1, from - 1)
                \o <<ByDefault(ParserElem("query", subquery))>>
                \o SubSeq(elems, right + 1, Len(elems)))

Tree == S_parse_subquery(
            S_parse_subqueries(S_balance_parens(
                [i \in DOMAIN text |-> ParserElem(text[i], i)])), 0, FALSE)

-----------------------------------------------------------------------------
(* Expand and Prune.                                                       *)

\* A word that is not in quotes, for one field.  If the analyzer leaves nothing
\* of it (stop), it is no failure to match.
Expand_Leaf(q, stop) == IF q.word \in stop THEN NoMatchQuery(FALSE) ELSE q

\* Leaves that are no failure do not count, except in a RequiredOptionalQuery
\* and below a NOTQuery.
RECURSIVE Expand(_, _)
Expand(q, stop) ==
    LET kids == [i \in DOMAIN q.kids |-> Expand(q.kids[i], stop)]
        new_kids == SelectSeq(kids, LAMBDA k : k.op = "nomatch" => k.fails)
    IN  CASE q.op = "leaf" -> Expand_Leaf(q, stop)
          [] q.op \in {"or", "and"} ->
                CASE Len(new_kids) = 0 -> NoMatchQuery(TRUE)
                  [] Len(new_kids) = 1 -> new_kids[1]
                  [] OTHER -> Query(q.op, new_kids)
          [] q.op \in {"not", "reqopt"} -> Query(q.op, kids)
          [] OTHER -> q

\* Whether there is something else than a negation.
RECURSIVE S_has_valid_clauses(_)
S_has_valid_clauses(q) ==
    CASE q.op \in {"not", "matchall"} -> FALSE
      [] q.op \in {"or", "and"} ->
            \E i \in DOMAIN q.kids : S_has_valid_clauses(q.kids[i])
      [] OTHER -> TRUE

RECURSIVE S_do_prune(_)
S_do_prune(q) ==
    LET kids == [i \in DOMAIN q.kids |-> S_do_prune(q.kids[i])]
        pruned == Query(q.op, kids)
        neg_query == q.kids[1]
    IN  CASE q.op = "not" ->
                IF neg_query.op = "matchall" \/ S_has_valid_clauses(neg_query)
                THEN q ELSE Query("not", <<MatchAllQuery>>)
          [] q.op \in {"or", "reqopt"} ->
                Query(q.op, [i \in DOMAIN kids |->
                    IF S_has_valid_clauses(kids[i]) THEN kids[i]
                    ELSE NoMatchQuery(TRUE)])
          [] q.op = "and" ->
                IF S_has_valid_clauses(pruned) THEN pruned
                ELSE Query("and", <<>>)
          [] OTHER -> q

Prune(q) ==
    IF q.op \in {"not", "matchall"} THEN NoMatchQuery(TRUE) ELSE S_do_prune(q)

Parse(stop) == Prune(Expand(Tree, stop))

-----------------------------------------------------------------------------
(* The string is typed token by token.                                     *)

Init == text = <<>> /\ default_occur \in {"SHOULD", "MUST"}

\* The lexer takes for a field only what is followed by a word or a paren; the
\* word may turn out to be an operator.
Type(t) ==
    /\ Len(text) < MaxTokens
    /\ text # <<>> /\ Last(text) = "field" =>
          t \notin {"close", "plus", "field"}
    /\ text' = Append(text, t)
    /\ UNCHANGED default_occur

Next == \E t \in Tokens : Type(t)

Spec == Init /\ [][Next]_vars

\* It takes a "+" for a word when nothing follows it.
Complete == text # <<>> => Last(text) \notin {"plus", "field"}

-----------------------------------------------------------------------------
(* What a query string says, read from the tokens as they stand.  Within a *)
(* group, AND binds more tightly than OR and OR more tightly than nothing; *)
(* what is bound together is required or not as its first operand is.      *)

\* How deep the string is after each token.
Depths ==
    Tail(FoldLeft(LAMBDA ds, t : Append(ds,
             CASE t = "open" -> Last(ds) + 1
               [] t = "close" -> Max({0, Last(ds) - 1})
               [] OTHER -> Last(ds)), <<0>>, text))

\* The words and the groups; a group is named by its open paren.
Operands == {j \in DOMAIN text : text[j] \in {"string", "open"}}

\* The group that an operand is in; 0 is the string.
GroupOf(ds, j) ==
    LET level == IF text[j] = "open" THEN ds[j] - 1 ELSE ds[j]
    IN  Max({0} \union {i \in 1..(j - 1) : text[i] = "open" /\ ds[i] = level})

EndOf(ds, j) ==
    IF text[j] = "string" THEN j
    ELSE Min({Len(text) + 1} \union
             {k \in (j + 1)..Len(text) : ds[k] < ds[j]})

\* The operands of its group that come before it.
Before(ds, j) == {i \in Operands : i < j /\ GroupOf(ds, i) = GroupOf(ds, j)}

\* The signs and operators since the last of these.
Since(ds, j) ==
    LET start == Max({GroupOf(ds, j)} \union
                     {EndOf(ds, i) : i \in Before(ds, j)})
    IN  SelectSeq(SubSeq(text, start + 1, j - 1),
                  LAMBDA t : t \in {"plus", "not", "and", "or"})

\* An odd number of negations forbids, and an even one requires.
Sign(ds, j) ==
    LET since == Since(ds, j)
        ops == {k \in DOMAIN since : since[k] \in {"and", "or"}}
        signs == (Max({0} \union ops) + 1)..Len(since)
        nots == {k \in signs : since[k] = "not"}
    IN  CASE Cardinality(nots) % 2 = 1 -> "MUST_NOT"
          [] signs # {} /\ Cardinality(nots) % 2 = 0 -> "MUST"
          [] OTHER -> default_occur

\* What connects it to the one before: "none" if nothing or nonsense does.
Connective(ds, j) ==
    LET ops == SelectSeq(Since(ds, j), LAMBDA t : t \in {"and", "or"})
    IN  IF Len(ops) = 1 /\ Before(ds, j) # {} THEN ops[1] ELSE "none"

\* The field before it, or before the nearest group around it that has one.
FieldOf(ds, j) ==
    LET around == {i \in Operands : /\ i <= j /\ j <= EndOf(ds, i)
                                    /\ i > 1 /\ text[i - 1] = "field"}
    IN  IF around = {} THEN 0 ELSE Max(around) - 1

Reading ==
    LET ds == Depths
    IN  {[at |-> j, group |-> GroupOf(ds, j), sign |-> Sign(ds, j),
          by |-> Connective(ds, j), field |-> FieldOf(ds, j)] : j \in Operands}

\* Whether a document is what a group of the string asks for.
RECURSIVE Asks(_, _, _)
Asks(reading, group, doc) ==
    LET operands == {o \in reading : o.group = group}
        holds(o) == (IF text[o.at] = "string" THEN o.at \in doc
                     ELSE Asks(reading, o.at, doc)) # (o.sign = "MUST_NOT")
        boundTo(h, bonds) ==
            {o \in operands : \A p \in operands :
                h.at < p.at /\ p.at <= o.at => p.by \in bonds}
        since(h, os) == {o \in os : o.at >= h.at}
        heads == {o \in operands : o.by = "none"}
        chain(h) == since(h, boundTo(h, {"and", "or"}))
        chainHolds(h) ==
            \E c \in {c \in chain(h) : c = h \/ c.by = "or"} :
                \A o \in since(c, boundTo(c, {"and"})) : holds(o)
        optional == {h \in heads : h.sign = "SHOULD"}
    IN  /\ heads # {}
        /\ \A h \in heads \ optional : chainHolds(h)
        /\ \/ optional = {}
           \/ \E h \in heads : h.sign = "MUST"
           \/ \E h \in optional : chainHolds(h)

RECURSIVE Leaves(_)
Leaves(q) ==
    CASE q.op = "leaf" -> {<<q.word, q.field>>}
      [] q.op \in {"nomatch", "matchall"} -> {}
      [] OTHER -> UNION {Leaves(q.kids[i]) : i \in DOMAIN q.kids}

-----------------------------------------------------------------------------
(* Properties.                                                             *)

Words == {j \in DOMAIN text : text[j] = "string"}

\* The tree matches the documents that the query string asks for, wherever
\* its parens, signs and operators stand, whole or in nonsense combinations,
\* and every word has its field.  Expand does not change that.
TreeMeansTheString ==
    Complete =>
        LET reading == Reading
            tree == Tree
            expanded == Expand(tree, {})
        IN  /\ Leaves(tree) = {<<o.at, o.field>> :
                                  o \in {o \in reading : o.at \in Words}}
            /\ \A doc \in SUBSET Words :
                  /\ Matches(tree, doc) <=> Asks(reading, 0, doc)
                  /\ Matches(expanded, doc) <=> Matches(tree, doc)

\* Whatever words are stop words, a parsed query does not match a document that
\* has none of its words, and Prune adds nothing to what is matched.
PrunedIsTame ==
    Complete =>
        \A stop \in SUBSET Words :
            LET expanded == Expand(Tree, stop)
                pruned == Prune(expanded)
            IN  /\ ~Matches(pruned, {})
                /\ \A doc \in SUBSET Words :
                      Matches(pruned, doc) => Matches(expanded, doc)

\* QueryParser.cfh has it that Prune makes 'foo' of 'foo AND -(-bar)', safety
\* taking precedence over logic.  It leaves the negation of all documents.
DoubleNegationsGo ==
    text = <<"string", "and", "not", "open", "not", "string", "close">> =>
        \A doc \in SUBSET Words : Matches(Parse({}), doc) <=> 1 \in doc

\* A comment in S_compose_subquery has it that without a required element all
\* mandatory ones are negations, so that nothing makes the word after '-a AND b'
\* a condition.  A conjunction that begins with a negation is one of them.
ConjunctionsRequire ==
    text = <<"not", "string", "and", "string", "string">>
        /\ default_occur = "SHOULD" => Matches(Tree, {4})
=============================================================================
