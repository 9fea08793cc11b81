-------------------------------- MODULE Search --------------------------------
(***************************************************************************)
(* Search requests: SearchParser makes a tree of the criteria, the emitter *)
(* turns it into a condition, in which each metadata property needs a join *)
(* of its own, and SQLDatabase::search adds the filters, counts and selects*)
(* (database/search_handler.cc, database/sql_database.cc).                 *)
(*                                                                         *)
(* A criterion is a sequence of tokens; a relation (property, operator and *)
(* value) is one token.  A node of the tree is the text it is emitted as:  *)
(* only a parenthesis writes parentheses.  The names of the joins are kept *)
(* in one mapper, which all requests share.                                *)
(***************************************************************************)
EXTENDS Integers, Sequences, FiniteSets, FiniteSetsExt, SequencesExt

CONSTANTS
    Requests,
    Criteria,           \* sequences of tokens, well formed
    Properties,         \* the properties they name
    MetaProperties,     \* those that are metadata, in a table of their own
    NestingLimit,       \* search-nesting-limit
    MaxCount            \* bound: RequestedCount and StartingIndex

Token(is, name) == [is |-> is, name |-> name, alias |-> -1]
Open == Token("(", "")
Close == Token(")", "")
And == Token("and", "")
Or == Token("or", "")
Asterisk == Token("*", "")
Relation(property) == Token("relation", property)
Filter == Relation("filter")
IsOperator(t) == t.is \in {"and", "or"}
IsMeta(t) == t.name \in MetaProperties

VARIABLES
    tableAlias, joins, metaCnt,     \* of the mapper: the alias in force, the joins, how many aliases
    req                             \* for each request, where it is and what it has made
mapper == <<tableAlias, joins, metaCnt>>
vars == <<mapper, req>>

\* an object, as far as the criteria and the filters are concerned
Objects == [has : SUBSET Properties, kept : BOOLEAN]

-------------------------------------------------------------------------------
(* What a condition means: `or` last, `and` before, as in SQL and in the   *)
(* grammar of the criteria.                                                *)

Level(s, n) == Cardinality({i \in 1 .. n : s[i].is = "("}) - Cardinality({i \in 1 .. n : s[i].is = ")"})
Outermost(s, op) == {i \in DOMAIN s : s[i].is = op /\ Level(s, i) = 0}

RECURSIVE Holds(_, _)
Holds(s, true) ==
    LET before(i) == SubSeq(s, 1, i - 1)
        after(i) == SubSeq(s, i + 1, Len(s))
        split(op) == Min(Outermost(s, op))
    IN IF Outermost(s, "or") # {}
       THEN Holds(before(split("or")), true) \/ Holds(after(split("or")), true)
       ELSE IF Outermost(s, "and") # {}
       THEN Holds(before(split("and")), true) /\ Holds(after(split("and")), true)
       ELSE IF s[1].is = "(" THEN Holds(SubSeq(s, 2, Len(s) - 1), true) ELSE s[1] \in true

Relations(s) == {t \in ToSet(s) : t.is = "relation"}

\* what the criteria ask for
Meets(o, criteria) ==
    criteria = <<Asterisk>> \/ Holds(criteria, {t \in Relations(criteria) : t.name \in o.has})

\* a row of the joined tables: for each join a row of metadata, or none; a
\* condition on metadata names the property and asks for its value
Selected(o, where, aliases) ==
    \E row \in [aliases -> (o.has \cap MetaProperties) \cup {"none"}] :
        Holds(where, {t \in Relations(where) :
                        CASE t = Filter -> o.kept
                          [] t # Filter /\ IsMeta(t) -> row[t.alias] = t.name
                          [] OTHER -> t.name \in o.has})

\* a statement fails if it joins under one name twice, or names no join
Executable(where, joined) ==
    /\ IsInjective(joined)
    /\ \A t \in Relations(where) : IsMeta(t) => t.alias \in ToSet(joined)

-------------------------------------------------------------------------------
(* SearchParser: a node, and the position of the token it ends at, or 0 if *)
(* the parser throws.                                                      *)

Parsed(node, at) == [node |-> node, at |-> at]
Throws == Parsed(<<>>, 0)

RECURSIVE parseParenthesis(_, _, _), parseInside(_, _, _, _)
parseParenthesis(c, at, depth) ==
    IF depth >= NestingLimit THEN Throws
    ELSE LET inside == parseInside(c, at + 1, <<>>, depth)
         IN IF inside.at = 0 THEN Throws
            ELSE Parsed(<<Open>> \o inside.node \o <<Close>>, inside.at)

\* the loop of parseParenthesis: an operator takes what was read as its left
\* side, and a relation or a parenthesis as its right side
parseInside(c, at, node, depth) ==
    LET operand == IF IsOperator(c[at]) THEN at + 1 ELSE at
        left == IF IsOperator(c[at]) THEN Append(node, c[at]) ELSE <<>>
        right == IF c[operand].is = "(" THEN parseParenthesis(c, operand, depth + 1)
                                        ELSE Parsed(<<c[operand]>>, operand)
    IN IF c[at].is = ")" THEN Parsed(node, at)
       ELSE IF right.at = 0 THEN Throws
       ELSE parseInside(c, right.at + 1, left \o right.node, depth)

Join(lhs, op, rhs) == lhs \o <<op>> \o rhs

\* at the end the nodes that are left are combined, two at a time, by the
\* operators that are left
RECURSIVE Combine(_, _)
Combine(nodes, ops) ==
    LET left == Front(nodes) IN
    IF ops = <<>> THEN (IF left = <<>> THEN Parsed(Last(nodes), 1) ELSE Combine(left, ops))
    ELSE IF left = <<>> THEN Throws
    ELSE IF Len(left) = 1 THEN Parsed(Join(Last(left), Last(ops), Last(nodes)), 1)
    ELSE Combine(Front(left), Front(ops))

\* parseSearchExpression: a relation is combined with the node before it, a
\* parenthesis is not
RECURSIVE parseSearch(_, _, _, _, _)
parseSearch(c, at, nodes, ops, current) ==
    IF at > Len(c) THEN Combine(nodes, ops)
    ELSE IF IsOperator(c[at]) THEN parseSearch(c, at + 1, nodes, Append(ops, c[at]), TRUE)
    ELSE IF c[at].is = "("
    THEN LET group == parseParenthesis(c, at, 0)
         IN IF group.at = 0 THEN Throws
            ELSE parseSearch(c, group.at + 1, Append(nodes, group.node), ops, current)
    ELSE IF current
    THEN parseSearch(c, at + 1, Append(Front(nodes), Join(Last(nodes), Last(ops), <<c[at]>>)),
                     Front(ops), FALSE)
    ELSE parseSearch(c, at + 1, Append(nodes, <<c[at]>>), ops, FALSE)

-------------------------------------------------------------------------------
(* A request.                                                              *)

Init ==
    /\ tableAlias = -1 /\ joins = <<>> /\ metaCnt = 0
    /\ \E asked \in [Requests -> Criteria] :
           req = [r \in Requests |->
                    [pc |-> "parse", criteria |-> asked[r], text |-> <<>>, done |-> 0, joined |-> <<>>,
                     matches |-> {}, start |-> 0, total |-> 0, alone |-> TRUE]]

Emitting == {r \in Requests : req[r].pc \in {"emit", "join", "name"}}
InStep(r, pc) == req[r].pc = pc

\* a step of a request; the emission of two at a time is noted
Step(r, to) ==
    req' = [q \in Requests |->
              [(IF q = r THEN to ELSE req[q]) EXCEPT
                 !.alone = @ /\ ~({q, r} \subseteq Emitting /\ q # r)
                             /\ ~(q = r /\ r \in Emitting /\ Emitting # {r})]]

parse(r) ==
    /\ InStep(r, "parse")
    /\ LET c == req[r].criteria
           root == IF c = <<Asterisk>> THEN Parsed(<<>>, 1) ELSE parseSearch(c, 1, <<>>, <<>>, FALSE)
       IN Step(r, IF root.at = 0 THEN [req[r] EXCEPT !.pc = "failed"]
                  ELSE [req[r] EXCEPT !.pc = "reset", !.text = root.node])
    /\ UNCHANGED mapper

\* emitSQL: the joins of an earlier search are forgotten
KeepsJoins(old) == old                                              \* mutant
JoinsAfterReset(old) == <<>>
resetCnt(r) ==
    /\ InStep(r, "reset")
    /\ joins' = JoinsAfterReset(joins)
    /\ metaCnt' = 0
    /\ Step(r, [req[r] EXCEPT !.pc = "emit"])
    /\ UNCHANGED tableAlias

\* getPropertyStatement: the next metadata property gets a new alias, is joined
\* under the alias in force, and named by it
NextMeta(r) == {n \in DOMAIN req[r].text : n > req[r].done /\ IsMeta(req[r].text[n])}

setAlias(r) ==
    /\ InStep(r, "emit") /\ NextMeta(r) # {}
    /\ tableAlias' = metaCnt
    /\ metaCnt' = metaCnt + 1
    /\ Step(r, [req[r] EXCEPT !.pc = "join"])
    /\ UNCHANGED joins

addJoin(r) ==
    /\ InStep(r, "join")
    /\ joins' = Append(joins, tableAlias)
    /\ Step(r, [req[r] EXCEPT !.pc = "name"])
    /\ UNCHANGED <<tableAlias, metaCnt>>

nameProperty(r) ==
    /\ InStep(r, "name")
    /\ LET n == Min(NextMeta(r))
       IN Step(r, [req[r] EXCEPT !.pc = "emit", !.done = n, !.text[n].alias = tableAlias])
    /\ UNCHANGED mapper

\* an empty condition, of `*`, is an error; the joins are read at the end, and
\* the filters are appended as they are
Filtered(text) == text \o <<And, Filter>>
getJoin(r) ==
    /\ InStep(r, "emit") /\ NextMeta(r) = {}
    /\ Step(r, IF req[r].text = <<>> THEN [req[r] EXCEPT !.pc = "failed"]
               ELSE [req[r] EXCEPT !.pc = "search", !.joined = joins, !.text = Filtered(@)])
    /\ UNCHANGED mapper

\* the number of objects on a page, and what is told as their total
Returned(n, start, count) ==
    LET behind == Max({n - start, 0}) IN IF count > 0 THEN Min({behind, count}) ELSE behind
TotalMatches(n, start, count) ==
    IF Returned(n, start, count) < count THEN start + Returned(n, start, count) ELSE n

search(r) ==
    /\ InStep(r, "search")
    /\ LET aliases == ToSet(req[r].joined)
           found == {o \in Objects : Selected(o, req[r].text, aliases)}
       IN Step(r, IF ~Executable(req[r].text, req[r].joined) THEN [req[r] EXCEPT !.pc = "failed"]
                  ELSE [req[r] EXCEPT !.pc = "page", !.text = <<>>, !.joined = <<>>, !.matches = found])
    /\ UNCHANGED mapper

page(r, start, count) ==
    /\ InStep(r, "page")
    /\ Step(r, [req[r] EXCEPT !.pc = "answered", !.start = start,
                  !.total = TotalMatches(Cardinality(req[r].matches), start, count)])
    /\ UNCHANGED mapper

Next ==
    \E r \in Requests :
        \/ parse(r) \/ resetCnt(r) \/ setAlias(r) \/ addJoin(r) \/ nameProperty(r) \/ getJoin(r)
        \/ search(r)
        \/ \E start, count \in 0 .. MaxCount : page(r, start, count)

Spec == Init /\ [][Next]_vars

-------------------------------------------------------------------------------
(* Properties *)

(* Every variable has its type.                                            *)
TypeOK ==
    /\ tableAlias \in Int /\ metaCnt \in Nat /\ joins \in Seq(Nat)
    /\ \A r \in Requests :
           /\ req[r].pc \in {"parse", "reset", "emit", "join", "name", "search", "page",
                             "answered", "failed"}
           /\ req[r].done \in Nat /\ req[r].alone \in BOOLEAN
           /\ req[r].matches \subseteq Objects /\ req[r].total \in Nat

\* the parentheses the parser has on its stack at the end, and the relation a
\* criterion begins with
Groups(c) == Cardinality({i \in DOMAIN c : c[i].is = "(" /\ Level(c, i) = 1})
             + IF c[1].is = "relation" THEN 1 ELSE 0
Nesting(c) == Max({Level(c, i) : i \in DOMAIN c})

(* A search that no other one interferes with finds what its criteria ask  *)
(* for, of what the filters let through.  The code has four exceptions to  *)
(* this: `*`, and three or more groups side by side, fail or lose their    *)
(* end; criteria nested too deeply are refused; after an `or` that is not  *)
(* in parentheses the filters apply to the last alternative only.          *)
SearchIsExact ==
    \A r \in Requests :
        LET c == req[r].criteria
            asked == {o \in Objects : Meets(o, c)}
            wanted == {o \in asked : o.kept}
            found == req[r].matches
        IN req[r].pc \in {"page", "failed"} /\ req[r].alone
             /\ c # <<Asterisk>> /\ Groups(c) <= 2 /\ Nesting(c) <= NestingLimit =>
              /\ ~InStep(r, "failed")
              /\ IF Outermost(c, "or") = {} THEN found = wanted
                 ELSE wanted \subseteq found /\ found \subseteq asked

(* "make sure we do not report too many hits" (sql_database.cc:1388): the  *)
(* total is the number of matches, unless the page begins behind them.     *)
TotalIsRight ==
    \A r \in Requests :
        InStep(r, "answered") /\ req[r].start <= Cardinality(req[r].matches) =>
            req[r].total = Cardinality(req[r].matches)
===============================================================================
