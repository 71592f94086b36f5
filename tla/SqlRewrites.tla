----------------------------- MODULE SqlRewrites -----------------------------
(***************************************************************************)
(* The rewrites of src/engine.rs from Databricks SQL to DataFusion's: the  *)
(* parse tree of a statement, what is rewritten in it, and the names the   *)
(* unnamed columns get.  An expression is [is, op, args] and what its kind *)
(* needs besides; text is a sequence of characters.  A rewrite returns     *)
(* [changed, of]: whether it changed something, and the result.            *)
(***************************************************************************)
EXTENDS NamePatterns, Integers

CONSTANTS
    CountStarAlias,     \* databricks_count_star_alias_rewrite
    ExpressionAlias     \* databricks_expression_alias_rewrite

Expr(is, op, args) == [is |-> is, op |-> op, args |-> args]
Column(name) == Expr("column", name, <<>>)
Value(kind, of) == [is |-> "value", op |-> kind, args |-> <<>>, of |-> of]
NumberExpr(n) == Value("number", n)
SingleQuotedStringExpr(text) == Value("text", text)
BinaryOp(left, op, right) == Expr("binary", op, <<left, right>>)
UnaryOp(op, expr) == Expr("unary", op, <<expr>>)
CaseExpr(condition, result, else_result) == Expr("case", None, <<condition, result, else_result>>)
Wildcard == Expr("wildcard", None, <<>>)
\* form: plain, distinct, or windowed with an OVER, FILTER or other clause.
Call(name, args, form) == [is |-> "function", op |-> name, args |-> args, form |-> form]
Function(name, args) == Call(name, args, "plain")

\* A function of that name, as many arguments, all expressions, and nothing else.
IsCall(expr, name, n) ==
    /\ expr.is = "function" /\ LowerChar(expr.op) = name /\ expr.form = "plain"
    /\ Len(expr.args) = n /\ \A i \in 1..n : expr.args[i].is # "wildcard"

IsCountWildcard(expr) ==
    expr.is = "function" /\ LowerChar(expr.op) = "count" /\ expr.form = "plain"
    /\ expr.args = <<Wildcard>>

StringLiteral(expr) == IF expr.is = "value" /\ expr.op = "text" THEN expr.of ELSE None

-----------------------------------------------------------------------------
(* What Databricks' constructs become. *)

DatabricksIfExpr(args) == CaseExpr(args[1], args[2], args[3])

\* Faulty variant of DatabricksGetArrayIndexExpr: a negative index is shifted too.
ShiftsEveryIndex(index) == BinaryOp(index, "+", NumberExpr(1))

\* From a zero-based index to a one-based one; array_element(array, 0) is NULL.
DatabricksGetArrayIndexExpr(index) ==
    CaseExpr(BinaryOp(index, "<", NumberExpr(0)), NumberExpr(0), BinaryOp(index, "+", NumberExpr(1)))

ArrayElementExpr(array, index) == Function("array_element", <<array, index>>)
MapExtractExpr(map, key) == Function("map_extract", <<map, key>>)

DatabricksGetArrayExpr(args) == ArrayElementExpr(args[1], DatabricksGetArrayIndexExpr(args[2]))
DatabricksElementAtMapExpr(args) ==
    ArrayElementExpr(MapExtractExpr(args[1], args[2]), NumberExpr(1))
ExtractMinuteExpr(source) == Function("harborsql_extract_minute", <<source>>)

Digit == [c \in {"0", "1", "2"} |-> CASE c = "0" -> 0 [] c = "1" -> 1 [] c = "2" -> 2]

\* The group a replacement $n, ${n} or \n refers to, if it is nothing but that.
CaptureReplacementIndex(replacement) ==
    LET reference == Tail(replacement)
        braced == Len(reference) >= 2 /\ Head(reference) = "{" /\ Last(reference) = "}"
        digits == IF braced THEN SubSeq(reference, 2, Len(reference) - 1) ELSE reference
    IN IF \/ replacement = <<>> \/ Head(replacement) \notin {"$", "\\"}
          \/ digits = <<>> \/ \E i \in DOMAIN digits : digits[i] \notin DOMAIN Digit
       THEN None
       ELSE FoldLeft(LAMBDA n, c : 10 * n + Digit[c], 0, digits)

\* regexp_replace of one capture: the index of the group, None if it is not one.
RegexpReplaceCapture(expr) ==
    IF \/ ~IsCall(expr, "regexp_replace", 3)
       \/ StringLiteral(expr.args[2]) = None \/ StringLiteral(expr.args[3]) = None
    THEN None ELSE CaptureReplacementIndex(expr.args[3].of)

RegexpReplaceCaptureExpr(args, index) ==
    Function("harborsql_regexp_replace_capture", <<args[1], args[2], NumberExpr(index)>>)

\* The text x of a pattern '%x%' without other wildcards.
ContainsNeedle(pattern) ==
    LET text == StringLiteral(pattern)
        needle == SubSeq(text, 2, Len(text) - 1)
    IN IF \/ text = None \/ Len(text) < 2 \/ Head(text) # "%" \/ Last(text) # "%"
          \/ \E i \in DOMAIN needle : needle[i] \in {"%", "_"}
       THEN None ELSE needle

ContainsExpr(haystack, needle, negated) ==
    LET contains == Function("contains", <<haystack, SingleQuotedStringExpr(needle)>>)
    IN IF negated THEN UnaryOp("not", contains) ELSE contains

-----------------------------------------------------------------------------
(* Where they are looked for. *)

Same(of) == [changed |-> FALSE, of |-> of]
Now(of) == [changed |-> TRUE, of |-> of]
Gather(done) == [changed |-> \E i \in DOMAIN done : done[i].changed,
                 of |-> [i \in DOMAIN done |-> done[i].of]]

\* Fields accessed by a dot on get(...) are accessed by name in brackets.
DotAsNamedField(access) ==
    IF access.is = "dot" /\ access.args[1].is = "column"
    THEN Now([is |-> "subscript", args |-> <<SingleQuotedStringExpr(<<access.args[1].op>>)>>])
    ELSE Same(access)

RECURSIVE RewriteExpr(_)
WithArgs(expr, args) == [changed |-> args.changed, of |-> [expr EXCEPT !.args = args.of]]
RewriteArgs(expr) ==
    WithArgs(expr, Gather(Vector([i \in DOMAIN expr.args |-> RewriteExpr(expr.args[i])])))

\* The arguments first, then the function itself.
RewriteCall(inner, f) ==
    CASE IsCall(f, "if", 3) -> Now(DatabricksIfExpr(f.args))
      [] IsCall(f, "get", 2) -> Now(DatabricksGetArrayExpr(f.args))
      [] IsCall(f, "element_at", 2) -> Now(DatabricksElementAtMapExpr(f.args))
      [] RegexpReplaceCapture(f) # None ->
           Now(RegexpReplaceCaptureExpr(f.args, RegexpReplaceCapture(f)))
      [] OTHER -> inner
CallOf(inner) == RewriteCall(inner, inner.of)
RewriteFunction(expr) == CallOf(RewriteArgs(expr))

RewriteLeaf(expr) ==
    CASE expr.is = "extract" /\ expr.op = "minute" -> Now(ExtractMinuteExpr(expr.args[1]))
      [] expr.is = "function" -> RewriteFunction(expr)
      [] expr.is = "like" /\ ~expr.any /\ expr.escape = None
         /\ ContainsNeedle(expr.pattern) # None ->
           Now(ContainsExpr(expr.args[1], ContainsNeedle(expr.pattern), expr.op = "not like"))
      [] OTHER -> Same(expr)

\* get(...).field, and the expressions in an access chain.
RewriteDotAccesses(expr) ==
    Gather([i \in DOMAIN expr.chain |->
              IF IsCall(expr.args[1], "get", 2) THEN DotAsNamedField(expr.chain[i])
              ELSE Same(expr.chain[i])])
RewriteChain(chain) == Gather(Vector([i \in DOMAIN chain |-> RewriteArgs(chain[i])]))
AccessParts(expr, named, root, chain) ==
    [changed |-> root.changed \/ named.changed \/ chain.changed,
     of |-> [expr EXCEPT !.args = <<root.of>>, !.chain = chain.of]]
RewriteAccess(expr) ==
    AccessParts(expr, RewriteDotAccesses(expr), RewriteExpr(expr.args[1]),
                RewriteChain(RewriteDotAccesses(expr).of))

\* What is no leaf is rewritten within.
UnlessChanged(leaf, expr) ==
    CASE leaf.changed -> leaf
      [] ~leaf.changed /\ expr.is \in {"binary", "unary", "nested"} -> RewriteArgs(expr)
      [] ~leaf.changed /\ expr.is = "access" -> RewriteAccess(expr)
      [] OTHER -> leaf
RewriteExpr(expr) == UnlessChanged(RewriteLeaf(expr), expr)

-----------------------------------------------------------------------------
(* The names of unnamed columns. *)

RECURSIVE DatabricksExprName(_)
\* name(argument, ...) as a sequence of words.
DatabricksFunctionName(expr) ==
    LET Argument(i) == (IF i = 1 THEN <<>> ELSE <<", ">>) \o DatabricksExprName(expr.args[i])
    IN <<LowerChar(expr.op), "(">>
       \o (IF expr.form = "distinct" THEN <<"DISTINCT ">> ELSE <<>>)
       \o FlattenSeq([i \in DOMAIN expr.args |-> Argument(i)]) \o <<")">>

DatabricksExprName(expr) ==
    CASE expr.is = "column" -> <<expr.op>>
      [] expr.is = "wildcard" -> <<"*">>
      [] expr.is = "value" -> <<expr.of>>
      [] expr.is = "binary" -> <<"(">> \o DatabricksExprName(expr.args[1]) \o <<expr.op>>
                               \o DatabricksExprName(expr.args[2]) \o <<")">>
      [] expr.is = "nested" -> <<"(">> \o DatabricksExprName(expr.args[1]) \o <<")">>
      [] expr.is = "unary" -> <<expr.op>> \o DatabricksExprName(expr.args[1])
      [] expr.is = "function" /\ expr.form # "windowed" -> DatabricksFunctionName(expr)
      [] OTHER -> <<expr>>

RECURSIVE Unnested(_)
Unnested(expr) == IF expr.is = "nested" THEN Unnested(expr.args[1]) ELSE expr

DatabricksProjectionAlias(expr) ==
    LET inner == Unnested(expr)
    IN CASE CountStarAlias /\ IsCountWildcard(inner) -> <<"count(1)">>
         [] ~(CountStarAlias /\ IsCountWildcard(inner)) /\ ExpressionAlias
            /\ inner.is \in {"function", "binary", "value"} -> DatabricksExprName(expr)
         [] OTHER -> None

-----------------------------------------------------------------------------
(* Statements *)

Item(expr, alias) == [is |-> "item", expr |-> expr, alias |-> alias]
EveryColumn == [is |-> "wildcard"]
\* The clauses of a SELECT that are rewritten, and what its FROM evaluates.
Clauses == {"selection", "prewhere", "group_by", "cluster_by", "distribute_by", "sort_by",
            "having", "qualify"}
Select(projection, clauses, from) ==
    [is |-> "select", projection |-> projection, clauses |-> clauses, from |-> from]
Query(with, body, order_by) == [is |-> "query", with |-> with, body |-> body, order_by |-> order_by]

Named(item, expr, alias) ==
    IF item.alias = None /\ alias # None THEN Now(Item(expr.of, alias))
    ELSE [changed |-> expr.changed, of |-> Item(expr.of, item.alias)]
NamedItem(item, expr) == Named(item, expr, DatabricksProjectionAlias(expr.of))
RewriteItem(item) ==
    IF item.is = "wildcard" THEN Same(item) ELSE NamedItem(item, RewriteExpr(item.expr))

RewriteExprs(exprs) == Gather(Vector([i \in DOMAIN exprs |-> RewriteExpr(exprs[i])]))

SelectParts(projection, clauses, from) ==
    [changed |-> projection.changed \/ clauses.changed, of |-> Select(projection.of, clauses.of, from)]
RewriteSelect(select) ==
    SelectParts(Gather(Vector([i \in DOMAIN select.projection |-> RewriteItem(select.projection[i])])),
                Gather([c \in Clauses |-> RewriteExprs(select.clauses[c])]), select.from)

RewriteQueryParts(with, body, order_by) ==
    [changed |-> with.changed \/ body.changed \/ order_by.changed,
     of |-> Query(with.of, body.of, order_by.of)]

RECURSIVE RewriteSetExpr(_)
RewriteQuery(query) ==
    RewriteQueryParts(Gather(Vector([i \in DOMAIN query.with |-> RewriteSetExpr(query.with[i])])),
                      RewriteSetExpr(query.body), RewriteExprs(query.order_by))

OperandsOf(body, done) == [changed |-> done.changed, of |-> [body EXCEPT !.operands = done.of]]

\* A SELECT, a query in parentheses, or a set operation of two of them.
RewriteSetExpr(body) ==
    CASE body.is = "select" -> RewriteSelect(body)
      [] body.is = "query" -> RewriteQuery(body)
      [] body.is = "set_operation" ->
           OperandsOf(body, Gather(Vector([i \in 1..2 |-> RewriteSetExpr(body.operands[i])])))
      [] OTHER -> Same(body)

StatementOf(explain, done) == [changed |-> done.changed, of |-> [explain EXCEPT !.of = done.of]]

RECURSIVE RewriteStatement(_)
RewriteStatement(statement) ==
    CASE statement.is = "query" -> RewriteQuery(statement)
      [] statement.is = "explain" -> StatementOf(statement, RewriteStatement(statement.of))
      [] OTHER -> Same(statement)

\* rewrite_sql_fast_paths_with_options: a text that does not parse, that holds
\* several statements, or in which nothing changes stays as it is.
TextOf(text, done) == IF done.changed THEN [text EXCEPT !.statements = <<done.of>>] ELSE text
RewriteSql(text) ==
    IF ~text.parses \/ Len(text.statements) # 1 THEN text
    ELSE TextOf(text, RewriteStatement(Head(text.statements)))

-----------------------------------------------------------------------------
(* The functions of src/udf.rs *)

UnitsPerSecond == [second |-> 1, millisecond |-> 1000]

ExtractTimestampMinute(ticks, units) == (((ticks \div units) % 3600) \div 60)

\* The regex crate, of an expression with characters and one group.
Captures(pattern, value) ==
    LET literal == SelectSeq(pattern, LAMBDA c : c \notin {"(", ")"})
        at == {i \in 0..(Len(value) - Len(literal)) : SubSeq(value, i + 1, i + Len(literal)) = literal}
        opens == {i \in DOMAIN pattern : pattern[i] = "("}
        closes == {i \in DOMAIN pattern : pattern[i] = ")"}
        groups == IF opens = {} THEN <<literal>>
                  ELSE <<literal, SubSeq(pattern, Min(opens) + 1, Min(closes) - 1)>>
    IN IF at = {} THEN None
       ELSE [start |-> Min(at), end |-> Min(at) + Len(literal), groups |-> groups]

\* The first match replaced by one of its groups, by nothing if it has no such group.
ReplaceCapture(value, pattern, index) ==
    LET found == Captures(pattern, value)
        group == IF index + 1 \in DOMAIN found.groups THEN found.groups[index + 1] ELSE <<>>
    IN IF found = None THEN value
       ELSE SubSeq(value, 1, found.start) \o group \o SubSeq(value, found.end + 1, Len(value))
=============================================================================
