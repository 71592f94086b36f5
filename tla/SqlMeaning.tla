----------------------------- MODULE SqlMeaning ------------------------------
(***************************************************************************)
(* What expressions and statements mean, the reference of the rewrites:    *)
(* if, get and element_at as Databricks defines them, everything else as   *)
(* DataFusion evaluates it.  A row is a function from column names to      *)
(* values; NULL is None.                                                   *)
(***************************************************************************)
EXTENDS SqlRewrites

DatabricksOnly == {"if", "get", "element_at"}

\* SQL's logic: NULL if an operand is.
Strict(args, value) == IF \E i \in DOMAIN args : args[i] = None THEN None ELSE value

Conjunction(p, q) ==
    IF p = FALSE \/ q = FALSE THEN FALSE ELSE IF p = None \/ q = None THEN None ELSE TRUE

At(array, i) == IF i \in DOMAIN array THEN array[i] ELSE None

\* LIKE's pattern as an expression for IsMatch.
LikeRegex(pattern) ==
    [i \in DOMAIN pattern |-> CASE pattern[i] = "%" -> ManyChars
                                [] pattern[i] = "_" -> OneChar
                                [] OTHER -> pattern[i]]

HoldsText(text, needle) ==
    \E i \in 0..(Len(text) - Len(needle)) : SubSeq(text, i + 1, i + Len(needle)) = needle

\* The minute within its hour of a moment given in units since the epoch.
MinuteOf(at) ==
    CHOOSE m \in 0..59 : \E hour \in -2..2 :
      LET begins == (hour * 60 + m) * 60 * UnitsPerSecond[at.unit]
      IN at.ticks >= begins /\ at.ticks < begins + 60 * UnitsPerSecond[at.unit]

\* A reference $n, \n or ${n} stands for a group, anything else for itself.
Expanded(replacement, groups) ==
    LET refers(n) == \E d \in DOMAIN Digit : Digit[d] = n /\
                       replacement \in {<<"$", d>>, <<"\\", d>>, <<"$", "{", d, "}">>}
    IN IF \E n \in 0..2 : refers(n)
       THEN LET n == CHOOSE n \in 0..2 : refers(n)
            IN IF n + 1 \in DOMAIN groups THEN groups[n + 1] ELSE <<>>
       ELSE replacement

RegexpReplace(value, pattern, replacement) ==
    LET found == Captures(pattern, value)
    IN IF found = None THEN value
       ELSE SubSeq(value, 1, found.start) \o Expanded(replacement, found.groups)
            \o SubSeq(value, found.end + 1, Len(value))

Applied(name, args) ==
    CASE name = "if" -> IF args[1] = TRUE THEN args[2] ELSE args[3]
      [] name = "get" -> Strict(args, At(args[1], args[2] + 1))
      [] name = "element_at" ->
           Strict(args, IF args[2] \in DOMAIN args[1] THEN args[1][args[2]] ELSE None)
      [] name = "array_element" ->
           Strict(args, IF args[2] >= 0 THEN At(args[1], args[2])
                        ELSE At(args[1], Len(args[1]) + 1 + args[2]))
      [] name = "map_extract" ->
           Strict(args, <<IF args[2] \in DOMAIN args[1] THEN args[1][args[2]] ELSE None>>)
      [] name = "contains" -> Strict(args, HoldsText(args[1], args[2]))
      [] name = "regexp_replace" -> Strict(args, RegexpReplace(args[1], args[2], args[3]))
      [] name = "harborsql_regexp_replace_capture" ->
           Strict(args, ReplaceCapture(args[1], args[2], args[3]))
      [] name = "harborsql_extract_minute" ->
           Strict(args, ExtractTimestampMinute(args[1].ticks, UnitsPerSecond[args[1].unit]))
      [] name = "count" -> 1

RECURSIVE Eval(_, _)
Access(value, access, row) ==
    IF value = None THEN None
    ELSE IF access.is = "dot" THEN value[<<access.args[1].op>>]
    ELSE LET key == Eval(access.args[1], row)
         IN IF key \in DOMAIN value THEN value[key] ELSE None

Eval(expr, row) ==
    LET args == Vector([i \in DOMAIN expr.args |-> Eval(expr.args[i], row)])
    IN CASE expr.is = "column" -> row[expr.op]
         [] expr.is = "wildcard" -> None
         [] expr.is = "value" -> expr.of
         [] expr.is \in {"nested", "cast"} -> args[1]
         [] expr.is = "case" -> IF args[1] = TRUE THEN args[2] ELSE args[3]
         [] expr.is = "unary" ->
              (CASE expr.op = "not" -> Strict(args, ~args[1])
                 [] expr.op = "-" -> Strict(args, -args[1])
                 [] expr.op = "is null" -> args[1] = None)
         [] expr.is = "binary" ->
              (CASE expr.op = "and" -> Conjunction(args[1], args[2])
                 [] expr.op = "+" -> Strict(args, args[1] + args[2])
                 [] expr.op = "<" -> Strict(args, args[1] < args[2])
                 [] expr.op = "=" -> Strict(args, args[1] = args[2]))
         [] expr.is = "like" ->
              LET like == IsMatch(LikeRegex(expr.pattern.of), args[1])
              IN Strict(args, IF expr.op = "like" THEN like ELSE ~like)
         [] expr.is = "extract" -> Strict(args, MinuteOf(args[1]))
         [] expr.is = "access" ->
              FoldLeft(LAMBDA value, access : Access(value, access, row), args[1], expr.chain)
         [] expr.is = "function" -> Applied(LowerChar(expr.op), args)

Parts(expr) ==
    expr.args \o IF expr.is = "access" THEN FlattenSeq([i \in DOMAIN expr.chain |-> expr.chain[i].args])
                 ELSE <<>>

RECURSIVE IsDataFusion(_)
\* DataFusion can evaluate it: no function of Databricks', no dot behind a function.
IsDataFusion(expr) ==
    /\ expr.is = "function" => LowerChar(expr.op) \notin DatabricksOnly
    /\ expr.is = "access" /\ expr.args[1].is = "function" =>
         \A i \in DOMAIN expr.chain : expr.chain[i].is # "dot"
    /\ \A i \in DOMAIN Parts(expr) : IsDataFusion(Parts(expr)[i])

RECURSIVE IsReached(_)
\* The functions of Databricks' in it are plain calls where they are looked for:
\* not within CASE, CAST, LIKE or EXTRACT.
IsReached(expr) ==
    CASE expr.is = "function" ->
           /\ LowerChar(expr.op) \in DatabricksOnly =>
                IsCall(expr, LowerChar(expr.op), IF LowerChar(expr.op) = "if" THEN 3 ELSE 2)
           /\ \A i \in DOMAIN expr.args : IsReached(expr.args[i])
      [] expr.is \in {"case", "cast", "like", "extract"} -> IsDataFusion(expr)
      [] OTHER -> \A i \in DOMAIN Parts(expr) : IsReached(Parts(expr)[i])

SameExpr(was, is, rows) ==
    /\ IsReached(was) => IsDataFusion(is)
    /\ \A i \in DOMAIN rows : Eval(was, rows[i]) = Eval(is, rows[i])

SameExprs(was, is, rows) ==
    DOMAIN was = DOMAIN is /\ \A i \in DOMAIN was : SameExpr(was[i], is[i], rows)

\* An alias is kept; what had none may get one.
SameItem(was, is, rows) ==
    IF was.is = "wildcard" THEN is = was
    ELSE /\ is.is = "item" /\ was.alias \in {None, is.alias}
         /\ was.expr.is = "column" => is = was
         /\ SameExpr(was.expr, is.expr, rows)

RECURSIVE SameQuery(_, _, _)
SameQuery(was, is, rows) ==
    /\ was.is = is.is
    /\ CASE was.is = "select" ->
              /\ was.from = is.from /\ Len(was.projection) = Len(is.projection)
              /\ \A i \in DOMAIN was.projection :
                    SameItem(was.projection[i], is.projection[i], rows)
              /\ \A c \in Clauses : SameExprs(was.clauses[c], is.clauses[c], rows)
         [] was.is = "query" ->
              /\ Len(was.with) = Len(is.with) /\ SameExprs(was.order_by, is.order_by, rows)
              /\ \A i \in DOMAIN was.with : SameQuery(was.with[i], is.with[i], rows)
              /\ SameQuery(was.body, is.body, rows)
         [] was.is = "set_operation" ->
              \A i \in 1..2 : SameQuery(was.operands[i], is.operands[i], rows)
         [] was.is = "explain" -> SameQuery(was.of, is.of, rows)
         [] OTHER -> was = is
=============================================================================
