------------------------------- MODULE KExpr -------------------------------
(* tools/kconfig/expr.c: the expressions of Kconfig dependencies and the      *)
(* rewritings that menu_finalize applies to them.  A symbol is the name of a  *)
(* boolean or tristate symbol or of one of the constants y, m and n; the      *)
(* three values are 0 (n), 1 (m) and 2 (y).  The NULL expression is None.     *)
EXTENDS Integers, Sequences, SequencesExt

CONSTANTS Bools, Tristates  \* the symbols of type S_BOOLEAN and S_TRISTATE

Consts == {"y", "m", "n"}
Relations == {"EQUAL", "UNEQUAL", "LTH", "LEQ", "GTH", "GEQ"}
None == [t |-> "NONE"]

EXPR_OR(a, b) == IF a > b THEN a ELSE b
EXPR_AND(a, b) == IF a < b THEN a ELSE b
EXPR_NOT(a) == 2 - a

expr_alloc_symbol(s) == [t |-> "SYMBOL", s |-> s]
expr_alloc_one(t, e) == [t |-> t, l |-> e]
expr_alloc_two(t, e, f) == [t |-> t, l |-> e, r |-> f]
expr_alloc_comp(t, s, c) == [t |-> t, s |-> s, c |-> c]
Yes == expr_alloc_symbol("y")
No == expr_alloc_symbol("n")
expr_is_yes(e) == e = None \/ e = Yes

----------------------------------------------------------------------------
\* What an expression is worth; val gives the symbols' values.  A comparison
\* compares the names of the values, "m" < "n" < "y": a constant has no type,
\* so that expr_parse_string leaves both sides strings.
Rank(v) == <<1, 0, 2>>[v + 1]
Worth(s, val) == CASE s = "y" -> 2 [] s = "m" -> 1 [] s = "n" -> 0 [] OTHER -> val[s]

RECURSIVE expr_calc_value(_, _)
expr_calc_value(e, val) ==
  IF e = None THEN 2
  ELSE CASE e.t = "SYMBOL" -> Worth(e.s, val)
         [] e.t = "AND" -> EXPR_AND(expr_calc_value(e.l, val), expr_calc_value(e.r, val))
         [] e.t = "OR" -> EXPR_OR(expr_calc_value(e.l, val), expr_calc_value(e.r, val))
         [] e.t = "NOT" -> EXPR_NOT(expr_calc_value(e.l, val))
         [] OTHER -> LET a == Rank(Worth(e.s, val))  b == Rank(Worth(e.c, val))
                     IN  IF CASE e.t = "EQUAL" -> a = b [] e.t = "UNEQUAL" -> a # b
                              [] e.t = "GEQ" -> a >= b [] e.t = "GTH" -> a > b
                              [] e.t = "LEQ" -> a <= b [] e.t = "LTH" -> a < b
                         THEN 2 ELSE 0

----------------------------------------------------------------------------
\* A tree of one operator is handled as the sequence of its operands, left to
\* right; WithLeaves puts operands back into the same tree.
RECURSIVE Leaves(_, _)
Leaves(t, e) == IF e.t = t THEN Leaves(t, e.l) \o Leaves(t, e.r) ELSE <<e>>
RECURSIVE WithLeaves(_, _, _)
WithLeaves(t, e, ls) ==
  IF e.t = t THEN LET n == Len(Leaves(t, e.l))
                  IN  expr_alloc_two(t, WithLeaves(t, e.l, SubSeq(ls, 1, n)), WithLeaves(t, e.r, SubSeq(ls, n + 1, Len(ls))))
  ELSE ls[1]
\* A loop that calls F for each member of a sequence in turn.
Each(F(_, _), x, seq) == FoldLeft(LAMBDA a, k : CHOOSE y \in {F(b, k) : b \in {a}} : TRUE, x, seq)
Neutral(t) == IF t = "OR" THEN No ELSE Yes  \* what an operand that is not needed becomes

RECURSIVE expr_eliminate_yn(_)
expr_eliminate_yn(e) ==
  IF e = None \/ e.t \notin {"AND", "OR"} THEN e
  ELSE LET l == expr_eliminate_yn(e.l)
           r == expr_eliminate_yn(e.r)
           unit == Neutral(e.t)
           zero == IF e.t = "OR" THEN Yes ELSE No
       IN  CASE l = zero -> zero [] l = unit -> r
             [] l \notin {zero, unit} /\ r = zero -> zero [] l \notin {zero, unit} /\ r = unit -> l
             [] OTHER -> expr_alloc_two(e.t, l, r)

\* expr_eq and the elimination of the operands that two expressions share,
\* which compares every operand of one with every operand of the other.
RECURSIVE expr_eq(_, _)
RECURSIVE expr_eliminate_eq(_, _)
expr_eliminate_eq1(t, e, f) ==
  LET m == Len(Leaves(t, f))
      pair(st, k) == LET i == ((k - 1) \div m) + 1
                         j == ((k - 1) % m) + 1
                     IN  IF ~ (st[1][i] = st[2][j] /\ st[1][i] \in {Yes, No}) /\ expr_eq(st[1][i], st[2][j])
                         THEN <<[st[1] EXCEPT ![i] = Neutral(t)], [st[2] EXCEPT ![j] = Neutral(t)]>>
                         ELSE st
      end == Each(pair, <<Leaves(t, e), Leaves(t, f)>>, [k \in 1 .. Len(Leaves(t, e)) * m |-> k])
  IN  [i \in 1 .. 2 |-> WithLeaves(t, <<e, f>>[i], end[i])]
expr_eliminate_eq(e, f) ==
  IF e = None \/ f = None THEN <<e, f>>
  ELSE LET pass(p, i) == IF p[i].t \in {"AND", "OR"} /\ (i = 1 \/ p[1].t # p[2].t)
                         THEN expr_eliminate_eq1(p[i].t, p[1], p[2]) ELSE p
           end == Each(pass, <<e, f>>, <<1, 2>>)
       IN  [i \in 1 .. 2 |-> expr_eliminate_yn(end[i])]
Symbols == {expr_alloc_symbol(s) : s \in Consts \cup Bools \cup Tristates}
expr_eq(e, f) ==
  IF e = None \/ f = None THEN expr_is_yes(e) /\ expr_is_yes(f)
  ELSE /\ e.t = f.t
       /\ CASE e.t = "NOT" -> expr_eq(e.l, f.l)
            [] e.t \in {"AND", "OR"} -> expr_eliminate_eq(e, f) \in {<<x, x>> : x \in Symbols}
            [] OTHER -> e = f

----------------------------------------------------------------------------
\* Two operands that one can replace; None when there is none.
Simple == {"EQUAL", "UNEQUAL", "SYMBOL", "NOT"}
LeftSym(e, inner) == IF e.t = "NOT" THEN IF e.l.t \in inner THEN e.l.s ELSE "" ELSE e.s
Joinable(e, f) ==
  /\ e.t \in Simple /\ f.t \in Simple
  /\ LeftSym(e, {"EQUAL", "UNEQUAL", "SYMBOL"}) = LeftSym(f, {"SYMBOL"})
  /\ LeftSym(f, {"SYMBOL"}) \in Bools \cup Tristates
Is(e, t, c) == e.t = t /\ e.c = c
\* One of the two is the one, the other the other.
Both(e, f, t, a, b) == (Is(e, t, a) /\ Is(f, t, b)) \/ (Is(e, t, b) /\ Is(f, t, a))
OneSym(e, f, t, c) == (e.t = "SYMBOL" /\ Is(f, t, c)) \/ (f.t = "SYMBOL" /\ Is(e, t, c))

expr_join_or(e, f) ==
  LET s == LeftSym(f, {"SYMBOL"})
  IN  IF expr_eq(e, f) THEN e
      ELSE IF ~ Joinable(e, f) THEN None
      ELSE IF s \in Tristates THEN
             CASE Both(e, f, "EQUAL", "y", "m") -> expr_alloc_comp("UNEQUAL", s, "n")
               [] Both(e, f, "EQUAL", "y", "n") -> expr_alloc_comp("UNEQUAL", s, "m")
               [] Both(e, f, "EQUAL", "m", "n") -> expr_alloc_comp("UNEQUAL", s, "y")
               [] OTHER -> None
      ELSE IF \/ e.t = "NOT" /\ e.l.t = "SYMBOL" /\ f.t = "SYMBOL"
              \/ f.t = "NOT" /\ e.t = "SYMBOL"
           THEN Yes ELSE None
expr_join_and(e, f) ==
  LET s == LeftSym(f, {"SYMBOL"})
      Clash(p, q) == IF p.c = q.c THEN No ELSE expr_alloc_comp("EQUAL", s, p.c)
  IN  IF expr_eq(e, f) THEN e
      ELSE IF ~ Joinable(e, f) THEN None
      ELSE CASE OneSym(e, f, "EQUAL", "y") -> expr_alloc_comp("EQUAL", s, "y")
             [] OneSym(e, f, "UNEQUAL", "n") -> expr_alloc_symbol(s)
             [] OneSym(e, f, "UNEQUAL", "m") -> expr_alloc_comp("EQUAL", s, "y")
             [] s \in Tristates /\ e.t = "EQUAL" /\ f.t = "UNEQUAL" /\ {e.c, f.c} \subseteq Consts -> Clash(e, f)
             [] s \in Tristates /\ e.t = "UNEQUAL" /\ f.t = "EQUAL" /\ {e.c, f.c} \subseteq Consts -> Clash(f, e)
             [] s \in Tristates /\ Both(e, f, "UNEQUAL", "y", "n") -> expr_alloc_comp("EQUAL", s, "m")
             [] s \in Tristates /\ Both(e, f, "UNEQUAL", "y", "m") -> expr_alloc_comp("EQUAL", s, "n")
             [] s \in Tristates /\ Both(e, f, "UNEQUAL", "m", "n") -> expr_alloc_comp("EQUAL", s, "y")
             [] OTHER -> None

\* One pass over all ordered pairs of different operands: <<tree, trans_count>>.
RECURSIVE expr_eliminate_dups1(_)
expr_eliminate_dups1(e) ==
  LET t == e.t
      n == Len(Leaves(t, e))
      pair(st, k) == LET i == ((k - 1) \div n) + 1
                         j == ((k - 1) % n) + 1
                         own == st[1][i]
                         sub == IF own.t \in {"AND", "OR"} THEN expr_eliminate_dups1(own) ELSE <<own, 0>>
                         tmp == IF t = "OR" THEN expr_join_or(sub[1], st[1][j]) ELSE expr_join_and(sub[1], st[1][j])
                     IN  IF i = j THEN st
                         ELSE IF tmp = None THEN <<[st[1] EXCEPT ![i] = sub[1]], st[2] + sub[2]>>
                         ELSE <<[st[1] EXCEPT ![i] = Neutral(t), ![j] = tmp], st[2] + sub[2] + 1>>
      end == Each(pair, <<Leaves(t, e), 0>>, [k \in 1 .. n * n |-> k])
  IN  <<WithLeaves(t, e, end[1]), end[2]>>
RECURSIVE expr_eliminate_dups(_)
expr_eliminate_dups(e) ==
  IF e = None \/ e.t \notin {"AND", "OR"} THEN e
  ELSE LET p == expr_eliminate_dups1(e)
       IN  IF p[2] = 0 THEN p[1] ELSE expr_eliminate_dups(expr_eliminate_yn(p[1]))

----------------------------------------------------------------------------
\* FOO != n becomes FOO for a tristate.
RECURSIVE expr_trans_bool(_)
expr_trans_bool(e) ==
  CASE e.t \in {"AND", "OR"} -> expr_alloc_two(e.t, expr_trans_bool(e.l), expr_trans_bool(e.r))
    [] e.t = "NOT" -> expr_alloc_one("NOT", expr_trans_bool(e.l))
    [] e.t = "UNEQUAL" /\ e.s \in Tristates /\ e.c = "n" -> expr_alloc_symbol(e.s)
    [] OTHER -> e

\* A comparison of a boolean with a constant, as a boolean expression.
TransformComparison(e) ==
  IF e.s \notin Bools THEN e
  ELSE CASE (e.t = "EQUAL" /\ e.c = "n") \/ (e.t = "UNEQUAL" /\ e.c = "y") -> expr_alloc_one("NOT", expr_alloc_symbol(e.s))
         [] (e.t = "EQUAL" /\ e.c = "y") \/ (e.t = "UNEQUAL" /\ e.c = "n") -> expr_alloc_symbol(e.s)
         [] e.c = "m" -> IF e.t = "EQUAL" THEN No ELSE Yes
         [] OTHER -> e
Opposite == [EQUAL |-> "UNEQUAL", UNEQUAL |-> "EQUAL", LEQ |-> "GTH", GEQ |-> "LTH", LTH |-> "GEQ", GTH |-> "LEQ"]
\* The operand l of a negation; Again tells what expr_transform is called on.
Done(e) == <<e, FALSE>>
Again(e) == <<e, TRUE>>
TransformNot(l) ==
  CASE l.t = "NOT" -> Again(l.l)
    [] l.t \in Relations -> Done([l EXCEPT !.t = Opposite[l.t]])
    [] l.t \in {"OR", "AND"} -> Again(expr_alloc_two(IF l.t = "OR" THEN "AND" ELSE "OR",
                                                      expr_alloc_one("NOT", l.l), expr_alloc_one("NOT", l.r)))
    [] l.t = "SYMBOL" -> Done(CASE l.s = "y" -> No [] l.s = "m" -> l [] l.s = "n" -> Yes
                                [] OTHER -> expr_alloc_one("NOT", l))
RECURSIVE expr_transform(_)
expr_transform(e) ==
  CASE e.t \in {"AND", "OR"} -> expr_alloc_two(e.t, expr_transform(e.l), expr_transform(e.r))
    [] e.t \in {"EQUAL", "UNEQUAL"} -> TransformComparison(e)
    [] e.t = "NOT" -> LET p == TransformNot(expr_transform(e.l)) IN IF p[2] THEN expr_transform(p[1]) ELSE p[1]
    [] OTHER -> e

RECURSIVE expr_contains_symbol(_, _)
expr_contains_symbol(e, s) ==
  CASE e = None -> FALSE
    [] e.t \in {"AND", "OR"} -> expr_contains_symbol(e.l, s) \/ expr_contains_symbol(e.r, s)
    [] e.t = "NOT" -> expr_contains_symbol(e.l, s)
    [] e.t = "SYMBOL" -> e.s = s
    [] e.t \in Relations -> s \in {e.s, e.c}

RECURSIVE expr_depends_symbol(_, _)
expr_depends_symbol(e, s) ==
  CASE e.t = "AND" -> expr_depends_symbol(e.l, s) \/ expr_depends_symbol(e.r, s)
    [] e.t = "SYMBOL" -> e.s = s
    [] e.t = "EQUAL" -> e.s = s /\ e.c \in {"y", "m"}
    [] e.t = "UNEQUAL" -> e.s = s /\ e.c = "n"
    [] OTHER -> FALSE

\* The test "e = c" (or "e # c") as an expression, for c one of y and n.
Negated(t, e) == IF t = "UNEQUAL" THEN expr_alloc_one("NOT", e) ELSE e
RECURSIVE expr_trans_compare(_, _, _)
expr_trans_compare(e, t, c) ==
  CASE e = None -> Negated(t, expr_alloc_symbol(c))
    [] e.t \in {"AND", "OR"} -> Negated(t, expr_alloc_two(IF c = "y" THEN e.t ELSE IF e.t = "AND" THEN "OR" ELSE "AND",
                                                           expr_trans_compare(e.l, "EQUAL", c), expr_trans_compare(e.r, "EQUAL", c)))
    [] e.t = "NOT" -> expr_trans_compare(e.l, IF t = "EQUAL" THEN "UNEQUAL" ELSE "EQUAL", c)
    [] e.t \in Relations -> IF (t = "EQUAL") = (c = "y") THEN e ELSE expr_alloc_one("NOT", e)
    [] e.t = "SYMBOL" -> expr_alloc_comp(t, e.s, c)

----------------------------------------------------------------------------
\* Printing: the tokens, with the parentheses expr_compare_type asks for.
Order(t) == CASE t \in {"LEQ", "LTH", "GEQ", "GTH"} -> 1 [] t \in {"EQUAL", "UNEQUAL"} -> 2
              [] t = "NOT" -> 3 [] t = "AND" -> 4 [] t = "OR" -> 5 [] OTHER -> 6
expr_compare_type(t, u) == Order(t) < Order(u) /\ Order(t) < 6 /\ Order(u) < 6 /\ Order(u) > 1
RECURSIVE expr_print(_, _)
expr_print(e, prev) ==
  IF e = None THEN <<"y">>
  ELSE LET body == CASE e.t = "SYMBOL" -> <<e.s>>
                     [] e.t = "NOT" -> <<"!">> \o expr_print(e.l, "NOT")
                     [] e.t \in Relations -> <<e.s, e.t, e.c>>
                     [] OTHER -> expr_print(e.l, e.t) \o <<e.t>> \o expr_print(e.r, e.t)
       IN  IF expr_compare_type(prev, e.t) THEN <<"(">> \o body \o <<")">> ELSE body

\* The grammar's reading (parser.y: || binds weakest, then &&, then !):
\* <<expression, tokens left>>.
RECURSIVE Parse(_, _)
RECURSIVE ParseMore(_, _)
ParseMore(p, level) ==
  LET t == <<"OR", "AND">>[level]
  IN  IF p[2] = <<>> \/ Head(p[2]) # t THEN p
      ELSE LET q == Parse(Tail(p[2]), level + 1) IN ParseMore(<<expr_alloc_two(t, p[1], q[1]), q[2]>>, level)
Parse(ts, level) ==
  IF level < 3 THEN ParseMore(Parse(ts, level + 1), level)
  ELSE CASE Head(ts) = "!" -> LET p == Parse(Tail(ts), 3) IN <<expr_alloc_one("NOT", p[1]), p[2]>>
         [] Head(ts) = "(" -> LET p == Parse(Tail(ts), 1) IN <<p[1], Tail(p[2])>>
         [] Len(ts) > 2 /\ ts[2] \in Relations -> <<expr_alloc_comp(ts[2], ts[1], ts[3]), SubSeq(ts, 4, Len(ts))>>
         [] OTHER -> <<expr_alloc_symbol(Head(ts)), Tail(ts)>>

----------------------------------------------------------------------------
\* Inputs: an operator over two smaller expressions, built in two steps.
CONSTANTS Leaf, Leaf2  \* the leaves of the larger and of the smaller operand
VARIABLES e, f
vars == <<e, f>>
Pairs(S, T) == {expr_alloc_two(t, a, b) : t \in {"AND", "OR"}, a \in S, b \in T}
Nots(S) == {expr_alloc_one("NOT", a) : a \in S}
Init == e = None /\ f = None
PickFirst == f = None /\ f' \in Leaf \cup Nots(Leaf) \cup Pairs(Leaf, Leaf) /\ e' = e
PickSecond == f # None /\ e = None /\ e' \in Leaf \cup Nots(Leaf) \cup Pairs(Leaf2, Leaf2) /\ f' = f
Next == PickFirst \/ PickSecond
Spec == Init /\ [][Next]_vars

Built == IF f = None THEN {} ELSE IF e = None THEN {f, expr_alloc_one("NOT", f)}
         ELSE Pairs({f}, {e}) \cup Nots(Pairs({f}, {e}))
Assignments == {b @@ t : b \in [Bools -> {0, 2}], t \in [Tristates -> 0 .. 2]}
Same(a, b) == \A v \in Assignments : expr_calc_value(a, v) = expr_calc_value(b, v)

\* The simplifications menu_finalize runs a dependency through, expr_transform
\* and then expr_eliminate_dups (menu.c:356-359), never change what it is worth
\* under any values of the symbols.
SimplifiesKeep ==
  \A x \in Built : \A y \in {expr_transform(x)} : \A z \in {expr_eliminate_dups(y)} : Same(z, x)

\* Expressions that expr_eq calls equal are worth the same everywhere; the
\* operands expr_eliminate_eq removes were common: the smaller remains imply
\* nothing new (equal remains come from equal expressions).
EqualMeansEqual == e # None => /\ expr_eq(e, f) => Same(e, f)
                               /\ \A p \in {expr_eliminate_eq(e, f)} : Same(p[1], p[2]) /\ e.t = f.t => Same(e, f)

\* An entry that expr_depends_symbol puts below a symbol is not available when
\* the symbol is n, and one that does not contain the symbol does not depend
\* on its value (menu.c:469-478).
DependsMeansNo ==
  \A x \in Built, s \in Bools \cup Tristates :
     /\ expr_depends_symbol(x, s) => \A v \in Assignments : v[s] = 0 => expr_calc_value(x, v) = 0
     /\ ~ expr_contains_symbol(x, s) => \A v, w \in Assignments :
          (\A r \in (Bools \cup Tristates) \ {s} : v[r] = w[r]) => expr_calc_value(x, v) = expr_calc_value(x, w)

\* The comparison expr_trans_compare writes out is y exactly when the expression
\* has (has not) the value, where no symbol is m: of a negated tristate it asks
\* the opposite comparison, which is another question at m.  expr_trans_bool
\* keeps whether an expression is n.
ComparesAsAsked ==
  \A x \in Built :
     /\ \A t \in {"EQUAL", "UNEQUAL"}, c \in {"y", "n"}, v \in [Bools \cup Tristates -> {0, 2}] :
          ~ expr_contains_symbol(x, "m") =>
            (expr_calc_value(expr_trans_compare(x, t, c), v) = 2) = ((expr_calc_value(x, v) = Worth(c, v)) = (t = "EQUAL"))
     /\ \A v \in [Bools \cup Tristates -> {0, 2}] :
          ~ expr_contains_symbol(x, "m") => expr_calc_value(expr_trans_bool(x), v) = expr_calc_value(x, v)

\* What expr_print shows of an expression, read by the grammar, is worth what
\* the expression is worth: expr_compare_type puts every parenthesis needed.
PrintsBack == \A x \in Built : Same(Parse(expr_print(x, "NONE"), 1)[1], x)
=============================================================================
