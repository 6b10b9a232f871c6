-------------------------------- MODULE Expr --------------------------------
\* Expressions of the monitor (utils/expr.c): the tokens are classified, split
\* at the operator that binds least and evaluated on words of W bits.  The
\* inputs grow the way tools/gen-expr/gen-expr.c grows them, with the value
\* that C gives them kept alongside.
EXTENDS Integers, Sequences, SequencesExt

CONSTANTS
  W,          \* width of a word
  Nums,       \* numbers and register values the user writes
  MaxTokens   \* bound: length of an expression

VARIABLE in   \* [toks, val, prec, unmatched, zero]: an expression and what C says of it

Words == 0 .. 2^W - 1
Truth(b) == IF b THEN 1 ELSE 0
Load(a) == (2^W - 1) - a       \* vaddr_read_safe: some contents of the memory
Crash == -1                    \* the host divides by zero
Bad == -2                      \* *success = false

-----------------------------------------------------------------------------
\* Numbers and registers are tokens >= 0; an operator is its text.
Num(n) == <<"num", n>>
Op(o) == <<o, 0>>
IsOperand(tk) == tk[1] \in {"num", "$"}

op_prec_flat(t) ==
  CASE t \in {"!", "NEG", "REF"} -> 0 [] t \in {"*", "/", "%", "+", "-"} -> 1
    [] t \in {"==", "!="} -> 4 [] t = "&&" -> 8 [] t = "||" -> 9
op_prec(t) ==
  CASE t \in {"!", "NEG", "REF"} -> 0 [] t \in {"*", "/", "%"} -> 1 [] t \in {"+", "-"} -> 2
    [] t \in {"==", "!="} -> 4 [] t = "&&" -> 8 [] t = "||" -> 9

\* expr(): - and * are prefix operators unless an operand precedes them.
Classify(tokens) ==
  [i \in 1 .. Len(tokens) |->
     IF tokens[i][1] \in {"-", "*"} /\ (i = 1 \/ ~ (IsOperand(tokens[i - 1]) \/ tokens[i - 1][1] = ")"))
     THEN Op(IF tokens[i][1] = "-" THEN "NEG" ELSE "REF")
     ELSE tokens[i]]

Prefix == {"!", "NEG", "REF"}

\* The level of brackets before token i, from s.
Level(tokens, s, i) ==
  Len(SelectSeq(SubSeq(tokens, s, i), LAMBDA tk : tk[1] = "("))
  - Len(SelectSeq(SubSeq(tokens, s, i), LAMBDA tk : tk[1] = ")"))

\* -1 when there is none, or a bracket is closed that was not opened.
find_dominated_op(tokens, s, e) ==
  LET ops == {i \in s .. e : ~ IsOperand(tokens[i]) /\ tokens[i][1] \notin {"(", ")"} /\ Level(tokens, s, i) = 0}
      p(i) == op_prec(tokens[i][1])
      least == {i \in ops : \A j \in ops : p(j) <= p(i)}
  IN  IF ops = {} \/ \E i \in s .. e : Level(tokens, s, i) < 0 THEN -1
      ELSE CHOOSE i \in least :
             \A j \in least : IF tokens[i][1] \in Prefix THEN i <= j ELSE j <= i

Unary(o, v) == CASE o = "!" -> Truth(v = 0) [] o = "NEG" -> (- v) % 2^W [] o = "REF" -> Load(v)

Binary(o, a, b) ==
  CASE o = "+" -> (a + b) % 2^W [] o = "-" -> (a - b) % 2^W [] o = "*" -> (a * b) % 2^W
    [] o = "/" -> IF b = 0 THEN Crash ELSE a \div b
    [] o = "%" -> IF b = 0 THEN Crash ELSE a % b
    [] o = "==" -> Truth(a = b) [] o = "!=" -> Truth(a # b)
    [] o = "&&" -> Truth(a # 0 /\ b # 0) [] o = "||" -> Truth(a # 0 \/ b # 0)

RECURSIVE eval(_, _, _)
eval(tokens, s, e) ==
  IF s > e THEN Bad
  ELSE IF s = e THEN IF IsOperand(tokens[s]) THEN tokens[s][2] ELSE Crash   \* assert(0)
  ELSE IF tokens[s][1] = "(" /\ tokens[e][1] = ")" THEN eval(tokens, s + 1, e - 1)
  ELSE LET d == find_dominated_op(tokens, s, e)
       IN  IF d = -1 THEN Bad
           ELSE LET o == tokens[d][1]
                    a == IF o \in Prefix THEN 0 ELSE eval(tokens, s, d - 1)
                    b == IF a < 0 THEN a ELSE eval(tokens, d + 1, e)
                IN  IF b < 0 THEN b ELSE IF o \in Prefix THEN Unary(o, b) ELSE Binary(o, a, b)

expr(tokens) == LET t == Classify(tokens) IN eval(t, 1, Len(t))

-----------------------------------------------------------------------------
\* gen_rand_expr, with all the operators: an expression is a number, one in
\* brackets, or operands around an operator.  A generated expression carries
\* the value that the grammar of C gives it (CPrec: brackets are put where C
\* needs them, and && and || skip their second operand), whether evaluating it
\* meets brackets at both its ends that are not a pair, and whether some division
\* in it is by zero, skipped or not.
CPrec(o) == CASE o \in {"*", "/", "%"} -> 1 [] o \in {"+", "-"} -> 2 [] o \in {"==", "!="} -> 3
              [] o = "&&" -> 4 [] o = "||" -> 5
BinaryOps == {"+", "-", "*", "/", "%", "==", "!=", "&&", "||"}

gen_num(n) == [toks |-> <<Num(n)>>, val |-> n, prec |-> 0, unmatched |-> FALSE, zero |-> FALSE]

Bracket(x) == [x EXCEPT !.toks = <<Op("(")>> \o @ \o <<Op(")")>>, !.prec = 0]
Fit(x, p) == IF x.prec > p THEN Bracket(x) ELSE x

Prefixed(o, x) ==
  LET y == Fit(x, 0)
  IN  [toks |-> <<Op(CASE o = "NEG" -> "-" [] o = "REF" -> "*" [] OTHER -> o)>> \o y.toks,
       val |-> IF y.val < 0 THEN y.val ELSE Unary(o, y.val), prec |-> 0, unmatched |-> y.unmatched, zero |-> y.zero]

\* The value of a o b in C.
CValue(o, a, b) ==
  CASE a < 0 -> a
    [] o = "&&" /\ a = 0 -> 0
    [] o = "||" /\ a > 0 -> 1
    [] b < 0 -> b
    [] OTHER -> Binary(o, a, b)

Joined(o, x, y) ==
  LET a == Fit(x, CPrec(o))
      b == Fit(y, CPrec(o) - 1)
      toks == a.toks \o <<Op(o)>> \o b.toks
  IN  [toks |-> toks,
       val |-> CValue(o, a.val, b.val),
       prec |-> CPrec(o),
       zero |-> a.zero \/ b.zero \/ (o \in {"/", "%"} /\ b.val = 0),
       unmatched |-> a.unmatched \/ b.unmatched \/ (toks[1][1] = "(" /\ toks[Len(toks)][1] = ")")]

Init == \E n \in Nums : in = gen_num(n)

Next ==
  /\ \/ in' = Bracket(in)
     \/ \E o \in Prefix : in' = Prefixed(o, in)
     \/ \E o \in BinaryOps, n \in Nums, round \in BOOLEAN :
          LET x == IF round THEN Bracket(gen_num(n)) ELSE gen_num(n)
          IN  in' = Joined(o, in, x) \/ in' = Joined(o, x, in)
  /\ Len(in'.toks) <= MaxTokens

Spec == Init /\ [][Next]_in

\* An expression in which nothing is divided by zero is evaluated as C would
\* evaluate it on words of W bits, precedence, associativity and prefix operators
\* included, or it is refused; and it is refused exactly when eval meets a part that
\* begins with a bracket and ends with one that closes another, as in (1)+(2). A
\* division by zero ends NEMU even where C skips it, as in 0 && 3/0: eval computes
\* both operands of && and || first.
RightOrRejected ==
  LET r == expr(in.toks)
  IN  CASE in.unmatched -> r = Bad \/ (r = Crash /\ in.zero)
        [] in.zero -> r = Crash
        [] OTHER -> r = in.val
=============================================================================
