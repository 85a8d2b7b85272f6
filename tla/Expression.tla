----------------------------- MODULE Expression -----------------------------
(***************************************************************************)
(* parse_num (parser.cpp) and expand_expr (utils.cpp) as functions.        *)
(*                                                                         *)
(* An expression is the sequence of its operands, each with the operator   *)
(* before it: there is no precedence, evaluation goes left to right.  An   *)
(* environment holds what evaluation reads: the arguments of the macros    *)
(* being run (`args`, arg_list: innermost first), the label table, the     *)
(* #defines, the program counter, the reusable labels (`marks`) and the    *)
(* index of the reusable the statement stands after (`cur`,                *)
(* curr_reusable).                                                         *)
(*                                                                         *)
(* Of the operators +, -, *, / , %, < and = are modelled; numbers stay     *)
(* within the range in which C's int does not overflow.                    *)
(***************************************************************************)
EXTENDS Integers, SequencesExt

CONSTANTS
  Names,           \* names of labels and of #defines
  RECURSION_LIMIT  \* parser.cpp and utils.cpp: 20

ASSUME ExpressionAssumption == RECURSION_LIMIT \in Nat \ {0}

Ops == {"+", "-", "*", "/", "%", "<", "="}
Kinds == {"num", "name", "here", "ahead", "back", "syntax"}

\* neg: a unary minus stands before the operand; n: the number, or how many
\* + or - a reusable label has; x: the name, "" where there is none.
Term ==
  {t \in [op : Ops, neg : BOOLEAN, k : Kinds, n : Nat, x : Names \cup {""}] :
     t.k \in {"ahead", "back"} => t.n > 0}

Plus(t) == [t EXCEPT !.op = "+"]
Minus(t) == [t EXCEPT !.op = "-"]
Times(t) == [t EXCEPT !.op = "*"]
Over(t) == [t EXCEPT !.op = "/"]
Modulo(t) == [t EXCEPT !.op = "%"]
Below(t) == [t EXCEPT !.op = "<"]
Equals(t) == [t EXCEPT !.op = "="]
Negated(t) == [t EXCEPT !.neg = TRUE]
Number(n) == [op |-> "+", neg |-> n < 0, k |-> "num", n |-> IF n < 0 THEN -n ELSE n, x |-> ""]
Name(x) == [op |-> "+", neg |-> FALSE, k |-> "name", n |-> 0, x |-> x]
Here == [op |-> "+", neg |-> FALSE, k |-> "here", n |-> 0, x |-> ""]
Ahead(n) == [op |-> "+", neg |-> FALSE, k |-> "ahead", n |-> n, x |-> ""]
Back(n) == [op |-> "+", neg |-> FALSE, k |-> "back", n |-> n, x |-> ""]

\* What parse_num returns, and the kind of error it raised when it failed:
\* "label" also sets parser_forward_ref_err; "bad" is any fatal error.
Good(v) == [ok |-> TRUE, v |-> v, why |-> "none"]
Fail(why) == [ok |-> FALSE, v |-> 0, why |-> why]
Deferrable(r) == r.why \in {"label", "local"}

\* Division of C rounds towards zero.
Magnitude(a) == IF a < 0 THEN -a ELSE a
Quotient(a, b) ==
  LET q == Magnitude(a) \div Magnitude(b) IN IF (a < 0) = (b < 0) THEN q ELSE -q

Truth(condition) == IF condition THEN 1 ELSE 0

Apply(op, a, b) ==
  IF op \in {"/", "%"} /\ b = 0 THEN Fail("bad")
  ELSE Good(CASE op = "+" -> a + b
              [] op = "-" -> a - b
              [] op = "*" -> a * b
              [] op = "/" -> Quotient(a, b)
              [] op = "%" -> a - b * Quotient(a, b)
              [] op = "<" -> Truth(a < b)
              [] op = "=" -> Truth(a = b))

(***************************************************************************)
(* parse_single_num for the operands that do not need a #define.           *)
(***************************************************************************)
\* `+_` is marks[cur] (counting from 0), `++_` the one after; `-_` and `--_`
\* are the last one passed and the one before it.
Operand(env, t) ==
  CASE t.k = "num" -> Good(t.n)
    [] t.k = "here" -> Good(env.pc)
    [] t.k = "ahead" ->
         LET i == env.cur - 1 + t.n
         IN IF i >= Len(env.marks) THEN Fail("local") ELSE Good(env.marks[i + 1])
    [] t.k = "back" ->
         LET i == env.cur - t.n
         IN IF i < 0 THEN Fail("bad") ELSE Good(env.marks[i + 1])
    [] t.k = "name" -> IF t.x \in DOMAIN env.labels THEN Good(env.labels[t.x]) ELSE Fail("label")
    [] t.k = "syntax" -> Fail("bad")

\* An argument hides a label or #define of its name, and hides them even if
\* the call gave it no value.
NoValue == <<>>

Bound(args, x) == \E i \in DOMAIN args : x \in DOMAIN args[i]

Innermost(args, x) ==
  CHOOSE i \in DOMAIN args : x \in DOMAIN args[i] /\ \A j \in 1..i - 1 : x \notin DOMAIN args[j]

\* What search_defines finds.
Contents(env, x) ==
  IF Bound(env.args, x) THEN env.args[Innermost(env.args, x)][x]
  ELSE IF x \in DOMAIN env.defines THEN env.defines[x]
  ELSE NoValue

IsDefine(env, t) ==
  t.k = "name" /\ (Bound(env.args, t.x) \/ (t.x \notin DOMAIN env.labels /\ t.x \in DOMAIN env.defines))

\* The values of a chain's operands, taken together from left to right.
Chained(c, values) ==
  LET upto[i \in 0..Len(c)] ==
        IF i = 0 THEN Good(0)
        ELSE LET sofar == upto[i - 1]
                 r == values[i]
             IN IF ~sofar.ok THEN sofar
                ELSE IF r.ok THEN Apply(c[i].op, sofar.v, IF c[i].neg THEN -r.v ELSE r.v)
                ELSE r
  IN upto[Len(c)]

\* r: how much deeper it may go, and a chain.  An argument or #define is
\* evaluated by itself: its value is one operand.
ParseNum(env, chain) ==
  LET parse[r \in (0..RECURSION_LIMIT) \X Seq(Term)] ==
        LET value(t) == IF IsDefine(env, t) THEN parse[<<r[1] - 1, Contents(env, t.x)>>]
                                            ELSE Operand(env, t)
        IN IF r[1] = 0 \/ r[2] = <<>> THEN Fail("bad")
           ELSE Chained(r[2], [i \in DOMAIN r[2] |-> value(r[2][i])])
  IN parse[<<RECURSION_LIMIT, chain>>]

(***************************************************************************)
(* expand_expr: every name that is known is replaced by text.              *)
(***************************************************************************)
\* snprintf of the value into char buf[10].
LabelText(v) ==
  IF v >= 1000000000 THEN v \div 10
  ELSE IF v <= -1000000000 THEN -((-v) \div 100)
  ELSE IF v <= -100000000 THEN -((-v) \div 10)
  ELSE v

\* The text of a term, put where t was: it takes over what stood before t,
\* and two minus signs in a row read as a reusable label.
InPlaceOf(t, text) ==
  [i \in DOMAIN text |->
     IF i > 1 THEN text[i]
     ELSE [text[1] EXCEPT !.op = t.op,
                          !.neg = t.neg \/ text[1].neg,
                          !.k = IF t.neg /\ text[1].neg THEN "syntax" ELSE text[1].k]]

ExpandExpr(env, chain) ==
  LET expand[r \in (0..RECURSION_LIMIT) \X Seq(Term)] ==
        LET text(t) ==
              IF t.k # "name" THEN <<t>>
              ELSE IF Contents(env, t.x) # NoValue
              THEN InPlaceOf(t, expand[<<r[1] - 1, Contents(env, t.x)>>])
              ELSE IF t.x \in DOMAIN env.labels
              THEN InPlaceOf(t, <<Number(LabelText(env.labels[t.x]))>>)
              ELSE <<t>>
        IN IF r[1] = 0 THEN <<>> ELSE FlattenSeq([i \in DOMAIN r[2] |-> text(r[2][i])])
  IN expand[<<RECURSION_LIMIT, chain>>]
=============================================================================
