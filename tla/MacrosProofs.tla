---------------------------- MODULE MacrosProofs ----------------------------
(***************************************************************************)
(* Proofs about macros, for programs of any kind and any nesting of        *)
(* macros, recursive ones included.                                        *)
(***************************************************************************)
EXTENDS Macros, NatRecursion, FiniteSetTheorems, TLAPS

----------------------------------------------------------------------------
(***************************************************************************)
(* Terms, results and the functions they are made with.                    *)
(***************************************************************************)
Reasons == {"none", "bad", "label", "local"}
Result == [ok : BOOLEAN, v : Int, why : Reasons]

LEMMA TermIs ==
  ASSUME NEW t \in Term
  PROVE  /\ t.op \in Ops /\ t.neg \in BOOLEAN /\ t.k \in Kinds /\ t.n \in Nat
         /\ t.x \in Names \cup {""} /\ (t.k \in {"ahead", "back"} => t.n > 0)
BY DEF Term

LEMMA GoodTyped ==
  ASSUME NEW v \in Int
  PROVE  Good(v) \in Result
<1>1. "none" \in Reasons
  BY DEF Reasons
<1> QED BY <1>1 DEF Good, Result

LEMMA FailTyped ==
  ASSUME NEW why \in Reasons
  PROVE  Fail(why) \in Result
BY DEF Fail, Result

LEMMA TermMade ==
  ASSUME NEW op \in Ops, NEW neg \in BOOLEAN, NEW k \in Kinds, NEW n \in Nat, NEW x \in Names \cup {""},
         k \in {"ahead", "back"} => n > 0
  PROVE  [op |-> op, neg |-> neg, k |-> k, n |-> n, x |-> x] \in Term
BY DEF Term

LEMMA NumberTyped ==
  ASSUME NEW v \in Int
  PROVE  Number(v) \in Term /\ <<Number(v)>> \in Seq(Term)
<1>1. "+" \in Ops /\ "num" \in Kinds /\ "num" \notin {"ahead", "back"}
  BY DEF Ops, Kinds
<1>2. PICK n \in Nat : n = IF v < 0 THEN -v ELSE v
  <2>1. CASE v < 0
    BY <2>1
  <2>2. CASE ~(v < 0)
    BY <2>2
  <2> QED BY <2>1, <2>2
<1>3. (v < 0) \in BOOLEAN
  OBVIOUS
<1>4. Number(v) = [op |-> "+", neg |-> v < 0, k |-> "num", n |-> n, x |-> ""]
  BY <1>2, Zenon DEF Number
<1>5. "" \in Names \cup {""}
  OBVIOUS
<1>6. Number(v) \in Term
  BY <1>1, <1>3, <1>4, <1>5, TermMade, ZenonT(60)
<1> QED BY <1>6

LEMMA QuotientTyped ==
  ASSUME NEW a \in Int, NEW b \in Int, b # 0
  PROVE  Quotient(a, b) \in Int
<1>1. PICK m \in Nat, n \in Nat \ {0} : m = Magnitude(a) /\ n = Magnitude(b)
  <2>1. Magnitude(a) \in Nat
    BY DEF Magnitude
  <2>2. Magnitude(b) \in Nat \ {0}
    BY DEF Magnitude
  <2> QED BY <2>1, <2>2
<1>2. PICK q \in Int : q = m \div n
  OBVIOUS
<1>3. Quotient(a, b) = q \/ Quotient(a, b) = -q
  BY <1>1, <1>2 DEF Quotient
<1> QED BY <1>3

LEMMA ApplyTyped ==
  ASSUME NEW op \in Ops, NEW a \in Int, NEW b \in Int
  PROVE  Apply(op, a, b) \in Result
<1>1. CASE op \in {"/", "%"} /\ b = 0
  <2>1. "bad" \in Reasons
    BY DEF Reasons
  <2>2. Apply(op, a, b) = Fail("bad")
    BY <1>1 DEF Apply
  <2> QED BY <2>1, <2>2, FailTyped
<1>2. CASE op \in {"/", "%"} /\ b # 0
  <2>1. PICK q \in Int : q = Quotient(a, b)
    BY <1>2, QuotientTyped
  <2>2. CASE op = "/"
    <3>1. Apply(op, a, b) = Good(q)
      BY <1>2, <2>1, <2>2 DEF Apply
    <3> QED BY <3>1, GoodTyped
  <2>3. CASE op = "%"
    <3>1. Apply(op, a, b) = Good(a - b * q)
      BY <1>2, <2>1, <2>3 DEF Apply
    <3>2. a - b * q \in Int
      OBVIOUS
    <3> QED BY <3>1, <3>2, GoodTyped
  <2> QED BY <1>2, <2>2, <2>3
<1>3. CASE op = "+"
  <2>1. Apply(op, a, b) = Good(a + b)
    BY <1>3 DEF Apply
  <2> QED BY <2>1, GoodTyped
<1>4. CASE op = "-"
  <2>1. Apply(op, a, b) = Good(a - b)
    BY <1>4 DEF Apply
  <2> QED BY <2>1, GoodTyped
<1>5. CASE op = "*"
  <2>1. Apply(op, a, b) = Good(a * b)
    BY <1>5 DEF Apply
  <2>2. a * b \in Int
    OBVIOUS
  <2> QED BY <2>1, <2>2, GoodTyped
<1>6. CASE op = "<"
  <2>1. Apply(op, a, b) = Good(Truth(a < b))
    BY <1>6 DEF Apply
  <2>2. Truth(a < b) \in Int
    BY DEF Truth
  <2> QED BY <2>1, <2>2, GoodTyped
<1>7. CASE op = "="
  <2>1. Apply(op, a, b) = Good(Truth(a = b))
    BY <1>7 DEF Apply
  <2>2. Truth(a = b) \in Int
    BY DEF Truth
  <2> QED BY <2>1, <2>2, GoodTyped
<1>8. op \in {"+", "-", "*", "/", "%", "<", "="}
  BY DEF Ops
<1>9. op \in {"/", "%"} \/ op \in {"+", "-", "*", "<", "="}
  BY <1>8
<1> QED BY <1>1, <1>2, <1>3, <1>4, <1>5, <1>6, <1>7, <1>9

----------------------------------------------------------------------------
(***************************************************************************)
(* Tables of names.                                                        *)
(***************************************************************************)
TableOver(P) == UNION {[D -> Seq(Term)] : D \in SUBSET P}

Table == TableOver(Names)

LEMMA TableIs ==
  ASSUME NEW P, NEW t \in TableOver(P)
  PROVE  DOMAIN t \subseteq P /\ \A x \in DOMAIN t : t[x] \in Seq(Term)
BY DEF TableOver

LEMMA TableMade ==
  ASSUME NEW P, NEW D, D \subseteq P, NEW t \in [D -> Seq(Term)]
  PROVE  t \in TableOver(P)
BY DEF TableOver

LEMMA EmptyTable ==
  ASSUME NEW P
  PROVE  <<>> \in TableOver(P)
<1>1. <<>> \in [{} -> Seq(Term)]
  OBVIOUS
<1> QED BY <1>1, TableMade

LEMMA TableGrows ==
  ASSUME NEW P, NEW t \in TableOver(P), NEW x \in P, NEW v \in Seq(Term)
  PROVE  Insert(t, x, v) \in TableOver(P)
<1>1. PICK D : D = DOMAIN t \cup {x}
  OBVIOUS
<1>2. D \subseteq P /\ \A y \in D : (IF y = x THEN v ELSE t[y]) \in Seq(Term)
  BY <1>1, TableIs
<1>3. Insert(t, x, v) \in [D -> Seq(Term)]
  BY <1>1, <1>2 DEF Insert
<1> QED BY <1>2, <1>3, TableMade

LEMMA TableWidens ==
  ASSUME NEW P, P \subseteq Names, NEW t \in TableOver(P)
  PROVE  t \in Table
BY DEF Table, TableOver

\* The innermost table that has a name.
LEMMA InnermostIs ==
  ASSUME NEW l \in Seq(Table), NEW x, Bound(l, x)
  PROVE  Innermost(l, x) \in DOMAIN l /\ x \in DOMAIN l[Innermost(l, x)]
<1>1. PICK T : T = {i \in DOMAIN l : x \in DOMAIN l[i]}
  OBVIOUS
<1>2. T \subseteq Nat /\ T # {} /\ DOMAIN l = 1..Len(l) /\ Len(l) \in Nat
  BY <1>1 DEF Bound
<1>3. PICK i \in T : \A j \in T : i <= j
  BY <1>2, LeastNumber
<1>4. \A j \in 1..i - 1 : x \notin DOMAIN l[j]
  <2> TAKE j \in 1..i - 1
  <2>1. i \in 1..Len(l)
    BY <1>1, <1>2
  <2>2. j \in DOMAIN l /\ ~(i <= j)
    BY <1>2, <2>1
  <2> QED BY <1>1, <1>3, <2>2
<1>5. i \in DOMAIN l /\ x \in DOMAIN l[i]
  BY <1>1
<1> QED BY <1>4, <1>5 DEF Innermost

\* An environment whose tables have texts in them, and whose labels have values.
Texts(env) == env.args \in Seq(Table) /\ env.defines \in Table
Values(env) == \A x \in DOMAIN env.labels : env.labels[x] \in Int

LEMMA ContentsTyped ==
  ASSUME NEW env, Texts(env), NEW x
  PROVE  Contents(env, x) \in Seq(Term)
<1>1. PICK l \in Seq(Table), d \in Table : l = env.args /\ d = env.defines
  BY DEF Texts
<1>2. CASE Bound(l, x)
  <2>1. PICK i \in DOMAIN l : i = Innermost(l, x) /\ x \in DOMAIN l[i]
    BY <1>2, InnermostIs
  <2>2. l[i] \in Table
    OBVIOUS
  <2>3. l[i][x] \in Seq(Term)
    BY <2>1, <2>2, TableIs DEF Table
  <2>4. Contents(env, x) = l[i][x]
    BY <1>1, <1>2, <2>1 DEF Contents
  <2> QED BY <2>3, <2>4
<1>3. CASE ~Bound(l, x) /\ x \in DOMAIN d
  <2>1. d[x] \in Seq(Term)
    BY <1>3, TableIs DEF Table
  <2> QED BY <1>1, <1>3, <2>1 DEF Contents
<1>4. CASE ~Bound(l, x) /\ x \notin DOMAIN d
  BY <1>1, <1>4 DEF Contents, NoValue
<1> QED BY <1>2, <1>3, <1>4

----------------------------------------------------------------------------
(***************************************************************************)
(* parse_num: whatever is evaluated, what it returns is a result.          *)
(***************************************************************************)
\* What an operand is evaluated against in a macro, where no reusable labels are.
Operands(env) == Values(env) /\ env.pc \in Int /\ env.marks = <<>> /\ env.cur = 0

LEMMA OperandTyped ==
  ASSUME NEW env, Operands(env), NEW t \in Term
  PROVE  Operand(env, t) \in Result
<1>1. t.k \in Kinds /\ t.n \in Nat /\ (t.k \in {"ahead", "back"} => t.n > 0)
  BY TermIs
<1>2. /\ \A x \in DOMAIN env.labels : env.labels[x] \in Int
      /\ env.pc \in Int /\ env.marks = <<>> /\ env.cur = 0
  BY DEF Operands, Values
<1>3. "bad" \in Reasons /\ "label" \in Reasons /\ "local" \in Reasons
  BY DEF Reasons
<1>4. CASE t.k = "num"
  <2>1. Operand(env, t) = Good(t.n)
    BY <1>4 DEF Operand
  <2> QED BY <1>1, <2>1, GoodTyped
<1>5. CASE t.k = "here"
  <2>1. Operand(env, t) = Good(env.pc)
    BY <1>5 DEF Operand
  <2> QED BY <1>2, <2>1, GoodTyped
<1>6. CASE t.k = "ahead"
  <2>1. env.cur - 1 + t.n >= Len(env.marks)
    <3>1. Len(<<>>) = 0
      OBVIOUS
    <3>2. 0 - 1 + t.n >= 0
      BY <1>1, <1>6
    <3> QED BY <1>2, <3>1, <3>2
  <2>2. Operand(env, t) = Fail("local")
    BY <1>6, <2>1 DEF Operand
  <2> QED BY <1>3, <2>2, FailTyped
<1>7. CASE t.k = "back"
  <2>1. env.cur - t.n < 0
    BY <1>1, <1>2, <1>7
  <2>2. Operand(env, t) = Fail("bad")
    BY <1>7, <2>1 DEF Operand
  <2> QED BY <1>3, <2>2, FailTyped
<1>8. CASE t.k = "name" /\ t.x \in DOMAIN env.labels
  <2>1. Operand(env, t) = Good(env.labels[t.x])
    BY <1>8 DEF Operand
  <2>2. env.labels[t.x] \in Int
    BY <1>2, <1>8
  <2> QED BY <2>1, <2>2, GoodTyped
<1>9. CASE t.k = "name" /\ t.x \notin DOMAIN env.labels
  <2>1. Operand(env, t) = Fail("label")
    BY <1>9 DEF Operand
  <2> QED BY <1>3, <2>1, FailTyped
<1>10. CASE t.k = "syntax"
  <2>1. Operand(env, t) = Fail("bad")
    BY <1>10 DEF Operand
  <2> QED BY <1>3, <2>1, FailTyped
<1> QED BY <1>1, <1>4, <1>5, <1>6, <1>7, <1>8, <1>9, <1>10 DEF Kinds

\* What a term makes of the value of the terms before it.
Taken(t, sofar, r) ==
  IF ~sofar.ok THEN sofar
  ELSE IF r.ok THEN Apply(t.op, sofar.v, IF t.neg THEN -r.v ELSE r.v)
  ELSE r

LEMMA TakenTyped ==
  ASSUME NEW t \in Term, NEW sofar \in Result, NEW r \in Result
  PROVE  Taken(t, sofar, r) \in Result
<1>1. sofar.v \in Int /\ r.v \in Int /\ -r.v \in Int /\ t.op \in Ops
  <2>1. sofar.v \in Int /\ r.v \in Int
    BY DEF Result
  <2>2. PICK n \in Int : n = r.v
    BY <2>1
  <2>3. -n \in Int
    OBVIOUS
  <2> QED BY <2>1, <2>2, <2>3, TermIs
<1>2. CASE t.neg
  <2>1. Apply(t.op, sofar.v, -r.v) \in Result
    BY <1>1, ApplyTyped
  <2> QED BY <1>2, <2>1 DEF Taken
<1>3. CASE ~t.neg
  <2>1. Apply(t.op, sofar.v, r.v) \in Result
    BY <1>1, ApplyTyped
  <2> QED BY <1>3, <2>1 DEF Taken
<1> QED BY <1>2, <1>3

LEMMA ChainedTyped ==
  ASSUME NEW c \in Seq(Term), NEW values \in [DOMAIN c -> Result]
  PROVE  Chained(c, values) \in Result
<1>1. PICK N \in Nat : N = Len(c) /\ DOMAIN c = 1..N
  OBVIOUS
<1>2. \A i \in 1..N : c[i] \in Term /\ values[i] \in Result
  BY <1>1
<1> DEFINE G == [i \in 1..N |-> [r \in Result |-> Taken(c[i], r, values[i])]]
<1>3. Steps(N, Result, Good(0), G)
  <2>1. \A i \in 1..N : [r \in Result |-> Taken(c[i], r, values[i])] \in [Result -> Result]
    BY <1>2, TakenTyped
  <2>2. Good(0) \in Result
    BY GoodTyped
  <2> QED BY <2>1, <2>2 DEF Steps
<1>4. \A i \in 1..N : \A r \in Result : G[i][r] = Taken(c[i], r, values[i])
  OBVIOUS
<1> HIDE DEF G
<1>5. PICK f : Unfolds(f, N, Result, Good(0), G)
  BY <1>3, RecursiveFunction
<1>6. f \in [0..N -> Result] /\ f[0] = Good(0) /\ \A i \in 1..N : f[i] = G[i][f[i - 1]]
  BY <1>5 DEF Unfolds
<1> DEFINE Next0(u, i) == IF i = 0 THEN Good(0) ELSE Taken(c[i], u[i - 1], values[i])
<1>7. f = [i \in 0..N |-> Next0(f, i)]
  <2>1. \A i \in 0..N : f[i] = Next0(f, i)
    <3> TAKE i \in 0..N
    <3>1. CASE i = 0
      BY <1>6, <3>1
    <3>2. CASE i # 0
      <4>1. i \in 1..N /\ i - 1 \in 0..N
        BY <3>2
      <4>2. f[i - 1] \in Result
        BY <1>6, <4>1
      <4>3. f[i] = Taken(c[i], f[i - 1], values[i])
        BY <1>4, <1>6, <4>1, <4>2
      <4> QED BY <3>2, <4>3
    <3> QED BY <3>1, <3>2
  <2>2. f = [i \in 0..N |-> f[i]]
    BY <1>6
  <2> HIDE DEF Next0
  <2> QED BY <2>1, <2>2
<1>8. PICK u : u = CHOOSE h : h = [i \in 0..N |-> Next0(h, i)]
  OBVIOUS
<1>9. u = [i \in 0..N |-> Next0(u, i)]
  <2> HIDE DEF Next0
  <2> QED BY <1>7, <1>8
<1>10. u[0] = Good(0) /\ \A i \in 1..N : u[i - 1] \in Result => u[i] = G[i][u[i - 1]]
  <2>1. \A i \in 0..N : u[i] = Next0(u, i)
    <3> HIDE DEF Next0
    <3> QED BY <1>9
  <2>2. u[0] = Good(0)
    <3>1. 0 \in 0..N
      OBVIOUS
    <3> QED BY <2>1, <3>1
  <2>3. ASSUME NEW i \in 1..N, u[i - 1] \in Result PROVE u[i] = G[i][u[i - 1]]
    <3>1. i \in 0..N /\ i # 0
      OBVIOUS
    <3>2. u[i] = Taken(c[i], u[i - 1], values[i])
      BY <2>1, <3>1
    <3> QED BY <1>4, <2>3, <3>2
  <2> QED BY <2>2, <2>3
<1>11. u[N] \in Result
  <2>1. N \in 0..N
    OBVIOUS
  <2> QED BY <1>3, <1>10, <2>1, StepsStay
<1>12. Chained(c, values) = u[N]
  BY <1>1, <1>8 DEF Chained, Taken
<1> QED BY <1>11, <1>12

\* What parse_num, as the function w of a depth and a chain, makes of an
\* operand and of a chain.
ValueAt(env, w, d, t) == IF IsDefine(env, t) THEN w[<<d - 1, Contents(env, t.x)>>] ELSE Operand(env, t)

ParseStep(env, w, r) ==
  IF r[1] = 0 \/ r[2] = <<>> THEN Fail("bad")
  ELSE Chained(r[2], [i \in DOMAIN r[2] |-> ValueAt(env, w, r[1], r[2][i])])

Depths == (0..RECURSION_LIMIT) \X Seq(Term)

ParseFunction(env) == CHOOSE w : w = [r \in Depths |-> ParseStep(env, w, r)]

LEMMA ParseNumIs ==
  ASSUME NEW env, NEW chain
  PROVE  ParseNum(env, chain) = ParseFunction(env)[<<RECURSION_LIMIT, chain>>]
BY DEF ParseNum, ParseFunction, ParseStep, ValueAt, Depths

\* A level is typed if the one below it is.
LEMMA ParseLevel ==
  ASSUME NEW env, Texts(env), Operands(env), NEW w, NEW d \in 1..RECURSION_LIMIT,
         \A p \in Seq(Term) : w[<<d - 1, p>>] \in Result,
         NEW q \in Seq(Term)
  PROVE  ParseStep(env, w, <<d, q>>) \in Result
<1>1. CASE q = <<>>
  <2>1. ParseStep(env, w, <<d, q>>) = Fail("bad")
    BY <1>1 DEF ParseStep
  <2>2. "bad" \in Reasons
    BY DEF Reasons
  <2> QED BY <2>1, <2>2, FailTyped
<1>2. CASE q # <<>>
  <2>1. PICK g : g = [i \in DOMAIN q |-> ValueAt(env, w, d, q[i])]
    OBVIOUS
  <2>2. \A i \in DOMAIN q : ValueAt(env, w, d, q[i]) \in Result
    <3> TAKE i \in DOMAIN q
    <3>1. q[i] \in Term
      OBVIOUS
    <3>2. Contents(env, q[i].x) \in Seq(Term)
      BY ContentsTyped
    <3>3. Operand(env, q[i]) \in Result
      BY <3>1, OperandTyped
    <3> QED BY <3>2, <3>3 DEF ValueAt
  <2>3. g \in [DOMAIN q -> Result]
    BY <2>1, <2>2
  <2>4. Chained(q, g) \in Result
    BY <2>3, ChainedTyped
  <2>5. d # 0
    BY ExpressionAssumption
  <2>6. ParseStep(env, w, <<d, q>>) = Chained(q, g)
    BY <1>2, <2>1, <2>5 DEF ParseStep
  <2> QED BY <2>4, <2>6
<1> QED BY <1>1, <1>2

\* The recursion is that of a function: there is one that solves it.
LEMMA ParseUnfolds ==
  ASSUME NEW env, Texts(env), Operands(env)
  PROVE  ParseFunction(env) = [r \in Depths |-> ParseStep(env, ParseFunction(env), r)]
<1>1. PICK N \in Nat : N = RECURSION_LIMIT
  BY ExpressionAssumption
<1>2. PICK S : S = [Seq(Term) -> Result]
  OBVIOUS
<1>3. PICK c : c = [q \in Seq(Term) |-> Fail("bad")]
  OBVIOUS
<1>4. c \in S
  <2>1. Fail("bad") \in Result
    BY FailTyped DEF Reasons
  <2> QED BY <1>2, <1>3, <2>1
<1> DEFINE Below1(g, d) == [r \in {d - 1} \X Seq(Term) |-> g[r[2]]]
           Level(g, d) == [q \in Seq(Term) |-> ParseStep(env, Below1(g, d), <<d, q>>)]
<1>5. ASSUME NEW d \in 1..N, NEW g \in S
      PROVE  Level(g, d) \in S
  <2>1. \A p \in Seq(Term) : Below1(g, d)[<<d - 1, p>>] \in Result
    BY <1>2
  <2>2. \A q \in Seq(Term) : ParseStep(env, Below1(g, d), <<d, q>>) \in Result
    <3> TAKE q \in Seq(Term)
    <3>1. PICK w : w = Below1(g, d)
      OBVIOUS
    <3>2. \A p \in Seq(Term) : w[<<d - 1, p>>] \in Result
      BY <2>1, <3>1
    <3>3. d \in 1..RECURSION_LIMIT
      BY <1>1
    <3>4. ParseStep(env, w, <<d, q>>) \in Result
      BY <3>2, <3>3, ParseLevel
    <3> QED BY <3>1, <3>4
  <2> QED BY <1>2, <2>2
<1>6. PICK G : G = [d \in 1..N |-> [g \in S |-> Level(g, d)]]
  OBVIOUS
<1>7. Steps(N, S, c, G)
  <2> HIDE DEF Level
  <2>1. \A d \in 1..N : [g \in S |-> Level(g, d)] \in [S -> S]
    BY <1>5
  <2> QED BY <1>4, <1>6, <2>1 DEF Steps
<1>8. PICK F : Unfolds(F, N, S, c, G)
  BY <1>7, RecursiveFunction
<1>9. F \in [0..N -> S] /\ F[0] = c /\ \A d \in 1..N : F[d] = Level(F[d - 1], d)
  <2> HIDE DEF Level
  <2>1. F \in [0..N -> S] /\ F[0] = c /\ \A d \in 1..N : F[d] = G[d][F[d - 1]]
    BY <1>8 DEF Unfolds
  <2>2. ASSUME NEW d \in 1..N PROVE F[d] = Level(F[d - 1], d)
    <3>1. d - 1 \in 0..N
      OBVIOUS
    <3>2. F[d - 1] \in S
      BY <2>1, <3>1
    <3> QED BY <1>6, <2>1, <3>2
  <2> QED BY <2>1, <2>2
<1>10. PICK w : w = [r \in Depths |-> F[r[1]][r[2]]]
  OBVIOUS
<1>11. ASSUME NEW d \in 0..N, NEW q \in Seq(Term)
       PROVE  w[<<d, q>>] = ParseStep(env, w, <<d, q>>)
  <2>1. w[<<d, q>>] = F[d][q]
    BY <1>1, <1>10 DEF Depths
  <2>2. CASE d = 0
    <3>1. F[d][q] = Fail("bad")
      BY <1>3, <1>9, <2>2
    <3> QED BY <2>1, <2>2, <3>1 DEF ParseStep
  <2>3. CASE d # 0
    <3>1. d \in 1..N /\ d - 1 \in 0..N
      BY <2>3
    <3>2. PICK h : h = Below1(F[d - 1], d)
      OBVIOUS
    <3>3. F[d][q] = ParseStep(env, h, <<d, q>>)
      BY <1>9, <3>1, <3>2
    <3>4. \A p \in Seq(Term) : h[<<d - 1, p>>] = F[d - 1][p] /\ w[<<d - 1, p>>] = F[d - 1][p]
      <4>1. \A p \in Seq(Term) : <<d - 1, p>> \in Depths
        BY <1>1, <3>1 DEF Depths
      <4> QED BY <1>10, <3>2, <4>1
    <3>5. \A i \in DOMAIN q : ValueAt(env, h, d, q[i]) = ValueAt(env, w, d, q[i])
      <4> TAKE i \in DOMAIN q
      <4>1. Contents(env, q[i].x) \in Seq(Term)
        BY ContentsTyped
      <4> QED BY <3>4, <4>1 DEF ValueAt
    <3>6. [i \in DOMAIN q |-> ValueAt(env, h, d, q[i])] = [i \in DOMAIN q |-> ValueAt(env, w, d, q[i])]
      BY <3>5
    <3>7. ParseStep(env, h, <<d, q>>) = ParseStep(env, w, <<d, q>>)
      BY <3>6 DEF ParseStep
    <3> QED BY <2>1, <3>3, <3>7
  <2> QED BY <2>2, <2>3
<1>12. w = [r \in Depths |-> ParseStep(env, w, r)]
  <2>1. \A r \in Depths : w[r] = ParseStep(env, w, r)
    <3> TAKE r \in Depths
    <3>1. PICK d \in 0..N, q \in Seq(Term) : r = <<d, q>>
      BY <1>1 DEF Depths
    <3> QED BY <1>11, <3>1
  <2>2. w = [r \in Depths |-> w[r]]
    BY <1>10
  <2> QED BY <2>1, <2>2
<1> QED BY <1>12 DEF ParseFunction

LEMMA ParseTyped ==
  ASSUME NEW env, Texts(env), Operands(env), NEW chain \in Seq(Term)
  PROVE  ParseNum(env, chain) \in Result
<1>1. PICK N \in Nat : N = RECURSION_LIMIT
  BY ExpressionAssumption
<1>2. PICK w : w = ParseFunction(env)
  OBVIOUS
<1>3. w = [r \in Depths |-> ParseStep(env, w, r)]
  BY <1>2, ParseUnfolds
<1>4. \A d \in 0..N : \A q \in Seq(Term) : w[<<d, q>>] = ParseStep(env, w, <<d, q>>)
  <2> TAKE d \in 0..N
  <2> TAKE q \in Seq(Term)
  <2>1. <<d, q>> \in Depths
    BY <1>1 DEF Depths
  <2> QED BY <1>3, <2>1
<1> DEFINE T == {d \in 0..N : \A q \in Seq(Term) : w[<<d, q>>] \in Result}
<1>5. 0 \in T
  <2>1. Fail("bad") \in Result
    BY FailTyped DEF Reasons
  <2>2. \A q \in Seq(Term) : ParseStep(env, w, <<0, q>>) = Fail("bad")
    BY DEF ParseStep
  <2>3. 0 \in 0..N
    OBVIOUS
  <2> QED BY <1>4, <2>1, <2>2, <2>3
<1>6. ASSUME NEW n \in 0..(N - 1), n \in T PROVE n + 1 \in T
  <2>1. PICK d \in 1..RECURSION_LIMIT : d = n + 1 /\ d - 1 = n
    BY <1>1
  <2>2. \A p \in Seq(Term) : w[<<d - 1, p>>] \in Result
    BY <1>6, <2>1
  <2>3. \A q \in Seq(Term) : ParseStep(env, w, <<d, q>>) \in Result
    BY <2>2, ParseLevel
  <2>4. d \in 0..N
    BY <1>1
  <2> QED BY <1>4, <2>1, <2>3, <2>4
<1>7. 0..N \subseteq T
  <2> HIDE DEF T
  <2> QED BY <1>5, <1>6, BoundedInduction
<1>8. N \in T
  BY <1>7
<1> QED BY <1>1, <1>2, <1>8, ParseNumIs

----------------------------------------------------------------------------
(***************************************************************************)
(* expand_expr: the text it makes is one of terms.                         *)
(***************************************************************************)
LEMMA FlattenTyped ==
  ASSUME NEW S, NEW s \in Seq(Seq(S))
  PROVE  FlattenSeq(s) \in Seq(S)
<1>1. <<>> \in Seq(S)
  OBVIOUS
<1>2. \A a, b \in Seq(S) : a \o b \in Seq(S)
  OBVIOUS
<1> QED BY <1>1, <1>2, FlattenStays

LEMMA LabelTextTyped ==
  ASSUME NEW v \in Int
  PROVE  LabelText(v) \in Int
<1>1. PICK m \in Int : m = -v
  OBVIOUS
<1>2. v \div 10 \in Int /\ m \div 100 \in Int /\ m \div 10 \in Int
  OBVIOUS
<1>3. PICK a \in Int, b \in Int : a = -(m \div 100) /\ b = -(m \div 10)
  BY <1>2
<1>4. LabelText(v) \in {v \div 10, a, b, v}
  BY <1>1, <1>3, SMTT(30) DEF LabelText
<1> QED BY <1>2, <1>4

LEMMA InPlaceTyped ==
  ASSUME NEW t \in Term, NEW text \in Seq(Term)
  PROVE  InPlaceOf(t, text) \in Seq(Term)
<1>1. PICK N \in Nat : N = Len(text) /\ DOMAIN text = 1..N
  OBVIOUS
<1>2. \A i \in 1..N : text[i] \in Term
  BY <1>1
<1> DEFINE New(i) == IF i > 1 THEN text[i]
                     ELSE [text[1] EXCEPT !.op = t.op,
                                          !.neg = t.neg \/ text[1].neg,
                                          !.k = IF t.neg /\ text[1].neg THEN "syntax" ELSE text[1].k]
<1>3. ASSUME NEW i \in 1..N PROVE New(i) \in Term
  <2>1. CASE i > 1
    BY <1>2, <2>1
  <2>2. CASE ~(i > 1)
    <3>1. PICK r \in Term : r = text[1]
      BY <1>2
    <3>2. r.op \in Ops /\ r.neg \in BOOLEAN /\ r.k \in Kinds /\ r.n \in Nat /\ r.x \in Names \cup {""}
          /\ (r.k \in {"ahead", "back"} => r.n > 0)
      BY TermIs
    <3>3. t.op \in Ops /\ t.neg \in BOOLEAN
      BY TermIs
    <3>4. PICK neg \in BOOLEAN : neg = (t.neg \/ r.neg)
      OBVIOUS
    <3>5. PICK k : k = IF t.neg /\ r.neg THEN "syntax" ELSE r.k
      OBVIOUS
    <3>6. k \in Kinds /\ (k \in {"ahead", "back"} => r.n > 0)
      BY <3>2, <3>5 DEF Kinds
    <3>7. [op |-> t.op, neg |-> neg, k |-> k, n |-> r.n, x |-> r.x] \in Term
      BY <3>2, <3>3, <3>6, TermMade
    <3>8. New(i) = [op |-> t.op, neg |-> neg, k |-> k, n |-> r.n, x |-> r.x]
      <4>1. New(i) = [r EXCEPT !.op = t.op, !.neg = t.neg \/ r.neg, !.k = IF t.neg /\ r.neg THEN "syntax" ELSE r.k]
        BY <2>2, <3>1
      <4>2. New(i) = [r EXCEPT !.op = t.op, !.neg = neg, !.k = k]
        BY <3>4, <3>5, <4>1
      <4>3. r \in [op : Ops, neg : BOOLEAN, k : Kinds, n : Nat, x : Names \cup {""}]
        BY DEF Term
      <4> HIDE DEF New
      <4> QED BY <4>2, <4>3
    <3> QED BY <3>7, <3>8
  <2> QED BY <2>1, <2>2
<1>4. InPlaceOf(t, text) = [i \in 1..N |-> New(i)]
  BY <1>1 DEF InPlaceOf
<1> HIDE DEF New
<1> QED BY <1>3, <1>4

\* What expand_expr, as the function w of a depth and a chain, puts in place
\* of a term and of a chain.
TextAt(env, w, d, t) ==
  IF t.k # "name" THEN <<t>>
  ELSE IF Contents(env, t.x) # NoValue THEN InPlaceOf(t, w[<<d - 1, Contents(env, t.x)>>])
  ELSE IF t.x \in DOMAIN env.labels THEN InPlaceOf(t, <<Number(LabelText(env.labels[t.x]))>>)
  ELSE <<t>>

ExpandStep(env, w, r) ==
  IF r[1] = 0 THEN <<>> ELSE FlattenSeq([i \in DOMAIN r[2] |-> TextAt(env, w, r[1], r[2][i])])

ExpandFunction(env) == CHOOSE w : w = [r \in Depths |-> ExpandStep(env, w, r)]

LEMMA ExpandExprIs ==
  ASSUME NEW env, NEW chain
  PROVE  ExpandExpr(env, chain) = ExpandFunction(env)[<<RECURSION_LIMIT, chain>>]
BY DEF ExpandExpr, ExpandFunction, ExpandStep, TextAt, Depths

\* A level is typed if the one below it is.
LEMMA ExpandLevel ==
  ASSUME NEW env, Texts(env), Values(env), NEW w, NEW d \in 1..RECURSION_LIMIT,
         \A p \in Seq(Term) : w[<<d - 1, p>>] \in Seq(Term),
         NEW q \in Seq(Term)
  PROVE  ExpandStep(env, w, <<d, q>>) \in Seq(Term)
<1>1. PICK g : g = [i \in DOMAIN q |-> TextAt(env, w, d, q[i])]
  OBVIOUS
<1>2. \A i \in DOMAIN q : TextAt(env, w, d, q[i]) \in Seq(Term)
  <2> TAKE i \in DOMAIN q
  <2>1. PICK t \in Term : t = q[i]
    OBVIOUS
  <2>2. <<t>> \in Seq(Term)
    OBVIOUS
  <2>3. PICK c \in Seq(Term) : c = Contents(env, t.x)
    BY ContentsTyped
  <2>4. InPlaceOf(t, w[<<d - 1, c>>]) \in Seq(Term)
    <3>1. w[<<d - 1, c>>] \in Seq(Term)
      OBVIOUS
    <3> QED BY <3>1, InPlaceTyped
  <2>5. t.x \in DOMAIN env.labels => InPlaceOf(t, <<Number(LabelText(env.labels[t.x]))>>) \in Seq(Term)
    <3> HAVE t.x \in DOMAIN env.labels
    <3>1. env.labels[t.x] \in Int
      BY DEF Values
    <3>2. PICK v \in Int : v = LabelText(env.labels[t.x])
      BY <3>1, LabelTextTyped
    <3>3. <<Number(v)>> \in Seq(Term)
      BY NumberTyped
    <3>4. InPlaceOf(t, <<Number(v)>>) \in Seq(Term)
      BY <3>3, InPlaceTyped
    <3> QED BY <3>2, <3>4
  <2>6. TextAt(env, w, d, t) \in Seq(Term)
    BY <2>2, <2>3, <2>4, <2>5, Zenon DEF TextAt
  <2> QED BY <2>1, <2>6
<1>3. g \in Seq(Seq(Term))
  <2>1. PICK N \in Nat : N = Len(q) /\ DOMAIN q = 1..N
    OBVIOUS
  <2>2. g = [i \in 1..N |-> TextAt(env, w, d, q[i])] /\ \A i \in 1..N : TextAt(env, w, d, q[i]) \in Seq(Term)
    BY <1>1, <1>2, <2>1
  <2> QED BY <2>2
<1>4. FlattenSeq(g) \in Seq(Term)
  BY <1>3, FlattenTyped
<1>5. d # 0
  BY ExpressionAssumption
<1>6. ExpandStep(env, w, <<d, q>>) = FlattenSeq(g)
  BY <1>1, <1>5 DEF ExpandStep
<1> QED BY <1>4, <1>6

\* The recursion is that of a function: there is one that solves it.
LEMMA ExpandUnfolds ==
  ASSUME NEW env, Texts(env), Values(env)
  PROVE  ExpandFunction(env) = [r \in Depths |-> ExpandStep(env, ExpandFunction(env), r)]
<1>1. PICK N \in Nat : N = RECURSION_LIMIT
  BY ExpressionAssumption
<1>2. PICK S : S = [Seq(Term) -> Seq(Term)]
  OBVIOUS
<1>3. PICK c : c = [q \in Seq(Term) |-> <<>>]
  OBVIOUS
<1>4. c \in S
  BY <1>2, <1>3
<1> DEFINE Below1(g, d) == [r \in {d - 1} \X Seq(Term) |-> g[r[2]]]
           Level(g, d) == [q \in Seq(Term) |-> ExpandStep(env, Below1(g, d), <<d, q>>)]
<1>5. ASSUME NEW d \in 1..N, NEW g \in S
      PROVE  Level(g, d) \in S
  <2>1. \A p \in Seq(Term) : Below1(g, d)[<<d - 1, p>>] \in Seq(Term)
    BY <1>2
  <2>2. \A q \in Seq(Term) : ExpandStep(env, Below1(g, d), <<d, q>>) \in Seq(Term)
    <3> TAKE q \in Seq(Term)
    <3>1. PICK w : w = Below1(g, d)
      OBVIOUS
    <3>2. \A p \in Seq(Term) : w[<<d - 1, p>>] \in Seq(Term)
      BY <2>1, <3>1
    <3>3. d \in 1..RECURSION_LIMIT
      BY <1>1
    <3>4. ExpandStep(env, w, <<d, q>>) \in Seq(Term)
      BY <3>2, <3>3, ExpandLevel
    <3> QED BY <3>1, <3>4
  <2> QED BY <1>2, <2>2
<1>6. PICK G : G = [d \in 1..N |-> [g \in S |-> Level(g, d)]]
  OBVIOUS
<1>7. Steps(N, S, c, G)
  <2> HIDE DEF Level
  <2>1. \A d \in 1..N : [g \in S |-> Level(g, d)] \in [S -> S]
    BY <1>5
  <2> QED BY <1>4, <1>6, <2>1 DEF Steps
<1>8. PICK F : Unfolds(F, N, S, c, G)
  BY <1>7, RecursiveFunction
<1>9. F \in [0..N -> S] /\ F[0] = c /\ \A d \in 1..N : F[d] = Level(F[d - 1], d)
  <2> HIDE DEF Level
  <2>1. F \in [0..N -> S] /\ F[0] = c /\ \A d \in 1..N : F[d] = G[d][F[d - 1]]
    BY <1>8 DEF Unfolds
  <2>2. ASSUME NEW d \in 1..N PROVE F[d] = Level(F[d - 1], d)
    <3>1. d - 1 \in 0..N
      OBVIOUS
    <3>2. F[d - 1] \in S
      BY <2>1, <3>1
    <3> QED BY <1>6, <2>1, <3>2
  <2> QED BY <2>1, <2>2
<1>10. PICK w : w = [r \in Depths |-> F[r[1]][r[2]]]
  OBVIOUS
<1>11. ASSUME NEW d \in 0..N, NEW q \in Seq(Term)
       PROVE  w[<<d, q>>] = ExpandStep(env, w, <<d, q>>)
  <2>1. w[<<d, q>>] = F[d][q]
    BY <1>1, <1>10 DEF Depths
  <2>2. CASE d = 0
    <3>1. F[d][q] = <<>>
      BY <1>3, <1>9, <2>2
    <3> QED BY <2>1, <2>2, <3>1 DEF ExpandStep
  <2>3. CASE d # 0
    <3>1. d \in 1..N /\ d - 1 \in 0..N
      BY <2>3
    <3>2. PICK h : h = Below1(F[d - 1], d)
      OBVIOUS
    <3>3. F[d][q] = ExpandStep(env, h, <<d, q>>)
      BY <1>9, <3>1, <3>2
    <3>4. \A p \in Seq(Term) : h[<<d - 1, p>>] = F[d - 1][p] /\ w[<<d - 1, p>>] = F[d - 1][p]
      <4>1. \A p \in Seq(Term) : <<d - 1, p>> \in Depths
        BY <1>1, <3>1 DEF Depths
      <4> QED BY <1>10, <3>2, <4>1
    <3>5. \A i \in DOMAIN q : TextAt(env, h, d, q[i]) = TextAt(env, w, d, q[i])
      <4> TAKE i \in DOMAIN q
      <4>1. Contents(env, q[i].x) \in Seq(Term)
        BY ContentsTyped
      <4>2. h[<<d - 1, Contents(env, q[i].x)>>] = w[<<d - 1, Contents(env, q[i].x)>>]
        BY <3>4, <4>1
      <4> QED BY <4>2, Zenon DEF TextAt
    <3>6. [i \in DOMAIN q |-> TextAt(env, h, d, q[i])] = [i \in DOMAIN q |-> TextAt(env, w, d, q[i])]
      BY <3>5
    <3>7. ExpandStep(env, h, <<d, q>>) = ExpandStep(env, w, <<d, q>>)
      BY <3>6 DEF ExpandStep
    <3> QED BY <2>1, <3>3, <3>7
  <2> QED BY <2>2, <2>3
<1>12. w = [r \in Depths |-> ExpandStep(env, w, r)]
  <2>1. \A r \in Depths : w[r] = ExpandStep(env, w, r)
    <3> TAKE r \in Depths
    <3>1. PICK d \in 0..N, q \in Seq(Term) : r = <<d, q>>
      BY <1>1 DEF Depths
    <3> QED BY <1>11, <3>1
  <2>2. w = [r \in Depths |-> w[r]]
    BY <1>10
  <2> QED BY <2>1, <2>2
<1> QED BY <1>12 DEF ExpandFunction

LEMMA ExpandTyped ==
  ASSUME NEW env, Texts(env), Values(env), NEW chain \in Seq(Term)
  PROVE  ExpandExpr(env, chain) \in Seq(Term)
<1>1. PICK N \in Nat : N = RECURSION_LIMIT
  BY ExpressionAssumption
<1>2. PICK w : w = ExpandFunction(env)
  OBVIOUS
<1>3. w = [r \in Depths |-> ExpandStep(env, w, r)]
  BY <1>2, ExpandUnfolds
<1>4. \A d \in 0..N : \A q \in Seq(Term) : w[<<d, q>>] = ExpandStep(env, w, <<d, q>>)
  <2> TAKE d \in 0..N
  <2> TAKE q \in Seq(Term)
  <2>1. <<d, q>> \in Depths
    BY <1>1 DEF Depths
  <2> QED BY <1>3, <2>1
<1> DEFINE T == {d \in 0..N : \A q \in Seq(Term) : w[<<d, q>>] \in Seq(Term)}
<1>5. 0 \in T
  <2>1. \A q \in Seq(Term) : ExpandStep(env, w, <<0, q>>) = <<>>
    BY DEF ExpandStep
  <2>2. 0 \in 0..N
    OBVIOUS
  <2>3. \A q \in Seq(Term) : w[<<0, q>>] \in Seq(Term)
    <3> TAKE q \in Seq(Term)
    <3>1. w[<<0, q>>] = ExpandStep(env, w, <<0, q>>)
      BY <1>4, <2>2
    <3>2. w[<<0, q>>] = <<>>
      BY <2>1, <3>1
    <3>3. <<>> \in Seq(Term)
      OBVIOUS
    <3> QED BY <3>2, <3>3
  <2> QED BY <2>2, <2>3
<1>6. ASSUME NEW n \in 0..(N - 1), n \in T PROVE n + 1 \in T
  <2>1. PICK d \in 1..RECURSION_LIMIT : d = n + 1 /\ d - 1 = n
    BY <1>1
  <2>2. \A p \in Seq(Term) : w[<<d - 1, p>>] \in Seq(Term)
    BY <1>6, <2>1
  <2>3. \A q \in Seq(Term) : ExpandStep(env, w, <<d, q>>) \in Seq(Term)
    BY <2>2, ExpandLevel
  <2>4. d \in 0..N
    BY <1>1
  <2> QED BY <1>4, <2>1, <2>3, <2>4
<1>7. 0..N \subseteq T
  <2> HIDE DEF T
  <2> QED BY <1>5, <1>6, BoundedInduction
<1>8. N \in T
  BY <1>7
<1> QED BY <1>1, <1>2, <1>8, ExpandExprIs

----------------------------------------------------------------------------
(***************************************************************************)
(* What the actions compute, in a state that is typed.                     *)
(***************************************************************************)
Frames == [lines : Seq(Lines(DOMAIN program.macros)), table : BOOLEAN]
Outs == [ok : BOOLEAN, v : Int, pc : Nat, meant : Seq(Term), expr : Seq(Term)]

LabelTable(l) == DOMAIN l \subseteq Names /\ \A x \in DOMAIN l : l[x] \in Nat

Typed ==
  /\ program \in Programs
  /\ running \in Seq(Frames)
  /\ arg_list \in Seq(Table) /\ scopes \in Seq(Table) /\ defines \in Table
  /\ LabelTable(labels)
  /\ program_counter \in Nat
  /\ out \in Seq(Outs)
  /\ failed \in BOOLEAN /\ captured \in BOOLEAN
  /\ program_counter = 2 * Len(out) \/ failed

LEMMA EnvTyped ==
  ASSUME Typed
  PROVE  Texts(Env) /\ Operands(Env) /\ Values(Env)
BY DEF Typed, LabelTable, Env, Texts, Operands, Values

LEMMA EvalTyped ==
  ASSUME NEW env, Texts(env), Operands(env), NEW e \in Seq(Term)
  PROVE  Eval(env, e) \in Seq(Term)
<1>1. PICK r \in Result : r = ParseNum(env, e)
  BY ParseTyped
<1>2. r.v \in Int
  BY DEF Result
<1>3. <<Number(r.v)>> \in Seq(Term)
  BY <1>2, NumberTyped
<1>4. ExpandExpr(env, e) \in Seq(Term)
  BY ExpandTyped DEF Operands
<1>5. Eval(env, e) = IF r.ok THEN <<Number(r.v)>> ELSE ExpandExpr(env, e)
  BY <1>1 DEF Eval
<1> QED BY <1>3, <1>4, <1>5

LEMMA KnownTyped ==
  ASSUME Typed, NEW e \in Seq(Term)
  PROVE  Known(e) \in Seq(Term)
<1> DEFINE text(t) ==
             CASE t.k = "here" -> <<Number(program_counter)>>
               [] t.k = "name" /\ t.x \in DOMAIN labels -> <<Number(labels[t.x])>>
               [] t.k = "name" /\ t.x \in DOMAIN defines \ DOMAIN labels -> defines[t.x]
               [] OTHER -> <<t>>
<1>1. ASSUME NEW t \in Term PROVE text(t) \in Seq(Term)
  <2>1. CASE t.k = "here"
    <3>1. program_counter \in Int
      BY DEF Typed
    <3>2. <<Number(program_counter)>> \in Seq(Term)
      BY <3>1, NumberTyped
    <3>3. text(t) = <<Number(program_counter)>>
      BY <2>1
    <3> HIDE DEF text
    <3> QED BY <3>2, <3>3
  <2>2. CASE t.k = "name" /\ t.x \in DOMAIN labels
    <3>1. labels[t.x] \in Int
      BY <2>2 DEF Typed, LabelTable
    <3>2. <<Number(labels[t.x])>> \in Seq(Term)
      BY <3>1, NumberTyped
    <3>3. text(t) = <<Number(labels[t.x])>>
      BY <2>2
    <3> HIDE DEF text
    <3> QED BY <3>2, <3>3
  <2>3. CASE t.k = "name" /\ t.x \in DOMAIN defines \ DOMAIN labels
    <3>1. defines[t.x] \in Seq(Term)
      BY <2>3, TableIs DEF Typed, Table
    <3>2. text(t) = defines[t.x]
      BY <2>3
    <3> HIDE DEF text
    <3> QED BY <3>1, <3>2
  <2>4. CASE /\ t.k # "here" /\ ~(t.k = "name" /\ t.x \in DOMAIN labels)
             /\ ~(t.k = "name" /\ t.x \in DOMAIN defines \ DOMAIN labels)
    <3>1. text(t) = <<t>>
      BY <2>4
    <3> HIDE DEF text
    <3> QED BY <3>1
  <2> HIDE DEF text
  <2> QED BY <2>1, <2>2, <2>3, <2>4
<1>2. PICK N \in Nat : N = Len(e) /\ DOMAIN e = 1..N
  OBVIOUS
<1>3. \A i \in 1..N : text(e[i]) \in Seq(Term)
  <2> HIDE DEF text
  <2> QED BY <1>1, <1>2
<1>4. PICK g : g = [i \in 1..N |-> text(e[i])]
  OBVIOUS
<1>5. g \in Seq(Seq(Term))
  <2> HIDE DEF text
  <2> QED BY <1>3, <1>4
<1>6. Known(e) = FlattenSeq(g)
  BY <1>2, <1>4 DEF Known
<1> QED BY <1>5, <1>6, FlattenTyped

Fields == [op : Ops, neg : BOOLEAN, k : Kinds, n : Nat, x : Names \cup {""}]

LEMMA KindChanged ==
  ASSUME NEW r \in Fields, NEW k \in Kinds
  PROVE  [r EXCEPT !.k = k] \in Fields /\ [r EXCEPT !.k = k].k = k
BY DEF Fields

LEMMA InvalidTyped == <<Invalid>> \in Seq(Term)
<1>1. "+" \in Ops /\ FALSE \in BOOLEAN /\ "here" \in Kinds /\ "syntax" \in Kinds
      /\ 0 \in Nat /\ "" \in Names \cup {""}
  BY DEF Ops, Kinds
<1>2. Here \in Fields
  BY <1>1 DEF Here, Fields
<1>3. Invalid \in Fields /\ Invalid.k = "syntax"
  BY <1>1, <1>2, KindChanged, Zenon DEF Invalid
<1>4. Term = {t \in Fields : t.k \in {"ahead", "back"} => t.n > 0}
  BY Zenon DEF Term, Fields
<1>5. "syntax" \notin {"ahead", "back"}
  OBVIOUS
<1>6. Invalid \in Term
  BY <1>3, <1>4, <1>5, Zenon
<1> QED BY <1>6

LEMMA MeantTyped ==
  ASSUME Typed, NEW e \in Seq(Term)
  PROVE  Meant(e) \in Seq(Term)
<1> DEFINE text(t) ==
             IF t.k = "name" /\ Bound(scopes, t.x)
             THEN LET v == scopes[Innermost(scopes, t.x)][t.x]
                  IN IF v = NoValue THEN <<Invalid>> ELSE Known(v)
             ELSE Known(<<t>>)
<1>1. ASSUME NEW t \in Term PROVE text(t) \in Seq(Term)
  <2>1. CASE t.k = "name" /\ Bound(scopes, t.x)
    <3>1. scopes \in Seq(Table)
      BY DEF Typed
    <3>2. PICK i \in DOMAIN scopes : i = Innermost(scopes, t.x) /\ t.x \in DOMAIN scopes[i]
      BY <2>1, <3>1, InnermostIs
    <3>3. scopes[i] \in Table
      BY <3>1
    <3>4. PICK v \in Seq(Term) : v = scopes[i][t.x]
      BY <3>2, <3>3, TableIs DEF Table
    <3>5. Known(v) \in Seq(Term)
      BY KnownTyped
    <3>6. <<Invalid>> \in Seq(Term)
      BY InvalidTyped
    <3>7. text(t) = IF v = NoValue THEN <<Invalid>> ELSE Known(v)
      BY <2>1, <3>2, <3>4
    <3> HIDE DEF text
    <3> QED BY <3>5, <3>6, <3>7
  <2>2. CASE ~(t.k = "name" /\ Bound(scopes, t.x))
    <3>1. <<t>> \in Seq(Term)
      OBVIOUS
    <3>2. Known(<<t>>) \in Seq(Term)
      BY <3>1, KnownTyped
    <3> QED BY <2>2, <3>2
  <2> HIDE DEF text
  <2> QED BY <2>1, <2>2
<1>2. PICK N \in Nat : N = Len(e) /\ DOMAIN e = 1..N
  OBVIOUS
<1>3. \A i \in 1..N : text(e[i]) \in Seq(Term)
  <2> HIDE DEF text
  <2> QED BY <1>1, <1>2
<1>4. PICK g : g = [i \in 1..N |-> text(e[i])]
  OBVIOUS
<1>5. g \in Seq(Seq(Term))
  <2> HIDE DEF text
  <2> QED BY <1>3, <1>4
<1>6. Meant(e) = FlattenSeq(g)
  BY <1>2, <1>4 DEF Meant
<1> QED BY <1>5, <1>6, FlattenTyped

\* A program's lines.
LEMMA LineIs ==
  ASSUME NEW macros, NEW s \in Lines(macros)
  PROVE  /\ s.kind = "emit" => s.expr \in Seq(Term)
         /\ s.kind = "invoke" => s.name \in macros /\ s.args \in Seq(Seq(Term))
         /\ s.kind = "define" => s.name \in Names /\ s.expr \in Seq(Term)
         /\ s.kind \in {"undef", "label"} => s.name \in Names
BY DEF Lines

LEMMA MacroIs ==
  ASSUME Typed, NEW s, s.name \in DOMAIN program.macros
  PROVE  Macro(s).params \in Seq(Names) /\ Macro(s).lines \in Seq(Lines(DOMAIN program.macros))
BY MacrosAssumption DEF Typed, Macro

Parameters(s) == {Macro(s).params[j] : j \in DOMAIN Macro(s).params}

LEMMA ParseArgsTyped ==
  ASSUME Typed, NEW s, s.name \in DOMAIN program.macros, s.args \in Seq(Seq(Term))
  PROVE  ParseArgs(s) \in TableOver(Parameters(s)) /\ ParseArgs(s) \in Table
<1>1. PICK params \in Seq(Names) : params = Macro(s).params
  BY MacroIs
<1>2. PICK N \in Nat : N = Len(params) /\ DOMAIN params = 1..N
  OBVIOUS
<1>3. PICK args \in Seq(Seq(Term)) : args = s.args
  OBVIOUS
<1>4. PICK K \in Nat : K = Len(args) /\ DOMAIN args = 1..K
  OBVIOUS
<1>5. PICK P : P = Parameters(s) /\ P \subseteq Names /\ \A i \in 1..N : params[i] \in P
  <2>1. Parameters(s) \subseteq Names /\ \A i \in 1..N : params[i] \in Parameters(s)
    <3>1. Parameters(s) = {params[j] : j \in 1..N}
      BY <1>1, <1>2 DEF Parameters
    <3>2. \A i \in 1..N : params[i] \in Names
      BY <1>2
    <3> QED BY <3>1, <3>2
  <2> QED BY <2>1
<1>6. PICK S : S = TableOver(P)
  OBVIOUS
<1> DEFINE Value(t, i) == IF i > Len(s.args) THEN NoValue
                          ELSE Eval([Env EXCEPT !.args = <<t>> \o @], s.args[i])
           Next0(u, i) == IF i = 0 THEN <<>>
                          ELSE LET filled == u[i - 1] IN Insert(filled, params[i], Value(filled, i))
<1>7. ASSUME NEW t \in S, NEW i \in 1..N PROVE Value(t, i) \in Seq(Term)
  <2>1. CASE i > K
    BY <1>3, <1>4, <2>1 DEF NoValue
  <2>2. CASE ~(i > K)
    <3>1. t \in Table
      BY <1>5, <1>6, TableWidens
    <3>2. PICK env : env = [Env EXCEPT !.args = <<t>> \o @]
      OBVIOUS
    <3>3. /\ env.args = <<t>> \o arg_list /\ env.labels = labels /\ env.defines = defines
          /\ env.pc = program_counter /\ env.marks = <<>> /\ env.cur = 0
      BY <3>2 DEF Env
    <3>4. <<t>> \o arg_list \in Seq(Table)
      <4>1. <<t>> \in Seq(Table) /\ arg_list \in Seq(Table)
        BY <3>1 DEF Typed
      <4> QED BY <4>1
    <3>5. Texts(env) /\ Operands(env)
      BY <3>3, <3>4 DEF Texts, Operands, Values, Typed, LabelTable
    <3>6. args[i] \in Seq(Term)
      BY <1>4, <2>2
    <3>7. Eval(env, args[i]) \in Seq(Term)
      BY <3>5, <3>6, EvalTyped
    <3>8. Value(t, i) = Eval(env, args[i])
      BY <1>3, <1>4, <2>2, <3>2
    <3> HIDE DEF Value
    <3> QED BY <3>7, <3>8
  <2> QED BY <2>1, <2>2
<1>8. PICK G : G = [i \in 1..N |-> [t \in S |-> Insert(t, params[i], Value(t, i))]]
  OBVIOUS
<1>9. Steps(N, S, <<>>, G)
  <2> HIDE DEF Value
  <2>1. <<>> \in S
    BY <1>6, EmptyTable
  <2>2. ASSUME NEW i \in 1..N PROVE [t \in S |-> Insert(t, params[i], Value(t, i))] \in [S -> S]
    <3>1. ASSUME NEW t \in S PROVE Insert(t, params[i], Value(t, i)) \in S
      <4>1. PICK x \in P, v \in Seq(Term) : x = params[i] /\ v = Value(t, i)
        BY <1>5, <1>7
      <4>2. Insert(t, x, v) \in S
        BY <1>6, TableGrows
      <4> QED BY <4>1, <4>2
    <3> QED BY <3>1
  <2> QED BY <1>8, <2>1, <2>2 DEF Steps
<1> HIDE DEF Value
<1>10. PICK f : Unfolds(f, N, S, <<>>, G)
  BY <1>9, RecursiveFunction
<1>11. f \in [0..N -> S] /\ f[0] = <<>> /\ \A i \in 1..N : f[i] = G[i][f[i - 1]]
  BY <1>10 DEF Unfolds
<1>12. \A i \in 1..N : \A t \in S : G[i][t] = Insert(t, params[i], Value(t, i))
  BY <1>8
<1>13. f = [i \in 0..N |-> Next0(f, i)]
  <2>1. \A i \in 0..N : f[i] = Next0(f, i)
    <3> TAKE i \in 0..N
    <3>1. CASE i = 0
      BY <1>11, <3>1
    <3>2. CASE i # 0
      <4>1. i \in 1..N /\ i - 1 \in 0..N
        BY <3>2
      <4>2. f[i - 1] \in S
        BY <1>11, <4>1
      <4>3. f[i] = Insert(f[i - 1], params[i], Value(f[i - 1], i))
        BY <1>11, <1>12, <4>1, <4>2
      <4> QED BY <3>2, <4>3
    <3> QED BY <3>1, <3>2
  <2>2. f = [i \in 0..N |-> f[i]]
    BY <1>11
  <2> HIDE DEF Next0
  <2> QED BY <2>1, <2>2
<1>14. PICK u : u = CHOOSE h : h = [i \in 0..N |-> Next0(h, i)]
  OBVIOUS
<1>15. u = [i \in 0..N |-> Next0(u, i)]
  <2> HIDE DEF Next0
  <2> QED BY <1>13, <1>14
<1>16. u[0] = <<>> /\ \A i \in 1..N : u[i - 1] \in S => u[i] = G[i][u[i - 1]]
  <2>1. \A i \in 0..N : u[i] = Next0(u, i)
    <3> HIDE DEF Next0
    <3> QED BY <1>15
  <2>2. u[0] = <<>>
    <3>1. 0 \in 0..N
      OBVIOUS
    <3> QED BY <2>1, <3>1
  <2>3. ASSUME NEW i \in 1..N, u[i - 1] \in S PROVE u[i] = G[i][u[i - 1]]
    <3>1. i \in 0..N /\ i # 0
      OBVIOUS
    <3>2. u[i] = Insert(u[i - 1], params[i], Value(u[i - 1], i))
      BY <2>1, <3>1
    <3> QED BY <1>12, <2>3, <3>2
  <2> QED BY <2>2, <2>3
<1>17. u[N] \in S
  <2>1. N \in 0..N
    OBVIOUS
  <2> QED BY <1>9, <1>16, <2>1, StepsStay
<1>18. ParseArgs(s) = u[N]
  BY <1>1, <1>2, <1>14 DEF ParseArgs, Value
<1>19. u[N] \in Table
  BY <1>5, <1>6, <1>17, TableWidens
<1> QED BY <1>5, <1>6, <1>17, <1>18, <1>19

\* The history has a table with the same names.
LEMMA ScopeTyped ==
  ASSUME Typed, NEW s, s.name \in DOMAIN program.macros, s.args \in Seq(Seq(Term))
  PROVE  Scope(s) \in Table /\ DOMAIN Scope(s) = DOMAIN ParseArgs(s)
<1>1. PICK params \in Seq(Names) : params = Macro(s).params
  BY MacroIs
<1>2. PICK args \in Seq(Seq(Term)) : args = s.args
  OBVIOUS
<1>3. PICK D : D = DOMAIN ParseArgs(s) /\ D \subseteq Names
                /\ \A x \in D : \E j \in DOMAIN params : params[j] = x
  <2>1. PICK t : t = ParseArgs(s) /\ t \in TableOver(Parameters(s)) /\ t \in Table
    BY ParseArgsTyped
  <2>2. DOMAIN t \subseteq Parameters(s) /\ DOMAIN t \subseteq Names
    BY <2>1, TableIs DEF Table
  <2> QED BY <1>1, <2>1, <2>2 DEF Parameters
<1> DEFINE Entry(x) == LET i == CHOOSE j \in DOMAIN params : params[j] = x
                       IN IF i > Len(args) THEN NoValue ELSE Meant(args[i])
<1>4. ASSUME NEW x \in D PROVE Entry(x) \in Seq(Term)
  <2>1. PICK i \in DOMAIN params : i = CHOOSE j \in DOMAIN params : params[j] = x
    BY <1>3
  <2>2. CASE i > Len(args)
    BY <2>1, <2>2 DEF NoValue
  <2>3. CASE ~(i > Len(args))
    <3>1. i \in 1..Len(params) /\ Len(params) \in Nat /\ Len(args) \in Nat
      BY <2>1
    <3>2. i \in 1..Len(args)
      BY <2>3, <3>1
    <3>3. args[i] \in Seq(Term)
      BY <3>2
    <3>4. Meant(args[i]) \in Seq(Term)
      BY <3>3, MeantTyped
    <3>5. Entry(x) = Meant(args[i])
      BY <2>1, <2>3
    <3> HIDE DEF Entry
    <3> QED BY <3>4, <3>5
  <2> QED BY <2>2, <2>3
<1>5. Scope(s) = [x \in D |-> Entry(x)]
  BY <1>1, <1>2, <1>3 DEF Scope
<1> HIDE DEF Entry
<1>6. Scope(s) \in [D -> Seq(Term)]
  BY <1>4, <1>5
<1>7. Scope(s) \in Table
  BY <1>3, <1>6, TableMade DEF Table
<1> QED BY <1>3, <1>5, <1>7

LEMMA NewContentsTyped ==
  ASSUME Typed, NEW x \in Names, NEW e \in Seq(Term)
  PROVE  NewContents(x, e) \in Seq(Term)
<1>1. PICK c \in Seq(Term) : c = Contents(Env, x)
  BY EnvTyped, ContentsTyped
<1>2. PICK env : env = [args |-> <<>>, labels |-> labels, defines |-> [y \in {x} |-> c]]
  OBVIOUS
<1>3. [y \in {x} |-> c] \in Table
  <2>1. [y \in {x} |-> c] \in [{x} -> Seq(Term)]
    OBVIOUS
  <2> QED BY <2>1, TableMade DEF Table
<1>4. Texts(env) /\ Values(env)
  BY <1>2, <1>3 DEF Texts, Values, Typed, LabelTable
<1>5. ExpandExpr(env, e) \in Seq(Term)
  BY <1>4, ExpandTyped
<1> QED BY <1>1, <1>2, <1>5 DEF NewContents

----------------------------------------------------------------------------
(***************************************************************************)
(* The tables of arguments and the macros being run.                       *)
(***************************************************************************)
Tabled(r) == {i \in DOMAIN r : r[i].table}
Tablings(r) == Cardinality(Tabled(r))

\* Running one thing more, or one less, counts as its table says.
LEMMA FramePushed ==
  ASSUME NEW r \in Seq(Frames), NEW f \in Frames
  PROVE  /\ Tablings(r) \in Nat
         /\ <<f>> \o r \in Seq(Frames)
         /\ f.table => Tablings(<<f>> \o r) = Tablings(r) + 1
         /\ ~f.table => Tablings(<<f>> \o r) = Tablings(r)
<1>1. PICK N \in Nat : N = Len(r) /\ DOMAIN r = 1..N
  OBVIOUS
<1>2. PICK q \in Seq(Frames) : q = <<f>> \o r
  <2>1. <<f>> \in Seq(Frames)
    OBVIOUS
  <2>2. <<f>> \o r \in Seq(Frames)
    BY <2>1
  <2> QED BY <2>2
<1>3. DOMAIN q = 1..N + 1 /\ q[1] = f /\ \A i \in 1..N : q[i + 1] = r[i]
  <2>1. <<f>> \in Seq(Frames) /\ Len(<<f>>) = 1 /\ <<f>>[1] = f
    OBVIOUS
  <2>2. Len(q) = N + 1 /\ q[1] = f /\ \A i \in 1..N : q[i + 1] = r[i]
    BY <1>1, <1>2, <2>1
  <2> QED BY <2>2
<1>4. PICK S : S = Tabled(r)
  OBVIOUS
<1>5. S \subseteq 1..N
  BY <1>1, <1>4 DEF Tabled
<1>6. IsFiniteSet(S) /\ Cardinality(S) \in Nat
  <2>1. IsFiniteSet(1..N)
    <3>1. 1 \in Int /\ N \in Int
      OBVIOUS
    <3> QED BY <3>1, FS_Interval, Zenon
  <2>2. IsFiniteSet(S)
    BY <1>5, <2>1, FS_Subset, Zenon
  <2> QED BY <2>2, FS_CardinalityType, Zenon
<1>7. PICK T : T = {i + 1 : i \in S}
  OBVIOUS
<1>8. IsFiniteSet(T) /\ Cardinality(T) = Cardinality(S)
  <2>1. PICK F : F = [i \in S |-> i + 1]
    OBVIOUS
  <2>2. F \in [S -> T]
    BY <1>7, <2>1
  <2>3. \A a, b \in S : F[a] = F[b] => a = b
    <3> TAKE a, b \in S
    <3>1. a \in Nat /\ b \in Nat
      BY <1>5
    <3> QED BY <2>1, <3>1
  <2>4. \A t \in T : \E i \in S : F[i] = t
    BY <1>7, <2>1
  <2>5. ExistsBijection(S, T)
    <3>1. F \in Injection(S, T)
      BY <2>2, <2>3, Zenon DEF Injection, IsInjective
    <3>2. F \in Surjection(S, T)
      BY <2>2, <2>4, Zenon DEF Surjection
    <3> QED BY <3>1, <3>2, Zenon DEF ExistsBijection, Bijection
  <2> QED BY <1>6, <2>5, FS_Bijection, Zenon
<1>9. 1 \notin T
  BY <1>5, <1>7
<1>10. Tabled(q) = IF f.table THEN T \cup {1} ELSE T
  <2>1. ASSUME NEW i PROVE i \in Tabled(q) <=> i \in T \/ (i = 1 /\ f.table)
    <3>1. CASE i \in 1..N + 1 /\ i # 1
      <4>1. PICK j \in 1..N : i = j + 1
        BY <3>1
      <4>2. q[i] = r[j]
        BY <1>3, <4>1
      <4>3. i \in Tabled(q) <=> j \in S
        BY <1>1, <1>3, <1>4, <3>1, <4>2 DEF Tabled
      <4>4. i \in T <=> j \in S
        <5>1. ASSUME i \in T PROVE j \in S
          <6>1. PICK k \in S : i = k + 1
            BY <1>7, <5>1
          <6>2. k \in Nat /\ j \in Nat
            BY <1>5
          <6>3. k = j
            BY <4>1, <6>1, <6>2
          <6> QED BY <6>3
        <5> QED BY <1>7, <4>1, <5>1
      <4> QED BY <3>1, <4>3, <4>4
    <3>2. CASE i = 1
      <4>1. 1 \in 1..N + 1
        OBVIOUS
      <4> QED BY <1>3, <1>9, <3>2, <4>1 DEF Tabled
    <3>3. CASE i \notin 1..N + 1
      <4>1. i # 1
        BY <3>3
      <4>2. i \notin T
        BY <1>5, <1>7, <3>3
      <4> QED BY <1>3, <3>3, <4>1, <4>2 DEF Tabled
    <3> QED BY <3>1, <3>2, <3>3
  <2> QED BY <2>1
<1>11. Cardinality(T \cup {1}) = Cardinality(T) + 1
  BY <1>8, <1>9, FS_AddElement, Zenon
<1>12. Tablings(r) = Cardinality(S)
  BY <1>4 DEF Tablings
<1>13. f.table => Tablings(q) = Cardinality(S) + 1
  BY <1>8, <1>10, <1>11, Zenon DEF Tablings
<1>14. ~f.table => Tablings(q) = Cardinality(S)
  BY <1>8, <1>10, Zenon DEF Tablings
<1> QED BY <1>2, <1>6, <1>12, <1>13, <1>14, Zenon

LEMMA NothingTabled == Tablings(<<>>) = 0
<1>1. Tabled(<<>>) = {}
  BY DEF Tabled
<1> QED BY <1>1, FS_EmptySet, Zenon DEF Tablings

\* The program itself, the last that runs, has no table of arguments.
Framed == running # <<>> => ~running[Len(running)].table

IInv == Typed /\ Framed /\ TablesFollowMacros

Follow(tables, meant, run) ==
  /\ Len(tables) = Tablings(run)
  /\ Len(meant) = Len(tables)
  /\ \A i \in DOMAIN tables : DOMAIN tables[i] = DOMAIN meant[i]

LEMMA FollowIs ==
  /\ TablesFollowMacros = Follow(arg_list, scopes, running)
  /\ TablesFollowMacros' = Follow(arg_list', scopes', running')
BY Zenon DEF TablesFollowMacros, Follow, Tablings, Tabled

\* The line that is read, and what runs once it has been.
LEMMA RestIs ==
  ASSUME Typed, Framed, running # <<>>, Head(running).lines # <<>>
  PROVE  /\ Head(Head(running).lines) \in Lines(DOMAIN program.macros)
         /\ Rest \in Seq(Frames) /\ Rest # <<>> /\ ~Rest[Len(Rest)].table
         /\ Tablings(Rest) = Tablings(running)
<1>1. PICK M : M = Lines(DOMAIN program.macros)
  OBVIOUS
<1>2. Frames = [lines : Seq(M), table : BOOLEAN]
  BY <1>1 DEF Frames
<1>3. PICK r \in Seq(Frames) : r = running /\ r # <<>>
  BY DEF Typed
<1>4. PICK N \in Nat : N = Len(r) /\ N # 0 /\ DOMAIN r = 1..N
  BY <1>3
<1>5. PICK h \in Frames : h = Head(r) /\ h = r[1]
  BY <1>3, <1>4
<1>6. h.lines \in Seq(M) /\ h.table \in BOOLEAN
  BY <1>2
<1>7. h.lines # <<>>
  BY <1>3, <1>5
<1>8. PICK g : g = [h EXCEPT !.lines = Tail(@)]
  OBVIOUS
<1>9. g \in Frames /\ g.table = h.table
  <2>1. PICK ls \in Seq(M) : ls = Tail(h.lines)
    <3>1. Tail(h.lines) \in Seq(M)
      BY <1>6, <1>7
    <3> QED BY <3>1
  <2>2. g = [h EXCEPT !.lines = ls]
    BY <1>8, <2>1
  <2>3. [h EXCEPT !.lines = ls] \in Frames /\ [h EXCEPT !.lines = ls].table = h.table
    BY <1>2
  <2> QED BY <2>2, <2>3
<1>10. PICK t \in Seq(Frames) : t = Tail(r)
  <2>1. Tail(r) \in Seq(Frames)
    BY <1>3
  <2> QED BY <2>1
<1>11. Len(t) = N - 1 /\ \A i \in 1..(N - 1) : t[i] = r[i + 1]
  BY <1>3, <1>4, <1>10
<1>12. PICK a : a = <<h>> \o t
  OBVIOUS
<1>13. a = r
  BY <1>3, <1>5, <1>10, <1>12
<1>14. PICK b : b = <<g>> \o t
  OBVIOUS
<1>15. Rest = b
  BY <1>3, <1>5, <1>8, <1>10, <1>14 DEF Rest
<1>16. a \in Seq(Frames) /\ b \in Seq(Frames) /\ Tablings(b) = Tablings(a)
  <2>1. /\ h.table => Tablings(a) = Tablings(t) + 1
        /\ ~h.table => Tablings(a) = Tablings(t)
        /\ a \in Seq(Frames)
    BY <1>12, FramePushed
  <2>2. /\ g.table => Tablings(b) = Tablings(t) + 1
        /\ ~g.table => Tablings(b) = Tablings(t)
        /\ b \in Seq(Frames)
    BY <1>9, <1>14, FramePushed
  <2> QED BY <1>9, <2>1, <2>2
<1>17. Len(b) = N /\ b[1] = g /\ \A i \in 2..N : b[i] = r[i]
  <2>1. PICK e \in Seq(Frames) : e = <<g>> /\ Len(e) = 1 /\ e[1] = g
    <3>1. <<g>> \in Seq(Frames)
      BY <1>9
    <3> QED BY <3>1
  <2>2. Len(b) = N /\ b[1] = g /\ \A i \in 1..(N - 1) : b[i + 1] = t[i]
    BY <1>4, <1>11, <1>14, <2>1
  <2>3. ASSUME NEW i \in 2..N PROVE b[i] = r[i]
    <3>1. PICK j \in 1..(N - 1) : i = j + 1
      <4>1. i - 1 \in 1..(N - 1) /\ i = (i - 1) + 1
        BY <1>4
      <4> QED BY <4>1
    <3> QED BY <1>11, <2>2, <3>1
  <2> QED BY <2>2, <2>3
<1>18. ~b[Len(b)].table
  <2>1. ~r[N].table
    BY <1>3, <1>4 DEF Framed
  <2>2. CASE N = 1
    BY <1>5, <1>9, <1>17, <2>1, <2>2
  <2>3. CASE N # 1
    <3>1. N \in 2..N
      BY <1>4, <2>3
    <3> QED BY <1>17, <2>1, <3>1
  <2> QED BY <2>2, <2>3
<1>19. Head(h.lines) \in M
  BY <1>6, <1>7
<1>20. b # <<>>
  BY <1>4, <1>16, <1>17
<1>21. Head(Head(running).lines) = Head(h.lines)
  BY <1>3, <1>5
<1> QED BY <1>1, <1>3, <1>13, <1>15, <1>16, <1>18, <1>19, <1>20, <1>21

\* What every line leaves true of what runs.
LEMMA ReadKeeps ==
  ASSUME IInv, NEW s, Reads(s), running' = Rest
  PROVE  /\ s \in Lines(DOMAIN program.macros)
         /\ program' = program /\ Frames' = Frames
         /\ running' \in Seq(Frames) /\ Framed'
         /\ Tablings(running') = Tablings(running)
<1>1. running # <<>> /\ Head(running).lines # <<>> /\ s = Head(Head(running).lines) /\ program' = program
  BY DEF Reads
<1>2. /\ s \in Lines(DOMAIN program.macros)
      /\ Rest \in Seq(Frames) /\ Rest # <<>> /\ ~Rest[Len(Rest)].table
      /\ Tablings(Rest) = Tablings(running)
  BY <1>1, RestIs DEF IInv
<1>3. Frames' = Frames
  BY <1>1 DEF Frames
<1>4. Framed'
  BY <1>2 DEF Framed
<1> QED BY <1>1, <1>2, <1>3, <1>4

LEMMA InitHolds == Init => IInv
<1> SUFFICES ASSUME Init PROVE IInv
  OBVIOUS
<1>1. PICK f : f = [lines |-> program.main, table |-> FALSE]
  OBVIOUS
<1>2. f \in Frames /\ ~f.table
  <2>1. program.main \in Seq(Lines(DOMAIN program.macros))
    BY MacrosAssumption DEF Init
  <2> QED BY <1>1, <2>1 DEF Frames
<1>3. running = <<f>> /\ <<f>> \in Seq(Frames) /\ Len(<<f>>) = 1 /\ <<f>>[1] = f
  BY <1>1, <1>2 DEF Init
<1>4. Typed
  <2>1. <<>> \in Table
    BY EmptyTable DEF Table
  <2>2. LabelTable(<<>>)
    BY DEF LabelTable
  <2>3. /\ program \in Programs /\ arg_list = <<>> /\ scopes = <<>> /\ out = <<>>
        /\ labels = <<>> /\ defines = <<>> /\ program_counter = 0 /\ failed = FALSE /\ captured = FALSE
    BY DEF Init
  <2>4. arg_list \in Seq(Table) /\ scopes \in Seq(Table) /\ out \in Seq(Outs) /\ program_counter \in Nat
    BY <2>3
  <2>5. program_counter = 2 * Len(out)
    <3>1. Len(out) = 0
      BY <2>3
    <3> QED BY <2>3, <3>1
  <2>6. running \in Seq(Frames)
    BY <1>3
  <2>7. defines \in Table /\ LabelTable(labels)
    BY <2>1, <2>2, <2>3, Zenon
  <2> QED BY <2>3, <2>4, <2>5, <2>6, <2>7, Zenon DEF Typed
<1>5. Framed
  BY <1>2, <1>3 DEF Framed
<1>6. TablesFollowMacros
  <2>1. PICK e \in Seq(Frames) : e = <<>>
    <3>1. <<>> \in Seq(Frames)
      OBVIOUS
    <3> QED BY <3>1, Zenon
  <2>2. Tablings(<<f>> \o e) = 0
    BY <1>2, <2>1, FramePushed, NothingTabled
  <2>3. <<f>> \o e = <<f>>
    BY <1>2, <2>1
  <2>4. Tablings(running) = 0
    BY <1>3, <2>2, <2>3, Zenon
  <2>5. arg_list = <<>> /\ scopes = <<>>
    BY DEF Init
  <2>6. Len(<<>>) = 0 /\ DOMAIN <<>> = {}
    OBVIOUS
  <2> QED BY <2>4, <2>5, <2>6, FollowIs, Zenon DEF Follow
<1> QED BY <1>4, <1>5, <1>6 DEF IInv

LEMMA EmitKeeps ==
  ASSUME IInv, NEW s, Emit(s)
  PROVE  IInv'
<1>1. s.kind = "emit" /\ Reads(s) /\ running' = Rest
  BY DEF Emit
<1>2. /\ s \in Lines(DOMAIN program.macros) /\ program' = program /\ Frames' = Frames
      /\ running' \in Seq(Frames) /\ Framed' /\ Tablings(running') = Tablings(running)
  BY <1>1, ReadKeeps
<1>3. s.expr \in Seq(Term)
  BY <1>1, <1>2, LineIs
<1>4. PICK r \in Result : r = ParseNum(Env, s.expr)
  BY <1>3, ParseTyped, EnvTyped DEF IInv
<1>5. PICK o : o = [ok |-> r.ok, v |-> r.v, pc |-> program_counter, meant |-> Meant(s.expr),
                    expr |-> IF r.ok THEN s.expr ELSE ExpandExpr(Env, s.expr)]
  OBVIOUS
<1>6. o \in Outs
  <2>1. Meant(s.expr) \in Seq(Term)
    BY <1>3, MeantTyped DEF IInv
  <2>2. ExpandExpr(Env, s.expr) \in Seq(Term)
    BY <1>3, ExpandTyped, EnvTyped DEF IInv
  <2>3. PICK e \in Seq(Term) : e = IF r.ok THEN s.expr ELSE ExpandExpr(Env, s.expr)
    BY <1>3, <2>2
  <2>4. PICK m \in Seq(Term) : m = Meant(s.expr)
    BY <2>1
  <2>5. r.ok \in BOOLEAN /\ r.v \in Int
    BY DEF Result
  <2>6. program_counter \in Nat
    BY DEF IInv, Typed
  <2>7. o = [ok |-> r.ok, v |-> r.v, pc |-> program_counter, meant |-> m, expr |-> e]
    BY <1>5, <2>3, <2>4, Zenon
  <2>8. PICK b \in BOOLEAN, v \in Int : b = r.ok /\ v = r.v
    BY <2>5
  <2>9. [ok |-> b, v |-> v, pc |-> program_counter, meant |-> m, expr |-> e] \in Outs
    BY <2>6 DEF Outs
  <2> QED BY <2>7, <2>8, <2>9, Zenon
<1>7. /\ program_counter' = program_counter + 2
      /\ \/ out' = Append(out, o) /\ failed' = failed
         \/ failed' = TRUE /\ out' = out
      /\ arg_list' = arg_list /\ labels' = labels /\ defines' = defines
      /\ scopes' = scopes /\ captured' = captured
  BY <1>4, <1>5, Zenon DEF Emit, symbols
<1>8. out \in Seq(Outs) /\ program_counter \in Nat /\ failed \in BOOLEAN
      /\ (program_counter = 2 * Len(out) \/ failed)
  BY DEF IInv, Typed
<1>9. out' \in Seq(Outs) /\ program_counter' \in Nat /\ failed' \in BOOLEAN
      /\ (program_counter' = 2 * Len(out') \/ failed')
  <2>1. CASE out' = Append(out, o) /\ failed' = failed
    <3>1. Append(out, o) \in Seq(Outs) /\ Len(Append(out, o)) = Len(out) + 1 /\ Len(out) \in Nat
      BY <1>6, <1>8
    <3>2. 2 * (Len(out) + 1) = 2 * Len(out) + 2
      BY <3>1
    <3> QED BY <1>7, <1>8, <2>1, <3>1, <3>2
  <2>2. CASE failed' = TRUE /\ out' = out
    BY <1>7, <1>8, <2>2
  <2> QED BY <1>7, <2>1, <2>2
<1>10. Typed'
  <2>1. Outs' = Outs
    BY DEF Outs
  <2> QED BY <1>2, <1>7, <1>9, <2>1 DEF IInv, Typed, LabelTable
<1>11. TablesFollowMacros'
  BY <1>2, <1>7, FollowIs, Zenon DEF IInv, Follow
<1> QED BY <1>2, <1>10, <1>11 DEF IInv

LEMMA UndefKeeps ==
  ASSUME IInv, NEW s, Undef(s)
  PROVE  IInv'
<1>1. s.kind = "undef" /\ Reads(s) /\ running' = Rest
  BY DEF Undef
<1>2. /\ program' = program /\ Frames' = Frames
      /\ running' \in Seq(Frames) /\ Framed' /\ Tablings(running') = Tablings(running)
  BY <1>1, ReadKeeps
<1>3. /\ defines' = [x \in DOMAIN defines \ {s.name} |-> defines[x]]
      /\ arg_list' = arg_list /\ scopes' = scopes /\ labels' = labels
      /\ program_counter' = program_counter /\ out' = out /\ failed' = failed /\ captured' = captured
  BY DEF Undef
<1>4. defines' \in Table
  <2>1. PICK d \in Table : d = defines
    BY DEF IInv, Typed
  <2>2. PICK D : D = DOMAIN d \ {s.name} /\ D \subseteq Names /\ \A x \in D : d[x] \in Seq(Term)
    <3>1. DOMAIN d \subseteq Names /\ \A x \in DOMAIN d : d[x] \in Seq(Term)
      BY TableIs DEF Table
    <3>2. PICK D : D = DOMAIN d \ {s.name}
      OBVIOUS
    <3> QED BY <3>1, <3>2
  <2>3. [x \in D |-> d[x]] \in [D -> Seq(Term)]
    BY <2>2
  <2>4. [x \in D |-> d[x]] \in Table
    BY <2>2, <2>3, TableMade DEF Table
  <2> QED BY <1>3, <2>1, <2>2, <2>4
<1>5. Typed'
  BY <1>2, <1>3, <1>4 DEF IInv, Typed, LabelTable
<1>6. TablesFollowMacros'
  BY <1>2, <1>3, FollowIs, Zenon DEF IInv, Follow
<1> QED BY <1>2, <1>5, <1>6 DEF IInv

LEMMA LabelKeeps ==
  ASSUME IInv, NEW s, Label(s)
  PROVE  IInv'
<1>1. s.kind = "label" /\ Reads(s) /\ running' = Rest
  BY DEF Label
<1>2. /\ s \in Lines(DOMAIN program.macros) /\ program' = program /\ Frames' = Frames
      /\ running' \in Seq(Frames) /\ Framed' /\ Tablings(running') = Tablings(running)
  BY <1>1, ReadKeeps
<1>3. /\ labels' = labels \/ labels' = Insert(labels, s.name, program_counter)
      /\ arg_list' = arg_list /\ scopes' = scopes /\ defines' = defines
      /\ program_counter' = program_counter /\ out' = out /\ failed' = failed /\ captured' = captured
  BY DEF Label
<1>4. LabelTable(labels')
  <2>1. s.name \in Names
    BY <1>1, <1>2, LineIs
  <2>2. program_counter \in Nat /\ LabelTable(labels)
    BY DEF IInv, Typed
  <2>3. LabelTable(Insert(labels, s.name, program_counter))
    BY <2>1, <2>2 DEF LabelTable, Insert
  <2> QED BY <1>3, <2>2, <2>3
<1>5. Typed'
  BY <1>2, <1>3, <1>4 DEF IInv, Typed
<1>6. TablesFollowMacros'
  BY <1>2, <1>3, FollowIs, Zenon DEF IInv, Follow
<1> QED BY <1>2, <1>5, <1>6 DEF IInv

\* Changing an entry of a table leaves the tables with the names they had.
LEMMA CellWritten ==
  ASSUME NEW l \in Seq(Table), NEW i \in DOMAIN l, NEW x \in DOMAIN l[i], NEW v \in Seq(Term)
  PROVE  /\ [l EXCEPT ![i][x] = v] \in Seq(Table)
         /\ Len([l EXCEPT ![i][x] = v]) = Len(l)
         /\ \A j \in DOMAIN l : DOMAIN [l EXCEPT ![i][x] = v][j] = DOMAIN l[j]
<1>1. PICK t : t = [l[i] EXCEPT ![x] = v]
  OBVIOUS
<1>2. t \in Table /\ DOMAIN t = DOMAIN l[i]
  <2>1. PICK c \in Table : c = l[i]
    OBVIOUS
  <2>2. PICK D : D = DOMAIN c /\ D \subseteq Names /\ c \in [D -> Seq(Term)] /\ x \in D
    BY <2>1 DEF Table, TableOver
  <2>3. [c EXCEPT ![x] = v] \in [D -> Seq(Term)]
    BY <2>2
  <2>4. t \in [D -> Seq(Term)]
    BY <1>1, <2>1, <2>3
  <2>5. t \in Table
    BY <2>2, <2>4, TableMade DEF Table
  <2> QED BY <2>1, <2>2, <2>4, <2>5
<1>3. PICK q : q = [l EXCEPT ![i] = t]
  OBVIOUS
<1>4. [l EXCEPT ![i][x] = v] = q
  BY <1>1, <1>3
<1>5. q \in Seq(Table) /\ Len(q) = Len(l)
  BY <1>2, <1>3
<1>6. \A j \in DOMAIN l : DOMAIN q[j] = DOMAIN l[j]
  <2> TAKE j \in DOMAIN l
  <2>1. CASE j = i
    BY <1>2, <1>3, <2>1
  <2>2. CASE j # i
    BY <1>3, <2>2
  <2> QED BY <2>1, <2>2
<1> QED BY <1>4, <1>5, <1>6, Zenon

LEMMA DefineKeeps ==
  ASSUME IInv, NEW s, Define(s)
  PROVE  IInv'
<1>1. s.kind = "define" /\ Reads(s) /\ running' = Rest
  BY DEF Define
<1>2. /\ s \in Lines(DOMAIN program.macros) /\ program' = program /\ Frames' = Frames
      /\ running' \in Seq(Frames) /\ Framed' /\ Tablings(running') = Tablings(running)
  BY <1>1, ReadKeeps
<1>3. labels' = labels /\ program_counter' = program_counter /\ out' = out /\ failed' = failed /\ captured' = captured
  BY DEF Define
<1>4. PICK x \in Names, e \in Seq(Term) : x = s.name /\ e = s.expr
  BY <1>1, <1>2, LineIs
<1>5. PICK v \in Seq(Term), m \in Seq(Term) : v = NewContents(x, e) /\ m = Meant(e)
  BY NewContentsTyped, MeantTyped DEF IInv
<1>6. PICK i : i = Innermost(arg_list, x)
  OBVIOUS
<1>7. \/ arg_list' = arg_list /\ scopes' = scopes /\ defines' = defines
      \/ /\ Bound(arg_list, x) /\ arg_list' = [arg_list EXCEPT ![i][x] = v]
         /\ scopes' = [scopes EXCEPT ![i][x] = m] /\ defines' = defines
      \/ arg_list' = arg_list /\ scopes' = scopes /\ defines' = Insert(defines, x, v)
  BY <1>4, <1>5, <1>6, Zenon DEF Define
<1>8. arg_list \in Seq(Table) /\ scopes \in Seq(Table) /\ defines \in Table
  BY DEF IInv, Typed
<1>9. Follow(arg_list, scopes, running)
  BY FollowIs DEF IInv
<1>10. /\ arg_list' \in Seq(Table) /\ scopes' \in Seq(Table) /\ defines' \in Table
       /\ Follow(arg_list', scopes', running')
  <2>1. CASE arg_list' = arg_list /\ scopes' = scopes
    <3>1. Insert(defines, x, v) \in Table
      BY <1>8, TableGrows DEF Table
    <3>2. defines' = defines \/ defines' = Insert(defines, x, v)
      BY <1>7
    <3>3. Follow(arg_list', scopes', running')
      BY <1>2, <1>9, <2>1, Zenon DEF Follow
    <3> QED BY <1>8, <2>1, <3>1, <3>2, <3>3
  <2>2. CASE /\ Bound(arg_list, x) /\ arg_list' = [arg_list EXCEPT ![i][x] = v]
             /\ scopes' = [scopes EXCEPT ![i][x] = m] /\ defines' = defines
    <3>1. PICK a \in Seq(Table), h \in Seq(Table) : a = arg_list /\ h = scopes
      BY <1>8
    <3>2. /\ Len(a) = Tablings(running) /\ Len(h) = Len(a)
          /\ \A j \in DOMAIN a : DOMAIN a[j] = DOMAIN h[j]
      BY <1>9, <3>1 DEF Follow
    <3>3. i \in DOMAIN a /\ x \in DOMAIN a[i]
      BY <1>6, <2>2, <3>1, InnermostIs
    <3>4. DOMAIN h = DOMAIN a
      BY <3>2
    <3>5. i \in DOMAIN h /\ x \in DOMAIN h[i]
      BY <3>2, <3>3, <3>4
    <3>6. PICK b : b = [a EXCEPT ![i][x] = v]
      OBVIOUS
    <3>7. b \in Seq(Table) /\ Len(b) = Len(a) /\ \A j \in DOMAIN a : DOMAIN b[j] = DOMAIN a[j]
      <4>1. /\ [a EXCEPT ![i][x] = v] \in Seq(Table)
            /\ Len([a EXCEPT ![i][x] = v]) = Len(a)
            /\ \A j \in DOMAIN a : DOMAIN [a EXCEPT ![i][x] = v][j] = DOMAIN a[j]
        BY <3>3, CellWritten, Zenon
      <4> QED BY <3>6, <4>1, Zenon
    <3>8. PICK g : g = [h EXCEPT ![i][x] = m]
      OBVIOUS
    <3>9. g \in Seq(Table) /\ Len(g) = Len(h) /\ \A j \in DOMAIN h : DOMAIN g[j] = DOMAIN h[j]
      <4>1. /\ [h EXCEPT ![i][x] = m] \in Seq(Table)
            /\ Len([h EXCEPT ![i][x] = m]) = Len(h)
            /\ \A j \in DOMAIN h : DOMAIN [h EXCEPT ![i][x] = m][j] = DOMAIN h[j]
        BY <3>5, CellWritten, Zenon
      <4> QED BY <3>8, <4>1, Zenon
    <3>10. DOMAIN b = DOMAIN a
      BY <3>7
    <3>11. Follow(b, g, running')
      BY <1>2, <3>2, <3>4, <3>7, <3>9, <3>10, Zenon DEF Follow
    <3>12. arg_list' = b /\ scopes' = g
      BY <2>2, <3>1, <3>6, <3>8
    <3> QED BY <1>8, <2>2, <3>7, <3>9, <3>11, <3>12
  <2> QED BY <1>7, <2>1, <2>2
<1>11. Typed'
  BY <1>2, <1>3, <1>10 DEF IInv, Typed, LabelTable
<1>12. TablesFollowMacros'
  BY <1>10, FollowIs
<1> QED BY <1>2, <1>11, <1>12 DEF IInv

LEMMA InvokeKeeps ==
  ASSUME IInv, NEW s, Invoke(s)
  PROVE  IInv'
<1>1. s.kind = "invoke" /\ Reads(s) /\ program' = program
  BY DEF Invoke, Reads
<1>2. running # <<>> /\ Head(running).lines # <<>> /\ s = Head(Head(running).lines)
  BY <1>1 DEF Reads
<1>3. /\ s \in Lines(DOMAIN program.macros)
      /\ Rest \in Seq(Frames) /\ Rest # <<>> /\ ~Rest[Len(Rest)].table
      /\ Tablings(Rest) = Tablings(running)
  BY <1>2, RestIs DEF IInv
<1>4. s.name \in DOMAIN program.macros /\ s.args \in Seq(Seq(Term))
  BY <1>1, <1>3, LineIs
<1>5. Frames' = Frames
  BY <1>1 DEF Frames
<1>6. labels' = labels /\ defines' = defines /\ program_counter' = program_counter /\ out' = out
  BY DEF Invoke, symbols
<1>7. PICK rest \in Seq(Frames) : rest = Rest
  BY <1>3
<1>8. /\ arg_list \in Seq(Table) /\ scopes \in Seq(Table) /\ failed \in BOOLEAN /\ captured \in BOOLEAN
      /\ Follow(arg_list, scopes, running)
  BY FollowIs DEF IInv, Typed
<1>9. CASE TooMany(s)
  <2>1. failed' = TRUE /\ running' = Rest /\ arg_list' = arg_list /\ scopes' = scopes /\ captured' = captured
    BY <1>9 DEF Invoke
  <2>2. Framed'
    BY <1>3, <2>1 DEF Framed
  <2>3. Typed'
    BY <1>1, <1>3, <1>5, <1>6, <2>1 DEF IInv, Typed, LabelTable
  <2>4. TablesFollowMacros'
    BY <1>3, <1>8, <2>1, FollowIs, Zenon DEF Follow
  <2> QED BY <2>2, <2>3, <2>4 DEF IInv
<1>10. CASE ~TooMany(s)
  <2>1. PICK f : f = [lines |-> Macro(s).lines, table |-> ~Bare(s)]
    OBVIOUS
  <2>2. /\ running' = <<f>> \o Rest /\ failed' = failed
        /\ arg_list' = IF Bare(s) THEN arg_list ELSE <<ParseArgs(s)>> \o arg_list
        /\ scopes' = IF Bare(s) THEN scopes ELSE <<Scope(s)>> \o scopes
        /\ captured' = (captured \/ Captures(s))
    BY <1>10, <2>1, Zenon DEF Invoke
  <2>3. f \in Frames /\ f.table = ~Bare(s)
    <3>1. Macro(s).lines \in Seq(Lines(DOMAIN program.macros))
      BY <1>4, MacroIs DEF IInv
    <3>2. (~Bare(s)) \in BOOLEAN
      BY DEF Bare
    <3>3. PICK ls \in Seq(Lines(DOMAIN program.macros)) : ls = Macro(s).lines
      BY <3>1
    <3>4. PICK b \in BOOLEAN : b = (~Bare(s))
      BY <3>2
    <3>5. [lines |-> ls, table |-> b] \in Frames /\ [lines |-> ls, table |-> b].table = b
      BY DEF Frames
    <3> QED BY <2>1, <3>3, <3>4, <3>5, Zenon
  <2>4. PICK q : q = <<f>> \o rest
    OBVIOUS
  <2>5. /\ q \in Seq(Frames) /\ Tablings(rest) \in Nat
        /\ f.table => Tablings(q) = Tablings(rest) + 1
        /\ ~f.table => Tablings(q) = Tablings(rest)
    BY <2>3, <2>4, FramePushed
  <2>6. running' = q
    BY <1>7, <2>2, <2>4
  <2>7. Framed'
    <3>1. PICK e \in Seq(Frames) : e = <<f>> /\ Len(e) = 1
      <4>1. <<f>> \in Seq(Frames)
        BY <2>3
      <4> QED BY <4>1
    <3>2. PICK N \in Nat : N = Len(rest) /\ N # 0
      BY <1>3, <1>7
    <3>3. Len(q) = N + 1 /\ q[N + 1] = rest[N]
      BY <2>4, <3>1, <3>2
    <3>4. ~rest[N].table
      BY <1>3, <1>7, <3>2
    <3> QED BY <2>6, <3>3, <3>4 DEF Framed
  <2>8. arg_list' \in Seq(Table) /\ scopes' \in Seq(Table) /\ Follow(arg_list', scopes', running')
    <3>1. CASE Bare(s)
      <4>1. arg_list' = arg_list /\ scopes' = scopes /\ ~f.table
        BY <2>2, <2>3, <3>1
      <4> QED BY <1>3, <1>7, <1>8, <2>5, <2>6, <4>1, Zenon DEF Follow
    <3>2. CASE ~Bare(s)
      <4>1. PICK a \in Seq(Table), h \in Seq(Table) : a = arg_list /\ h = scopes
        BY <1>8
      <4>2. /\ Len(a) = Tablings(rest) /\ Len(h) = Len(a)
            /\ \A j \in DOMAIN a : DOMAIN a[j] = DOMAIN h[j]
        BY <1>3, <1>7, <1>8, <4>1, Zenon DEF Follow
      <4>3. PICK t \in Table, c \in Table : t = ParseArgs(s) /\ c = Scope(s) /\ DOMAIN c = DOMAIN t
        BY <1>4, ParseArgsTyped, ScopeTyped DEF IInv
      <4>4. PICK b : b = <<t>> \o a
        OBVIOUS
      <4>5. PICK g : g = <<c>> \o h
        OBVIOUS
      <4>6. b \in Seq(Table) /\ Len(b) = Len(a) + 1 /\ b[1] = t /\ \A j \in 1..Len(a) : b[j + 1] = a[j]
        BY <4>4
      <4>7. g \in Seq(Table) /\ Len(g) = Len(h) + 1 /\ g[1] = c /\ \A j \in 1..Len(h) : g[j + 1] = h[j]
        BY <4>5
      <4>8. \A j \in DOMAIN b : DOMAIN b[j] = DOMAIN g[j]
        <5> TAKE j \in DOMAIN b
        <5>1. j \in 1..Len(a) + 1 /\ Len(a) \in Nat
          BY <4>6
        <5>2. CASE j = 1
          BY <4>3, <4>6, <4>7, <5>2
        <5>3. CASE j # 1
          <6>1. PICK k \in 1..Len(a) : j = k + 1
            <7>1. j - 1 \in 1..Len(a) /\ j = (j - 1) + 1
              BY <5>1, <5>3
            <7> QED BY <7>1
          <6>2. b[j] = a[k] /\ g[j] = h[k]
            BY <4>2, <4>6, <4>7, <6>1
          <6>3. k \in DOMAIN a
            OBVIOUS
          <6> QED BY <4>2, <6>2, <6>3
        <5> QED BY <5>2, <5>3
      <4>9. Len(b) = Tablings(q) /\ Len(g) = Len(b)
        BY <2>3, <2>5, <3>2, <4>2, <4>6, <4>7
      <4>10. Follow(b, g, q)
        BY <4>8, <4>9, Zenon DEF Follow
      <4>11. arg_list' = b /\ scopes' = g
        BY <2>2, <3>2, <4>1, <4>3, <4>4, <4>5, Zenon
      <4> QED BY <2>6, <4>6, <4>7, <4>10, <4>11, Zenon
    <3> QED BY <3>1, <3>2
  <2>9. captured' \in BOOLEAN
    <3>1. Captures(s) \in BOOLEAN
      BY DEF Captures
    <3> QED BY <1>8, <2>2, <3>1
  <2>10. Typed'
    BY <1>1, <1>5, <1>6, <2>2, <2>5, <2>6, <2>8, <2>9 DEF IInv, Typed, LabelTable
  <2>11. TablesFollowMacros'
    BY <2>8, FollowIs
  <2> QED BY <2>7, <2>10, <2>11 DEF IInv
<1> QED BY <1>9, <1>10

LEMMA ReturnKeeps ==
  ASSUME IInv, Return
  PROVE  IInv'
<1>1. PICK r \in Seq(Frames) : r = running
  BY DEF IInv, Typed
<1>2. PICK N \in Nat : N = Len(r) /\ N > 1 /\ r # <<>>
  BY <1>1 DEF Return
<1>3. PICK h \in Frames : h = Head(r) /\ h = r[1]
  BY <1>2
<1>4. PICK t \in Seq(Frames) : t = Tail(r)
  <2>1. Tail(r) \in Seq(Frames)
    BY <1>2
  <2> QED BY <2>1
<1>5. Len(t) = N - 1 /\ t[N - 1] = r[N]
  BY <1>2, <1>4
<1>6. h.table \in BOOLEAN
  BY DEF Frames
<1>7. /\ running' = t
      /\ arg_list' = IF h.table THEN Tail(arg_list) ELSE arg_list
      /\ scopes' = IF h.table THEN Tail(scopes) ELSE scopes
      /\ program' = program /\ labels' = labels /\ defines' = defines
      /\ program_counter' = program_counter /\ out' = out /\ failed' = failed /\ captured' = captured
  BY <1>1, <1>3, <1>4, Zenon DEF Return, symbols
<1>8. Framed'
  <2>1. ~r[N].table
    BY <1>1, <1>2 DEF IInv, Framed
  <2> QED BY <1>2, <1>5, <1>7, <2>1 DEF Framed
<1>9. /\ Tablings(t) \in Nat
      /\ h.table => Tablings(r) = Tablings(t) + 1
      /\ ~h.table => Tablings(r) = Tablings(t)
  <2>1. <<h>> \o t = r
    BY <1>2, <1>3, <1>4
  <2>2. /\ Tablings(t) \in Nat
        /\ h.table => Tablings(<<h>> \o t) = Tablings(t) + 1
        /\ ~h.table => Tablings(<<h>> \o t) = Tablings(t)
    BY FramePushed, Zenon
  <2> QED BY <2>1, <2>2, Zenon
<1>10. PICK a \in Seq(Table), g \in Seq(Table) : a = arg_list /\ g = scopes
  BY DEF IInv, Typed
<1>11. /\ Len(a) = Tablings(r) /\ Len(g) = Len(a)
       /\ \A j \in DOMAIN a : DOMAIN a[j] = DOMAIN g[j]
  <2>1. Follow(arg_list, scopes, running)
    BY FollowIs DEF IInv
  <2> QED BY <1>1, <1>10, <2>1, Zenon DEF Follow
<1>12. arg_list' \in Seq(Table) /\ scopes' \in Seq(Table) /\ Follow(arg_list', scopes', t)
  <2>1. CASE ~h.table
    <3>1. arg_list' = a /\ scopes' = g
      BY <1>7, <1>10, <2>1
    <3> QED BY <1>9, <1>11, <2>1, <3>1, Zenon DEF Follow
  <2>2. CASE h.table
    <3>1. Len(a) \in Nat /\ Len(a) = Tablings(t) + 1 /\ a # <<>> /\ g # <<>>
      BY <1>9, <1>11, <2>2
    <3>2. PICK b \in Seq(Table) : b = Tail(a)
      <4>1. Tail(a) \in Seq(Table)
        BY <3>1
      <4> QED BY <4>1
    <3>3. PICK c \in Seq(Table) : c = Tail(g)
      <4>1. Tail(g) \in Seq(Table)
        BY <3>1
      <4> QED BY <4>1
    <3>4. Len(b) = Len(a) - 1 /\ \A j \in 1..Len(b) : b[j] = a[j + 1]
      <4>1. a # <<>>
        BY <3>1
      <4> QED BY <3>2, <4>1
    <3>5. Len(c) = Len(g) - 1 /\ \A j \in 1..Len(c) : c[j] = g[j + 1]
      <4>1. g # <<>>
        BY <3>1
      <4> QED BY <3>3, <4>1
    <3>6. Len(b) = Tablings(t) /\ Len(c) = Len(b)
      <4>1. Len(g) = Len(a)
        BY <1>11
      <4>2. PICK m \in Nat : m = Tablings(t)
        BY <1>9
      <4> QED BY <3>1, <3>4, <3>5, <4>1, <4>2
    <3>7. \A j \in DOMAIN b : DOMAIN b[j] = DOMAIN c[j]
      <4> TAKE j \in DOMAIN b
      <4>1. j \in 1..Len(b) /\ j \in 1..Len(c) /\ j + 1 \in 1..Len(a)
        BY <3>1, <3>4, <3>6
      <4>2. j + 1 \in DOMAIN a
        BY <4>1
      <4> QED BY <1>11, <3>4, <3>5, <4>1, <4>2
    <3>8. arg_list' = b /\ scopes' = c
      BY <1>7, <1>10, <2>2, <3>2, <3>3
    <3> QED BY <3>6, <3>7, <3>8, Zenon DEF Follow
  <2> QED BY <2>1, <2>2
<1>13. Typed'
  <2>1. Frames' = Frames
    BY <1>7 DEF Frames
  <2> QED BY <1>7, <1>12, <2>1 DEF IInv, Typed, LabelTable
<1>14. TablesFollowMacros'
  BY <1>7, <1>12, FollowIs, Zenon
<1> QED BY <1>8, <1>13, <1>14 DEF IInv

LEMMA EndKeeps ==
  ASSUME IInv, EndOfProgram
  PROVE  IInv'
<1>1. PICK r \in Seq(Frames) : r = running
  BY DEF IInv, Typed
<1>2. Len(r) = 1 /\ r # <<>>
  BY <1>1 DEF EndOfProgram
<1>3. ~r[1].table
  BY <1>1, <1>2 DEF IInv, Framed
<1>4. /\ running' = <<>>
      /\ program' = program /\ labels' = labels /\ defines' = defines /\ arg_list' = arg_list /\ scopes' = scopes
      /\ program_counter' = program_counter /\ out' = out /\ failed' = failed /\ captured' = captured
  BY Zenon DEF EndOfProgram, symbols
<1>5. Tablings(r) = 0
  <2>1. Tabled(r) = {}
    BY <1>2, <1>3 DEF Tabled
  <2> QED BY <2>1, FS_EmptySet, Zenon DEF Tablings
<1>6. TablesFollowMacros'
  <2>1. Follow(arg_list, scopes, r)
    BY <1>1, FollowIs DEF IInv
  <2>2. Follow(arg_list', scopes', <<>>)
    BY <1>4, <1>5, <2>1, NothingTabled, Zenon DEF Follow
  <2> QED BY <1>4, <2>2, FollowIs, Zenon
<1>7. Typed'
  <2>1. Frames' = Frames
    BY <1>4 DEF Frames
  <2>2. <<>> \in Seq(Frames)
    OBVIOUS
  <2> QED BY <1>4, <2>1, <2>2 DEF IInv, Typed, LabelTable
<1>8. Framed'
  BY <1>4 DEF Framed
<1> QED BY <1>6, <1>7, <1>8 DEF IInv

LEMMA StepHolds == IInv /\ [Next]_vars => IInv'
<1> SUFFICES ASSUME IInv, [Next]_vars PROVE IInv'
  OBVIOUS
<1>1. ASSUME NEW s, Invoke(s) \/ Emit(s) \/ Define(s) \/ Undef(s) \/ Label(s)
      PROVE  IInv'
  BY <1>1, InvokeKeeps, EmitKeeps, DefineKeeps, UndefKeeps, LabelKeeps
<1>2. CASE UNCHANGED vars
  <2>1. Frames' = Frames
    BY <1>2 DEF Frames, vars
  <2>2. Outs' = Outs
    BY DEF Outs
  <2>3. Typed'
    BY <1>2, <2>1, <2>2 DEF IInv, Typed, LabelTable, vars
  <2>4. Framed'
    BY <1>2 DEF IInv, Framed, vars
  <2>5. TablesFollowMacros'
    BY <1>2, FollowIs, Zenon DEF IInv, vars
  <2> QED BY <2>3, <2>4, <2>5 DEF IInv
<1> QED BY <1>1, <1>2, ReturnKeeps, EndKeeps DEF Next, Step, Done

LEMMA Reached == Spec => []IInv
BY InitHolds, StepHolds, PTL DEF Spec

\* Every variable has its type (TypeOK), whatever the program: each argument
\* and #define is a chain of operands that can be read again (parse_num,
\* expand_expr), and an instruction takes two bytes unless an error was fatal.
THEOREM TypeCorrect == Spec => []TypeOK
<1>1. IInv => TypeOK
  <2> SUFFICES ASSUME IInv PROVE TypeOK
    OBVIOUS
  <2>1. ASSUME NEW l \in Seq(Table) PROVE Tables(l)
    <3>1. ASSUME NEW i \in DOMAIN l, NEW x \in DOMAIN l[i] PROVE x \in Names /\ l[i][x] \in Seq(Term)
      <4>1. l[i] \in Table
        OBVIOUS
      <4> QED BY <4>1, TableIs DEF Table
    <3> QED BY <3>1 DEF Tables
  <2>2. Tables(arg_list) /\ Tables(scopes)
    BY <2>1 DEF IInv, Typed
  <2>3. Tables(<<defines>>)
    <3>1. PICK d \in Table : d = defines
      BY DEF IInv, Typed
    <3>2. <<d>> \in Seq(Table)
      OBVIOUS
    <3> QED BY <2>1, <3>1, <3>2
  <2>4. \A i \in DOMAIN running : running[i].table \in BOOLEAN
    <3>1. PICK r \in Seq(Frames) : r = running
      BY DEF IInv, Typed
    <3>2. \A f \in Frames : f.table \in BOOLEAN
      BY DEF Frames
    <3>3. \A i \in DOMAIN r : r[i] \in Frames
      OBVIOUS
    <3> QED BY <3>1, <3>2, <3>3
  <2>5. \A x \in DOMAIN labels : x \in Names /\ labels[x] \in Nat
    BY DEF IInv, Typed, LabelTable
  <2> QED BY <2>2, <2>3, <2>4, <2>5 DEF IInv, Typed, TypeOK
<1> QED BY Reached, <1>1, PTL

\* The tables of arguments are those of the macros being run
\* (TablesFollowMacros), for every program and however deep macros nest: an
\* invocation that is given up leaves none behind (process_opcode's macro
\* branch and its add_arg_set, remove_arg_set).
THEOREM NoTableLeft == Spec => []TablesFollowMacros
<1>1. IInv => TablesFollowMacros
  BY DEF IInv
<1> QED BY Reached, <1>1, PTL

----------------------------------------------------------------------------
(***************************************************************************)
(* What the parameters of a macro hide.                                    *)
(***************************************************************************)
\* Adding an entry to a table leaves the other entries alone.
LEMMA OtherEntries ==
  ASSUME NEW f, NEW x, NEW v, NEW y, y # x
  PROVE  y \in DOMAIN Insert(f, x, v) => y \in DOMAIN f /\ Insert(f, x, v)[y] = f[y]
  BY DEF Insert

LEMMA DefineShadowed ==
  ASSUME NEW s, Define(s), NEW x \in Names, Bound(arg_list, x), x \in DOMAIN defines'
  PROVE  x \in DOMAIN defines /\ defines'[x] = defines[x]
<1>1. CASE UNCHANGED defines
  BY <1>1
<1>2. CASE ~Bound(arg_list, s.name) /\ defines' = Insert(defines, s.name, NewContents(s.name, s.expr))
  <2>1. x # s.name
    BY <1>2
  <2> QED BY <1>2, <2>1, OtherEntries
<1> QED BY <1>1, <1>2 DEF Define

LEMMA LabelShadowed ==
  ASSUME NEW s, Label(s), NEW x \in Names, Bound(arg_list, x), x \in DOMAIN labels'
  PROVE  x \in DOMAIN labels /\ labels'[x] = labels[x]
<1>1. CASE labels' = labels
  BY <1>1
<1>2. CASE ~Bound(arg_list, s.name) /\ labels' = Insert(labels, s.name, program_counter)
  <2>1. x # s.name
    BY <1>2
  <2> QED BY <1>2, <2>1, OtherEntries
<1> QED BY <1>1, <1>2 DEF Label

(***************************************************************************)
(* No #define and no label line reaches past a parameter of a macro that   *)
(* runs: ParametersShadow for every program (add_define, add_label).       *)
(***************************************************************************)
THEOREM ParametersHide == Spec => ParametersShadow
<1> DEFINE Kept(x) ==
      /\ (x \in DOMAIN defines' => x \in DOMAIN defines /\ defines'[x] = defines[x])
      /\ (x \in DOMAIN labels' => x \in DOMAIN labels /\ labels'[x] = labels[x])
<1>1. ASSUME [Next]_vars, NEW x \in Names, Bound(arg_list, x)
      PROVE  Kept(x)
  <2>1. CASE UNCHANGED symbols
    BY <2>1 DEF symbols
  <2>2. ASSUME NEW s, Invoke(s) \/ Emit(s)
        PROVE  Kept(x)
    BY <2>2, <2>1 DEF Invoke, Emit
  <2>3. ASSUME NEW s, Define(s)
        PROVE  Kept(x)
    <3>1. UNCHANGED labels
      BY <2>3 DEF Define
    <3> QED BY <3>1, <2>3, <1>1, DefineShadowed
  <2>4. ASSUME NEW s, Undef(s)
        PROVE  Kept(x)
    BY <2>4 DEF Undef
  <2>5. ASSUME NEW s, Label(s)
        PROVE  Kept(x)
    <3>1. UNCHANGED defines
      BY <2>5 DEF Label
    <3> QED BY <3>1, <2>5, <1>1, LabelShadowed
  <2>6. CASE Return \/ EndOfProgram \/ Done \/ UNCHANGED vars
    BY <2>6, <2>1 DEF Return, EndOfProgram, Done, vars, symbols
  <2> QED BY <1>1, <2>2, <2>3, <2>4, <2>5, <2>6 DEF Next, Step
<1>2. [Next]_vars => \A x \in Names : Bound(arg_list, x) => Kept(x)
  BY <1>1
<1> QED BY <1>2, PTL DEF Spec, ParametersShadow
=============================================================================
