---------------------------- MODULE TwoPassProofs ----------------------------
(***************************************************************************)
(* Where the two passes write: proofs about TwoPass for programs of any    *)
(* length made of any statements.  What ParseNum returns plays no part in  *)
(* them, only how many bytes are written and where.                        *)
(***************************************************************************)
EXTENDS TwoPass, TLAPS

IsSequence(q) == \E S : q \in Seq(S)

IsArg(a) ==
  a.type \in ArgTypes /\ a = [type |-> a.type, pc |-> a.pc, size |-> a.size, orv |-> a.orv]

\* The shape of the state: holds for every program.
Shapes ==
  /\ source \in Sources
  /\ phase \in {"pass_one", "pass_two", "done", "exited"}
  /\ out_ptr \in Nat /\ saved_out_ptr \in Nat
  /\ DOMAIN contents = Addresses
  /\ IsSequence(expr_list)
  /\ \A i \in 1..Len(expr_list) : expr_list[i].at \in Nat /\ expr_list[i].type \in ArgTypes
  /\ IsSequence(log)
  /\ \A i \in 1..Len(log) : log[i].at \in Nat /\ IsArg(log[i].arg)

(***************************************************************************)
(* Lengths.                                                                *)
(***************************************************************************)
\* write_arg writes Width bytes, or none for an rst it rejects.
LEMMA ArgLength ==
  ASSUME NEW arg, NEW v, arg.type \in ArgTypes
  PROVE  /\ Len(ArgBytes(arg, v)) \in 0..Width(arg.type)
         /\ arg.type # "RST" \/ v \in RstTargets => Len(ArgBytes(arg, v)) = Width(arg.type)
         /\ Width(arg.type) \in 1..3
  BY DEF ArgBytes, Width, ArgTypes

LEMMA WidthRange ==
  ASSUME NEW t \in ArgTypes
  PROVE  Width(t) \in 1..3
  BY DEF Width

\* A placeholder takes up exactly the room of the value that replaces it.
LEMMA PlaceholderLength ==
  ASSUME NEW t \in ArgTypes, NEW p, NEW n, NEW o
  PROVE  Len(Placeholder([type |-> t, pc |-> p, size |-> n, orv |-> o])) = Width(t)
  BY DEF Placeholder, ArgBytes, Width, ArgTypes, RstTargets

LEMMA PutDomain ==
  ASSUME NEW img, NEW at, NEW bytes
  PROVE  DOMAIN Put(img, at, bytes) = DOMAIN img
  BY DEF Put

LEMMA PutOutside ==
  ASSUME NEW img, NEW at, NEW bytes, NEW a \in DOMAIN img,
         Put(img, at, bytes)[a] # img[a]
  PROVE  a >= at /\ a < at + Len(bytes)
  BY DEF Put

LEMMA AppendShape ==
  ASSUME NEW q, NEW x, IsSequence(q)
  PROVE  /\ IsSequence(Append(q, x))
         /\ Len(Append(q, x)) = Len(q) + 1 /\ Len(q) \in Nat
         /\ \A i \in 1..Len(q) : Append(q, x)[i] = q[i]
         /\ Append(q, x)[Len(q) + 1] = x
<1>1. PICK S : q \in Seq(S) BY DEF IsSequence
<1>2. q \in Seq(S \cup {x}) BY <1>1
<1>3. Append(q, x) \in Seq(S \cup {x}) BY <1>2
<1> QED BY <1>2, <1>3 DEF IsSequence

LEMMA TailShape ==
  ASSUME NEW q, IsSequence(q), q # <<>>
  PROVE  /\ IsSequence(Tail(q)) /\ Len(q) \in Nat /\ Len(q) >= 1
         /\ Len(Tail(q)) = Len(q) - 1
         /\ \A i \in 1..Len(Tail(q)) : Tail(q)[i] = q[i + 1]
         /\ Head(q) = q[1]
<1>1. PICK S : q \in Seq(S) BY DEF IsSequence
<1>2. Tail(q) \in Seq(S) BY <1>1
<1> QED BY <1>1, <1>2 DEF IsSequence

LEMMA Statement ==
  ASSUME source \in Sources, NEW s \in source
  PROVE  /\ s.kind = "data" => s.type \in {"NUM_8", "NUM_16", "NUM_24"}
         /\ s.kind = "instruction" => s.type \in ArgTypes /\ s.opcode \in Seq(0..255)
         /\ s.kind = "import" => s.bytes \in Seq(0..255)
  BY StatementsAssumption

(***************************************************************************)
(* The shape of the state is kept.                                         *)
(***************************************************************************)
LEMMA InitShapes == Init => Shapes
<1> SUFFICES ASSUME Init PROVE Shapes
  OBVIOUS
<1>1. IsSequence(<<>>) /\ 1..Len(<<>>) = {}
  <2>1. <<>> \in Seq({})
    OBVIOUS
  <2> QED BY <2>1 DEF IsSequence
<1>2. DOMAIN contents = Addresses
  BY DEF Init, Addresses
<1>3. expr_list = <<>> /\ log = <<>>
  BY DEF Init
<1>4. /\ source \in Sources
      /\ phase \in {"pass_one", "pass_two", "done", "exited"}
      /\ out_ptr \in Nat /\ saved_out_ptr \in Nat
  BY DEF Init
<1> QED BY <1>1, <1>2, <1>3, <1>4 DEF Shapes

\* What add_pass_two_expr does to the shape, for a statement and a place.
LEMMA ArgumentShapes ==
  ASSUME Shapes, NEW s, s.type \in ArgTypes, NEW at \in Nat, NEW img, NEW e,
         DOMAIN img = Addresses, phase' = phase, saved_out_ptr' = saved_out_ptr,
         source' = source,
         AddPassTwoExpr(Arg(s), at, img, e)
  PROVE  Shapes'
<1> DEFINE arg == Arg(s)
           x == Slot(arg, at, e)
           l == [arg |-> arg, at |-> at, expr |-> e, env |-> Env]
<1>1. arg.type \in ArgTypes /\ x.at = at /\ x.type \in ArgTypes /\ l.at = at /\ IsArg(l.arg)
  BY DEF Arg, Slot, IsArg
<1>2. PICK bytes : /\ Len(bytes) \in Nat
                   /\ contents' = Put(img, at, bytes)
                   /\ out_ptr' = at + Len(bytes)
  <2> DEFINE r == ParseNum(Env, e)
             b == IF r.ok THEN ArgBytes(arg, r.v)
                  ELSE IF ~r.ok /\ Deferrable(r) THEN Placeholder(arg) ELSE <<>>
  <2>1. Len(ArgBytes(arg, r.v)) \in Nat
    BY <1>1, ArgLength
  <2>2. Len(Placeholder(arg)) \in Nat
    BY PlaceholderLength DEF Arg, Width
  <2>3. Len(b) \in Nat
    BY <2>1, <2>2
  <2>4. contents' = Put(img, at, b) /\ out_ptr' = at + Len(b)
    BY DEF AddPassTwoExpr
  <2> QED BY <2>3, <2>4
<1>3. DOMAIN contents' = Addresses /\ out_ptr' \in Nat
  BY <1>2, PutDomain
<1>4. expr_list' = expr_list \/ expr_list' = Append(expr_list, x)
  BY DEF AddPassTwoExpr
<1>5. log' = log \/ log' = Append(log, l)
  BY DEF AddPassTwoExpr
<1>6. /\ IsSequence(expr_list')
      /\ \A i \in 1..Len(expr_list') : expr_list'[i].at \in Nat /\ expr_list'[i].type \in ArgTypes
  <2> HIDE DEF x
  <2>1. CASE expr_list' = expr_list
    BY <2>1 DEF Shapes
  <2>2. CASE expr_list' = Append(expr_list, x)
    BY <2>2, <1>1, AppendShape DEF Shapes
  <2> QED BY <1>4, <2>1, <2>2
<1>7. /\ IsSequence(log')
      /\ \A i \in 1..Len(log') : log'[i].at \in Nat /\ IsArg(log'[i].arg)
  <2> HIDE DEF l
  <2>1. CASE log' = log
    BY <2>1 DEF Shapes
  <2>2. CASE log' = Append(log, l)
    BY <2>2, <1>1, AppendShape DEF Shapes
  <2> QED BY <1>5, <2>1, <2>2
<1> QED BY <1>3, <1>6, <1>7 DEF Shapes, Addresses

LEMMA FillInShapes ==
  ASSUME Shapes, SecondPassStep
  PROVE  /\ DOMAIN contents' = Addresses /\ out_ptr' \in Nat
         /\ \A a \in Addresses :
              contents'[a] # contents[a] =>
                a \in Head(expr_list).at..Head(expr_list).at + Width(Head(expr_list).type) - 1
<1> DEFINE x == Head(expr_list)
           r == ParseNum(SecondPassEnv(x), x.expr)
<1>1. x.at \in Nat /\ x.type \in ArgTypes
  BY TailShape DEF Shapes, SecondPassStep
<1>2. CASE r.ok /\ x.type # "RST"
  <2> DEFINE bytes == ArgBytes(x, r.v)
  <2>1. contents' = Put(contents, x.at, bytes) /\ out_ptr' = x.at + Len(bytes)
    BY <1>2 DEF SecondPassStep, FillIn
  <2>2. Len(bytes) = Width(x.type) /\ Width(x.type) \in 1..3
    BY <1>1, <1>2, ArgLength
  <2> HIDE DEF bytes, x
  <2>3. DOMAIN contents' = Addresses /\ out_ptr' \in Nat
    BY <2>1, <2>2, <1>1, PutDomain DEF Shapes
  <2>4. ASSUME NEW a \in Addresses, contents'[a] # contents[a]
        PROVE  a \in x.at..x.at + Width(x.type) - 1
    <3>1. a >= x.at /\ a < x.at + Len(bytes)
      BY <2>1, <2>4, PutOutside DEF Shapes
    <3>2. a \in Int
      BY <2>4, TwoPassAssumption DEF Addresses
    <3> QED BY <3>1, <3>2, <2>2, <1>1
  <2> QED BY <2>3, <2>4 DEF x
<1>3. CASE ~r.ok \/ x.type = "RST"
  BY <1>3 DEF SecondPassStep, FillIn, Shapes
<1> QED BY <1>2, <1>3

LEMMA StepShapes ==
  ASSUME Shapes, [Next]_vars
  PROVE  Shapes'
<1>1. ASSUME NEW s \in source,
             \/ Label(s) \/ Reusable(s) \/ Equate(s) \/ Define(s) \/ Org(s)
             \/ Option(s) \/ Error(s) \/ Echo(s) \/ Show(s)
      PROVE  Shapes'
  BY <1>1 DEF Label, Reusable, Equate, Define, Org, Option, Error, Echo, Show, Reads, pass_one_state, Shapes, Addresses
<1>2. ASSUME NEW s \in source, Data(s)
      PROVE  Shapes'
  <2>1. s.type \in ArgTypes
    BY <1>2, Statement DEF Data, ArgTypes, Shapes
  <2>2. /\ AddPassTwoExpr(Arg(s), out_ptr, contents, s.expr)
        /\ UNCHANGED <<source, phase, saved_out_ptr>>
    BY <1>2 DEF Data, Reads
  <2>3. out_ptr \in Nat /\ DOMAIN contents = Addresses
    BY DEF Shapes
  <2> QED BY <2>1, <2>2, <2>3, ArgumentShapes
<1>3. ASSUME NEW s \in source, Instruction(s)
      PROVE  Shapes'
  <2>1. s.type \in ArgTypes /\ s.opcode \in Seq(0..255)
    BY <1>3, Statement DEF Instruction, Shapes
  <2>2. /\ AddPassTwoExpr(Arg(s), out_ptr + Len(s.opcode), Put(contents, out_ptr, s.opcode), s.expr)
        /\ UNCHANGED <<source, phase, saved_out_ptr>>
    BY <1>3 DEF Instruction, Reads
  <2>3. out_ptr + Len(s.opcode) \in Nat /\ DOMAIN Put(contents, out_ptr, s.opcode) = Addresses
    BY <2>1, PutDomain DEF Shapes
  <2> QED BY <2>1, <2>2, <2>3, ArgumentShapes
<1>4. ASSUME NEW s \in source, Fill(s)
      PROVE  Shapes'
  <2>1. /\ UNCHANGED <<source, phase, saved_out_ptr, expr_list, log>>
        /\ \/ UNCHANGED <<out_ptr, contents>>
           \/ \E n \in 0..BufferSize - out_ptr : \E bytes :
                /\ out_ptr' = out_ptr + n
                /\ contents' = Put(contents, out_ptr, bytes)
    <3> DEFINE size == ParseNum(Env, s.expr).v
               value == (IF s.value = <<>> THEN Good(0) ELSE ParseNum(Env, s.value)).v
               bytes == [i \in 1..size |-> value % 256]
    <3>1. /\ UNCHANGED <<source, phase, saved_out_ptr, expr_list, log>>
          /\ \/ UNCHANGED <<out_ptr, contents>>
             \/ /\ size \in 0..BufferSize - out_ptr
                /\ out_ptr' = out_ptr + size
                /\ contents' = Put(contents, out_ptr, bytes)
      BY <1>4 DEF Fill, Reads
    <3> HIDE DEF size, bytes
    <3> QED BY <3>1
  <2>2. CASE UNCHANGED <<out_ptr, contents>>
    BY <2>1, <2>2 DEF Shapes, Addresses
  <2>3. ASSUME NEW n \in 0..BufferSize - out_ptr, NEW bytes, out_ptr' = out_ptr + n,
               contents' = Put(contents, out_ptr, bytes)
        PROVE  Shapes'
    <3>1. out_ptr' \in Nat
      BY <2>3, TwoPassAssumption DEF Shapes
    <3>2. DOMAIN contents' = Addresses
      BY <2>3, PutDomain DEF Shapes
    <3> QED BY <2>1, <3>1, <3>2 DEF Shapes, Addresses
  <2> QED BY <2>1, <2>2, <2>3
<1>5. ASSUME NEW s \in source, Seek(s)
      PROVE  Shapes'
  <2>1. out_ptr' \in Nat /\ UNCHANGED <<source, phase, saved_out_ptr, contents, expr_list, log>>
    BY <1>5, TwoPassAssumption DEF Seek, Reads
  <2> QED BY <2>1 DEF Shapes, Addresses
<1>6. CASE EndPassOne
  BY <1>6 DEF EndPassOne, Shapes, Addresses
<1>7. CASE SecondPassStep
  <2>1. DOMAIN contents' = Addresses /\ out_ptr' \in Nat
    BY <1>7, FillInShapes
  <2>2. /\ IsSequence(expr_list')
        /\ \A i \in 1..Len(expr_list') : expr_list'[i].at \in Nat /\ expr_list'[i].type \in ArgTypes
    BY <1>7, TailShape DEF SecondPassStep, Shapes
  <2>3. UNCHANGED <<source, phase, saved_out_ptr, log>>
    BY <1>7 DEF SecondPassStep
  <2> QED BY <2>1, <2>2, <2>3 DEF Shapes, Addresses
<1>8. CASE EndPassTwo
  BY <1>8 DEF EndPassTwo, Shapes, Addresses
<1>9. CASE Done \/ UNCHANGED vars
  BY <1>9 DEF Done, vars, Shapes, Addresses
<1>10. ASSUME NEW s \in source, Import(s)
       PROVE  Shapes'
  <2>1. Len(s.bytes) \in Nat
    BY <1>10, Statement DEF Import, Shapes
  <2>2. /\ out_ptr' = out_ptr + Len(s.bytes) /\ contents' = Put(contents, out_ptr, s.bytes)
        /\ UNCHANGED <<source, phase, saved_out_ptr, expr_list, log>>
    BY <1>10 DEF Import, Reads
  <2>3. out_ptr' \in Nat /\ DOMAIN contents' = Addresses
    BY <2>1, <2>2, PutDomain DEF Shapes
  <2> QED BY <2>2, <2>3 DEF Shapes, Addresses
<1>11. CASE OutputStep
  BY <1>11 DEF OutputStep, Shapes, Addresses
<1> QED BY <1>1, <1>2, <1>3, <1>4, <1>5, <1>6, <1>7, <1>8, <1>9, <1>10, <1>11 DEF Next

(***************************************************************************)
(* Pass two writes nowhere but where a placeholder is, in every program:   *)
(* this is FillsOnlySlots for all constants.                               *)
(***************************************************************************)
THEOREM PassTwoConfined == Spec => FillsOnlySlots
<1> DEFINE Confined ==
      phase = "pass_two" =>
        /\ \A a \in Addresses :
             contents'[a] # contents[a] =>
               /\ expr_list # <<>>
               /\ a \in Head(expr_list).at..Head(expr_list).at + Width(Head(expr_list).type) - 1
        /\ UNCHANGED pass_one_state
<1>1. ASSUME Shapes, [Next]_vars
      PROVE  Confined
  <2> SUFFICES ASSUME phase = "pass_two"
               PROVE  /\ \A a \in Addresses :
                           contents'[a] # contents[a] =>
                             /\ expr_list # <<>>
                             /\ a \in Head(expr_list).at..Head(expr_list).at + Width(Head(expr_list).type) - 1
                      /\ UNCHANGED pass_one_state
    OBVIOUS
  <2>1. CASE SecondPassStep
    BY <2>1, <1>1, FillInShapes DEF SecondPassStep
  <2>2. CASE OutputStep \/ EndPassTwo \/ Done \/ UNCHANGED vars
    BY <2>2 DEF OutputStep, EndPassTwo, Done, vars, pass_one_state
  <2>3. SecondPassStep \/ OutputStep \/ EndPassTwo \/ Done \/ UNCHANGED vars
    BY <1>1 DEF Next, Label, Reusable, Equate, Define, Data, Instruction, Org, Fill, Seek, Import,
                Option, Error, Echo, Show, Reads, EndPassOne
  <2> QED BY <2>1, <2>2, <2>3
<1>2. Spec => []Shapes
  BY InitShapes, StepShapes, PTL DEF Spec
<1> QED BY <1>1, <1>2, PTL DEF Spec, FillsOnlySlots

(***************************************************************************)
(* Without .seek the output only grows in pass one, so placeholders follow *)
(* each other, and every argument logged lies within the output.           *)
(***************************************************************************)
NoSeek == \A S \in Sources : \A s \in S : s.kind # "seek"

LogWithin == \A i \in 1..Len(log) : log[i].at + Width(log[i].arg.type) <= OutputEnd

\* An rst with a bad operand is logged and not written, but it is fatal.
Reserved ==
  /\ Shapes
  /\ SlotsReserved
  /\ phase # "exited" => LogWithin \/ (phase = "pass_one" /\ "bad" \in raised)

LEMMA SlotsAreIndices ==
  ASSUME Shapes
  PROVE  DOMAIN expr_list = 1..Len(expr_list) /\ DOMAIN log = 1..Len(log)
         /\ Len(expr_list) \in Nat /\ Len(log) \in Nat
  BY DEF Shapes, IsSequence

LEMMA InitReserved == Init => Reserved
<1> SUFFICES ASSUME Init PROVE Reserved
  OBVIOUS
<1>1. Shapes
  BY InitShapes
<1>2. 1..Len(expr_list) = {} /\ 1..Len(log) = {}
  <2>1. expr_list = <<>> /\ log = <<>> /\ Len(<<>>) = 0
    BY DEF Init
  <2> QED BY <2>1
<1> QED BY <1>1, <1>2, SlotsAreIndices DEF Reserved, SlotsReserved, LogWithin

LEMMA ArgumentReserved ==
  ASSUME Reserved, Shapes', phase = "pass_one", phase' = phase,
         NEW s, s.type \in ArgTypes, NEW at \in Nat, at >= out_ptr, NEW img, NEW e,
         AddPassTwoExpr(Arg(s), at, img, e)
  PROVE  Reserved'
<1> DEFINE arg == Arg(s)
           x == Slot(arg, at, e)
           l == [arg |-> arg, at |-> at, expr |-> e, env |-> Env]
           r == ParseNum(Env, e)
<1>1. arg.type \in ArgTypes /\ x.at = at /\ x.type = arg.type /\ l.at = at /\ l.arg.type = arg.type
  BY DEF Arg, Slot
<1>2. Width(arg.type) \in 1..3 /\ Len(Placeholder(arg)) = Width(arg.type)
  BY <1>1, ArgLength, PlaceholderLength DEF Arg
<1>3. \/ /\ out_ptr' = at + Width(arg.type)
         /\ expr_list' = expr_list \/ expr_list' = Append(expr_list, x)
         /\ log' = log \/ log' = Append(log, l)
         /\ raised \subseteq raised'
      \/ /\ out_ptr' \in Nat /\ out_ptr' >= at
         /\ expr_list' = expr_list
         /\ "bad" \in raised'
  <2>1. CASE r.ok
    <3>1. /\ out_ptr' = at + Len(ArgBytes(arg, r.v)) /\ expr_list' = expr_list
          /\ log' = Append(log, l)
          /\ raised' = raised \cup ArgProblems(arg, r.v)
      BY <2>1 DEF AddPassTwoExpr
    <3>2. CASE arg.type # "RST" \/ r.v \in RstTargets
      BY <3>1, <3>2, <1>1, ArgLength
    <3>3. CASE arg.type = "RST" /\ r.v \notin RstTargets
      <4>1. "bad" \in raised'
        BY <3>1, <3>3 DEF ArgProblems
      <4>2. Len(ArgBytes(arg, r.v)) \in Nat
        BY <1>1, <1>2, ArgLength
      <4> QED BY <4>1, <4>2, <3>1
    <3> QED BY <3>2, <3>3
  <2>2. CASE ~r.ok /\ Deferrable(r)
    BY <2>2, <1>2 DEF AddPassTwoExpr
  <2>3. CASE ~r.ok /\ ~Deferrable(r)
    <3>1. out_ptr' = at + Len(<<>>) /\ expr_list' = expr_list /\ "bad" \in raised'
      BY <2>3 DEF AddPassTwoExpr
    <3> QED BY <3>1
  <2> QED BY <2>1, <2>2, <2>3
<1>4. out_ptr' \in Nat /\ out_ptr' >= at /\ at >= out_ptr /\ out_ptr \in Nat
  BY <1>2, <1>3 DEF Reserved, Shapes
<1>5. OutputEnd = out_ptr /\ OutputEnd' = out_ptr'
  BY DEF OutputEnd
<1>6. \A i \in 1..Len(expr_list) : Width(expr_list[i].type) \in Nat /\ expr_list[i].at \in Nat
  BY WidthRange DEF Reserved, Shapes
<1>7. \A i \in 1..Len(log) : Width(log[i].arg.type) \in Nat /\ log[i].at \in Nat
  <2>1. \A t \in ArgTypes : Width(t) \in Nat
    BY WidthRange
  <2> QED BY <2>1 DEF Reserved, Shapes, IsArg
<1>8. SlotsReserved'
  <2> HIDE DEF x, l, r, arg
  <2>1. CASE expr_list' = expr_list
    BY <2>1, <1>4, <1>5, <1>6, SlotsAreIndices DEF SlotsReserved, Reserved
  <2>2. CASE out_ptr' = at + Width(arg.type) /\ expr_list' = Append(expr_list, x)
    <3>1. /\ Len(expr_list') = Len(expr_list) + 1 /\ Len(expr_list) \in Nat
          /\ \A i \in 1..Len(expr_list) : expr_list'[i] = expr_list[i]
          /\ expr_list'[Len(expr_list) + 1] = x
      BY <2>2, AppendShape DEF Reserved, Shapes
    <3>2. \A i \in 1..Len(expr_list) : expr_list[i].at + Width(expr_list[i].type) <= at
      <4>1. \A i \in 1..Len(expr_list) : expr_list[i].at + Width(expr_list[i].type) <= out_ptr
        BY <1>5, SlotsAreIndices DEF SlotsReserved, Reserved
      <4> QED BY <4>1, <1>4, <1>6
    <3>3. \A i, j \in 1..Len(expr_list) :
            i < j => expr_list[i].at + Width(expr_list[i].type) <= expr_list[j].at
      BY SlotsAreIndices DEF SlotsReserved, Reserved
    <3>4. DOMAIN expr_list' = 1..Len(expr_list) + 1
      <4>1. DOMAIN expr_list' = 1..Len(expr_list')
        BY DEF Shapes, IsSequence
      <4> QED BY <4>1, <3>1
    <3>5. \A i \in DOMAIN expr_list' : expr_list'[i].at + Width(expr_list'[i].type) <= out_ptr'
      BY <3>1, <3>2, <3>4, <2>2, <1>1, <1>2, <1>4, <1>6
    <3>6. \A i, j \in DOMAIN expr_list' :
            i < j => expr_list'[i].at + Width(expr_list'[i].type) <= expr_list'[j].at
      <4> SUFFICES ASSUME NEW i \in DOMAIN expr_list', NEW j \in DOMAIN expr_list', i < j
                   PROVE  expr_list'[i].at + Width(expr_list'[i].type) <= expr_list'[j].at
        OBVIOUS
      <4>1. i \in 1..Len(expr_list) /\ expr_list'[i] = expr_list[i]
        BY <3>1, <3>4
      <4>2. CASE j = Len(expr_list) + 1
        BY <4>1, <4>2, <3>1, <3>2, <1>1
      <4>3. CASE j # Len(expr_list) + 1
        <5>1. j \in 1..Len(expr_list) /\ expr_list'[j] = expr_list[j]
          BY <4>3, <3>1, <3>4
        <5> QED BY <5>1, <4>1, <3>3
      <4> QED BY <4>2, <4>3
    <3> QED BY <3>5, <3>6, <1>5 DEF SlotsReserved
  <2> QED BY <1>3, <2>1, <2>2
<1>9. LogWithin' \/ "bad" \in raised'
  <2> HIDE DEF x, l, r, arg
  <2>1. SUFFICES ASSUME "bad" \notin raised'
                 PROVE  LogWithin'
    OBVIOUS
  <2>2. /\ out_ptr' = at + Width(arg.type)
        /\ log' = log \/ log' = Append(log, l)
        /\ LogWithin
    BY <1>3, <2>1 DEF Reserved
  <2>3. \A i \in 1..Len(log) : log[i].at + Width(log[i].arg.type) <= out_ptr'
    BY <2>2, <1>4, <1>5, <1>7 DEF LogWithin
  <2>4. CASE log' = log
    BY <2>3, <2>4, <1>5 DEF LogWithin
  <2>5. CASE log' = Append(log, l)
    BY <2>2, <2>3, <2>5, <1>1, <1>2, <1>4, <1>5, AppendShape DEF LogWithin, Reserved, Shapes
  <2> QED BY <2>2, <2>4, <2>5
<1> QED BY <1>8, <1>9 DEF Reserved

LEMMA StepReserved ==
  ASSUME NoSeek, Reserved, [Next]_vars
  PROVE  Reserved'
<1>1. Shapes' /\ Shapes
  BY StepShapes DEF Reserved
<1>2. /\ \A i \in 1..Len(expr_list) : Width(expr_list[i].type) \in Nat /\ expr_list[i].at \in Nat
      /\ \A i \in 1..Len(log) : Width(log[i].arg.type) \in Nat /\ log[i].at \in Nat
  <2>1. \A t \in ArgTypes : Width(t) \in Nat
    BY WidthRange
  <2> QED BY <1>1, <2>1 DEF Shapes, IsArg
<1>3. ASSUME NEW s \in source,
             \/ Label(s) \/ Reusable(s) \/ Equate(s) \/ Define(s) \/ Org(s)
             \/ Option(s) \/ Error(s) \/ Echo(s) \/ Show(s)
      PROVE  Reserved'
  <2>1. /\ phase = "pass_one" /\ phase' = phase /\ raised \subseteq raised'
        /\ UNCHANGED <<out_ptr, saved_out_ptr, expr_list, log>>
    BY <1>3 DEF Label, Reusable, Equate, Define, Org, Option, Error, Echo, Show, Reads
  <2> QED BY <2>1, <1>1 DEF Reserved, SlotsReserved, LogWithin, OutputEnd
<1>4. ASSUME NEW s \in source, Data(s)
      PROVE  Reserved'
  <2>1. s.type \in ArgTypes
    BY <1>1, <1>4, Statement DEF Data, ArgTypes, Shapes
  <2>2. /\ AddPassTwoExpr(Arg(s), out_ptr, contents, s.expr)
        /\ phase' = phase /\ phase = "pass_one"
    BY <1>4 DEF Data, Reads
  <2>3. out_ptr \in Nat /\ out_ptr >= out_ptr
    BY <1>1 DEF Shapes
  <2> QED BY <1>1, <2>1, <2>2, <2>3, ArgumentReserved
<1>5. ASSUME NEW s \in source, Instruction(s)
      PROVE  Reserved'
  <2>1. s.type \in ArgTypes /\ s.opcode \in Seq(0..255)
    BY <1>1, <1>5, Statement DEF Instruction, Shapes
  <2>2. /\ AddPassTwoExpr(Arg(s), out_ptr + Len(s.opcode), Put(contents, out_ptr, s.opcode), s.expr)
        /\ phase' = phase /\ phase = "pass_one"
    BY <1>5 DEF Instruction, Reads
  <2>3. out_ptr + Len(s.opcode) \in Nat /\ out_ptr + Len(s.opcode) >= out_ptr
    BY <1>1, <2>1 DEF Shapes
  <2> QED BY <1>1, <2>1, <2>2, <2>3, ArgumentReserved
<1>6. ASSUME NEW s \in source, Fill(s) \/ Import(s)
      PROVE  Reserved'
  <2>1. /\ phase = "pass_one" /\ phase' = phase /\ raised \subseteq raised'
        /\ UNCHANGED <<saved_out_ptr, expr_list, log>>
    BY <1>6 DEF Fill, Import, Reads
  <2>2. out_ptr' \in Nat /\ out_ptr' >= out_ptr /\ out_ptr \in Nat
    <3>1. ASSUME Import(s)
          PROVE  out_ptr' = out_ptr + Len(s.bytes) /\ Len(s.bytes) \in Nat
      BY <3>1, <1>1, Statement DEF Import, Shapes
    <3>2. ASSUME Fill(s)
          PROVE  out_ptr' = out_ptr \/ \E n \in 0..BufferSize - out_ptr : out_ptr' = out_ptr + n
      BY <3>2 DEF Fill
    <3> QED BY <3>1, <3>2, <1>1, <1>6, TwoPassAssumption DEF Shapes
  <2>3. OutputEnd = out_ptr /\ OutputEnd' = out_ptr'
    BY <2>1 DEF OutputEnd
  <2>4. SlotsReserved'
    BY <2>1, <2>2, <2>3, <1>1, <1>2, SlotsAreIndices DEF SlotsReserved, Reserved
  <2>5. LogWithin => LogWithin'
    BY <2>1, <2>2, <2>3, <1>2 DEF LogWithin
  <2> QED BY <2>1, <2>4, <2>5, <1>1 DEF Reserved
<1>7. ASSUME NEW s \in source, Seek(s)
      PROVE  Reserved'
  BY <1>7, <1>1 DEF Seek, Reads, NoSeek, Shapes
<1>8. CASE EndPassOne
  <2>1. /\ phase = "pass_one" /\ OutputEnd' = OutputEnd
        /\ UNCHANGED <<expr_list, log>>
        /\ phase' = IF "bad" \in raised THEN "exited" ELSE "pass_two"
    BY <1>8 DEF EndPassOne, OutputEnd
  <2> QED BY <2>1, <1>1 DEF Reserved, SlotsReserved, LogWithin
<1>9. CASE SecondPassStep
  <2>1. /\ phase = "pass_two" /\ UNCHANGED <<phase, saved_out_ptr, log>>
        /\ expr_list # <<>> /\ expr_list' = Tail(expr_list)
    BY <1>9 DEF SecondPassStep
  <2>2. OutputEnd' = OutputEnd
    BY <2>1 DEF OutputEnd
  <2>3. /\ Len(expr_list) \in Nat /\ Len(expr_list') = Len(expr_list) - 1
        /\ \A i \in 1..Len(expr_list') : expr_list'[i] = expr_list[i + 1]
    BY <2>1, <1>1, TailShape DEF Shapes
  <2>4. DOMAIN expr_list' = 1..Len(expr_list')
    BY <1>1 DEF Shapes, IsSequence
  <2>5. ASSUME NEW i \in DOMAIN expr_list'
        PROVE  i + 1 \in DOMAIN expr_list /\ expr_list'[i] = expr_list[i + 1]
    BY <2>3, <2>4, <1>1, SlotsAreIndices
  <2>6. SlotsReserved'
    <3>1. \A i \in DOMAIN expr_list' : expr_list'[i].at + Width(expr_list'[i].type) <= OutputEnd'
      BY <2>2, <2>5 DEF SlotsReserved, Reserved
    <3>2. ASSUME NEW i \in DOMAIN expr_list', NEW j \in DOMAIN expr_list', i < j
          PROVE  expr_list'[i].at + Width(expr_list'[i].type) <= expr_list'[j].at
      <4>1. i + 1 < j + 1
        BY <2>3, <2>4, <3>2
      <4> QED BY <4>1, <2>5 DEF SlotsReserved, Reserved
    <3> QED BY <3>1, <3>2 DEF SlotsReserved
  <2> QED BY <2>1, <2>2, <2>6, <1>1 DEF Reserved, LogWithin
<1>10. CASE EndPassTwo
  <2>1. /\ OutputEnd' = OutputEnd /\ phase = "pass_two"
        /\ UNCHANGED <<expr_list, log>>
    BY <1>10 DEF EndPassTwo, OutputEnd
  <2> QED BY <2>1, <1>1 DEF Reserved, SlotsReserved, LogWithin
<1>11. CASE Done \/ UNCHANGED vars
  BY <1>1, <1>11 DEF Done, vars, Reserved, SlotsReserved, LogWithin, OutputEnd
<1>12. CASE OutputStep
  <2>1. /\ OutputEnd' = OutputEnd /\ phase = "pass_two" /\ phase' = phase
        /\ UNCHANGED <<expr_list, log>>
    BY <1>12 DEF OutputStep, OutputEnd
  <2> QED BY <2>1, <1>1 DEF Reserved, SlotsReserved, LogWithin
<1> QED BY <1>3, <1>4, <1>5, <1>6, <1>7, <1>8, <1>9, <1>10, <1>11, <1>12 DEF Next

(***************************************************************************)
(* Placeholders never overlap and lie within the output: SlotsReserved for *)
(* every program without .seek.                                            *)
(***************************************************************************)
THEOREM PlaceholdersReserved == ASSUME NoSeek PROVE Spec => []SlotsReserved
<1>1. Reserved => SlotsReserved
  BY DEF Reserved
<1> QED BY InitReserved, StepReserved, <1>1, PTL DEF Spec

(***************************************************************************)
(* The file written holds every argument of the program: FileIsWhole for   *)
(* every program without .seek, since pass two puts out_ptr back.          *)
(***************************************************************************)
THEOREM NothingTruncated == ASSUME NoSeek PROVE Spec => []FileIsWhole
<1>1. Reserved => FileIsWhole
  <2> SUFFICES ASSUME Reserved, phase = "done", NEW i \in DOMAIN log
               PROVE  log[i].at + Len(MeaningBytes(log[i])) <= out_ptr
    BY DEF FileIsWhole
  <2>1. i \in 1..Len(log) /\ log[i].at \in Nat /\ IsArg(log[i].arg) /\ out_ptr \in Nat
    BY SlotsAreIndices DEF Reserved, Shapes
  <2>2. log[i].at + Width(log[i].arg.type) <= out_ptr
    BY <2>1 DEF Reserved, LogWithin, OutputEnd
  <2>3. Len(MeaningBytes(log[i])) \in 0..Width(log[i].arg.type) /\ Width(log[i].arg.type) \in 1..3
    <3> DEFINE a == log[i].arg
    <3>1. a.type \in ArgTypes /\ Width(a.type) \in 1..3
      BY <2>1, WidthRange DEF IsArg
    <3>2. Len(Placeholder(a)) = Width(a.type)
      BY <2>1, PlaceholderLength DEF IsArg
    <3>3. Len(ArgBytes(a, Meaning(log[i]).v)) \in 0..Width(a.type)
      BY <3>1, ArgLength
    <3> QED BY <3>1, <3>2, <3>3 DEF MeaningBytes
  <2> QED BY <2>1, <2>2, <2>3
<1> QED BY InitReserved, StepReserved, <1>1, PTL DEF Spec

=============================================================================
