------------------------- MODULE ConditionalsProofs -------------------------
(***************************************************************************)
(* The scans of preop.cpp against the usual reading of conditional         *)
(* assembly, for programs of any length.                                   *)
(***************************************************************************)
EXTENDS Conditionals, NatRecursion, TLAPS

----------------------------------------------------------------------------
(***************************************************************************)
(* The recursive functions of the module have values.                      *)
(***************************************************************************)
\* The level of skip_until at each line from p on.
LevelFrom(p) ==
  CHOOSE level : level = [i \in p..N + 1 |->
    IF i = p THEN 0
    ELSE IF OpensIf(program[i - 1]) THEN level[i - 1] + 1
    ELSE IF program[i - 1].k = "endif" /\ level[i - 1] > 0 THEN level[i - 1] - 1
    ELSE level[i - 1]]

\* The level behind a line, from the level before it.
LevelAfter(v, l) ==
  IF OpensIf(l) THEN v + 1 ELSE IF l.k = "endif" /\ v > 0 THEN v - 1 ELSE v

LEMMA LevelIs ==
  ASSUME program \in Seq(Lines), NEW p \in 1..N + 1
  PROVE  /\ LevelFrom(p)[p] = 0
         /\ \A i \in p..N : LevelFrom(p)[i + 1] = LevelAfter(LevelFrom(p)[i], program[i])
         /\ \A i \in p..N + 1 : LevelFrom(p)[i] \in Nat
<1> DEFINE Unrolled(level) == [i \in p..N + 1 |->
             IF i = p THEN 0
             ELSE IF OpensIf(program[i - 1]) THEN level[i - 1] + 1
             ELSE IF program[i - 1].k = "endif" /\ level[i - 1] > 0 THEN level[i - 1] - 1
             ELSE level[i - 1]]
<1>1. N \in Nat /\ p \in Nat /\ N + 1 - p \in Nat
  BY DEF N
<1>2. PICK m \in Nat : m = N + 1 - p
  BY <1>1
<1>3. PICK G : G = [j \in 1..m |-> [v \in Nat |-> LevelAfter(v, program[p + j - 1])]]
  OBVIOUS
<1>4. Steps(m, Nat, 0, G)
  <2>1. ASSUME NEW j \in 1..m, NEW v \in Nat PROVE LevelAfter(v, program[p + j - 1]) \in Nat
    BY DEF LevelAfter
  <2> QED BY <1>3, <2>1 DEF Steps
<1>5. PICK f : Unfolds(f, m, Nat, 0, G)
  BY <1>4, RecursiveFunction
<1>6. PICK g : g = [i \in p..N + 1 |-> f[i - p]]
  OBVIOUS
<1>7. g = Unrolled(g)
  <2>1. ASSUME NEW i \in p..N + 1 PROVE g[i] = Unrolled(g)[i]
    <3>1. CASE i = p
      <4>1. g[i] = f[0]
        BY <1>1, <1>6, <3>1
      <4> QED BY <1>5, <3>1, <4>1 DEF Unfolds
    <3>2. CASE i # p
      <4>1. i - 1 \in p..N + 1 /\ i - p \in 1..m /\ (i - p) - 1 = (i - 1) - p /\ p + (i - p) - 1 = i - 1
        BY <1>1, <1>2, <3>2
      <4>2. f[i - p] = G[i - p][f[(i - p) - 1]] /\ f[(i - p) - 1] \in Nat
        BY <1>2, <1>5, <4>1 DEF Unfolds
      <4>3. g[i] = f[i - p] /\ g[i - 1] = f[(i - p) - 1]
        BY <1>6, <4>1
      <4>4. g[i] = LevelAfter(g[i - 1], program[i - 1])
        BY <1>3, <4>1, <4>2, <4>3
      <4> QED BY <3>2, <4>4 DEF LevelAfter
    <3> QED BY <3>1, <3>2
  <2>2. g = [i \in p..N + 1 |-> g[i]] /\ Unrolled(g) = [i \in p..N + 1 |-> Unrolled(g)[i]]
    BY <1>6
  <2> HIDE DEF Unrolled
  <2> QED BY <2>1, <2>2
<1>8. PICK level : level = LevelFrom(p) /\ level = Unrolled(level)
  BY <1>7 DEF LevelFrom
<1>9. /\ level[p] = 0
      /\ \A i \in p..N : level[i + 1] = LevelAfter(level[i], program[i])
  <2>1. level[p] = 0
    <3>1. p \in p..N + 1
      BY <1>1
    <3> QED BY <1>8, <3>1
  <2>2. ASSUME NEW i \in p..N PROVE level[i + 1] = LevelAfter(level[i], program[i])
    <3>1. i + 1 \in p..N + 1 /\ i + 1 # p /\ (i + 1) - 1 = i
      BY <1>1
    <3> QED BY <1>8, <3>1 DEF LevelAfter
  <2> QED BY <2>1, <2>2
<1>10. \A i \in p..N + 1 : level[i] \in Nat
  <2> DEFINE T == {j \in 0..m : level[p + j] \in Nat}
  <2>1. 0 \in T
    BY <1>1, <1>9
  <2>2. ASSUME NEW j \in 0..m - 1, j \in T PROVE j + 1 \in T
    <3>1. p + j \in p..N /\ p + (j + 1) = (p + j) + 1 /\ j + 1 \in 0..m
      BY <1>1, <1>2
    <3>2. level[p + (j + 1)] = LevelAfter(level[p + j], program[p + j])
      BY <1>9, <3>1
    <3>3. level[p + j] \in Nat
      BY <2>2
    <3>4. level[p + (j + 1)] \in Nat
      BY <3>2, <3>3 DEF LevelAfter
    <3> QED BY <3>1, <3>4
  <2>3. 0..m \subseteq T
    <3> HIDE DEF T
    <3> QED BY <1>2, <2>1, <2>2, BoundedInduction
  <2> QED BY <1>1, <1>2, <2>3
<1> QED BY <1>8, <1>9, <1>10

\* A skip ends on the first of its words at level 0, or behind the last line.
LEMMA SkipIs ==
  ASSUME program \in Seq(Lines), NEW p \in 1..N + 1, NEW words
  PROVE  /\ SkipUntil(p, words) \in p..N + 1
         /\ SkipUntil(p, words) <= N =>
              /\ LevelFrom(p)[SkipUntil(p, words)] = 0
              /\ program[SkipUntil(p, words)].k \in words
         /\ \A i \in p..N : i < SkipUntil(p, words) =>
              ~(LevelFrom(p)[i] = 0 /\ program[i].k \in words)
<1>1. N \in Nat /\ p \in Nat
  BY DEF N
<1>2. PICK T : T = {i \in p..N : LevelFrom(p)[i] = 0 /\ program[i].k \in words} \cup {N + 1}
  OBVIOUS
<1>3. SkipUntil(p, words) = Min(T)
  BY <1>2 DEF SkipUntil, LevelFrom
<1>4. PICK r : r = SkipUntil(p, words)
  OBVIOUS
<1>5. r \in T /\ \A i \in T : r <= i
  <2>1. T \subseteq Nat /\ T # {}
    BY <1>1, <1>2
  <2>2. \E n \in T : \A i \in T : n <= i
    BY <2>1, LeastNumber
  <2> QED BY <1>3, <1>4, <2>2 DEF Min
<1> QED BY <1>1, <1>2, <1>4, <1>5

----------------------------------------------------------------------------
(***************************************************************************)
(* The usual reading.                                                      *)
(***************************************************************************)
Marks == [state : {"on", "off", "done", "skip", "macro"}, elsed : BOOLEAN]
States == [stack : Seq(Marks), comment : BOOLEAN, defined : BOOLEAN, ran : SUBSET Nat, ok : BOOLEAN]

Live(s) == \A j \in DOMAIN s.stack : s.stack[j].state = "on"

Height(s) == Len(s.stack)
Top(s) == s.stack[Height(s)]
SameEffect(s, t) == t.comment = s.comment /\ t.defined = s.defined /\ t.ran = s.ran

\* Whether the condition of an #if, #ifdef or #ifndef holds.
Taken(s, l) ==
  \/ l.k = "if" /\ l.cond = "true"
  \/ l.k = "ifdef" /\ s.defined
  \/ l.k = "ifndef" /\ ~s.defined

\* What a line that is in place does, kind by kind, to stack and effects.
CommentRead(s, l, t) ==
  /\ t.stack = s.stack /\ t.defined = s.defined /\ t.ran = s.ran
  /\ t.comment = (l.k # "endcomment") /\ ~OpensIf(l) /\ l.k # "endif" /\ l.k # "comment"

Entered(s, l, t) ==
  /\ SameEffect(s, t) /\ l.cond # "none"
  /\ \E m \in Marks :
       /\ t.stack = Append(s.stack, m) /\ ~m.elsed
       /\ m.state = IF ~Live(s) THEN "skip" ELSE IF Taken(s, l) THEN "on" ELSE "off"

Branched(s, l, t) ==
  /\ SameEffect(s, t) /\ l.cond # "none" /\ InIf(s) /\ ~Top(s).elsed
  /\ \E m \in Marks :
       /\ t.stack = [s.stack EXCEPT ![Height(s)] = m] /\ m.elsed = (l.k = "else")
       /\ Top(s).state \in {"on", "done"} => m.state = "done"
       /\ Top(s).state = "skip" => m.state = "skip"
       /\ Top(s).state = "off" => m.state = IF l.k = "else" \/ l.cond = "true" THEN "on" ELSE "off"

Left(s, t) == SameEffect(s, t) /\ s.stack # <<>> /\ t.stack = SubSeq(s.stack, 1, Height(s) - 1)

MacroEntered(s, t) ==
  /\ SameEffect(s, t) /\ ~InMacro(s)
  /\ \E m \in Marks : t.stack = Append(s.stack, m) /\ m.state = "macro"

Reads(s, l, i, t) ==
  /\ s.ok
  /\ s.comment => CommentRead(s, l, t)
  /\ ~s.comment =>
       /\ OpensIf(l) => Entered(s, l, t)
       /\ l.k \in {"elif", "else"} => Branched(s, l, t)
       /\ l.k = "endif" => InIf(s) /\ Left(s, t)
       /\ l.k = "macro" => MacroEntered(s, t)
       /\ l.k = "endmacro" => InMacro(s) /\ ~InIf(s) /\ Left(s, t)
       /\ l.k = "comment" =>
            Live(s) /\ t.stack = s.stack /\ t.defined = s.defined /\ t.ran = s.ran /\ t.comment
       /\ l.k # "endcomment"
       /\ l.k \in {"define", "undef"} =>
            /\ t.stack = s.stack /\ t.comment = s.comment /\ t.ran = s.ran
            /\ t.defined = IF Live(s) THEN l.k = "define" ELSE s.defined
       /\ l.k = "text" =>
            /\ t.stack = s.stack /\ t.comment = s.comment /\ t.defined = s.defined
            /\ t.ran = IF Live(s) THEN s.ran \cup {i} ELSE s.ran

LEMMA StateIs ==
  ASSUME NEW s \in States
  PROVE  /\ s.stack \in Seq(Marks) /\ s.comment \in BOOLEAN /\ s.defined \in BOOLEAN
         /\ s.ran \subseteq Nat /\ s.ok \in BOOLEAN /\ Height(s) \in Nat
         /\ DOMAIN s.stack = 1..Height(s) /\ \A j \in 1..Height(s) : s.stack[j] \in Marks
         /\ s.stack # <<>> <=> Height(s) > 0
<1>1. s.stack \in Seq(Marks)
  BY DEF States
<1>2. PICK k : k = s.stack
  OBVIOUS
<1>3. /\ Len(k) \in Nat /\ DOMAIN k = 1..Len(k) /\ \A j \in 1..Len(k) : k[j] \in Marks
      /\ k # <<>> <=> Len(k) > 0
  BY <1>1, <1>2
<1> QED BY <1>1, <1>2, <1>3 DEF States, Height

LEMMA EnterIs ==
  ASSUME NEW s \in States, NEW l \in Lines, OpensIf(l)
  PROVE  Enter(s, l) \in States /\ (Enter(s, l).ok => s.ok /\ Entered(s, l, Enter(s, l)))
<1>1. PICK m : m = [state |-> IF ~Live(s) THEN "skip" ELSE IF Taken(s, l) THEN "on" ELSE "off",
                    elsed |-> FALSE]
  OBVIOUS
<1>2. m \in Marks
  BY <1>1 DEF Marks
<1>3. Enter(s, l) = [s EXCEPT !.stack = Append(@, m), !.ok = @ /\ l.cond # "none"]
  BY <1>1 DEF Enter, OpensIf, Taken, Live, Lines
<1>4. Append(s.stack, m) \in Seq(Marks) /\ (l.cond # "none") \in BOOLEAN
  BY <1>2, StateIs
<1>5. Enter(s, l) \in States
  BY <1>3, <1>4 DEF States
<1>6. /\ Enter(s, l).stack = Append(s.stack, m) /\ SameEffect(s, Enter(s, l))
      /\ Enter(s, l).ok = (s.ok /\ l.cond # "none")
  BY <1>3 DEF States, SameEffect
<1> QED BY <1>1, <1>2, <1>5, <1>6 DEF Entered

LEMMA BranchIs ==
  ASSUME NEW s \in States, NEW l \in Lines, l.k \in {"elif", "else"}
  PROVE  Branch(s, l) \in States /\ (Branch(s, l).ok => s.ok /\ Branched(s, l, Branch(s, l)))
<1>1. CASE ~InIf(s) \/ Top(s).elsed
  <2>1. Branch(s, l) = [s EXCEPT !.ok = FALSE]
    BY <1>1 DEF Branch, Top, Height, Last
  <2> QED BY <2>1 DEF States
<1>2. CASE InIf(s) /\ ~Top(s).elsed
  <2>1. Top(s) \in Marks /\ Height(s) \in 1..Height(s) /\ Top(s).state # "macro"
    BY <1>2, StateIs DEF InIf, Top, Height, Last
  <2>2. PICK new : new = CASE Top(s).state \in {"on", "done"} -> "done"
                    [] Top(s).state = "skip" -> "skip"
                    [] Top(s).state = "off" -> IF l.k = "else" \/ l.cond = "true" THEN "on" ELSE "off"
    OBVIOUS
  <2>3. PICK m : m = [state |-> new, elsed |-> l.k = "else"]
    OBVIOUS
  <2>4. Branch(s, l) = [s EXCEPT !.stack[Len(s.stack)] = m, !.ok = @ /\ l.cond # "none"]
    BY <1>2, <2>2, <2>3 DEF Branch, Top, Height, Last
  <2>5. new \in {"on", "off", "done", "skip"}
    BY <2>1, <2>2 DEF Marks
  <2>6. m \in Marks
    BY <2>3, <2>5 DEF Marks
  <2>7. PICK k : k = [s.stack EXCEPT ![Height(s)] = m]
    OBVIOUS
  <2>8. k \in Seq(Marks)
    BY <2>1, <2>6, <2>7, StateIs
  <2>9. Branch(s, l) = [s EXCEPT !.stack = k, !.ok = @ /\ l.cond # "none"]
    BY <2>4, <2>7 DEF Height, States
  <2>10. Branch(s, l) \in States
    BY <2>8, <2>9 DEF States
  <2>11. /\ Branch(s, l).stack = k /\ SameEffect(s, Branch(s, l))
         /\ Branch(s, l).ok = (s.ok /\ l.cond # "none")
    BY <2>9 DEF States, SameEffect
  <2>12. /\ m.elsed = (l.k = "else")
         /\ Top(s).state \in {"on", "done"} => m.state = "done"
         /\ Top(s).state = "skip" => m.state = "skip"
         /\ Top(s).state = "off" => m.state = IF l.k = "else" \/ l.cond = "true" THEN "on" ELSE "off"
    BY <2>2, <2>3
  <2> QED BY <1>2, <2>6, <2>7, <2>10, <2>11, <2>12 DEF Branched
<1> QED BY <1>1, <1>2

LEMMA LeaveIs ==
  ASSUME NEW s \in States
  PROVE  /\ Leave(s) \in States /\ (Leave(s).ok => s.ok /\ InIf(s) /\ Left(s, Leave(s)))
         /\ LeaveMacro(s) \in States
         /\ LeaveMacro(s).ok => s.ok /\ InMacro(s) /\ ~InIf(s) /\ Left(s, LeaveMacro(s))
<1>1. PICK t, k : t = [s EXCEPT !.stack = k] /\ k = SubSeq(s.stack, 1, Height(s) - 1)
  OBVIOUS
<1>2. ASSUME s.stack # <<>>
      PROVE  t \in States /\ (t.ok => s.ok) /\ Left(s, t)
  <2>1. k \in Seq(Marks)
    BY <1>1, <1>2, StateIs DEF Height
  <2> QED BY <1>1, <1>2, <2>1 DEF States, Left, SameEffect
<1>3. t = [s EXCEPT !.stack = Front(@)]
  BY <1>1 DEF Front, Height, States
<1>4. [s EXCEPT !.ok = FALSE] \in States /\ [s EXCEPT !.ok = FALSE].ok = FALSE
  BY DEF States
<1>5. InIf(s) \/ InMacro(s) => s.stack # <<>>
  BY StateIs DEF InIf, InMacro
<1> QED BY <1>2, <1>3, <1>4, <1>5 DEF Leave, LeaveMacro

LEMMA EnterMacroIs ==
  ASSUME NEW s \in States
  PROVE  EnterMacro(s) \in States /\ (EnterMacro(s).ok => s.ok /\ MacroEntered(s, EnterMacro(s)))
<1>1. PICK m : m = [state |-> "macro", elsed |-> FALSE]
  OBVIOUS
<1>2. m \in Marks
  BY <1>1 DEF Marks
<1>3. Append(s.stack, m) \in Seq(Marks)
  BY <1>2, StateIs
<1>4. CASE InMacro(s)
  BY <1>4 DEF EnterMacro, States
<1>5. CASE ~InMacro(s)
  <2>1. EnterMacro(s) = [s EXCEPT !.stack = Append(@, m)]
    BY <1>1, <1>5 DEF EnterMacro
  <2>2. EnterMacro(s) \in States
    BY <1>3, <2>1 DEF States
  <2>3. EnterMacro(s).stack = Append(s.stack, m) /\ SameEffect(s, EnterMacro(s)) /\ EnterMacro(s).ok = s.ok
    BY <2>1 DEF States, SameEffect
  <2> QED BY <1>1, <1>2, <1>5, <2>2, <2>3 DEF MacroEntered
<1> QED BY <1>4, <1>5

\* A line keeps the type, and if all is in place behind it, it was before.
LEMMA ReadLineHolds ==
  ASSUME NEW s \in States, NEW l \in Lines, NEW i \in Nat
  PROVE  /\ ReadLine(s, l, i) \in States
         /\ ReadLine(s, l, i).ok => Reads(s, l, i, ReadLine(s, l, i))
<1>0. PICK t : t = ReadLine(s, l, i)
  OBVIOUS
<1>1. l.k \in Kinds
  BY DEF Lines
<1>a. s.comment => t =
        [s EXCEPT !.comment = l.k # "endcomment",
                  !.ok = @ /\ ~OpensIf(l) /\ l.k # "endif" /\ l.k # "comment"]
  BY <1>0 DEF ReadLine, Live, OpensIf, States
<1>b. ~s.comment =>
        /\ OpensIf(l) => t = Enter(s, l)
        /\ l.k \in {"elif", "else"} => t = Branch(s, l)
        /\ l.k = "endif" => t = Leave(s)
        /\ l.k = "macro" => t = EnterMacro(s)
        /\ l.k = "endmacro" => t = LeaveMacro(s)
        /\ l.k = "comment" => t = [s EXCEPT !.comment = TRUE, !.ok = @ /\ Live(s)]
        /\ l.k = "endcomment" => t = [s EXCEPT !.ok = FALSE]
        /\ l.k \in {"define", "undef"} => t = [s EXCEPT !.defined = IF Live(s) THEN l.k = "define" ELSE @]
        /\ l.k = "text" => t = [s EXCEPT !.ran = IF Live(s) THEN @ \cup {i} ELSE @]
  BY <1>0 DEF ReadLine, Live, OpensIf, States
<1>2. CASE s.comment
  <2>1. t = [s EXCEPT !.comment = l.k # "endcomment",
                      !.ok = @ /\ ~OpensIf(l) /\ l.k # "endif" /\ l.k # "comment"]
    BY <1>2, <1>a
  <2>2. t \in States
    BY <2>1 DEF States
  <2>3. t.ok => s.ok /\ CommentRead(s, l, t)
    BY <2>1 DEF States, CommentRead
  <2> QED BY <1>0, <1>2, <2>2, <2>3 DEF Reads
<1>3. CASE ~s.comment
  <2>0. Live(s) \in BOOLEAN
    BY DEF Live
  <2>1. CASE OpensIf(l)
    <3>1. t = Enter(s, l) /\ l.k \in {"if", "ifdef", "ifndef"}
      BY <1>3, <1>b, <2>1 DEF OpensIf
    <3> QED BY <1>0, <1>3, <2>1, <3>1, EnterIs DEF Reads
  <2>2. CASE l.k \in {"elif", "else"}
    <3>1. t = Branch(s, l) /\ ~OpensIf(l)
      BY <1>3, <1>b, <2>2 DEF OpensIf
    <3> QED BY <1>0, <1>3, <2>2, <3>1, BranchIs DEF Reads
  <2>3. CASE l.k = "endif"
    <3>1. t = Leave(s) /\ ~OpensIf(l)
      BY <1>3, <1>b, <2>3 DEF OpensIf
    <3> QED BY <1>0, <1>3, <2>3, <3>1, LeaveIs DEF Reads
  <2>4. CASE l.k = "macro"
    <3>1. t = EnterMacro(s) /\ ~OpensIf(l)
      BY <1>3, <1>b, <2>4 DEF OpensIf
    <3> QED BY <1>0, <1>3, <2>4, <3>1, EnterMacroIs DEF Reads
  <2>5. CASE l.k = "endmacro"
    <3>1. t = LeaveMacro(s) /\ ~OpensIf(l)
      BY <1>3, <1>b, <2>5 DEF OpensIf
    <3> QED BY <1>0, <1>3, <2>5, <3>1, LeaveIs DEF Reads
  <2>6. CASE l.k = "comment"
    <3>1. t = [s EXCEPT !.comment = TRUE, !.ok = @ /\ Live(s)] /\ ~OpensIf(l)
      BY <1>3, <1>b, <2>6 DEF OpensIf
    <3>2. t \in States
      BY <2>0, <3>1 DEF States
    <3>3. t.ok => s.ok /\ Live(s) /\ t.stack = s.stack /\ t.defined = s.defined /\ t.ran = s.ran /\ t.comment
      BY <3>1 DEF States
    <3> QED BY <1>0, <1>3, <2>6, <3>1, <3>2, <3>3 DEF Reads
  <2>7. CASE l.k = "endcomment"
    <3>1. t = [s EXCEPT !.ok = FALSE]
      BY <1>3, <1>b, <2>7 DEF OpensIf
    <3> QED BY <1>0, <3>1 DEF States
  <2>8. CASE l.k \in {"define", "undef"}
    <3>1. t = [s EXCEPT !.defined = IF Live(s) THEN l.k = "define" ELSE @] /\ ~OpensIf(l)
      BY <1>3, <1>b, <2>8 DEF OpensIf
    <3>2. t \in States
      BY <3>1 DEF States
    <3>3. /\ t.ok = s.ok /\ t.stack = s.stack /\ t.comment = s.comment /\ t.ran = s.ran
          /\ t.defined = IF Live(s) THEN l.k = "define" ELSE s.defined
      BY <3>1 DEF States
    <3> QED BY <1>0, <1>3, <2>8, <3>1, <3>2, <3>3 DEF Reads
  <2>9. CASE l.k = "text"
    <3>1. t = [s EXCEPT !.ran = IF Live(s) THEN @ \cup {i} ELSE @] /\ ~OpensIf(l)
      BY <1>3, <1>b, <2>9 DEF OpensIf
    <3>2. t \in States
      BY <3>1 DEF States
    <3>3. /\ t.ok = s.ok /\ t.stack = s.stack /\ t.comment = s.comment /\ t.defined = s.defined
          /\ t.ran = IF Live(s) THEN s.ran \cup {i} ELSE s.ran
      BY <3>1 DEF States
    <3> QED BY <1>0, <1>3, <2>9, <3>1, <3>2, <3>3 DEF Reads
  <2> QED BY <1>1, <2>1, <2>2, <2>3, <2>4, <2>5, <2>6, <2>7, <2>8, <2>9 DEF Kinds, OpensIf
<1>4. s.comment \in BOOLEAN
  BY StateIs
<1> QED BY <1>2, <1>3, <1>4

\* The reading goes line by line.
LEMMA ReadingIs ==
  ASSUME program \in Seq(Lines)
  PROVE  /\ Reading[0] = Unread
         /\ \A i \in 1..N : Reading[i] = ReadLine(Reading[i - 1], program[i], i)
         /\ \A i \in 0..N : Reading[i] \in States
<1> DEFINE Unrolled(upto) == [i \in 0..Len(program) |->
             IF i = 0 THEN Unread ELSE ReadLine(upto[i - 1], program[i], i)]
<1>1. N \in Nat /\ Len(program) = N /\ \A i \in 1..N : program[i] \in Lines
  BY DEF N
<1>2. Unread \in States
  <2>1. <<>> \in Seq(Marks)
    OBVIOUS
  <2> QED BY <2>1 DEF Unread, States
<1>3. PICK G : G = [i \in 1..N |-> [s \in States |-> ReadLine(s, program[i], i)]]
  OBVIOUS
<1>4. Steps(N, States, Unread, G)
  <2>1. ASSUME NEW i \in 1..N, NEW s \in States PROVE ReadLine(s, program[i], i) \in States
    <3>1. i \in Nat /\ program[i] \in Lines
      BY <1>1
    <3> QED BY <3>1, ReadLineHolds
  <2> QED BY <1>1, <1>2, <1>3, <2>1 DEF Steps
<1>5. PICK f : Unfolds(f, N, States, Unread, G)
  BY <1>4, RecursiveFunction
<1>6. \A i \in 0..N : f[i] \in States
  BY <1>5 DEF Unfolds
<1>7. \A i \in 1..N : f[i] = ReadLine(f[i - 1], program[i], i)
  <2> TAKE i \in 1..N
  <2>1. i - 1 \in 0..N
    BY <1>1
  <2>2. f[i] = G[i][f[i - 1]] /\ f[i - 1] \in States
    BY <1>5, <1>6, <2>1 DEF Unfolds
  <2> QED BY <1>3, <2>2
<1>8. f = Unrolled(f)
  <2>1. ASSUME NEW i \in 0..N PROVE f[i] = Unrolled(f)[i]
    <3>1. f[0] = Unread
      BY <1>5 DEF Unfolds
    <3> QED BY <1>1, <1>7, <3>1
  <2>2. f = [i \in 0..N |-> f[i]] /\ Unrolled(f) = [i \in 0..N |-> Unrolled(f)[i]]
    BY <1>1, <1>5 DEF Unfolds
  <2> HIDE DEF Unrolled
  <2> QED BY <2>1, <2>2
<1>9. Reading = Unrolled(Reading)
  <2>1. Reading = CHOOSE upto : upto = Unrolled(upto)
    BY DEF Reading, ReadingOf
  <2> HIDE DEF Unrolled
  <2> QED BY <1>8, <2>1
<1>10. Reading[0] = Unread /\ \A i \in 1..N : Reading[i] = ReadLine(Reading[i - 1], program[i], i)
  <2>1. Reading[0] = Unread
    BY <1>1, <1>9
  <2>2. ASSUME NEW i \in 1..N PROVE Reading[i] = ReadLine(Reading[i - 1], program[i], i)
    <3>1. i \in 0..Len(program) /\ i # 0
      BY <1>1
    <3> QED BY <1>9, <3>1
  <2> QED BY <2>1, <2>2
<1>11. \A i \in 0..N : Reading[i] \in States
  <2> DEFINE T == {i \in 0..N : Reading[i] \in States}
  <2>1. 0 \in T
    BY <1>1, <1>2, <1>10
  <2>2. ASSUME NEW i \in 0..N - 1, i \in T PROVE i + 1 \in T
    <3>1. i + 1 \in 1..N /\ (i + 1) - 1 = i /\ i + 1 \in 0..N /\ i + 1 \in Nat
      BY <1>1
    <3>2. Reading[i + 1] = ReadLine(Reading[i], program[i + 1], i + 1)
      BY <1>10, <3>1
    <3>3. Reading[i] \in States /\ program[i + 1] \in Lines
      BY <1>1, <2>2, <3>1
    <3>4. Reading[i + 1] \in States
      BY <3>1, <3>2, <3>3, ReadLineHolds
    <3> QED BY <3>1, <3>4
  <2>3. 0..N \subseteq T
    <3> HIDE DEF T
    <3> QED BY <1>1, <2>1, <2>2, BoundedInduction
  <2> QED BY <2>3
<1> QED BY <1>10, <1>11

\* What a line does to the stack, in place or not, as long as no #else, #elif
\* or #endif is stray.
Moves(s, l, t) ==
  \/ t.stack = s.stack /\ ~OpensIf(l) /\ l.k # "endif"
  \/ OpensIf(l) /\ \E m \in Marks : t.stack = Append(s.stack, m) /\ m.state # "macro"
  \/ /\ l.k \in {"else", "elif"} /\ InIf(s)
     /\ \E m \in Marks : t.stack = [s.stack EXCEPT ![Height(s)] = m] /\ m.state # "macro"
  \/ l.k = "endif" /\ InIf(s) /\ Left(s, t)
  \/ l.k = "macro" /\ ~InMacro(s) /\ \E m \in Marks : t.stack = Append(s.stack, m) /\ m.state = "macro"
  \/ l.k = "endmacro" /\ InMacro(s) /\ ~InIf(s) /\ Left(s, t)

LEMMA ReadsMoves ==
  ASSUME NEW s \in States, NEW l \in Lines, NEW i, NEW t \in States, Reads(s, l, i, t)
  PROVE  Moves(s, l, t)
<1>1. l.k \in Kinds /\ s.comment \in BOOLEAN
  BY StateIs DEF Lines
<1>2. CASE s.comment
  BY <1>2 DEF Reads, CommentRead, Moves
<1>3. CASE ~s.comment
  <2>1. CASE OpensIf(l)
    <3>1. PICK m \in Marks : t.stack = Append(s.stack, m) /\ m.state # "macro"
      BY <1>3, <2>1 DEF Reads, Entered
    <3> QED BY <2>1, <3>1 DEF Moves
  <2>2. CASE l.k \in {"elif", "else"}
    <3>1. PICK m \in Marks :
            /\ InIf(s) /\ t.stack = [s.stack EXCEPT ![Height(s)] = m]
            /\ Top(s).state \in {"on", "done"} => m.state = "done"
            /\ Top(s).state = "skip" => m.state = "skip"
            /\ Top(s).state = "off" => m.state = IF l.k = "else" \/ l.cond = "true" THEN "on" ELSE "off"
      BY <1>3, <2>2 DEF Reads, Branched
    <3>2. Top(s).state \in {"on", "off", "done", "skip"}
      BY <3>1, StateIs DEF InIf, Top, Height, Last, Marks
    <3>3. m.state # "macro"
      BY <3>1, <3>2
    <3> QED BY <2>2, <3>1, <3>3 DEF Moves
  <2>3. CASE l.k = "macro"
    <3>1. PICK m \in Marks : t.stack = Append(s.stack, m) /\ m.state = "macro" /\ ~InMacro(s)
      BY <1>3, <2>3 DEF Reads, MacroEntered
    <3> QED BY <2>3, <3>1 DEF Moves
  <2>4. CASE l.k \in {"endif", "endmacro", "comment", "endcomment", "define", "undef", "text"}
    BY <1>3, <2>4 DEF Reads, Moves, OpensIf
  <2> QED BY <1>1, <2>1, <2>2, <2>3, <2>4 DEF Kinds, OpensIf
<1> QED BY <1>1, <1>2, <1>3

\* At most one macro is being defined.
OneMacro(s) ==
  \A j, k \in 1..Height(s) : s.stack[j].state = "macro" /\ s.stack[k].state = "macro" => j = k

\* What a well-formed program is like.
InPlace ==
  /\ program \in Seq(Lines) /\ N \in Nat
  /\ \A i \in 1..N :
       /\ program[i] \in Lines /\ program[i].k \in Kinds
       /\ Reads(Reading[i - 1], program[i], i, Reading[i])
  /\ \A i \in 0..N : Reading[i] \in States /\ OneMacro(Reading[i])
  /\ Reading[0] = Unread /\ Reading[N].stack = <<>> /\ ~Reading[N].comment

LEMMA OneMacroKept ==
  ASSUME NEW s \in States, NEW l \in Lines, NEW t \in States, Moves(s, l, t), OneMacro(s)
  PROVE  OneMacro(t)
<1>0. /\ s.stack \in Seq(Marks) /\ Height(s) \in Nat /\ s.comment \in BOOLEAN
      /\ Height(s) = Len(s.stack) /\ Height(t) = Len(t.stack)
  BY StateIs DEF Height
<1>1. CASE t.stack = s.stack
  BY <1>1 DEF OneMacro, Height
<1>2. ASSUME NEW m \in Marks, t.stack = Append(s.stack, m), m.state = "macro" => ~InMacro(s)
      PROVE  OneMacro(t)
  <2>1. /\ Height(t) = Height(s) + 1 /\ t.stack[Height(s) + 1] = m
        /\ \A j \in 1..Height(s) : t.stack[j] = s.stack[j]
    BY <1>0, <1>2
  <2>2. m.state = "macro" => \A j \in 1..Height(s) : s.stack[j].state # "macro"
    BY <1>2, StateIs DEF InMacro
  <2>3. ASSUME NEW j \in 1..Height(t), NEW k \in 1..Height(t),
               t.stack[j].state = "macro", t.stack[k].state = "macro"
        PROVE  j = k
    <3>1. CASE j \in 1..Height(s) /\ k \in 1..Height(s)
      BY <2>1, <2>3, <3>1 DEF OneMacro
    <3>2. CASE j = Height(s) + 1 /\ k \in 1..Height(s)
      BY <2>1, <2>2, <2>3, <3>2
    <3>3. CASE k = Height(s) + 1 /\ j \in 1..Height(s)
      BY <2>1, <2>2, <2>3, <3>3
    <3>4. CASE j = Height(s) + 1 /\ k = Height(s) + 1
      BY <3>4
    <3> QED BY <1>0, <2>1, <3>1, <3>2, <3>3, <3>4
  <2> QED BY <2>3 DEF OneMacro
<1>3. ASSUME NEW m \in Marks, InIf(s), t.stack = [s.stack EXCEPT ![Height(s)] = m], m.state # "macro"
      PROVE  OneMacro(t)
  <2>1. /\ Height(t) = Height(s)
        /\ \A j \in 1..Height(s) : t.stack[j] = IF j = Height(s) THEN m ELSE s.stack[j]
    BY <1>0, <1>3
  <2> QED BY <1>3, <2>1 DEF OneMacro
<1>4. CASE Left(s, t)
  <2>1. s.stack # <<>> /\ t.stack = SubSeq(s.stack, 1, Height(s) - 1)
    BY <1>4 DEF Left
  <2>2. Height(t) = Height(s) - 1 /\ \A j \in 1..(Height(s) - 1) : t.stack[j] = s.stack[j]
    BY <1>0, <2>1, StateIs
  <2> QED BY <1>0, <2>2 DEF OneMacro
<1> QED BY <1>1, <1>2, <1>3, <1>4 DEF Moves

\* What a program without stray lines is like.
Balanced ==
  /\ program \in Seq(Lines) /\ N \in Nat
  /\ \A i \in 1..N : program[i] \in Lines /\ Moves(Reading[i - 1], program[i], Reading[i])
  /\ \A i \in 0..N : Reading[i] \in States /\ OneMacro(Reading[i])

LEMMA InPlaceBalanced == InPlace => Balanced
<1> SUFFICES ASSUME InPlace PROVE Balanced
  OBVIOUS
<1>1. ASSUME NEW i \in 1..N PROVE Moves(Reading[i - 1], program[i], Reading[i])
  <2>1. i - 1 \in 0..N /\ i \in 0..N
    BY DEF InPlace
  <2>2. /\ Reading[i - 1] \in States /\ Reading[i] \in States /\ program[i] \in Lines
        /\ Reads(Reading[i - 1], program[i], i, Reading[i])
    BY <2>1 DEF InPlace
  <2> QED BY <2>2, ReadsMoves
<1> QED BY <1>1 DEF InPlace, Balanced

LEMMA WellFormedInPlace ==
  ASSUME program \in Seq(Lines), WellFormed
  PROVE  InPlace
<1>1. N \in Nat /\ \A i \in 1..N : program[i] \in Lines /\ program[i].k \in Kinds
  <2>1. N \in Nat /\ \A i \in 1..N : program[i] \in Lines
    BY DEF N
  <2> QED BY <2>1 DEF Lines
<1>2. /\ Reading[0] = Unread
      /\ \A i \in 1..N : Reading[i] = ReadLine(Reading[i - 1], program[i], i)
      /\ \A i \in 0..N : Reading[i] \in States
  BY ReadingIs
<1>3. \A i \in 1..N : Reading[i].ok => Reads(Reading[i - 1], program[i], i, Reading[i])
  <2> TAKE i \in 1..N
  <2>1. i - 1 \in 0..N /\ i \in Nat
    BY <1>1
  <2> QED BY <1>1, <1>2, <2>1, ReadLineHolds
<1>4. \A i \in 0..N : Reading[i].ok
  <2> DEFINE T == {j \in 0..N : Reading[N - j].ok}
  <2>1. 0 \in T
    BY <1>1 DEF WellFormed
  <2>2. ASSUME NEW j \in 0..N - 1, j \in T PROVE j + 1 \in T
    <3>1. N - j \in 1..N /\ N - (j + 1) = (N - j) - 1 /\ j + 1 \in 0..N
      BY <1>1
    <3>2. Reads(Reading[(N - j) - 1], program[N - j], N - j, Reading[N - j])
      BY <1>3, <2>2, <3>1
    <3>3. Reading[N - (j + 1)].ok
      BY <3>1, <3>2 DEF Reads
    <3> QED BY <3>1, <3>3
  <2>3. 0..N \subseteq T
    <3> HIDE DEF T
    <3> QED BY <1>1, <2>1, <2>2, BoundedInduction
  <2>4. ASSUME NEW i \in 0..N PROVE Reading[i].ok
    <3>1. N - i \in T /\ N - (N - i) = i
      <4>1. N - i \in 0..N /\ N - (N - i) = i
        BY <1>1
      <4> HIDE DEF T
      <4> QED BY <2>3, <4>1
    <3> QED BY <3>1
  <2> QED BY <2>4
<1>5. \A i \in 0..N : OneMacro(Reading[i])
  <2> DEFINE T == {i \in 0..N : OneMacro(Reading[i])}
  <2>1. 0 \in T
    <3>1. OneMacro(Unread)
      BY DEF OneMacro, Unread, Height
    <3> QED BY <1>1, <1>2, <3>1
  <2>2. ASSUME NEW i \in 0..N - 1, i \in T PROVE i + 1 \in T
    <3>1. i + 1 \in 1..N /\ (i + 1) - 1 = i /\ i + 1 \in 0..N /\ i \in 0..N
      BY <1>1
    <3>2. Reads(Reading[i], program[i + 1], i + 1, Reading[i + 1])
      BY <1>3, <1>4, <3>1
    <3>3. Reading[i] \in States /\ Reading[i + 1] \in States /\ OneMacro(Reading[i])
          /\ program[i + 1] \in Lines
      BY <1>1, <1>2, <2>2, <3>1
    <3>4. Moves(Reading[i], program[i + 1], Reading[i + 1])
      BY <3>2, <3>3, ReadsMoves
    <3>5. OneMacro(Reading[i + 1])
      BY <3>3, <3>4, OneMacroKept
    <3> QED BY <3>1, <3>5
  <2>3. 0..N \subseteq T
    <3> HIDE DEF T
    <3> QED BY <1>1, <2>1, <2>2, BoundedInduction
  <2> QED BY <2>3
<1>6. \A i \in 1..N : Reads(Reading[i - 1], program[i], i, Reading[i])
  <2> TAKE i \in 1..N
  <2>1. i \in 0..N
    BY <1>1
  <2> QED BY <1>3, <1>4, <2>1
<1> QED BY <1>1, <1>2, <1>5, <1>6 DEF InPlace, WellFormed

----------------------------------------------------------------------------
(***************************************************************************)
(* A scan and the reading.  The scan starts behind a line that left L      *)
(* entries; what the reading has above them is what the level counts, and  *)
(* the macro that is being defined there, if there is one.                 *)
(***************************************************************************)
MacrosAbove(s, L) == IF \E j \in L + 1..Height(s) : s.stack[j].state = "macro" THEN 1 ELSE 0

Nested(a, s, L, v) ==
  /\ Height(s) = L + v + MacrosAbove(s, L)
  /\ \A j \in 1..L - 1 : s.stack[j] = a.stack[j]
  /\ (s.stack[L].state = "macro") = (a.stack[L].state = "macro")

\* The words include the one that removes entry L.
Closes(a, L, words) ==
  IF a.stack[L].state = "macro" THEN "endmacro" \in words ELSE "endif" \in words

\* A line that only touches entries above L, or changes entry L, but not
\* whether it is a macro.
LEMMA NestedKept ==
  ASSUME NEW a \in States, NEW s \in States, NEW t \in States, NEW L \in Nat \ {0},
         NEW v \in Nat, Nested(a, s, L, v), Height(t) = Height(s),
         \A j \in 1..Height(s) : /\ j # Height(s) => t.stack[j] = s.stack[j]
                                 /\ (t.stack[j].state = "macro") = (s.stack[j].state = "macro")
  PROVE  Nested(a, t, L, v)
<1>1. Height(s) \in Nat /\ Height(s) >= L /\ L \in 1..Height(s)
  <2>1. Height(s) \in Nat /\ MacrosAbove(s, L) \in Nat
    BY StateIs DEF MacrosAbove
  <2> QED BY <2>1 DEF Nested
<1>2. MacrosAbove(t, L) = MacrosAbove(s, L)
  <2>1. \A j \in L + 1..Height(s) : (t.stack[j].state = "macro") = (s.stack[j].state = "macro")
    BY <1>1
  <2> QED BY <2>1 DEF MacrosAbove
<1>3. \A j \in 1..L - 1 : t.stack[j] = s.stack[j]
  BY <1>1
<1> QED BY <1>1, <1>2, <1>3 DEF Nested

LEMMA NestedPushed ==
  ASSUME NEW a \in States, NEW s \in States, NEW t \in States, NEW L \in Nat \ {0},
         NEW v \in Nat, Nested(a, s, L, v), NEW m \in Marks, t.stack = Append(s.stack, m)
  PROVE  /\ m.state # "macro" => Nested(a, t, L, v + 1)
         /\ m.state = "macro" /\ ~InMacro(s) => Nested(a, t, L, v)
<1>1. /\ s.stack \in Seq(Marks) /\ Height(s) = Len(s.stack) /\ Height(t) = Len(t.stack)
      /\ Height(s) \in Nat /\ MacrosAbove(s, L) \in Nat /\ DOMAIN s.stack = 1..Height(s)
  BY StateIs DEF Height, MacrosAbove
<1>2. /\ Height(t) = Height(s) + 1 /\ t.stack[Height(s) + 1] = m
      /\ \A j \in 1..Height(s) : t.stack[j] = s.stack[j]
  BY <1>1
<1>3. L \in 1..Height(s)
  BY <1>1 DEF Nested
<1>4. /\ \A j \in 1..L - 1 : t.stack[j] = a.stack[j]
      /\ (t.stack[L].state = "macro") = (a.stack[L].state = "macro")
  <2>1. \A j \in 1..L - 1 : j \in 1..Height(s)
    BY <1>1, <1>3
  <2> QED BY <1>2, <1>3, <2>1 DEF Nested
<1>5. ASSUME m.state # "macro" PROVE Nested(a, t, L, v + 1)
  <2>1. MacrosAbove(t, L) = MacrosAbove(s, L)
    <3>1. (\E j \in L + 1..Height(t) : t.stack[j].state = "macro") =
          (\E j \in L + 1..Height(s) : s.stack[j].state = "macro")
      <4>1. ASSUME NEW j \in L + 1..Height(t), t.stack[j].state = "macro"
            PROVE  \E k \in L + 1..Height(s) : s.stack[k].state = "macro"
        <5>1. j # Height(s) + 1
          BY <1>2, <1>5, <4>1
        <5>2. j \in L + 1..Height(s) /\ j \in 1..Height(s)
          BY <1>1, <1>2, <1>3, <5>1
        <5> QED BY <1>2, <4>1, <5>2
      <4>2. ASSUME NEW j \in L + 1..Height(s), s.stack[j].state = "macro"
            PROVE  \E k \in L + 1..Height(t) : t.stack[k].state = "macro"
        <5>1. j \in L + 1..Height(t) /\ j \in 1..Height(s)
          BY <1>1, <1>2, <1>3
        <5> QED BY <1>2, <4>2, <5>1
      <4> QED BY <4>1, <4>2
    <3> QED BY <3>1 DEF MacrosAbove
  <2>2. Height(t) = L + (v + 1) + MacrosAbove(t, L)
    BY <1>1, <1>2, <2>1 DEF Nested
  <2> QED BY <1>4, <2>2 DEF Nested
<1>6. ASSUME m.state = "macro", ~InMacro(s) PROVE Nested(a, t, L, v)
  <2>1. \A j \in 1..Height(s) : s.stack[j].state # "macro"
    BY <1>1, <1>6 DEF InMacro
  <2>2. MacrosAbove(s, L) = 0
    <3>1. \A j \in L + 1..Height(s) : j \in 1..Height(s)
      BY <1>1, <1>3
    <3> QED BY <2>1, <3>1 DEF MacrosAbove
  <2>3. MacrosAbove(t, L) = 1
    <3>1. Height(s) + 1 \in L + 1..Height(t)
      BY <1>1, <1>2, <1>3
    <3> QED BY <1>2, <1>6, <3>1 DEF MacrosAbove
  <2>4. Height(t) = L + v + MacrosAbove(t, L)
    BY <1>1, <1>2, <2>2, <2>3 DEF Nested
  <2> QED BY <1>4, <2>4 DEF Nested
<1> QED BY <1>5, <1>6

LEMMA NestedPopped ==
  ASSUME NEW a \in States, NEW s \in States, NEW t \in States, NEW L \in Nat \ {0},
         NEW v \in Nat, Nested(a, s, L, v), OneMacro(s), Left(s, t), Height(s) > L
  PROVE  /\ InIf(s) /\ v > 0 => Nested(a, t, L, v - 1)
         /\ ~InIf(s) => Nested(a, t, L, v)
<1>1. /\ s.stack \in Seq(Marks) /\ Height(s) = Len(s.stack) /\ Height(t) = Len(t.stack)
      /\ Height(s) \in Nat /\ MacrosAbove(s, L) \in Nat
      /\ s.stack # <<>> /\ t.stack = SubSeq(s.stack, 1, Height(s) - 1)
  BY StateIs DEF Height, MacrosAbove, Left
<1>2. /\ Height(t) = Height(s) - 1 /\ \A j \in 1..Height(t) : t.stack[j] = s.stack[j]
      /\ L \in 1..Height(t)
  BY <1>1
<1>3. /\ \A j \in 1..L - 1 : t.stack[j] = a.stack[j]
      /\ (t.stack[L].state = "macro") = (a.stack[L].state = "macro")
  <2>1. \A j \in 1..L - 1 : j \in 1..Height(t)
    BY <1>1, <1>2
  <2> QED BY <1>2, <2>1 DEF Nested
<1>4. InIf(s) <=> s.stack[Height(s)].state # "macro"
  BY <1>1 DEF InIf, Last, Height
<1>5. ASSUME InIf(s), v > 0 PROVE Nested(a, t, L, v - 1)
  <2>1. MacrosAbove(t, L) = MacrosAbove(s, L)
    <3>1. (\E j \in L + 1..Height(t) : t.stack[j].state = "macro") =
          (\E j \in L + 1..Height(s) : s.stack[j].state = "macro")
      <4>1. ASSUME NEW j \in L + 1..Height(t), t.stack[j].state = "macro"
            PROVE  \E k \in L + 1..Height(s) : s.stack[k].state = "macro"
        <5>1. j \in L + 1..Height(s) /\ j \in 1..Height(t)
          BY <1>1, <1>2
        <5> QED BY <1>2, <4>1, <5>1
      <4>2. ASSUME NEW j \in L + 1..Height(s), s.stack[j].state = "macro"
            PROVE  \E k \in L + 1..Height(t) : t.stack[k].state = "macro"
        <5>1. j # Height(s)
          BY <1>4, <1>5, <4>2
        <5>2. j \in L + 1..Height(t) /\ j \in 1..Height(t)
          BY <1>1, <1>2, <5>1
        <5> QED BY <1>2, <4>2, <5>2
      <4> QED BY <4>1, <4>2
    <3> QED BY <3>1 DEF MacrosAbove
  <2>2. Height(t) = L + (v - 1) + MacrosAbove(t, L)
    BY <1>1, <1>2, <2>1 DEF Nested
  <2> QED BY <1>3, <2>2 DEF Nested
<1>6. ASSUME ~InIf(s) PROVE Nested(a, t, L, v)
  <2>1. MacrosAbove(s, L) = 1
    <3>1. Height(s) \in L + 1..Height(s)
      BY <1>1
    <3> QED BY <1>4, <1>6, <3>1 DEF MacrosAbove
  <2>2. MacrosAbove(t, L) = 0
    <3>1. ASSUME NEW j \in L + 1..Height(t), t.stack[j].state = "macro" PROVE FALSE
      <4>1. j \in 1..Height(s) /\ Height(s) \in 1..Height(s) /\ j # Height(s) /\ j \in 1..Height(t)
        BY <1>1, <1>2
      <4>2. s.stack[j].state = "macro" /\ s.stack[Height(s)].state = "macro"
        BY <1>2, <1>4, <1>6, <3>1, <4>1
      <4> QED BY <4>1, <4>2 DEF OneMacro
    <3> QED BY <3>1 DEF MacrosAbove
  <2>3. Height(t) = L + v + MacrosAbove(t, L)
    BY <1>1, <1>2, <2>1, <2>2 DEF Nested
  <2> QED BY <1>3, <2>3 DEF Nested
<1> QED BY <1>5, <1>6

\* A line at which a scan does not stop keeps levels and entries in step.
LEMMA NestedStep ==
  ASSUME NEW a \in States, NEW s \in States, NEW t \in States, NEW l \in Lines,
         Moves(s, l, t), OneMacro(s), NEW L \in Nat \ {0}, NEW v \in Nat,
         Nested(a, s, L, v), NEW words, Closes(a, L, words), ~(v = 0 /\ l.k \in words)
  PROVE  Nested(a, t, L, LevelAfter(v, l))
<1>1. /\ Height(s) \in Nat /\ MacrosAbove(s, L) \in {0, 1}
      /\ DOMAIN s.stack = 1..Height(s) /\ s.stack \in Seq(Marks) /\ Height(s) = Len(s.stack)
      /\ Height(t) = Len(t.stack)
  BY StateIs DEF MacrosAbove, Height
<1>2. /\ Height(s) = L + v + MacrosAbove(s, L) /\ L \in 1..Height(s)
      /\ (s.stack[L].state = "macro") = (a.stack[L].state = "macro")
  BY <1>1 DEF Nested
<1>3. CASE t.stack = s.stack /\ ~OpensIf(l) /\ l.k # "endif"
  <2>1. Height(t) = Height(s) /\ LevelAfter(v, l) = v
    BY <1>1, <1>3 DEF LevelAfter
  <2> QED BY <1>3, <2>1, NestedKept
<1>4. CASE OpensIf(l) /\ \E m \in Marks : t.stack = Append(s.stack, m) /\ m.state # "macro"
  <2>1. PICK m \in Marks : t.stack = Append(s.stack, m) /\ m.state # "macro"
    BY <1>4
  <2>2. Nested(a, t, L, v + 1)
    BY <2>1, NestedPushed
  <2> QED BY <1>4, <2>2 DEF LevelAfter
<1>5. CASE /\ l.k \in {"else", "elif"} /\ InIf(s)
           /\ \E m \in Marks : t.stack = [s.stack EXCEPT ![Height(s)] = m] /\ m.state # "macro"
  <2>1. PICK m \in Marks : t.stack = [s.stack EXCEPT ![Height(s)] = m] /\ m.state # "macro"
    BY <1>5
  <2>2. s.stack[Height(s)].state # "macro"
    BY <1>5 DEF InIf, Height, Last
  <2>3. /\ Height(t) = Height(s)
        /\ \A j \in 1..Height(s) : t.stack[j] = IF j = Height(s) THEN m ELSE s.stack[j]
    BY <1>1, <2>1
  <2>4. \A j \in 1..Height(s) :
          /\ j # Height(s) => t.stack[j] = s.stack[j]
          /\ (t.stack[j].state = "macro") = (s.stack[j].state = "macro")
    BY <2>1, <2>2, <2>3
  <2>5. Nested(a, t, L, v)
    BY <2>3, <2>4, NestedKept
  <2> QED BY <1>5, <2>5 DEF LevelAfter, OpensIf
<1>6. CASE l.k = "endif" /\ InIf(s) /\ Left(s, t)
  <2>1. s.stack[Height(s)].state # "macro"
    BY <1>6 DEF InIf, Last, Height
  <2>2. v > 0
    <3> SUFFICES ASSUME v = 0 PROVE FALSE
      OBVIOUS
    <3>1. a.stack[L].state = "macro"
      BY <1>6 DEF Closes
    <3>2. s.stack[L].state = "macro"
      BY <1>2, <3>1
    <3>3. MacrosAbove(s, L) = 0
      <4>1. ASSUME NEW j \in L + 1..Height(s), s.stack[j].state = "macro" PROVE FALSE
        <5>1. j \in 1..Height(s) /\ j # L
          BY <1>1, <1>2
        <5> QED BY <1>2, <3>2, <4>1, <5>1 DEF OneMacro
      <4> QED BY <4>1 DEF MacrosAbove
    <3>4. Height(s) = L
      BY <1>2, <3>3
    <3> QED BY <2>1, <3>2, <3>4
  <2>3. Height(s) > L
    BY <1>1, <1>2, <2>2
  <2>4. Nested(a, t, L, v - 1)
    BY <1>6, <2>2, <2>3, NestedPopped
  <2> QED BY <1>6, <2>2, <2>4 DEF LevelAfter, OpensIf
<1>7. CASE l.k = "macro" /\ ~InMacro(s) /\ \E m \in Marks : t.stack = Append(s.stack, m) /\ m.state = "macro"
  <2>1. PICK m \in Marks : t.stack = Append(s.stack, m) /\ m.state = "macro"
    BY <1>7
  <2>2. Nested(a, t, L, v)
    BY <1>7, <2>1, NestedPushed
  <2> QED BY <1>7, <2>2 DEF LevelAfter, OpensIf
<1>8. CASE l.k = "endmacro" /\ InMacro(s) /\ ~InIf(s) /\ Left(s, t)
  <2>1. s.stack[Height(s)].state = "macro"
    BY <1>1, <1>2, <1>8 DEF InIf, Last, Height
  <2>2. Height(s) > L
    <3> SUFFICES ASSUME Height(s) = L PROVE FALSE
      BY <1>1, <1>2
    <3>1. v = 0 /\ a.stack[L].state = "macro"
      BY <1>1, <1>2, <2>1
    <3> QED BY <1>8, <3>1 DEF Closes
  <2>3. Nested(a, t, L, v)
    BY <1>8, <2>2, NestedPopped
  <2> QED BY <1>8, <2>3 DEF LevelAfter, OpensIf
<1> QED BY <1>3, <1>4, <1>5, <1>6, <1>7, <1>8 DEF Moves

----------------------------------------------------------------------------
(***************************************************************************)
(* A scan through a part that is skipped has no effect on the reading.     *)
(***************************************************************************)
Branching == {"else", "elif"}

QuietBase(a, L, words) ==
  ~a.comment /\ a.stack[L].state # "on" /\ (a.stack[L].state = "off" => Branching \subseteq words)

Quiet(a, s, L, words) ==
  /\ SameEffect(a, s) /\ s.stack[L].state = a.stack[L].state
  /\ Branching \subseteq words => s.stack[L] = a.stack[L]

LEMMA QuietStep ==
  ASSUME NEW a \in States, NEW s \in States, NEW t \in States, NEW l \in Lines, NEW i,
         Reads(s, l, i, t), NEW L \in Nat \ {0}, NEW v \in Nat, Nested(a, s, L, v),
         NEW words, Closes(a, L, words), ~(v = 0 /\ l.k \in words),
         QuietBase(a, L, words), Quiet(a, s, L, words)
  PROVE  Quiet(a, t, L, words)
<1>1. /\ Height(s) \in Nat /\ MacrosAbove(s, L) \in {0, 1} /\ s.comment \in BOOLEAN
      /\ DOMAIN s.stack = 1..Height(s) /\ s.stack \in Seq(Marks) /\ Height(s) = Len(s.stack)
      /\ s.stack # <<>> <=> Height(s) > 0
  BY StateIs DEF MacrosAbove, Height
<1>2. Height(s) = L + v + MacrosAbove(s, L) /\ L \in 1..Height(s)
  BY <1>1 DEF Nested
<1>3. l.k \in Kinds
  BY DEF Lines
<1>4. ~Live(s) /\ ~s.comment
  BY <1>1, <1>2 DEF QuietBase, Quiet, Live, SameEffect
<1>5. ASSUME SameEffect(s, t), t.stack[L] = s.stack[L]
      PROVE  Quiet(a, t, L, words)
  BY <1>5 DEF Quiet, SameEffect
<1>6. CASE OpensIf(l) \/ l.k = "macro"
  <2>1. SameEffect(s, t) /\ \E m \in Marks : t.stack = Append(s.stack, m)
    BY <1>4, <1>6 DEF Reads, Entered, MacroEntered
  <2>2. t.stack[L] = s.stack[L]
    BY <1>1, <1>2, <2>1
  <2> QED BY <1>5, <2>1, <2>2
<1>7. CASE l.k \in Branching
  <2>1. PICK m \in Marks :
          /\ InIf(s) /\ t.stack = [s.stack EXCEPT ![Height(s)] = m] /\ SameEffect(s, t)
          /\ Top(s).state \in {"on", "done"} => m.state = "done"
          /\ Top(s).state = "skip" => m.state = "skip"
          /\ Top(s).state = "off" => m.state = IF l.k = "else" \/ l.cond = "true" THEN "on" ELSE "off"
    BY <1>4, <1>7 DEF Reads, Branched, Branching
  <2>2. CASE L # Height(s)
    <3>1. t.stack[L] = s.stack[L]
      BY <1>1, <1>2, <2>1, <2>2
    <3> QED BY <1>5, <2>1, <3>1
  <2>3. CASE L = Height(s)
    <3>1. v = 0
      BY <1>1, <1>2, <2>3
    <3>2. ~(Branching \subseteq words)
      BY <1>7, <3>1
    <3>3. Top(s) = s.stack[L] /\ s.stack[L] \in Marks /\ Top(s).state # "macro"
      BY <1>1, <1>2, <2>1, <2>3 DEF Top, InIf, Last, Height
    <3>4. Top(s).state \in {"done", "skip"}
      BY <3>2, <3>3 DEF QuietBase, Quiet, Marks
    <3>5. t.stack[L] = m
      BY <1>1, <1>2, <2>1, <2>3
    <3>6. t.stack[L].state = s.stack[L].state
      BY <2>1, <3>3, <3>4, <3>5
    <3> QED BY <2>1, <3>2, <3>6 DEF Quiet, SameEffect
  <2> QED BY <2>2, <2>3
<1>8. CASE l.k \in {"endif", "endmacro"}
  <2>1. /\ Left(s, t)
        /\ l.k = "endif" => InIf(s)
        /\ l.k = "endmacro" => ~InIf(s)
    BY <1>4, <1>8 DEF Reads
  <2>2. ASSUME Height(s) = L PROVE FALSE
    <3>1. v = 0
      BY <1>1, <1>2, <2>2
    <3>2. InIf(s) <=> s.stack[L].state # "macro"
      BY <1>1, <1>2, <2>2 DEF InIf, Last, Height
    <3>3. (s.stack[L].state = "macro") = (a.stack[L].state = "macro")
      BY DEF Nested
    <3> QED BY <1>8, <2>1, <3>1, <3>2, <3>3 DEF Closes
  <2>3. t.stack = SubSeq(s.stack, 1, Height(s) - 1) /\ L \in 1..Height(s) - 1 /\ SameEffect(s, t)
    BY <1>1, <1>2, <2>1, <2>2 DEF Left
  <2>4. t.stack[L] = s.stack[L]
    BY <1>1, <2>3
  <2> QED BY <1>5, <2>3, <2>4
<1>9. CASE l.k \in {"comment", "endcomment", "define", "undef", "text"}
  <2>1. t.stack = s.stack /\ SameEffect(s, t)
    BY <1>4, <1>9 DEF Reads, SameEffect
  <2> QED BY <1>5, <2>1
<1> QED BY <1>3, <1>6, <1>7, <1>8, <1>9 DEF Kinds, OpensIf, Branching

----------------------------------------------------------------------------
(***************************************************************************)
(* Scans of a well-formed program, from line p with a as the reading       *)
(* before it, find what removes or branches the innermost entry of a.      *)
(***************************************************************************)
\* What a scan for words starts from: something is open that they close.
Scans(p, words) ==
  LET a == Reading[p - 1]
  IN p \in 1..N + 1 /\ Height(a) > 0 /\ Closes(a, Height(a), words)

LEMMA ScanNested ==
  ASSUME Balanced, NEW p, NEW words, Scans(p, words)
  PROVE  \A i \in p..SkipUntil(p, words) :
           Nested(Reading[p - 1], Reading[i - 1], Height(Reading[p - 1]), LevelFrom(p)[i])
<1>1. N \in Nat /\ p \in Nat /\ p \in 1..N + 1 /\ p - 1 \in 0..N /\ program \in Seq(Lines)
  BY DEF Scans, Balanced
<1>2. PICK a : a = Reading[p - 1]
  OBVIOUS
<1>3. PICK L : L = Height(a)
  OBVIOUS
<1>4. a \in States /\ L \in Nat \ {0} /\ Closes(a, L, words)
  BY <1>1, <1>2, <1>3, StateIs DEF Scans, Balanced
<1>5. PICK r : r = SkipUntil(p, words)
  OBVIOUS
<1>6. /\ r \in p..N + 1
      /\ \A i \in p..N : i < r => ~(LevelFrom(p)[i] = 0 /\ program[i].k \in words)
  BY <1>1, <1>5, SkipIs
<1>7. /\ LevelFrom(p)[p] = 0
      /\ \A i \in p..N : LevelFrom(p)[i + 1] = LevelAfter(LevelFrom(p)[i], program[i])
      /\ \A i \in p..N + 1 : LevelFrom(p)[i] \in Nat
  BY <1>1, LevelIs
<1> DEFINE Good(i) == Nested(a, Reading[i - 1], L, LevelFrom(p)[i])
           T == {j \in 0..r - p : Good(p + j)}
<1>8. r - p \in Nat
  BY <1>1, <1>6
<1>9. 0 \in T
  <2>1. Nested(a, a, L, 0)
    <3>1. MacrosAbove(a, L) = 0
      BY <1>3, <1>4 DEF MacrosAbove
    <3> QED BY <1>3, <1>4, <3>1 DEF Nested
  <2>2. p + 0 = p
    BY <1>1
  <2> QED BY <1>2, <1>7, <1>8, <2>1, <2>2
<1>10. ASSUME NEW j \in 0..(r - p) - 1, j \in T PROVE j + 1 \in T
  <2>1. PICK i : i = p + j
    OBVIOUS
  <2>2. i \in p..N /\ i \in 1..N /\ i < r /\ i - 1 \in 0..N /\ i \in 0..N /\ i \in p..N + 1
        /\ p + (j + 1) = i + 1 /\ (i + 1) - 1 = i /\ j + 1 \in 0..r - p
    BY <1>1, <1>6, <2>1
  <2>3. PICK v \in Nat : v = LevelFrom(p)[i]
    BY <1>7, <2>2
  <2>4. ~(v = 0 /\ program[i].k \in words) /\ LevelFrom(p)[i + 1] = LevelAfter(v, program[i])
    BY <1>6, <1>7, <2>2, <2>3
  <2>5. /\ Reading[i - 1] \in States /\ Reading[i] \in States /\ program[i] \in Lines
        /\ Moves(Reading[i - 1], program[i], Reading[i]) /\ OneMacro(Reading[i - 1])
    BY <2>2 DEF Balanced
  <2>6. Nested(a, Reading[i - 1], L, v)
    BY <1>10, <2>1, <2>3
  <2>7. Nested(a, Reading[i], L, LevelAfter(v, program[i]))
    BY <1>4, <2>4, <2>5, <2>6, NestedStep
  <2> QED BY <2>2, <2>4, <2>7
<1>11. 0..r - p \subseteq T
  <2> HIDE DEF T
  <2> QED BY <1>8, <1>9, <1>10, BoundedInduction
<1>12. \A i \in p..r : Good(i)
  <2> TAKE i \in p..r
  <2>1. i - p \in 0..r - p /\ p + (i - p) = i
    BY <1>1, <1>6
  <2>2. i - p \in T
    BY <1>11, <2>1
  <2> QED BY <2>1, <2>2
<1> QED BY <1>2, <1>3, <1>5, <1>12

LEMMA ScanFinds ==
  ASSUME InPlace, NEW p, NEW words, Scans(p, words)
  PROVE  SkipUntil(p, words) \in p..N
<1>1. N \in Nat /\ p \in Nat /\ p \in 1..N + 1 /\ p - 1 \in 0..N /\ program \in Seq(Lines)
  BY DEF Scans, InPlace
<1>2. PICK a \in States : a = Reading[p - 1]
  BY <1>1 DEF InPlace
<1>3. Height(a) \in Nat \ {0}
  BY <1>2, StateIs DEF Scans
<1>4. PICK r \in p..N + 1 : r = SkipUntil(p, words)
  BY <1>1, SkipIs
<1>5. r # N + 1
  <2> SUFFICES ASSUME r = N + 1 PROVE FALSE
    OBVIOUS
  <2>1. r \in p..r /\ r - 1 = N /\ N \in 0..N
    BY <1>1, <1>4
  <2>2. PICK v \in Nat : v = LevelFrom(p)[r]
    BY <1>1, <1>4, LevelIs
  <2>3. Nested(a, Reading[N], Height(a), v)
    <3>1. \A i \in p..r : Nested(a, Reading[i - 1], Height(a), LevelFrom(p)[i])
      BY <1>2, <1>4, InPlaceBalanced, ScanNested
    <3> QED BY <2>1, <2>2, <3>1
  <2>4. Height(Reading[N]) = 0
    BY <2>1 DEF InPlace, Height
  <2> QED BY <1>3, <2>3, <2>4 DEF Nested, MacrosAbove
<1> QED BY <1>1, <1>4, <1>5

LEMMA ScanQuiet ==
  ASSUME InPlace, NEW p, NEW words, Scans(p, words),
         QuietBase(Reading[p - 1], Height(Reading[p - 1]), words)
  PROVE  \A i \in p..SkipUntil(p, words) :
           Quiet(Reading[p - 1], Reading[i - 1], Height(Reading[p - 1]), words)
<1>1. N \in Nat /\ p \in Nat /\ p \in 1..N + 1 /\ p - 1 \in 0..N /\ program \in Seq(Lines)
  BY DEF Scans, InPlace
<1>2. PICK a : a = Reading[p - 1]
  OBVIOUS
<1>3. PICK L : L = Height(a)
  OBVIOUS
<1>4. a \in States /\ L \in Nat \ {0} /\ Closes(a, L, words) /\ QuietBase(a, L, words)
  BY <1>1, <1>2, <1>3, StateIs DEF Scans, InPlace
<1>5. PICK r : r = SkipUntil(p, words)
  OBVIOUS
<1>6. /\ r \in p..N
      /\ \A i \in p..N : i < r => ~(LevelFrom(p)[i] = 0 /\ program[i].k \in words)
  BY <1>1, <1>5, SkipIs, ScanFinds
<1>7. \A i \in p..r : Nested(a, Reading[i - 1], L, LevelFrom(p)[i])
  BY <1>2, <1>3, <1>5, InPlaceBalanced, ScanNested
<1>8. \A i \in p..N + 1 : LevelFrom(p)[i] \in Nat
  BY <1>1, LevelIs
<1> DEFINE Good(i) == Quiet(a, Reading[i - 1], L, words)
           T == {j \in 0..r - p : Good(p + j)}
<1>9. r - p \in Nat
  BY <1>1, <1>6
<1>10. 0 \in T
  <2>1. Quiet(a, a, L, words)
    BY DEF Quiet, SameEffect
  <2>2. p + 0 = p
    BY <1>1
  <2> QED BY <1>2, <1>9, <2>1, <2>2
<1>11. ASSUME NEW j \in 0..(r - p) - 1, j \in T PROVE j + 1 \in T
  <2>1. PICK i : i = p + j
    OBVIOUS
  <2>2. i \in p..N /\ i \in 1..N /\ i < r /\ i - 1 \in 0..N /\ i \in 0..N /\ i \in p..N + 1 /\ i \in p..r
        /\ p + (j + 1) = i + 1 /\ (i + 1) - 1 = i /\ j + 1 \in 0..r - p
    BY <1>1, <1>6, <2>1
  <2>3. PICK v \in Nat : v = LevelFrom(p)[i]
    BY <1>8, <2>2
  <2>4. ~(v = 0 /\ program[i].k \in words) /\ Nested(a, Reading[i - 1], L, v)
    BY <1>6, <1>7, <2>2, <2>3
  <2>5. /\ Reading[i - 1] \in States /\ Reading[i] \in States /\ program[i] \in Lines
        /\ Reads(Reading[i - 1], program[i], i, Reading[i])
    BY <2>2 DEF InPlace
  <2>6. Quiet(a, Reading[i - 1], L, words)
    BY <1>11, <2>1
  <2>7. Quiet(a, Reading[i], L, words)
    BY <1>4, <2>4, <2>5, <2>6, QuietStep
  <2> QED BY <2>2, <2>7
<1>12. 0..r - p \subseteq T
  <2> HIDE DEF T
  <2> QED BY <1>9, <1>10, <1>11, BoundedInduction
<1>13. \A i \in p..r : Good(i)
  <2> TAKE i \in p..r
  <2>1. i - p \in 0..r - p /\ p + (i - p) = i
    BY <1>1, <1>6
  <2>2. i - p \in T
    BY <1>12, <2>1
  <2> QED BY <2>1, <2>2
<1> QED BY <1>2, <1>3, <1>5, <1>13

\* Where a scan through a skipped part stops, what was open when it started
\* is innermost again.
LEMMA ScanStops ==
  ASSUME InPlace, NEW p, NEW words, Scans(p, words),
         QuietBase(Reading[p - 1], Height(Reading[p - 1]), words),
         words \subseteq {"else", "elif", "endif"} \/ words = {"endmacro"}
  PROVE  LET a == Reading[p - 1]
             r == SkipUntil(p, words)
             s == Reading[r - 1]
         IN /\ r \in p..N /\ program[r].k \in words
            /\ Height(s) = Height(a) /\ Quiet(a, s, Height(a), words) /\ ~s.comment
            /\ \A j \in 1..Height(a) - 1 : s.stack[j] = a.stack[j]
<1>1. N \in Nat /\ p \in Nat /\ p \in 1..N + 1 /\ p - 1 \in 0..N /\ program \in Seq(Lines)
  BY DEF Scans, InPlace
<1>2. PICK a : a = Reading[p - 1]
  OBVIOUS
<1>3. PICK L : L = Height(a)
  OBVIOUS
<1>4. a \in States /\ L \in Nat \ {0} /\ Closes(a, L, words)
  BY <1>1, <1>2, <1>3, StateIs DEF Scans, InPlace
<1>5. PICK r : r = SkipUntil(p, words)
  OBVIOUS
<1>6. r \in p..N /\ LevelFrom(p)[r] = 0 /\ program[r].k \in words
  <2>1. r \in p..N
    BY <1>5, ScanFinds
  <2> QED BY <1>1, <1>5, <2>1, SkipIs
<1>7. PICK s : s = Reading[r - 1]
  OBVIOUS
<1>8. Nested(a, s, L, 0) /\ Quiet(a, s, L, words)
  <2>1. r \in p..r
    BY <1>1, <1>6
  <2>2. \A i \in p..r : Nested(a, Reading[i - 1], L, LevelFrom(p)[i])
    BY <1>2, <1>3, <1>5, InPlaceBalanced, ScanNested
  <2>3. \A i \in p..r : Quiet(a, Reading[i - 1], L, words)
    BY <1>2, <1>3, <1>5, ScanQuiet
  <2> QED BY <1>6, <1>7, <2>1, <2>2, <2>3
<1>9. ~s.comment
  BY <1>2, <1>3, <1>8 DEF QuietBase, Quiet, SameEffect
<1>10. /\ s \in States /\ Reads(s, program[r], r, Reading[r]) /\ OneMacro(s)
  <2>1. r \in 1..N /\ r - 1 \in 0..N
    BY <1>1, <1>6
  <2> QED BY <1>7, <2>1 DEF InPlace
<1>11. /\ Height(s) \in Nat /\ MacrosAbove(s, L) \in {0, 1}
       /\ s.stack # <<>> <=> Height(s) > 0
  BY <1>10, StateIs DEF MacrosAbove
<1>12. Height(s) = L + MacrosAbove(s, L)
  BY <1>4, <1>8, <1>11 DEF Nested
<1>13. MacrosAbove(s, L) = 0
  <2> SUFFICES ASSUME MacrosAbove(s, L) = 1 PROVE FALSE
    BY <1>11
  <2>1. Height(s) = L + 1 /\ \E j \in L + 1..Height(s) : s.stack[j].state = "macro"
    BY <1>12 DEF MacrosAbove
  <2>2. s.stack[Height(s)].state = "macro"
    BY <1>4, <2>1
  <2>3. CASE words \subseteq {"else", "elif", "endif"}
    <3>1. InIf(s)
      BY <1>6, <1>9, <1>10, <2>3 DEF Reads, Branched
    <3> QED BY <2>2, <3>1 DEF InIf, Last, Height
  <2>4. CASE words = {"endmacro"}
    <3>1. s.stack[L].state = "macro"
      BY <1>4, <1>8, <2>4 DEF Closes, Nested
    <3>2. L \in 1..Height(s) /\ Height(s) \in 1..Height(s) /\ L # Height(s)
      BY <1>4, <2>1
    <3> QED BY <1>10, <2>2, <3>1, <3>2 DEF OneMacro
  <2> QED BY <2>3, <2>4
<1>14. Height(s) = L /\ \A j \in 1..L - 1 : s.stack[j] = a.stack[j]
  BY <1>4, <1>8, <1>12, <1>13 DEF Nested
<1> QED BY <1>2, <1>3, <1>5, <1>6, <1>7, <1>8, <1>9, <1>14

----------------------------------------------------------------------------
(***************************************************************************)
(* do_if.                                                                  *)
(***************************************************************************)
NextBranch(q) == SkipUntil(q + 1, {"else", "elif", "endif"})

Check(q) == IF Unmatched(q) THEN {"unmatched"} ELSE {}

\* What do_if finds on line q, given what it finds on the lines behind.
IfFrom(q, from) ==
  IF program[q].cond = "none" THEN [next |-> q + 1, raised |-> {"expected"}]
  ELSE IF Holds(program[q]) THEN [next |-> q + 1, raised |-> Check(q)]
  ELSE IF NextBranch(q) <= N /\ program[NextBranch(q)].k = "elif"
  THEN [next |-> from[NextBranch(q)].next, raised |-> Check(q) \cup from[NextBranch(q)].raised]
  ELSE [next |-> After(NextBranch(q)), raised |-> Check(q)]

LEMMA NextBranchIs ==
  ASSUME program \in Seq(Lines), NEW q \in 1..N
  PROVE  /\ NextBranch(q) \in q + 1..N + 1 /\ N \in Nat
         /\ NextBranch(q) <= N => program[NextBranch(q)].k \in {"else", "elif", "endif"}
<1>1. N \in Nat /\ q + 1 \in 1..N + 1
  BY DEF N
<1> QED BY <1>1, SkipIs DEF NextBranch

\* The chain of #elif goes down the program, so do_if has a value everywhere.
LEMMA DoIfIs ==
  ASSUME program \in Seq(Lines)
  PROVE  \A q \in 1..N : DoIf(q) = IfFrom(q, [r \in 1..N |-> DoIf(r)])
<1>1. N \in Nat
  BY DEF N
<1>2. ASSUME NEW q \in 1..N, NEW g, NEW h, \A r \in q + 1..N : g[r] = h[r]
      PROVE  IfFrom(q, g) = IfFrom(q, h)
  <2>1. CASE NextBranch(q) <= N
    <3>1. NextBranch(q) \in q + 1..N
      BY <1>1, <2>1, NextBranchIs
    <3>2. g[NextBranch(q)] = h[NextBranch(q)]
      BY <1>2, <3>1
    <3> QED BY <3>2 DEF IfFrom
  <2>2. CASE ~(NextBranch(q) <= N)
    BY <2>2 DEF IfFrom
  <2> QED BY <2>1, <2>2
<1> DEFINE Solves(g, m) == \A q \in 1..N : q > N - m => g[q] = IfFrom(q, g)
           T == {m \in 0..N : \E g : g = [q \in 1..N |-> g[q]] /\ Solves(g, m)}
<1> HIDE DEF IfFrom
<1>3. 0 \in T
  <2>1. PICK g : g = [q \in 1..N |-> 0]
    OBVIOUS
  <2>2. g = [q \in 1..N |-> g[q]] /\ Solves(g, 0)
    BY <1>1, <2>1
  <2> QED BY <1>1, <2>2
<1>4. ASSUME NEW m \in 0..N - 1, m \in T PROVE m + 1 \in T
  <2>1. PICK g : g = [q \in 1..N |-> g[q]] /\ Solves(g, m)
    BY <1>4
  <2>2. PICK n \in 1..N : n = N - m
    BY <1>1
  <2>3. PICK h : h = [g EXCEPT ![n] = IfFrom(n, g)]
    OBVIOUS
  <2>4. h[n] = IfFrom(n, g) /\ (\A q \in 1..N : q # n => h[q] = g[q]) /\ h = [q \in 1..N |-> h[q]]
    BY <2>1, <2>3
  <2>5. ASSUME NEW q \in 1..N, q >= n PROVE IfFrom(q, h) = IfFrom(q, g)
    <3>1. \A r \in q + 1..N : h[r] = g[r]
      <4> TAKE r \in q + 1..N
      <4>1. r \in 1..N /\ r # n
        BY <1>1, <2>5
      <4> QED BY <2>4, <4>1
    <3> QED BY <1>2, <3>1
  <2>6. Solves(h, m + 1)
    <3>1. ASSUME NEW q \in 1..N, q > N - (m + 1) PROVE h[q] = IfFrom(q, h)
      <4>1. CASE q = n
        BY <2>4, <2>5, <4>1
      <4>2. CASE q # n
        <5>1. q > N - m /\ q >= n
          BY <1>1, <2>2, <3>1, <4>2
        <5>2. g[q] = IfFrom(q, g) /\ h[q] = g[q]
          BY <2>1, <2>4, <4>2, <5>1
        <5> QED BY <2>5, <5>1, <5>2
      <4> QED BY <4>1, <4>2
    <3> QED BY <3>1
  <2>7. m + 1 \in 0..N
    BY <1>1
  <2> QED BY <2>4, <2>6, <2>7
<1>5. 0..N \subseteq T
  <2> HIDE DEF T
  <2> QED BY <1>1, <1>3, <1>4, BoundedInduction
<1>6. PICK g : g = [q \in 1..N |-> g[q]] /\ Solves(g, N)
  <2>1. N \in T
    <3> HIDE DEF T
    <3> QED BY <1>1, <1>5
  <2> QED BY <2>1
<1>7. g = [q \in 1..N |-> IfFrom(q, g)]
  <2>1. \A q \in 1..N : g[q] = IfFrom(q, g)
    BY <1>1, <1>6
  <2> QED BY <1>6, <2>1
<1>8. PICK f : f = CHOOSE from : from = [q \in 1..N |-> IfFrom(q, from)]
  OBVIOUS
<1>9. f = [q \in 1..N |-> IfFrom(q, f)]
  BY <1>7, <1>8
<1>10. \A q : DoIf(q) = f[q]
  BY <1>8 DEF DoIf, IfFrom, NextBranch, Check
<1>11. \A q \in 1..N : DoIf(q) = IfFrom(q, f)
  BY <1>9, <1>10
<1>12. \A q \in 1..N : IfFrom(q, f) = IfFrom(q, [r \in 1..N |-> DoIf(r)])
  <2> TAKE q \in 1..N
  <2>1. PICK h : h = [r \in 1..N |-> DoIf(r)]
    OBVIOUS
  <2>2. \A r \in q + 1..N : f[r] = h[r]
    <3> TAKE r \in q + 1..N
    <3>1. r \in 1..N
      BY <1>1
    <3> QED BY <1>10, <2>1, <3>1
  <2> QED BY <1>2, <2>1, <2>2
<1> QED BY <1>11, <1>12

\* do_if goes on behind its line, and raises errors of these kinds.
LEMMA DoIfTyped ==
  ASSUME program \in Seq(Lines)
  PROVE  \A q \in 1..N : DoIf(q).next \in q + 1..N + 1 /\ DoIf(q).raised \subseteq {"unmatched", "expected"}
<1>1. N \in Nat
  BY DEF N
<1> DEFINE T == {q \in 1..N : DoIf(q).next \in q + 1..N + 1
                              /\ DoIf(q).raised \subseteq {"unmatched", "expected"}}
<1>2. ASSUME NEW q \in 1..N, \A r \in q + 1..N : r \in T PROVE q \in T
  <2>1. NextBranch(q) \in q + 1..N + 1
    BY NextBranchIs
  <2>2. Check(q) \subseteq {"unmatched", "expected"}
    BY DEF Check
  <2>3. PICK g : g = [r \in 1..N |-> DoIf(r)]
    OBVIOUS
  <2>4. DoIf(q) = IfFrom(q, g)
    BY <2>3, DoIfIs
  <2>5. q + 1 \in q + 1..N + 1
    BY <1>1
  <2>6. CASE NextBranch(q) <= N
    <3>1. PICK r \in q + 1..N : r = NextBranch(q)
      BY <1>1, <2>1, <2>6
    <3>2. r \in 1..N
      BY <1>1
    <3>3. g[r].next \in q + 1..N + 1 /\ g[r].raised \subseteq {"unmatched", "expected"}
      <4>1. g[r] = DoIf(r) /\ r \in T
        BY <1>2, <2>3, <3>2
      <4>2. DoIf(r).next \in r + 1..N + 1 /\ DoIf(r).raised \subseteq {"unmatched", "expected"}
        BY <4>1
      <4> QED BY <1>1, <4>1, <4>2
    <3>4. After(r) \in q + 1..N + 1
      BY <1>1, <3>2 DEF After
    <3> QED BY <2>2, <2>4, <2>5, <3>1, <3>3, <3>4 DEF IfFrom
  <2>7. CASE ~(NextBranch(q) <= N)
    <3>1. After(NextBranch(q)) \in q + 1..N + 1
      BY <1>1, <2>1, <2>7 DEF After
    <3> QED BY <2>2, <2>4, <2>5, <2>7, <3>1 DEF IfFrom
  <2> QED BY <2>6, <2>7
<1>3. 1..N \subseteq T
  <2> HIDE DEF T
  <2> QED BY <1>1, <1>2, Descent
<1> QED BY <1>3

----------------------------------------------------------------------------
(***************************************************************************)
(* Assembly goes on where the reading has nothing skipped.                 *)
(***************************************************************************)
\* The line a scan stops on, if it closes what was innermost, leaves the rest.
LEMMA ScanCloses ==
  ASSUME InPlace, NEW p, NEW words, Scans(p, words),
         QuietBase(Reading[p - 1], Height(Reading[p - 1]), words),
         words \subseteq {"else", "elif", "endif"} \/ words = {"endmacro"},
         program[SkipUntil(p, words)].k \in {"endif", "endmacro"}
  PROVE  LET a == Reading[p - 1]
             t == Reading[SkipUntil(p, words)]
         IN /\ SameEffect(a, t) /\ Height(t) = Height(a) - 1
            /\ \A j \in 1..Height(t) : t.stack[j] = a.stack[j]
<1>1. N \in Nat /\ p \in Nat /\ p \in 1..N + 1 /\ p - 1 \in 0..N
  BY DEF Scans, InPlace
<1>2. PICK a \in States : a = Reading[p - 1]
  BY <1>1 DEF InPlace
<1>3. PICK r : r = SkipUntil(p, words)
  OBVIOUS
<1>4. PICK s : s = Reading[r - 1]
  OBVIOUS
<1>5. /\ r \in p..N /\ Height(s) = Height(a) /\ Quiet(a, s, Height(a), words) /\ ~s.comment
      /\ \A j \in 1..Height(a) - 1 : s.stack[j] = a.stack[j]
  BY <1>2, <1>3, <1>4, ScanStops
<1>6. PICK t : t = Reading[r]
  OBVIOUS
<1>7. s \in States /\ Reads(s, program[r], r, t)
  <2>1. r \in 1..N /\ r - 1 \in 0..N
    BY <1>1, <1>5
  <2> QED BY <1>4, <1>6, <2>1 DEF InPlace
<1>8. Left(s, t)
  BY <1>3, <1>5, <1>7 DEF Reads
<1>9. s.stack \in Seq(Marks) /\ Height(s) = Len(s.stack) /\ Height(t) = Len(t.stack)
      /\ Height(s) \in Nat /\ (s.stack # <<>> <=> Height(s) > 0)
  BY <1>7, StateIs DEF Height
<1>10. Height(t) = Height(s) - 1 /\ \A j \in 1..Height(t) : t.stack[j] = s.stack[j]
  <2>1. s.stack # <<>> /\ t.stack = SubSeq(s.stack, 1, Height(s) - 1)
    BY <1>8 DEF Left
  <2> QED BY <1>9, <2>1
<1>11. SameEffect(a, t)
  BY <1>5, <1>8 DEF Quiet, SameEffect, Left
<1> QED BY <1>2, <1>3, <1>5, <1>6, <1>9, <1>10, <1>11

\* Behind an #if or #elif whose branch is looked at: it is innermost, and on
\* if its condition holds.
Decides(q) ==
  LET s == Reading[q]
  IN /\ ~s.comment /\ Height(s) > 0 /\ program[q].cond # "none"
     /\ \A j \in 1..Height(s) - 1 : s.stack[j].state = "on"
     /\ Top(s).state = IF Holds(program[q]) THEN "on" ELSE "off"

Lands(q, n) ==
  LET t == Reading[n - 1]
  IN n \in 1..N + 1 /\ SameEffect(Reading[q], t) /\ Live(t) /\ Height(t) <= Height(Reading[q])

LEMMA DoIfFollows ==
  ASSUME InPlace
  PROVE  \A q \in 1..N : Decides(q) => DoIf(q).raised = {} /\ Lands(q, DoIf(q).next)
<1>1. N \in Nat /\ program \in Seq(Lines)
  BY DEF InPlace
<1> DEFINE T == {q \in 1..N : Decides(q) => DoIf(q).raised = {} /\ Lands(q, DoIf(q).next)}
<1>2. ASSUME NEW q \in 1..N, \A r \in q + 1..N : r \in T PROVE q \in T
  <2> SUFFICES ASSUME Decides(q) PROVE DoIf(q).raised = {} /\ Lands(q, DoIf(q).next)
    OBVIOUS
  <2>1. PICK a \in States : a = Reading[q]
    BY <1>1 DEF InPlace
  <2>2. (q + 1) - 1 = q /\ q + 1 \in 1..N + 1 /\ q \in Nat
    BY <1>1
  <2>3. /\ ~a.comment /\ Height(a) \in Nat /\ Height(a) > 0 /\ program[q].cond # "none"
        /\ \A j \in 1..Height(a) - 1 : a.stack[j].state = "on"
        /\ a.stack[Height(a)].state = IF Holds(program[q]) THEN "on" ELSE "off"
    BY <2>1, StateIs DEF Decides, Top
  <2>4. Check(q) = {}
    <3>1. Scans(q + 1, {"endif"})
      BY <2>1, <2>2, <2>3 DEF Scans, Closes
    <3>2. SkipUntil(q + 1, {"endif"}) \in q + 1..N
      BY <3>1, ScanFinds
    <3> QED BY <1>1, <3>2 DEF Check, Unmatched
  <2>5. PICK g : g = [r \in 1..N |-> DoIf(r)]
    OBVIOUS
  <2>6. DoIf(q) = IfFrom(q, g)
    BY <1>1, <2>5, DoIfIs
  <2>7. CASE Holds(program[q])
    <3>1. DoIf(q) = [next |-> q + 1, raised |-> {}]
      BY <2>3, <2>4, <2>6, <2>7 DEF IfFrom
    <3>2. Live(a)
      <4>1. \A j \in 1..Height(a) : a.stack[j].state = "on"
        BY <2>3, <2>7
      <4> QED BY <4>1, StateIs DEF Live
    <3> QED BY <2>1, <2>2, <2>3, <3>1, <3>2 DEF Lands, SameEffect
  <2>8. CASE ~Holds(program[q])
    <3> DEFINE words == {"else", "elif", "endif"}
    <3>0. PICK p : p = q + 1 /\ a = Reading[p - 1]
      BY <2>1, <2>2
    <3>1. Scans(p, words) /\ QuietBase(a, Height(a), words)
      BY <2>2, <2>3, <2>8, <3>0 DEF Scans, Closes, QuietBase, Branching
    <3>2. PICK r : r = NextBranch(q)
      OBVIOUS
    <3>3. r = SkipUntil(p, words)
      BY <3>0, <3>2 DEF NextBranch
    <3>4. PICK s : s = Reading[r - 1]
      OBVIOUS
    <3>5. PICK t : t = Reading[r]
      OBVIOUS
    <3>6. /\ r \in q + 1..N /\ program[r].k \in words
          /\ Height(s) = Height(a) /\ Quiet(a, s, Height(a), words) /\ ~s.comment
          /\ \A j \in 1..Height(a) - 1 : s.stack[j] = a.stack[j]
      <4> HIDE DEF words
      <4>1. words \subseteq {"else", "elif", "endif"}
        BY DEF words
      <4>2. /\ SkipUntil(p, words) \in p..N /\ program[SkipUntil(p, words)].k \in words
            /\ Height(Reading[SkipUntil(p, words) - 1]) = Height(Reading[p - 1])
            /\ Quiet(Reading[p - 1], Reading[SkipUntil(p, words) - 1], Height(Reading[p - 1]), words)
            /\ ~Reading[SkipUntil(p, words) - 1].comment
            /\ \A j \in 1..Height(Reading[p - 1]) - 1 :
                 Reading[SkipUntil(p, words) - 1].stack[j] = Reading[p - 1].stack[j]
        BY <3>0, <3>1, <4>1, ScanStops
      <4>3. a = Reading[p - 1] /\ s = Reading[SkipUntil(p, words) - 1] /\ r = SkipUntil(p, words) /\ p = q + 1
        BY <3>0, <3>3, <3>4
      <4> QED BY <4>2, <4>3
    <3>7. s \in States /\ t \in States /\ Reads(s, program[r], r, t) /\ r \in 1..N
      <4>1. r \in 1..N /\ r - 1 \in 0..N /\ r \in 0..N
        BY <1>1, <3>6
      <4> QED BY <3>4, <3>5, <4>1 DEF InPlace
    <3>8. /\ s.stack \in Seq(Marks) /\ Height(s) = Len(s.stack) /\ Height(t) = Len(t.stack)
          /\ DOMAIN t.stack = 1..Height(t)
      BY <3>7, StateIs DEF Height
    <3>9. Top(s) = s.stack[Height(a)] /\ Top(s).state = "off"
      BY <2>3, <2>8, <3>6 DEF Top, Quiet
    <3>10. r <= N /\ r + 1 \in 1..N + 1 /\ (r + 1) - 1 = r /\ After(r) = r + 1
      BY <1>1, <3>6 DEF After
    <3>11. CASE program[r].k = "endif"
      <4>1. DoIf(q) = [next |-> r + 1, raised |-> {}]
        BY <2>3, <2>4, <2>6, <2>8, <3>2, <3>10, <3>11 DEF IfFrom
      <4>2. /\ SameEffect(a, t) /\ Height(t) = Height(a) - 1
            /\ \A j \in 1..Height(t) : t.stack[j] = a.stack[j]
        <5> HIDE DEF words
        <5>1. words \subseteq {"else", "elif", "endif"}
          BY DEF words
        <5>2. program[SkipUntil(p, words)].k \in {"endif", "endmacro"}
          BY <3>3, <3>11
        <5>3. QuietBase(Reading[p - 1], Height(Reading[p - 1]), words)
          BY <3>0, <3>1
        <5>4. /\ SameEffect(Reading[p - 1], Reading[SkipUntil(p, words)])
              /\ Height(Reading[SkipUntil(p, words)]) = Height(Reading[p - 1]) - 1
              /\ \A j \in 1..Height(Reading[SkipUntil(p, words)]) :
                   Reading[SkipUntil(p, words)].stack[j] = Reading[p - 1].stack[j]
          BY <3>1, <5>1, <5>2, <5>3, ScanCloses
        <5> QED BY <3>0, <3>3, <3>5, <5>4
      <4>3. Live(t)
        BY <2>3, <3>8, <4>2 DEF Live
      <4> QED BY <2>1, <2>3, <3>5, <3>10, <4>1, <4>2, <4>3 DEF Lands
    <3>12. CASE program[r].k \in {"else", "elif"}
      <4>1. PICK m \in Marks :
              /\ SameEffect(s, t) /\ program[r].cond # "none"
              /\ t.stack = [s.stack EXCEPT ![Height(s)] = m]
              /\ m.state = IF program[r].k = "else" \/ program[r].cond = "true" THEN "on" ELSE "off"
        BY <3>6, <3>7, <3>9, <3>12 DEF Reads, Branched
      <4>2. /\ Height(t) = Height(a) /\ t.stack[Height(a)] = m
            /\ \A j \in 1..Height(a) - 1 : t.stack[j].state = "on"
        BY <2>3, <3>6, <3>8, <4>1
      <4>3. SameEffect(a, t) /\ ~t.comment
        BY <2>3, <3>6, <4>1 DEF Quiet, SameEffect
      <4>4. CASE program[r].k = "else"
        <5>1. DoIf(q) = [next |-> r + 1, raised |-> {}]
          BY <2>3, <2>4, <2>6, <2>8, <3>2, <3>10, <4>4 DEF IfFrom
        <5>2. Live(t)
          <6>1. \A j \in 1..Height(t) : t.stack[j].state = "on"
            BY <2>3, <4>1, <4>2, <4>4
          <6> QED BY <3>8, <6>1 DEF Live
        <5> QED BY <2>1, <2>3, <3>5, <3>10, <4>2, <4>3, <5>1, <5>2 DEF Lands
      <4>5. CASE program[r].k = "elif"
        <5>1. g[r] = DoIf(r)
          BY <2>5, <3>7
        <5>2. DoIf(q) = [next |-> DoIf(r).next, raised |-> DoIf(r).raised]
          BY <2>3, <2>4, <2>6, <2>8, <3>2, <3>10, <4>5, <5>1 DEF IfFrom
        <5>3. Holds(program[r]) = (program[r].cond = "true")
          BY <4>5 DEF Holds
        <5>4. Decides(r)
          BY <2>3, <3>5, <4>1, <4>2, <4>3, <4>5, <5>3 DEF Decides, Top
        <5>5. DoIf(r).raised = {} /\ Lands(r, DoIf(r).next)
          <6>1. r \in T
            BY <1>2, <3>6
          <6> QED BY <5>4, <6>1
        <5> QED BY <2>1, <3>5, <4>2, <4>3, <5>2, <5>5 DEF Lands, SameEffect
      <4> QED BY <3>12, <4>4, <4>5
    <3> QED BY <3>6, <3>11, <3>12
  <2> QED BY <2>7, <2>8
<1>3. 1..N \subseteq T
  <2> HIDE DEF T
  <2> QED BY <1>1, <1>2, Descent
<1> QED BY <1>3

----------------------------------------------------------------------------
(***************************************************************************)
(* The invariant: in a well-formed program, assembly is always at a line   *)
(* the reading skips nothing of, with the same effects so far.             *)
(***************************************************************************)
Agrees(s, level, def, run, errs) ==
  Live(s) /\ ~s.comment /\ run = s.ran /\ def = s.defined /\ errs = {} /\ level >= Height(s)

Aligned == WellFormed => Agrees(Reading[pos - 1], nIfLevel, defined, ran, errors)

LevelBounded == nIfLevel <= pos - 1

IInv == TypeOK /\ LevelBounded /\ Aligned

\* Each #if, #ifdef or #ifndef that assembly meets sends it to where the
\* reading has its own entry on, or gone.
LEMMA IfAligned ==
  ASSUME InPlace, NEW q \in 1..N, OpensIf(program[q]), Live(Reading[q - 1]), ~Reading[q - 1].comment,
         defined = Reading[q - 1].defined
  PROVE  /\ program[q].cond # "none" /\ DoIf(q).raised = {} /\ DoIf(q).next \in 1..N + 1
         /\ SameEffect(Reading[q - 1], Reading[DoIf(q).next - 1]) /\ Live(Reading[DoIf(q).next - 1])
         /\ Height(Reading[DoIf(q).next - 1]) <= Height(Reading[q - 1]) + 1
<1>1. N \in Nat /\ q - 1 \in 0..N /\ q \in 0..N
  BY DEF InPlace
<1>2. PICK s \in States : s = Reading[q - 1]
  BY <1>1 DEF InPlace
<1>3. PICK t \in States : t = Reading[q]
  BY <1>1 DEF InPlace
<1>4. Reads(s, program[q], q, t)
  BY <1>2, <1>3 DEF InPlace
<1>5. PICK m \in Marks :
        /\ t.stack = Append(s.stack, m) /\ SameEffect(s, t) /\ program[q].cond # "none"
        /\ m.state = IF ~Live(s) THEN "skip" ELSE IF Taken(s, program[q]) THEN "on" ELSE "off"
  BY <1>2, <1>4 DEF Reads, Entered
<1>6. /\ s.stack \in Seq(Marks) /\ Height(s) = Len(s.stack) /\ Height(t) = Len(t.stack)
      /\ Height(s) \in Nat /\ DOMAIN s.stack = 1..Height(s)
  BY StateIs DEF Height
<1>7. /\ Height(t) = Height(s) + 1 /\ t.stack[Height(t)] = m
      /\ \A j \in 1..Height(t) - 1 : t.stack[j].state = "on"
  <2>1. /\ Height(t) = Height(s) + 1 /\ t.stack[Height(s) + 1] = m
        /\ \A j \in 1..Height(s) : t.stack[j] = s.stack[j]
    BY <1>5, <1>6
  <2>2. \A j \in 1..Height(s) : s.stack[j].state = "on"
    BY <1>2, <1>6 DEF Live
  <2> QED BY <1>6, <2>1, <2>2
<1>8. Taken(s, program[q]) <=> Holds(program[q])
  BY <1>2 DEF Taken, Holds, OpensIf
<1>9. Decides(q)
  <2>1. m.state = IF Holds(program[q]) THEN "on" ELSE "off"
    BY <1>2, <1>5, <1>8
  <2> QED BY <1>2, <1>3, <1>5, <1>6, <1>7, <2>1 DEF Decides, Top, SameEffect
<1>10. DoIf(q).raised = {} /\ Lands(q, DoIf(q).next)
  BY <1>9, DoIfFollows
<1> QED BY <1>2, <1>3, <1>5, <1>6, <1>7, <1>10 DEF Lands, SameEffect

\* An #else, #elif or #macro that assembly meets sends it behind the line that
\* closes what was open.
LEMMA SkipAligned ==
  ASSUME InPlace, NEW q \in 1..N, Live(Reading[q - 1]), ~Reading[q - 1].comment, NEW words,
         \/ program[q].k = "else" /\ words = {"else", "elif", "endif"}
         \/ program[q].k = "elif" /\ words = {"endif"}
         \/ program[q].k = "macro" /\ words = {"endmacro"}
  PROVE  /\ SkipUntil(q + 1, words) \in q + 1..N
         /\ SameEffect(Reading[q - 1], Reading[SkipUntil(q + 1, words)])
         /\ Live(Reading[SkipUntil(q + 1, words)])
         /\ Height(Reading[SkipUntil(q + 1, words)]) <= Height(Reading[q - 1])
         /\ program[q].k # "macro" => Height(Reading[q - 1]) > 0
<1>1. N \in Nat /\ q - 1 \in 0..N /\ q \in 0..N
  BY DEF InPlace
<1>2. PICK s \in States : s = Reading[q - 1]
  BY <1>1 DEF InPlace
<1>3. PICK p, a : p = q + 1 /\ a = Reading[p - 1] /\ a = Reading[q]
  BY <1>1
<1>4. a \in States /\ Reads(s, program[q], q, a)
  BY <1>1, <1>2, <1>3 DEF InPlace
<1>5. /\ s.stack \in Seq(Marks) /\ Height(s) = Len(s.stack) /\ Height(a) = Len(a.stack)
      /\ Height(s) \in Nat /\ DOMAIN s.stack = 1..Height(s)
      /\ (s.stack # <<>> <=> Height(s) > 0)
  BY StateIs DEF Height
<1>6. \A j \in 1..Height(s) : s.stack[j].state = "on"
  BY <1>2, <1>5 DEF Live
<1>7. /\ SameEffect(s, a) /\ Height(a) > 0 /\ Height(a) - 1 <= Height(s)
      /\ program[q].k # "macro" => Height(s) > 0
      /\ \A j \in 1..Height(a) - 1 : a.stack[j].state = "on"
      /\ a.stack[Height(a)].state = IF program[q].k = "macro" THEN "macro" ELSE "done"
      /\ program[q].k = "else" => a.stack[Height(a)].elsed
  <2>1. CASE program[q].k = "macro"
    <3>1. PICK m \in Marks : a.stack = Append(s.stack, m) /\ m.state = "macro" /\ SameEffect(s, a)
      BY <1>2, <1>4, <2>1 DEF Reads, MacroEntered
    <3>2. Height(a) = Height(s) + 1 /\ a.stack[Height(s) + 1] = m
          /\ \A j \in 1..Height(s) : a.stack[j] = s.stack[j]
      BY <1>5, <3>1
    <3> QED BY <1>5, <1>6, <2>1, <3>1, <3>2
  <2>2. CASE program[q].k \in {"else", "elif"}
    <3>1. PICK m \in Marks :
            /\ SameEffect(s, a) /\ InIf(s) /\ a.stack = [s.stack EXCEPT ![Height(s)] = m]
            /\ m.elsed = (program[q].k = "else") /\ (Top(s).state \in {"on", "done"} => m.state = "done")
      BY <1>2, <1>4, <2>2 DEF Reads, Branched
    <3>2. Height(s) > 0 /\ Top(s).state = "on"
      BY <1>5, <1>6, <3>1 DEF InIf, Top
    <3>3. /\ Height(a) = Height(s) /\ a.stack[Height(s)] = m
          /\ \A j \in 1..Height(s) - 1 : a.stack[j] = s.stack[j]
      BY <1>5, <3>1, <3>2
    <3>4. m.state = "done" /\ (program[q].k = "else" => m.elsed) /\ program[q].k # "macro"
      BY <2>2, <3>1, <3>2
    <3>5. \A j \in 1..Height(s) - 1 : a.stack[j].state = "on"
      BY <1>5, <1>6, <3>3
    <3> QED BY <1>5, <3>1, <3>2, <3>3, <3>4, <3>5
  <2> QED BY <2>1, <2>2
<1>8. Height(a) \in Nat /\ ~a.comment
  BY <1>2, <1>4, <1>7, StateIs DEF SameEffect
<1>9. Scans(p, words) /\ QuietBase(a, Height(a), words)
  BY <1>1, <1>3, <1>7, <1>8 DEF Scans, Closes, QuietBase
<1>10. words \subseteq {"else", "elif", "endif"} \/ words = {"endmacro"}
  OBVIOUS
<1>11. PICK r : r = SkipUntil(p, words)
  OBVIOUS
<1>12. PICK u : u = Reading[r - 1]
  OBVIOUS
<1>13. /\ r \in p..N /\ program[r].k \in words
       /\ Height(u) = Height(a) /\ Quiet(a, u, Height(a), words) /\ ~u.comment
  BY <1>3, <1>9, <1>10, <1>11, <1>12, ScanStops
<1>14. program[r].k \in {"endif", "endmacro"}
  <2>1. CASE program[q].k = "else"
    <3>1. Branching \subseteq words /\ u.stack[Height(u)].elsed
      BY <1>7, <1>13, <2>1 DEF Branching, Quiet
    <3>2. Reads(u, program[r], r, Reading[r])
      <4>1. r \in 1..N
        BY <1>1, <1>3, <1>13
      <4> QED BY <1>12, <4>1 DEF InPlace
    <3>3. program[r].k \notin {"else", "elif"}
      BY <1>13, <3>1, <3>2 DEF Reads, Branched, Top
    <3> QED BY <1>13, <2>1, <3>3
  <2> QED BY <1>13, <2>1
<1>15. PICK t : t = Reading[r]
  OBVIOUS
<1>16. /\ SameEffect(a, t) /\ Height(t) = Height(a) - 1
       /\ \A j \in 1..Height(t) : t.stack[j] = a.stack[j]
  <2>1. program[SkipUntil(p, words)].k \in {"endif", "endmacro"}
    BY <1>11, <1>14
  <2>2. QuietBase(Reading[p - 1], Height(Reading[p - 1]), words)
    BY <1>3, <1>9
  <2>3. /\ SameEffect(Reading[p - 1], Reading[SkipUntil(p, words)])
        /\ Height(Reading[SkipUntil(p, words)]) = Height(Reading[p - 1]) - 1
        /\ \A j \in 1..Height(Reading[SkipUntil(p, words)]) :
             Reading[SkipUntil(p, words)].stack[j] = Reading[p - 1].stack[j]
    BY <1>9, <1>10, <2>1, <2>2, ScanCloses
  <2> QED BY <1>3, <1>11, <1>15, <2>3
<1>17. t \in States
  <2>1. r \in 0..N
    BY <1>1, <1>3, <1>13
  <2> QED BY <1>15, <2>1 DEF InPlace
<1>18. Live(t)
  BY <1>7, <1>16, <1>17, StateIs DEF Live
<1>19. SameEffect(s, t) /\ Height(t) <= Height(s)
  BY <1>5, <1>7, <1>8, <1>16 DEF SameEffect
<1> QED BY <1>2, <1>3, <1>7, <1>11, <1>13, <1>15, <1>18, <1>19

\* A #comment that assembly meets sends it behind the #endcomment.
LEMMA CommentAligned ==
  ASSUME InPlace, NEW q \in 1..N, ~Reading[q - 1].comment, program[q].k = "comment"
  PROVE  /\ SkipUntil(q + 1, {"endcomment"}) \in q + 1..N
         /\ Live(Reading[q - 1])
         /\ Reading[SkipUntil(q + 1, {"endcomment"})].stack = Reading[q - 1].stack
         /\ SameEffect(Reading[q - 1], Reading[SkipUntil(q + 1, {"endcomment"})])
<1>1. N \in Nat /\ q - 1 \in 0..N /\ q \in 0..N /\ q + 1 \in 1..N + 1 /\ program \in Seq(Lines)
  BY DEF InPlace
<1>2. PICK s \in States : s = Reading[q - 1]
  BY <1>1 DEF InPlace
<1>3. PICK p : p = q + 1
  OBVIOUS
<1>4. PICK r : r = SkipUntil(p, {"endcomment"})
  OBVIOUS
<1>5. /\ p \in Nat /\ p \in 1..N + 1 /\ r \in p..N + 1 /\ r - p \in Nat
      /\ r <= N => program[r].k = "endcomment"
      /\ \A i \in p..N : i < r => ~(LevelFrom(p)[i] = 0 /\ program[i].k = "endcomment")
  <2>1. /\ p \in Nat /\ p \in 1..N + 1 /\ r \in p..N + 1
        /\ r <= N => program[r].k \in {"endcomment"}
        /\ \A i \in p..N : i < r => ~(LevelFrom(p)[i] = 0 /\ program[i].k \in {"endcomment"})
    BY <1>1, <1>3, <1>4, SkipIs
  <2> QED BY <1>1, <2>1
<1>6. /\ LevelFrom(p)[p] = 0
      /\ \A i \in p..N : LevelFrom(p)[i + 1] = LevelAfter(LevelFrom(p)[i], program[i])
  BY <1>1, <1>5, LevelIs
<1> DEFINE Inside(t) == t.comment /\ t.stack = s.stack /\ t.defined = s.defined /\ t.ran = s.ran
           Good(i) == Inside(Reading[i - 1]) /\ LevelFrom(p)[i] = 0
           T == {j \in 0..r - p : Good(p + j)}
<1>7. Live(s) /\ Inside(Reading[q])
  BY <1>2 DEF InPlace, Reads
<1>8. ASSUME NEW i \in 1..N, Inside(Reading[i - 1])
      PROVE  CommentRead(Reading[i - 1], program[i], Reading[i])
  BY <1>8 DEF InPlace, Reads
<1>9. 0 \in T
  <2>1. p + 0 = p /\ p - 1 = q
    BY <1>1, <1>3
  <2> QED BY <1>5, <1>6, <1>7, <2>1
<1>10. ASSUME NEW j \in 0..(r - p) - 1, j \in T PROVE j + 1 \in T
  <2>1. PICK i : i = p + j
    OBVIOUS
  <2>2. i \in p..N /\ i \in 1..N /\ i < r /\ p + (j + 1) = i + 1 /\ (i + 1) - 1 = i /\ j + 1 \in 0..r - p
    <3>1. N \in Nat /\ p \in Nat \ {0} /\ r \in p..N + 1
      BY <1>1, <1>5
    <3> HIDE DEF T, Good
    <3> QED BY <2>1, <3>1
  <2>3. Good(i)
    BY <1>10, <2>1
  <2>4. CommentRead(Reading[i - 1], program[i], Reading[i])
    BY <1>8, <2>2, <2>3
  <2>5. program[i].k # "endcomment"
    BY <1>5, <2>2, <2>3
  <2>6. LevelFrom(p)[i + 1] = 0
    BY <1>6, <2>2, <2>3, <2>4 DEF LevelAfter, CommentRead
  <2> QED BY <2>2, <2>3, <2>4, <2>5, <2>6 DEF CommentRead
<1>11. 0..r - p \subseteq T
  <2> HIDE DEF T
  <2> QED BY <1>5, <1>9, <1>10, BoundedInduction
<1>12. Inside(Reading[r - 1])
  <2>1. r - p \in T
    <3>1. r - p \in 0..r - p
      BY <1>5
    <3> HIDE DEF T
    <3> QED BY <1>11, <3>1
  <2>2. p + (r - p) = r
    BY <1>5
  <2> QED BY <2>1, <2>2
<1>13. r # N + 1
  <2> SUFFICES ASSUME r = N + 1 PROVE FALSE
    OBVIOUS
  <2>1. r - 1 = N
    BY <1>1
  <2> QED BY <1>12, <2>1 DEF InPlace
<1>14. r \in p..N /\ r \in 1..N
  BY <1>1, <1>5, <1>13
<1>15. CommentRead(Reading[r - 1], program[r], Reading[r])
  BY <1>8, <1>12, <1>14
<1>16. /\ Reading[r].stack = s.stack /\ Reading[r].defined = s.defined /\ Reading[r].ran = s.ran
       /\ Reading[r].comment = (program[r].k # "endcomment")
  BY <1>12, <1>15 DEF CommentRead
<1>17. program[r].k = "endcomment"
  BY <1>1, <1>5, <1>14
<1>18. SameEffect(s, Reading[r])
  <2>1. s.comment = FALSE /\ Reading[r].comment = FALSE
    BY <1>2, <1>16, <1>17, StateIs
  <2> QED BY <1>16, <2>1 DEF SameEffect
<1> QED BY <1>2, <1>3, <1>4, <1>7, <1>14, <1>16, <1>18

----------------------------------------------------------------------------
(***************************************************************************)
(* The invariant holds.                                                    *)
(***************************************************************************)
LEMMA Facts ==
  ASSUME TypeOK
  PROVE  /\ program \in Seq(Lines) /\ N \in Nat /\ pos \in 1..N + 1 /\ nIfLevel \in 0..N
         /\ pos <= N => program[pos] \in Lines /\ program[pos].k \in Kinds /\ pos + 1 \in 1..N + 1
<1>1. program \in Seq(Lines)
  BY ConditionalsAssumption DEF TypeOK
<1>2. N \in Nat /\ \A i \in 1..N : program[i] \in Lines /\ program[i].k \in Kinds
  <2>1. N \in Nat /\ \A i \in 1..N : program[i] \in Lines
    BY <1>1 DEF N
  <2> QED BY <2>1 DEF Lines
<1> QED BY <1>1, <1>2 DEF TypeOK

LEMMA Started == Init => IInv
<1> SUFFICES ASSUME Init PROVE IInv
  OBVIOUS
<1>1. program \in Seq(Lines)
  BY ConditionalsAssumption DEF Init
<1>2. N \in Nat
  BY <1>1 DEF N
<1>3. TypeOK /\ LevelBounded
  <2>1. 1 \in 1..N + 1 /\ 0 \in 0..N /\ 0 <= 1 - 1
    BY <1>2
  <2>2. pos = 1 /\ nIfLevel = 0 /\ defined = FALSE /\ ran = {} /\ errors = {} /\ program \in Programs
    BY DEF Init
  <2> QED BY <2>1, <2>2 DEF TypeOK, LevelBounded
<1>4. Reading[pos - 1] = Unread
  <2>1. pos - 1 = 0
    BY DEF Init
  <2> QED BY <1>1, <2>1, ReadingIs
<1>5. Aligned
  <2>1. Live(Unread) /\ Height(Unread) = 0
    BY DEF Unread, Live, Height
  <2>2. ~Unread.comment /\ Unread.ran = {} /\ Unread.defined = FALSE
    BY DEF Unread
  <2>3. nIfLevel >= 0 /\ ran = {} /\ defined = FALSE /\ errors = {}
    BY DEF Init
  <2> QED BY <1>4, <2>1, <2>2, <2>3 DEF Aligned, Agrees
<1> QED BY <1>3, <1>5 DEF IInv

\* The line to go on from lies ahead, and the level grows by at most one.
LEMMA TypeKept == IInv /\ [Next]_vars => (TypeOK /\ LevelBounded)'
<1> SUFFICES ASSUME IInv, [Next]_vars PROVE (TypeOK /\ LevelBounded)'
  OBVIOUS
<1>1. /\ program \in Seq(Lines) /\ N \in Nat /\ pos \in 1..N + 1 /\ nIfLevel \in 0..N
      /\ nIfLevel <= pos - 1
      /\ defined \in BOOLEAN /\ ran \subseteq 1..N
      /\ errors \subseteq {"unmatched", "expected", "elif", "stray"} /\ program \in Programs
  BY Facts DEF IInv, TypeOK, LevelBounded
<1>2. ASSUME program' = program, pos' \in pos + 1..N + 1, nIfLevel' \in 0..nIfLevel + 1,
             defined' \in BOOLEAN, ran' \subseteq ran \cup {pos}, pos <= N,
             errors' \subseteq errors \cup {"unmatched", "expected", "elif", "stray"}
      PROVE  (TypeOK /\ LevelBounded)'
  <2>1. N' = N
    BY <1>2 DEF N
  <2>2. pos' \in 1..N + 1 /\ nIfLevel' \in 0..N /\ nIfLevel' <= pos' - 1
    <3>1. PICK n, k : n = pos' /\ k = nIfLevel'
      OBVIOUS
    <3>2. n \in pos + 1..N + 1 /\ k \in 0..nIfLevel + 1
      BY <1>2, <3>1
    <3>3. n \in 1..N + 1 /\ k \in 0..N /\ k <= n - 1
      BY <1>1, <3>2
    <3> QED BY <3>1, <3>3
  <2>3. ran' \subseteq 1..N
    BY <1>1, <1>2
  <2> QED BY <1>1, <1>2, <2>1, <2>2, <2>3 DEF TypeOK, LevelBounded
<1>3. ASSUME pos <= N, NEW words
      PROVE  SkipUntil(pos + 1, words) \in pos + 1..N + 1 /\ After(SkipUntil(pos + 1, words)) \in pos + 1..N + 1
  <2>1. pos + 1 \in 1..N + 1
    BY <1>1, <1>3
  <2>2. PICK r : r = SkipUntil(pos + 1, words)
    OBVIOUS
  <2>3. r \in pos + 1..N + 1
    BY <1>1, <2>1, <2>2, SkipIs
  <2>4. After(r) \in pos + 1..N + 1
    BY <1>1, <1>3, <2>3 DEF After
  <2> QED BY <2>2, <2>3, <2>4
<1>4. pos <= N => DoIf(pos).next \in pos + 1..N + 1 /\ DoIf(pos).raised \subseteq {"unmatched", "expected"}
  BY <1>1, DoIfTyped
<1>5. pos <= N => pos + 1 \in pos + 1..N + 1 /\ nIfLevel \in 0..nIfLevel + 1 /\ nIfLevel + 1 \in 0..nIfLevel + 1
  BY <1>1
<1>6. CASE If
  BY <1>1, <1>2, <1>4, <1>5, <1>6 DEF If, At
<1>7. CASE Ifdef
  BY <1>1, <1>2, <1>4, <1>5, <1>7 DEF Ifdef, At
<1>8. CASE Elif
  BY <1>1, <1>2, <1>3, <1>5, <1>8 DEF Elif, At
<1>9. CASE Else
  BY <1>1, <1>2, <1>3, <1>5, <1>9 DEF Else, At
<1>10. CASE Endif
  <2>1. nIfLevel > 0 => nIfLevel - 1 \in 0..nIfLevel + 1
    BY <1>1
  <2> QED BY <1>1, <1>2, <1>5, <1>10, <2>1 DEF Endif, At
<1>11. CASE Comment
  BY <1>1, <1>2, <1>3, <1>5, <1>11 DEF Comment, At
<1>12. CASE Macro
  BY <1>1, <1>2, <1>3, <1>5, <1>12 DEF Macro, At
<1>13. CASE Define
  BY <1>1, <1>2, <1>5, <1>13 DEF Define, At
<1>14. CASE Text
  BY <1>1, <1>2, <1>5, <1>14 DEF Text, At
<1>15. CASE UNCHANGED vars
  BY <1>15 DEF IInv, TypeOK, LevelBounded, vars, N
<1> QED BY <1>6, <1>7, <1>8, <1>9, <1>10, <1>11, <1>12, <1>13, <1>14, <1>15 DEF Next, Finished

LEMMA AlignedKept == IInv /\ [Next]_vars => Aligned'
<1> SUFFICES ASSUME IInv, [Next]_vars PROVE Aligned'
  OBVIOUS
<1>1. /\ program \in Seq(Lines) /\ N \in Nat /\ pos \in 1..N + 1 /\ nIfLevel \in 0..N
      /\ pos <= N => program[pos] \in Lines /\ program[pos].k \in Kinds /\ pos + 1 \in 1..N + 1
  BY Facts DEF IInv
<1>2. program' = program
  BY DEF Next, If, Ifdef, Elif, Else, Endif, Comment, Macro, Define, Text, Finished, At, vars
<1>3. Reading' = Reading /\ WellFormed' = WellFormed
  BY <1>2 DEF Reading, WellFormed, N
<1> SUFFICES ASSUME WellFormed PROVE Agrees(Reading[pos' - 1], nIfLevel', defined', ran', errors')
  <2>1. Aligned' = (WellFormed' => Agrees(Reading'[pos' - 1], nIfLevel', defined', ran', errors'))
    BY DEF Aligned, Agrees, Live, Height
  <2> QED BY <1>3, <2>1
<1>4. InPlace
  BY <1>1, WellFormedInPlace
<1>5. PICK s : s = Reading[pos - 1]
  OBVIOUS
<1>6. /\ Live(s) /\ ~s.comment /\ ran = s.ran /\ defined = s.defined /\ errors = {}
      /\ nIfLevel >= Height(s)
  BY <1>5 DEF IInv, Aligned, Agrees
<1>7. s \in States /\ Height(s) \in Nat
  <2>1. pos - 1 \in 0..N
    BY <1>1
  <2>2. s \in States
    BY <1>4, <1>5, <2>1 DEF InPlace
  <2> QED BY <2>2, StateIs
<1>8. CASE UNCHANGED vars
  BY <1>5, <1>6, <1>8 DEF vars, Agrees
<1>9. ASSUME Next, pos <= N
      PROVE  Agrees(Reading[pos' - 1], nIfLevel', defined', ran', errors')
  <2>1. pos \in 1..N /\ (pos + 1) - 1 = pos /\ pos \in 0..N
    BY <1>1, <1>9
  <2>2. PICK a \in States : a = Reading[pos]
    BY <1>4, <2>1 DEF InPlace
  <2>3. Reads(s, program[pos], pos, a)
    BY <1>4, <1>5, <2>1, <2>2 DEF InPlace
  <2>4. ASSUME OpensIf(program[pos]), pos' = DoIf(pos).next, errors' = errors \cup DoIf(pos).raised,
               nIfLevel' = nIfLevel + 1, defined' = defined, ran' = ran
        PROVE  Agrees(Reading[pos' - 1], nIfLevel', defined', ran', errors')
    <3>1. PICK t : t = Reading[DoIf(pos).next - 1]
      OBVIOUS
    <3>2. /\ DoIf(pos).raised = {} /\ SameEffect(s, t) /\ Live(t) /\ Height(t) <= Height(s) + 1
          /\ DoIf(pos).next \in 1..N + 1
      BY <1>4, <1>5, <1>6, <2>1, <2>4, <3>1, IfAligned
    <3>3. t \in States
      <4>1. DoIf(pos).next - 1 \in 0..N
        BY <1>1, <3>2
      <4> QED BY <1>4, <3>1, <4>1 DEF InPlace
    <3>4. Height(t) \in Nat /\ nIfLevel + 1 >= Height(t)
      BY <1>1, <1>6, <1>7, <3>2, <3>3, StateIs
    <3> QED BY <1>6, <2>4, <3>1, <3>2, <3>4 DEF Agrees, SameEffect
  <2>5. ASSUME NEW words,
               \/ program[pos].k = "else" /\ words = {"else", "elif", "endif"}
               \/ program[pos].k = "elif" /\ words = {"endif"}
               \/ program[pos].k = "macro" /\ words = {"endmacro"}
        PROVE  /\ SkipUntil(pos + 1, words) <= N
               /\ program[pos].k # "macro" => nIfLevel # 0
               /\ Agrees(Reading[After(SkipUntil(pos + 1, words)) - 1], nIfLevel, defined, ran, errors)
    <3>1. PICK r : r = SkipUntil(pos + 1, words)
      OBVIOUS
    <3>2. PICK t : t = Reading[r]
      OBVIOUS
    <3>3. /\ r \in pos + 1..N /\ SameEffect(s, t) /\ Live(t) /\ Height(t) <= Height(s)
          /\ program[pos].k # "macro" => Height(s) > 0
      BY <1>4, <1>5, <1>6, <2>1, <2>5, <3>1, <3>2, SkipAligned
    <3>4. After(r) = r + 1 /\ (r + 1) - 1 = r /\ r \in 0..N
      BY <1>1, <3>3 DEF After
    <3>5. Height(t) \in Nat
      <4>1. t \in States
        BY <1>4, <3>2, <3>4 DEF InPlace
      <4> QED BY <4>1, StateIs
    <3>6. nIfLevel >= Height(t) /\ (program[pos].k # "macro" => nIfLevel # 0)
      BY <1>1, <1>6, <1>7, <3>3, <3>5
    <3>7. Agrees(t, nIfLevel, defined, ran, errors)
      BY <1>6, <3>3, <3>6 DEF Agrees, SameEffect
    <3> QED BY <1>1, <3>1, <3>2, <3>3, <3>4, <3>6, <3>7
  <2>6. CASE If
    BY <2>4, <2>6 DEF If, At, OpensIf
  <2>7. CASE Ifdef
    <3>1. OpensIf(program[pos])
      BY <2>7 DEF Ifdef, At, OpensIf
    <3>2. program[pos].cond # "none"
      BY <1>4, <1>5, <1>6, <2>1, <3>1, IfAligned
    <3> QED BY <2>4, <2>7, <3>1, <3>2 DEF Ifdef
  <2>8. CASE Elif
    <3>1. program[pos].k = "elif"
      BY <2>8 DEF Elif, At
    <3>2. nIfLevel # 0 /\ Agrees(Reading[After(SkipUntil(pos + 1, {"endif"})) - 1], nIfLevel, defined, ran, errors)
      BY <2>5, <3>1
    <3>3. errors' = errors /\ nIfLevel' = nIfLevel /\ defined' = defined /\ ran' = ran
          /\ pos' = After(SkipUntil(pos + 1, {"endif"}))
      BY <2>8, <3>2 DEF Elif
    <3> QED BY <3>2, <3>3
  <2>9. CASE Else
    <3>1. program[pos].k = "else"
      BY <2>9 DEF Else, At
    <3> DEFINE words == {"else", "elif", "endif"}
    <3>2. nIfLevel # 0 /\ Agrees(Reading[After(SkipUntil(pos + 1, words)) - 1], nIfLevel, defined, ran, errors)
      BY <2>5, <3>1
    <3>3. errors' = errors /\ nIfLevel' = nIfLevel /\ defined' = defined /\ ran' = ran
          /\ pos' = After(SkipUntil(pos + 1, words))
      BY <2>9, <3>2 DEF Else
    <3> QED BY <3>2, <3>3
  <2>10. CASE Macro
    <3>1. program[pos].k = "macro"
      BY <2>10 DEF Macro, At
    <3>2. /\ SkipUntil(pos + 1, {"endmacro"}) <= N
          /\ Agrees(Reading[After(SkipUntil(pos + 1, {"endmacro"})) - 1], nIfLevel, defined, ran, errors)
      BY <2>5, <3>1
    <3>3. ~(SkipUntil(pos + 1, {"endmacro"}) > N)
      <4>1. SkipUntil(pos + 1, {"endmacro"}) \in 1..N + 1
        <5>1. SkipUntil(pos + 1, {"endmacro"}) \in pos + 1..N + 1
          BY <1>1, <1>9, SkipIs
        <5> QED BY <1>1, <5>1
      <4> QED BY <1>1, <3>2, <4>1
    <3>4. errors' = errors /\ nIfLevel' = nIfLevel /\ defined' = defined /\ ran' = ran
          /\ pos' = After(SkipUntil(pos + 1, {"endmacro"}))
      BY <2>10, <3>3 DEF Macro
    <3> QED BY <3>2, <3>4
  <2>11. CASE Endif
    <3>1. Left(s, a) /\ s.stack # <<>>
      BY <1>6, <2>3, <2>11 DEF Endif, At, Reads, Left
    <3>2. /\ s.stack \in Seq(Marks) /\ Height(s) = Len(s.stack) /\ Height(s) > 0
          /\ DOMAIN s.stack = 1..Height(s) /\ DOMAIN a.stack = 1..Height(a)
          /\ Height(a) = Len(a.stack) /\ a.stack = SubSeq(s.stack, 1, Height(s) - 1)
      BY <1>7, <3>1, StateIs DEF Height, Left
    <3>3. Height(a) = Height(s) - 1 /\ \A j \in 1..Height(a) : a.stack[j] = s.stack[j]
      BY <1>7, <3>2
    <3>4. Live(a)
      BY <1>6, <1>7, <3>2, <3>3 DEF Live
    <3>5. nIfLevel > 0 /\ nIfLevel - 1 >= Height(a)
      BY <1>1, <1>6, <1>7, <3>2, <3>3
    <3>6. Agrees(a, nIfLevel - 1, defined, ran, errors)
      BY <1>6, <3>1, <3>4, <3>5 DEF Agrees, Left, SameEffect
    <3> QED BY <2>1, <2>2, <2>11, <3>5, <3>6 DEF Endif
  <2>12. CASE Comment
    <3>1. PICK r : r = SkipUntil(pos + 1, {"endcomment"})
      OBVIOUS
    <3>2. r \in pos + 1..N /\ Reading[r].stack = s.stack /\ SameEffect(s, Reading[r])
      <4>1. program[pos].k = "comment"
        BY <2>12 DEF Comment, At
      <4> QED BY <1>4, <1>5, <1>6, <2>1, <3>1, <4>1, CommentAligned
    <3>3. After(r) = r + 1 /\ (r + 1) - 1 = r
      BY <1>1, <3>2 DEF After
    <3>4. Agrees(Reading[r], nIfLevel, defined, ran, errors)
      BY <1>6, <3>2 DEF Agrees, SameEffect, Live, Height
    <3> QED BY <2>12, <3>1, <3>3, <3>4 DEF Comment
  <2>13. CASE Define
    <3>1. program[pos].k \in {"define", "undef"} /\ defined' = (program[pos].k = "define") /\ pos' = pos + 1
          /\ nIfLevel' = nIfLevel /\ ran' = ran /\ errors' = errors
      BY <2>13 DEF Define, At
    <3>2. a.stack = s.stack /\ a.comment = s.comment /\ a.ran = s.ran
          /\ a.defined = IF Live(s) THEN program[pos].k = "define" ELSE s.defined
      BY <1>6, <2>3, <3>1 DEF Reads
    <3>3. Agrees(a, nIfLevel, defined', ran, errors)
      BY <1>6, <3>1, <3>2 DEF Agrees, Live, Height
    <3> QED BY <2>1, <2>2, <3>1, <3>3
  <2>14. CASE Text
    <3>1. program[pos].k \in {"text", "endcomment", "endmacro"} /\ pos' = pos + 1
          /\ ran' = (IF program[pos].k = "text" THEN ran \cup {pos} ELSE ran)
          /\ nIfLevel' = nIfLevel /\ defined' = defined /\ errors' = errors
      BY <2>14 DEF Text, At
    <3>2. ~InMacro(s)
      BY <1>6 DEF Live, InMacro
    <3>3. program[pos].k = "text"
      BY <1>6, <2>3, <3>1, <3>2 DEF Reads
    <3>4. a.stack = s.stack /\ a.comment = s.comment /\ a.defined = s.defined /\ a.ran = s.ran \cup {pos}
      BY <1>6, <2>3, <3>3 DEF Reads
    <3>5. Agrees(a, nIfLevel, defined, ran', errors)
      BY <1>6, <3>1, <3>3, <3>4 DEF Agrees, Live, Height
    <3> QED BY <2>1, <2>2, <3>1, <3>5
  <2>15. CASE Finished
    BY <1>5, <1>6, <2>15 DEF Finished, vars, Agrees
  <2> QED BY <1>9, <2>6, <2>7, <2>8, <2>9, <2>10, <2>11, <2>12, <2>13, <2>14, <2>15 DEF Next
<1>10. ASSUME Next, ~(pos <= N) PROVE UNCHANGED vars
  BY <1>1, <1>10 DEF Next, If, Ifdef, Elif, Else, Endif, Comment, Macro, Define, Text, Finished, At
<1> QED BY <1>8, <1>9, <1>10

LEMMA Invariant == Spec => []IInv
<1>1. IInv /\ [Next]_vars => IInv'
  BY TypeKept, AlignedKept DEF IInv
<1> QED BY <1>1, Started, PTL DEF Spec

\* Every variable has its type: whatever line a scan ends on and however long
\* the chain of #elif, assembly goes on from a line of the program or from its
\* end, and there are never more levels than lines behind it.
THEOREM TypeCorrect == Spec => []TypeOK
<1>1. IInv => TypeOK
  BY DEF IInv
<1> QED BY <1>1, Invariant, PTL

\* Without a stack, by scanning forward for words, preop.cpp runs the lines of
\* every well-formed program that the usual reading with a stack runs.
THEOREM StructureFollowed == Spec => []FollowsStructure
<1>1. IInv => FollowsStructure
  BY DEF IInv, Aligned, Agrees, FollowsStructure
<1> QED BY <1>1, Invariant, PTL

\* nIfLevel, which an #endif a skip ends on does not lower, is never too low
\* for the next #else, #elif or #endif.
THEOREM NestingCovered == Spec => []LevelCoversNesting
<1>1. IInv => LevelCoversNesting
  BY DEF IInv, Aligned, Agrees, LevelCoversNesting, Height
<1> QED BY <1>1, Invariant, PTL

----------------------------------------------------------------------------
(***************************************************************************)
(* Programs that have no comments and nothing stray, but may lack ends.    *)
(***************************************************************************)
Tidy == NothingStray /\ \A i \in 1..N : program[i].k # "comment"

\* What a line of such a program does to the stack.
TidyLine(s, l, t) ==
  /\ Moves(s, l, t)
  /\ l.k \in {"else", "elif", "endif"} => InIf(s)
  /\ l.k = "macro" /\ ~InMacro(s) => \E m \in Marks : t.stack = Append(s.stack, m) /\ m.state = "macro"
  /\ l.k = "endmacro" /\ InMacro(s) /\ ~InIf(s) => Left(s, t)

LEMMA ReadLineTidy ==
  ASSUME NEW s \in States, NEW l \in Lines, NEW i \in Nat, ~s.comment, l.k # "comment",
         l.k \in {"else", "elif", "endif"} => InIf(s)
  PROVE  TidyLine(s, l, ReadLine(s, l, i)) /\ ~ReadLine(s, l, i).comment
<1>1. PICK t : t = ReadLine(s, l, i)
  OBVIOUS
<1>2. l.k \in Kinds
  BY DEF Lines
<1>3. /\ OpensIf(l) => t = Enter(s, l)
      /\ l.k \in {"elif", "else"} => t = Branch(s, l)
      /\ l.k = "endif" => t = Leave(s)
      /\ l.k = "macro" => t = EnterMacro(s)
      /\ l.k = "endmacro" => t = LeaveMacro(s)
      /\ l.k = "endcomment" => t = [s EXCEPT !.ok = FALSE]
      /\ l.k \in {"define", "undef"} => t = [s EXCEPT !.defined = IF Live(s) THEN l.k = "define" ELSE @]
      /\ l.k = "text" => t = [s EXCEPT !.ran = IF Live(s) THEN @ \cup {i} ELSE @]
  BY <1>1 DEF ReadLine, Live, OpensIf, States
<1>4. ASSUME t.stack = s.stack, ~OpensIf(l), l.k \notin {"endif", "macro", "endmacro"}
      PROVE  TidyLine(s, l, t)
  BY <1>4 DEF TidyLine, Moves
<1>5. CASE OpensIf(l)
  <2>1. PICK m : m = [state |-> IF ~Live(s) THEN "skip" ELSE IF Taken(s, l) THEN "on" ELSE "off",
                      elsed |-> FALSE]
    OBVIOUS
  <2>2. m \in Marks /\ m.state # "macro"
    BY <2>1 DEF Marks
  <2>3. t = [s EXCEPT !.stack = Append(@, m), !.ok = @ /\ l.cond # "none"]
    BY <1>3, <1>5, <2>1 DEF Enter, OpensIf, Taken, Live, Lines
  <2>4. t.stack = Append(s.stack, m) /\ t.comment = s.comment
    BY <2>3 DEF States
  <2> QED BY <1>1, <1>5, <2>2, <2>4 DEF TidyLine, Moves, OpensIf
<1>6. CASE l.k \in {"elif", "else"}
  <2>1. CASE Top(s).elsed
    <3>1. t = [s EXCEPT !.ok = FALSE]
      BY <1>3, <1>6, <2>1 DEF Branch, Top, Height, Last
    <3>2. t.stack = s.stack /\ t.comment = s.comment
      BY <3>1 DEF States
    <3> QED BY <1>1, <1>4, <1>6, <3>2 DEF OpensIf
  <2>2. CASE ~Top(s).elsed
    <3>1. Top(s) \in Marks /\ Height(s) \in 1..Height(s) /\ Top(s).state # "macro"
      BY <1>6, StateIs DEF InIf, Top, Height, Last
    <3>2. PICK new : new = CASE Top(s).state \in {"on", "done"} -> "done"
                      [] Top(s).state = "skip" -> "skip"
                      [] Top(s).state = "off" -> IF l.k = "else" \/ l.cond = "true" THEN "on" ELSE "off"
      OBVIOUS
    <3>3. PICK m : m = [state |-> new, elsed |-> l.k = "else"]
      OBVIOUS
    <3>4. t = [s EXCEPT !.stack[Len(s.stack)] = m, !.ok = @ /\ l.cond # "none"]
      BY <1>3, <1>6, <2>2, <3>2, <3>3 DEF Branch, Top, Height, Last
    <3>5. new \in {"on", "off", "done", "skip"}
      BY <3>1, <3>2 DEF Marks
    <3>6. m \in Marks /\ m.state # "macro"
      BY <3>3, <3>5 DEF Marks
    <3>7. t.stack = [s.stack EXCEPT ![Height(s)] = m] /\ t.comment = s.comment
      BY <3>4 DEF States, Height
    <3>8. Moves(s, l, t)
      BY <1>6, <3>6, <3>7 DEF Moves
    <3> QED BY <1>1, <1>6, <3>7, <3>8 DEF TidyLine
  <2> QED BY <2>1, <2>2
<1>7. CASE l.k \in {"endif", "endmacro"}
  <2>1. PICK u, k : u = [s EXCEPT !.stack = k] /\ k = SubSeq(s.stack, 1, Height(s) - 1)
    OBVIOUS
  <2>2. u = [s EXCEPT !.stack = Front(@)]
    BY <2>1 DEF Front, Height, States
  <2>3. InIf(s) \/ InMacro(s) => s.stack # <<>>
    BY StateIs DEF InIf, InMacro
  <2>4. s.stack # <<>> => Left(s, u)
    BY <2>1 DEF States, Left, SameEffect
  <2>5. u.comment = s.comment /\ [s EXCEPT !.ok = FALSE].stack = s.stack
        /\ [s EXCEPT !.ok = FALSE].comment = s.comment
    BY <2>1 DEF States
  <2>6. CASE l.k = "endif"
    <3>1. t = u
      BY <1>3, <2>2, <2>6 DEF Leave
    <3> QED BY <1>1, <2>3, <2>4, <2>5, <2>6, <3>1 DEF TidyLine, Moves
  <2>7. CASE l.k = "endmacro" /\ InMacro(s) /\ ~InIf(s)
    <3>1. t = u
      BY <1>3, <2>2, <2>7 DEF LeaveMacro
    <3> QED BY <1>1, <2>3, <2>4, <2>5, <2>7, <3>1 DEF TidyLine, Moves
  <2>8. CASE l.k = "endmacro" /\ ~(InMacro(s) /\ ~InIf(s))
    <3>1. t = [s EXCEPT !.ok = FALSE]
      BY <1>3, <2>8 DEF LeaveMacro
    <3> QED BY <1>1, <2>5, <2>8, <3>1 DEF TidyLine, Moves, OpensIf
  <2> QED BY <1>7, <2>6, <2>7, <2>8
<1>8. CASE l.k = "macro"
  <2>1. CASE InMacro(s)
    <3>1. t = [s EXCEPT !.ok = FALSE]
      BY <1>3, <1>8, <2>1 DEF EnterMacro
    <3>2. t.stack = s.stack /\ t.comment = s.comment
      BY <3>1 DEF States
    <3> QED BY <1>1, <1>8, <2>1, <3>2 DEF TidyLine, Moves, OpensIf
  <2>2. CASE ~InMacro(s)
    <3>1. PICK m : m = [state |-> "macro", elsed |-> FALSE]
      OBVIOUS
    <3>2. m \in Marks /\ m.state = "macro"
      BY <3>1 DEF Marks
    <3>3. t = [s EXCEPT !.stack = Append(@, m)]
      BY <1>3, <1>8, <2>2, <3>1 DEF EnterMacro
    <3>4. t.stack = Append(s.stack, m) /\ t.comment = s.comment
      BY <3>3 DEF States
    <3> QED BY <1>1, <1>8, <2>2, <3>2, <3>4 DEF TidyLine, Moves
  <2> QED BY <2>1, <2>2
<1>9. CASE l.k \in {"endcomment", "define", "undef", "text"}
  <2>1. t.stack = s.stack /\ t.comment = s.comment
    BY <1>3, <1>9 DEF States
  <2> QED BY <1>1, <1>4, <1>9, <2>1 DEF OpensIf
<1> QED BY <1>2, <1>5, <1>6, <1>7, <1>8, <1>9 DEF Kinds, OpensIf

\* The number of #ifs that are open.
Ifs(s) == Height(s) - IF InMacro(s) THEN 1 ELSE 0

LEMMA IfsMove ==
  ASSUME NEW s \in States, NEW l \in Lines, NEW t \in States, Moves(s, l, t), OneMacro(s)
  PROVE  /\ Ifs(s) \in Nat /\ (InIf(s) => Ifs(s) > 0)
         /\ Ifs(t) = Ifs(s) + IF OpensIf(l) THEN 1 ELSE IF l.k = "endif" THEN -1 ELSE 0
         /\ ~InMacro(s) /\ l.k # "macro" => ~InMacro(t)
<1>1. /\ s.stack \in Seq(Marks) /\ Height(s) \in Nat /\ Height(s) = Len(s.stack) /\ Height(t) = Len(t.stack)
      /\ Height(t) \in Nat
      /\ s.stack # <<>> <=> Height(s) > 0
      /\ InMacro(s) <=> \E j \in 1..Height(s) : s.stack[j].state = "macro"
      /\ InMacro(t) <=> \E j \in 1..Height(t) : t.stack[j].state = "macro"
      /\ InIf(s) <=> Height(s) > 0 /\ s.stack[Height(s)].state # "macro"
  BY StateIs DEF Height, InMacro, InIf, Last
<1>a. /\ InMacro(s) => Ifs(s) = Height(s) - 1
      /\ ~InMacro(s) => Ifs(s) = Height(s)
      /\ InMacro(t) => Ifs(t) = Height(t) - 1
      /\ ~InMacro(t) => Ifs(t) = Height(t)
      /\ InMacro(s) \in BOOLEAN /\ InMacro(t) \in BOOLEAN /\ Height(s) \in Nat
  <2>1. InMacro(s) \in BOOLEAN /\ InMacro(t) \in BOOLEAN
    BY DEF InMacro
  <2>2. Height(s) \in Nat /\ Height(t) \in Nat
    BY <1>1
  <2> QED BY <2>1, <2>2 DEF Ifs
<1>2. Ifs(s) \in Nat /\ (InIf(s) => Ifs(s) > 0)
  <2>1. InMacro(s) => Height(s) > 0
    BY <1>1
  <2>2. InMacro(s) /\ InIf(s) => Height(s) > 1
    <3> SUFFICES ASSUME InMacro(s), InIf(s) PROVE Height(s) > 1
      OBVIOUS
    <3>1. PICK j \in 1..Height(s) : s.stack[j].state = "macro"
      BY <1>1
    <3>2. j # Height(s)
      BY <1>1, <3>1
    <3> QED BY <1>1, <3>2
  <2>3. InIf(s) => Height(s) > 0
    BY <1>1
  <2>4. CASE InMacro(s)
    BY <1>a, <2>1, <2>2, <2>4
  <2>5. CASE ~InMacro(s)
    BY <1>a, <2>3, <2>5
  <2> QED BY <2>4, <2>5
<1>3. CASE t.stack = s.stack /\ ~OpensIf(l) /\ l.k # "endif"
  <2>1. Height(t) = Height(s) /\ InMacro(t) = InMacro(s)
    BY <1>3 DEF Height, InMacro
  <2> QED BY <1>a, <1>2, <1>3, <2>1
<1>4. ASSUME NEW m \in Marks, t.stack = Append(s.stack, m)
      PROVE  /\ Height(t) = Height(s) + 1
             /\ InMacro(t) <=> InMacro(s) \/ m.state = "macro"
  <2>1. /\ Height(t) = Height(s) + 1 /\ t.stack[Height(s) + 1] = m
        /\ \A j \in 1..Height(s) : t.stack[j] = s.stack[j]
    BY <1>1, <1>4
  <2>2. ASSUME InMacro(t) PROVE InMacro(s) \/ m.state = "macro"
    <3>1. PICK j \in 1..Height(t) : t.stack[j].state = "macro"
      BY <1>1, <2>2
    <3>2. j = Height(s) + 1 \/ j \in 1..Height(s)
      BY <1>1, <2>1
    <3> QED BY <1>1, <2>1, <3>1, <3>2
  <2>3. ASSUME InMacro(s) PROVE InMacro(t)
    <3>1. PICK j \in 1..Height(s) : s.stack[j].state = "macro"
      BY <1>1, <2>3
    <3>2. j \in 1..Height(t) /\ t.stack[j] = s.stack[j]
      BY <1>1, <2>1
    <3> QED BY <1>1, <3>1, <3>2
  <2>4. ASSUME m.state = "macro" PROVE InMacro(t)
    <3>1. Height(s) + 1 \in 1..Height(t)
      BY <1>1, <2>1
    <3> QED BY <1>1, <2>1, <2>4, <3>1
  <2> QED BY <2>1, <2>2, <2>3, <2>4
<1>5. CASE OpensIf(l) /\ \E m \in Marks : t.stack = Append(s.stack, m) /\ m.state # "macro"
  <2>1. Height(t) = Height(s) + 1 /\ (InMacro(t) <=> InMacro(s))
    BY <1>4, <1>5
  <2> QED BY <1>a, <1>2, <1>5, <2>1
<1>6. CASE /\ l.k \in {"else", "elif"} /\ InIf(s)
           /\ \E m \in Marks : t.stack = [s.stack EXCEPT ![Height(s)] = m] /\ m.state # "macro"
  <2>1. PICK m \in Marks : t.stack = [s.stack EXCEPT ![Height(s)] = m] /\ m.state # "macro"
    BY <1>6
  <2>2. /\ Height(t) = Height(s)
        /\ \A j \in 1..Height(s) : t.stack[j] = IF j = Height(s) THEN m ELSE s.stack[j]
    BY <1>1, <2>1
  <2>3. \A j \in 1..Height(s) : (t.stack[j].state = "macro") <=> (s.stack[j].state = "macro")
    BY <1>1, <1>6, <2>1, <2>2
  <2>4. InMacro(t) <=> InMacro(s)
    BY <1>1, <2>2, <2>3
  <2> QED BY <1>a, <1>2, <1>6, <2>2, <2>4 DEF OpensIf
<1>7. ASSUME Left(s, t)
      PROVE  /\ Height(t) = Height(s) - 1
             /\ InMacro(t) <=> InMacro(s) /\ InIf(s)
  <2>1. s.stack # <<>> /\ t.stack = SubSeq(s.stack, 1, Height(s) - 1)
    BY <1>7 DEF Left
  <2>2. Height(t) = Height(s) - 1 /\ (\A j \in 1..Height(t) : t.stack[j] = s.stack[j]) /\ Height(s) > 0
    BY <1>1, <2>1
  <2>3. ASSUME InMacro(t) PROVE InMacro(s) /\ InIf(s)
    <3>1. PICK j \in 1..Height(t) : t.stack[j].state = "macro"
      BY <1>1, <2>3
    <3>2. j \in 1..Height(s) /\ Height(s) \in 1..Height(s) /\ j # Height(s) /\ s.stack[j].state = "macro"
      BY <1>1, <2>2, <3>1
    <3>3. s.stack[Height(s)].state # "macro"
      BY <3>2 DEF OneMacro
    <3> QED BY <1>1, <2>2, <3>2, <3>3
  <2>4. ASSUME InMacro(s), InIf(s) PROVE InMacro(t)
    <3>1. PICK j \in 1..Height(s) : s.stack[j].state = "macro"
      BY <1>1, <2>4
    <3>2. j # Height(s)
      BY <1>1, <2>4, <3>1
    <3>3. j \in 1..Height(t)
      BY <1>1, <2>2, <3>2
    <3> QED BY <1>1, <2>2, <3>1, <3>3
  <2> QED BY <2>2, <2>3, <2>4
<1>8. CASE l.k = "endif" /\ InIf(s) /\ Left(s, t)
  <2>1. Height(t) = Height(s) - 1 /\ (InMacro(t) <=> InMacro(s)) /\ ~OpensIf(l)
    BY <1>7, <1>8 DEF OpensIf
  <2> QED BY <1>a, <1>2, <1>8, <2>1
<1>9. CASE l.k = "macro" /\ ~InMacro(s) /\ \E m \in Marks : t.stack = Append(s.stack, m) /\ m.state = "macro"
  <2>1. Height(t) = Height(s) + 1 /\ InMacro(t) /\ ~OpensIf(l)
    BY <1>4, <1>9 DEF OpensIf
  <2> QED BY <1>a, <1>2, <1>9, <2>1
<1>10. CASE l.k = "endmacro" /\ InMacro(s) /\ ~InIf(s) /\ Left(s, t)
  <2>1. Height(t) = Height(s) - 1 /\ ~InMacro(t) /\ ~OpensIf(l)
    BY <1>7, <1>10 DEF OpensIf
  <2> QED BY <1>a, <1>2, <1>10, <2>1
<1> QED BY <1>3, <1>5, <1>6, <1>8, <1>9, <1>10 DEF Moves

\* Such a program, seen from its reading.
Orderly ==
  /\ Balanced /\ Ifs(Reading[0]) = 0 /\ ~InMacro(Reading[0])
  /\ \A i \in 1..N : TidyLine(Reading[i - 1], program[i], Reading[i])

LEMMA TidyOrderly ==
  ASSUME program \in Seq(Lines), Tidy
  PROVE  Orderly
<1>1. N \in Nat /\ \A i \in 1..N : program[i] \in Lines
  BY DEF N
<1>2. /\ Reading[0] = Unread
      /\ \A i \in 1..N : Reading[i] = ReadLine(Reading[i - 1], program[i], i)
      /\ \A i \in 0..N : Reading[i] \in States
  BY ReadingIs
<1>3. ASSUME NEW i \in 1..N, ~Reading[i - 1].comment
      PROVE  TidyLine(Reading[i - 1], program[i], Reading[i]) /\ ~Reading[i].comment
  <2>1. i - 1 \in 0..N /\ i \in Nat
    BY <1>1
  <2>2. program[i].k \in {"else", "elif", "endif"} => InIf(Reading[i - 1])
    BY <1>3 DEF Tidy, NothingStray
  <2>3. program[i].k # "comment"
    BY DEF Tidy
  <2> QED BY <1>1, <1>2, <1>3, <2>1, <2>2, <2>3, ReadLineTidy
<1> DEFINE Good(i) == ~Reading[i].comment /\ OneMacro(Reading[i])
           T == {i \in 0..N : Good(i)}
<1>4. Good(0) /\ Ifs(Unread) = 0 /\ ~InMacro(Unread)
  <2>1. ~InMacro(Unread) /\ Height(Unread) = 0 /\ ~Unread.comment
    BY DEF InMacro, Unread, Height
  <2>2. Ifs(Unread) = 0
    <3>1. Ifs(Unread) = Height(Unread) - 0
      BY <2>1 DEF Ifs
    <3> QED BY <2>1, <3>1
  <2>3. OneMacro(Unread)
    BY <2>1 DEF OneMacro
  <2> QED BY <1>2, <2>1, <2>2, <2>3
<1>5. ASSUME NEW i \in 0..N - 1, i \in T PROVE i + 1 \in T
  <2>1. i + 1 \in 1..N /\ (i + 1) - 1 = i /\ i + 1 \in 0..N /\ i \in 0..N
    BY <1>1
  <2>2. TidyLine(Reading[i], program[i + 1], Reading[i + 1]) /\ ~Reading[i + 1].comment
    BY <1>3, <1>5, <2>1
  <2>3. OneMacro(Reading[i + 1])
    BY <1>1, <1>2, <1>5, <2>1, <2>2, OneMacroKept DEF TidyLine
  <2> QED BY <2>1, <2>2, <2>3
<1>6. 0..N \subseteq T
  <2>1. 0 \in T
    BY <1>1, <1>4
  <2> HIDE DEF T
  <2> QED BY <1>1, <1>5, <2>1, BoundedInduction
<1>7. \A i \in 0..N : Good(i)
  BY <1>6
<1>8. \A i \in 1..N : TidyLine(Reading[i - 1], program[i], Reading[i])
  <2> TAKE i \in 1..N
  <2>1. i - 1 \in 0..N
    BY <1>1
  <2> QED BY <1>3, <1>7, <2>1
<1> QED BY <1>1, <1>2, <1>4, <1>7, <1>8 DEF Orderly, Balanced, TidyLine

\* The number of open #ifs line by line.
LEMMA IfsRead ==
  ASSUME Orderly
  PROVE  /\ N \in Nat /\ program \in Seq(Lines)
         /\ \A i \in 0..N : Ifs(Reading[i]) \in Nat
         /\ \A i \in 1..N :
              Ifs(Reading[i]) =
                Ifs(Reading[i - 1]) + IF OpensIf(program[i]) THEN 1 ELSE IF program[i].k = "endif" THEN -1 ELSE 0
<1>1. N \in Nat /\ program \in Seq(Lines)
  BY DEF Orderly, Balanced
<1>2. ASSUME NEW i \in 1..N
      PROVE  /\ Ifs(Reading[i - 1]) \in Nat
             /\ program[i].k = "endif" => Ifs(Reading[i - 1]) > 0
             /\ Ifs(Reading[i]) =
                  Ifs(Reading[i - 1]) + IF OpensIf(program[i]) THEN 1 ELSE IF program[i].k = "endif" THEN -1 ELSE 0
  <2>1. i - 1 \in 0..N /\ i \in 0..N
    BY <1>1
  <2>2. /\ Reading[i - 1] \in States /\ Reading[i] \in States /\ program[i] \in Lines
        /\ Moves(Reading[i - 1], program[i], Reading[i]) /\ OneMacro(Reading[i - 1])
    BY <2>1 DEF Orderly, Balanced
  <2>3. program[i].k = "endif" => InIf(Reading[i - 1])
    BY DEF Orderly, TidyLine
  <2> QED BY <2>2, <2>3, IfsMove
<1>3. ASSUME NEW i \in 0..N PROVE Ifs(Reading[i]) \in Nat
  <2>1. CASE i = 0
    BY <2>1 DEF Orderly
  <2>2. CASE i # 0
    <3>1. i \in 1..N
      BY <1>1, <2>2
    <3> QED BY <1>2, <3>1 DEF OpensIf
  <2> QED BY <2>1, <2>2
<1> QED BY <1>1, <1>2, <1>3

\* The level of a scan counts the #ifs opened behind where it started, as
\* long as none of those open there is closed.
LEMMA LevelCounts ==
  ASSUME Orderly, NEW p \in 1..N + 1, NEW m \in p..N + 1,
         \A j \in p - 1..m - 1 : Ifs(Reading[j]) >= Ifs(Reading[p - 1])
  PROVE  \A i \in p..m : LevelFrom(p)[i] = Ifs(Reading[i - 1]) - Ifs(Reading[p - 1])
<1>1. N \in Nat /\ program \in Seq(Lines) /\ p \in Nat \ {0} /\ m \in Nat /\ m - p \in Nat
  BY IfsRead
<1>2. PICK c \in Nat : c = Ifs(Reading[p - 1])
  <2>1. p - 1 \in 0..N
    BY <1>1
  <2> QED BY <2>1, IfsRead
<1>3. /\ LevelFrom(p)[p] = 0
      /\ \A i \in p..N : LevelFrom(p)[i + 1] = LevelAfter(LevelFrom(p)[i], program[i])
  BY <1>1, LevelIs
<1> DEFINE Good(i) == LevelFrom(p)[i] = Ifs(Reading[i - 1]) - c
           T == {j \in 0..m - p : Good(p + j)}
<1>4. 0 \in T
  <2>1. p + 0 = p /\ c - c = 0
    BY <1>1
  <2> QED BY <1>1, <1>2, <1>3, <2>1
<1>5. ASSUME NEW j \in 0..(m - p) - 1, j \in T PROVE j + 1 \in T
  <2>1. PICK i : i = p + j
    OBVIOUS
  <2>2. i \in p..N /\ i \in 1..N /\ i \in 0..N /\ i - 1 \in 0..N /\ i \in p - 1..m - 1 /\ i - 1 \in p - 1..m - 1
        /\ p + (j + 1) = i + 1 /\ (i + 1) - 1 = i /\ j + 1 \in 0..m - p
    <3> HIDE DEF T
    <3> QED BY <1>1, <2>1
  <2>3. PICK x \in Nat, y \in Nat : x = Ifs(Reading[i - 1]) /\ y = Ifs(Reading[i])
    BY <2>2, IfsRead
  <2>4. y = x + IF OpensIf(program[i]) THEN 1 ELSE IF program[i].k = "endif" THEN -1 ELSE 0
    BY <2>2, <2>3, IfsRead
  <2>5. x >= c /\ y >= c
    BY <1>2, <2>2, <2>3
  <2>6. LevelFrom(p)[i] = x - c
    BY <1>5, <2>1, <2>3
  <2>7. LevelFrom(p)[i + 1] = LevelAfter(x - c, program[i])
    BY <1>3, <2>2, <2>6
  <2>8. LevelAfter(x - c, program[i]) = y - c
    BY <2>4, <2>5 DEF LevelAfter, OpensIf
  <2> QED BY <2>2, <2>3, <2>7, <2>8
<1>6. 0..m - p \subseteq T
  <2> HIDE DEF T
  <2> QED BY <1>1, <1>4, <1>5, BoundedInduction
<1>7. ASSUME NEW i \in p..m PROVE LevelFrom(p)[i] = Ifs(Reading[i - 1]) - c
  <2>1. i - p \in 0..m - p /\ p + (i - p) = i
    BY <1>1
  <2>2. i - p \in T
    BY <1>6, <2>1
  <2> QED BY <2>1, <2>2
<1> QED BY <1>2, <1>7

\* A scan for #endif that finds none: what is open where it starts stays so.
LEMMA NeverClosed ==
  ASSUME Orderly, NEW p \in 1..N + 1, NEW words, "endif" \in words, SkipUntil(p, words) > N
  PROVE  \A j \in p - 1..N : Ifs(Reading[j]) >= Ifs(Reading[p - 1])
<1>1. N \in Nat /\ program \in Seq(Lines) /\ p \in Nat \ {0} /\ p - 1 \in 0..N
  BY IfsRead
<1>2. PICK c \in Nat : c = Ifs(Reading[p - 1])
  BY <1>1, IfsRead
<1>3. PICK U : U = {j \in p - 1..N : Ifs(Reading[j]) < c}
  OBVIOUS
<1>4. U = {}
  <2> SUFFICES ASSUME U # {} PROVE FALSE
    OBVIOUS
  <2>1. U \subseteq Nat
    BY <1>1, <1>3
  <2>2. PICK m \in U : \A j \in U : m <= j
    BY <2>1, LeastNumber
  <2>3. m \in p - 1..N /\ Ifs(Reading[m]) < c /\ m \in Nat
    BY <1>3, <2>1
  <2>4. m # p - 1
    BY <1>2, <2>3
  <2>5. m \in p..N /\ m \in 1..N /\ m - 1 \in 0..N /\ m \in 0..N /\ m \in p..N + 1 /\ m \in p..m
    BY <1>1, <2>3, <2>4
  <2>6. ASSUME NEW j \in p - 1..m - 1 PROVE Ifs(Reading[j]) >= c
    <3>1. j \in p - 1..N /\ j \in 0..N /\ ~(m <= j)
      BY <1>1, <2>5
    <3>2. j \notin U
      BY <2>2, <3>1
    <3>3. Ifs(Reading[j]) \in Nat
      BY <3>1, IfsRead
    <3> QED BY <1>3, <3>1, <3>2, <3>3
  <2>7. LevelFrom(p)[m] = Ifs(Reading[m - 1]) - c
    BY <1>2, <2>5, <2>6, LevelCounts
  <2>8. PICK x \in Nat, y \in Nat : x = Ifs(Reading[m - 1]) /\ y = Ifs(Reading[m])
    BY <2>5, IfsRead
  <2>9. y = x + IF OpensIf(program[m]) THEN 1 ELSE IF program[m].k = "endif" THEN -1 ELSE 0
    BY <2>5, <2>8, IfsRead
  <2>10. x >= c /\ y < c
    <3>1. m - 1 \in p - 1..m - 1
      BY <1>1, <2>5
    <3> QED BY <2>3, <2>6, <2>8, <3>1
  <2>11. program[m].k = "endif" /\ x = c
    BY <2>9, <2>10
  <2>12. LevelFrom(p)[m] = 0
    BY <2>7, <2>8, <2>11
  <2>13. m < SkipUntil(p, words)
    <3>1. SkipUntil(p, words) \in p..N + 1
      BY <1>1, SkipIs
    <3> QED BY <1>1, <2>5, <3>1
  <2> QED BY <1>1, <2>5, <2>11, <2>12, <2>13, SkipIs
<1>5. ASSUME NEW j \in p - 1..N PROVE Ifs(Reading[j]) >= c
  <2>1. j \in 0..N /\ j \notin U
    BY <1>1, <1>4
  <2>2. Ifs(Reading[j]) \in Nat
    BY <2>1, IfsRead
  <2> QED BY <1>3, <2>1, <2>2
<1> QED BY <1>2, <1>5

\* What is never closed is reported when it is met.
LEMMA OpenUnmatched ==
  ASSUME Orderly, NEW q \in 1..N, \A j \in q..N : Ifs(Reading[j]) >= Ifs(Reading[q])
  PROVE  Unmatched(q)
<1>1. N \in Nat /\ program \in Seq(Lines) /\ q + 1 \in 1..N + 1 /\ (q + 1) - 1 = q /\ q \in 0..N
  BY IfsRead
<1>2. PICK p \in 1..N + 1 : p = q + 1 /\ p - 1 = q
  BY <1>1
<1>3. PICK r \in p..N + 1 : r = SkipUntil(p, {"endif"})
  BY <1>1, SkipIs
<1>4. ASSUME r <= N PROVE FALSE
  <2>1. r \in 1..N /\ r \in 0..N /\ r - 1 \in 0..N /\ r \in q..N
    BY <1>1, <1>2, <1>4
  <2>2. LevelFrom(p)[r] = 0 /\ program[r].k = "endif"
    <3>1. LevelFrom(p)[r] = 0 /\ program[r].k \in {"endif"}
      BY <1>1, <1>3, <1>4, SkipIs
    <3> QED BY <3>1
  <2>3. \A j \in p - 1..r - 1 : Ifs(Reading[j]) >= Ifs(Reading[p - 1])
    <3> TAKE j \in p - 1..r - 1
    <3>1. j \in q..N
      BY <1>1, <1>2, <2>1
    <3> QED BY <1>2, <3>1
  <2>4. LevelFrom(p)[r] = Ifs(Reading[r - 1]) - Ifs(Reading[p - 1])
    <3>1. r \in p..r
      BY <1>1, <1>2
    <3> QED BY <2>3, <3>1, LevelCounts
  <2>5. PICK x \in Nat, y \in Nat, c \in Nat :
          x = Ifs(Reading[r - 1]) /\ y = Ifs(Reading[r]) /\ c = Ifs(Reading[q])
    BY <1>1, <2>1, IfsRead
  <2>6. y = x - 1
    <3>1. y = x + IF OpensIf(program[r]) THEN 1 ELSE IF program[r].k = "endif" THEN -1 ELSE 0
      BY <2>1, <2>5, IfsRead
    <3> QED BY <2>2, <2>5, <3>1 DEF OpensIf
  <2>7. x = c /\ y >= c
    BY <1>2, <2>1, <2>2, <2>4, <2>5
  <2> QED BY <2>5, <2>6, <2>7
<1> QED BY <1>1, <1>2, <1>3, <1>4 DEF Unmatched

\* An #if that is open somewhere was opened by a line before.
LEMMA OpenerOf ==
  ASSUME Orderly, NEW m \in 0..N, Ifs(Reading[m]) > 0
  PROVE  \E q \in 1..m : /\ OpensIf(program[q]) /\ Ifs(Reading[q]) = Ifs(Reading[m])
                         /\ \A j \in q..m : Ifs(Reading[j]) >= Ifs(Reading[m])
<1>1. N \in Nat /\ m \in Nat /\ Ifs(Reading[0]) = 0
  BY IfsRead DEF Orderly
<1>2. PICK c \in Nat : c = Ifs(Reading[m])
  BY IfsRead
<1>3. PICK D : D = {d \in 0..m : Ifs(Reading[m - d]) < c}
  OBVIOUS
<1>4. m \in D /\ D \subseteq Nat
  <2>1. m \in 0..m /\ m - m = 0
    BY <1>1
  <2> QED BY <1>1, <1>2, <1>3, <2>1
<1>5. PICK d \in D : \A e \in D : d <= e
  BY <1>4, LeastNumber
<1>6. d \in 0..m /\ Ifs(Reading[m - d]) < c /\ d # 0
  <2>1. m - 0 = m
    BY <1>1
  <2> QED BY <1>2, <1>3, <2>1
<1>7. PICK q : q = m - d + 1
  OBVIOUS
<1>8. q \in 1..m /\ q \in 1..N /\ q - 1 = m - d /\ q - 1 \in 0..N /\ q \in 0..N
  BY <1>1, <1>6, <1>7
<1>9. ASSUME NEW j \in q..m PROVE Ifs(Reading[j]) >= c
  <2>1. m - j \in 0..m /\ m - (m - j) = j /\ ~(d <= m - j) /\ j \in 0..N
    BY <1>1, <1>6, <1>7
  <2>2. m - j \notin D
    BY <1>5, <2>1
  <2>3. Ifs(Reading[j]) \in Nat
    BY <2>1, IfsRead
  <2> QED BY <1>3, <2>1, <2>2, <2>3
<1>10. PICK x \in Nat, y \in Nat : x = Ifs(Reading[q - 1]) /\ y = Ifs(Reading[q])
  BY <1>8, IfsRead
<1>11. y = x + IF OpensIf(program[q]) THEN 1 ELSE IF program[q].k = "endif" THEN -1 ELSE 0
  BY <1>8, <1>10, IfsRead
<1>12. x < c /\ y >= c
  <2>1. q \in q..m
    BY <1>1, <1>8
  <2> QED BY <1>6, <1>8, <1>9, <1>10, <2>1
<1>13. OpensIf(program[q]) /\ y = c
  BY <1>11, <1>12
<1> QED BY <1>2, <1>8, <1>9, <1>10, <1>13

\* An #if that a scan passes over on its way is matched.
LEMMA PassedMatched ==
  ASSUME program \in Seq(Lines), NEW p \in 1..N + 1, NEW r \in p..N, LevelFrom(p)[r] = 0,
         NEW q \in p..r - 1, OpensIf(program[q])
  PROVE  ~Unmatched(q)
<1>1. N \in Nat /\ p \in Nat \ {0} /\ r \in Nat /\ q \in Nat /\ q \in p..N /\ q \in 1..N
      /\ q + 1 \in 1..N + 1 /\ q \in p..N + 1 /\ q + 1 \in p..N + 1
  BY DEF N
<1>2. /\ \A i \in p..N : LevelFrom(p)[i + 1] = LevelAfter(LevelFrom(p)[i], program[i])
      /\ \A i \in p..N + 1 : LevelFrom(p)[i] \in Nat
  BY LevelIs
<1>3. PICK v \in Nat : v = LevelFrom(p)[q]
  BY <1>1, <1>2
<1>4. LevelFrom(p)[q + 1] = v + 1
  BY <1>1, <1>2, <1>3 DEF LevelAfter
<1>5. PICK U : U = {i \in q + 1..r : LevelFrom(p)[i] <= v}
  OBVIOUS
<1>6. r \in U /\ U \subseteq Nat
  <2>1. r \in q + 1..r
    BY <1>1
  <2> QED BY <1>1, <1>3, <1>5, <2>1
<1>7. PICK m \in U : \A i \in U : m <= i
  BY <1>6, LeastNumber
<1>8. m \in q + 1..r /\ LevelFrom(p)[m] <= v /\ m # q + 1 /\ m \in Nat
  <2>1. m \in q + 1..r /\ LevelFrom(p)[m] <= v /\ m \in Nat
    BY <1>5, <1>6
  <2>2. ~(v + 1 <= v)
    BY <1>3
  <2> QED BY <1>4, <2>1, <2>2
<1>9. PICK n : n = m - 1
  OBVIOUS
<1>10. n \in q + 1..N /\ n + 1 = m /\ n \in p..N /\ n \in p..N + 1 /\ n \in q + 1..N + 1
  BY <1>1, <1>8, <1>9
<1>11. \A i \in q + 1..n : LevelFrom(p)[i] >= v + 1
  <2> TAKE i \in q + 1..n
  <2>1. i \in q + 1..r /\ ~(m <= i) /\ i \in p..N + 1
    BY <1>1, <1>8, <1>9
  <2>2. i \notin U
    BY <1>7, <2>1
  <2>3. LevelFrom(p)[i] \in Nat
    BY <1>2, <2>1
  <2> QED BY <1>3, <1>5, <2>1, <2>2, <2>3
<1>12. /\ LevelFrom(q + 1)[q + 1] = 0
       /\ \A i \in q + 1..N : LevelFrom(q + 1)[i + 1] = LevelAfter(LevelFrom(q + 1)[i], program[i])
  BY <1>1, LevelIs
<1> DEFINE Good(i) == LevelFrom(q + 1)[i] = LevelFrom(p)[i] - (v + 1)
           T == {j \in 0..n - (q + 1) : Good((q + 1) + j)}
<1>13. n - (q + 1) \in Nat
  BY <1>1, <1>10
<1>14. 0 \in T
  <2>1. (q + 1) + 0 = q + 1 /\ (v + 1) - (v + 1) = 0
    BY <1>1
  <2> QED BY <1>4, <1>12, <1>13, <2>1
<1>15. ASSUME NEW j \in 0..(n - (q + 1)) - 1, j \in T PROVE j + 1 \in T
  <2>1. PICK i : i = (q + 1) + j
    OBVIOUS
  <2>2. i \in q + 1..N /\ i \in p..N /\ i \in p..N + 1 /\ i + 1 \in p..N + 1 /\ (q + 1) + (j + 1) = i + 1
        /\ i \in q + 1..n /\ i + 1 \in q + 1..n /\ j + 1 \in 0..n - (q + 1)
    <3> HIDE DEF T
    <3> QED BY <1>1, <1>10, <1>13, <2>1
  <2>3. PICK x \in Nat, y \in Nat : x = LevelFrom(p)[i] /\ y = LevelFrom(p)[i + 1]
    BY <1>2, <2>2
  <2>4. y = LevelAfter(x, program[i]) /\ x >= v + 1 /\ y >= v + 1
    BY <1>2, <1>11, <2>2, <2>3
  <2>5. LevelFrom(q + 1)[i] = x - (v + 1)
    BY <1>15, <2>1, <2>3
  <2>6. LevelFrom(q + 1)[i + 1] = LevelAfter(x - (v + 1), program[i])
    BY <1>12, <2>2, <2>5
  <2>7. LevelAfter(x - (v + 1), program[i]) = y - (v + 1)
    BY <2>4 DEF LevelAfter, OpensIf
  <2> QED BY <2>2, <2>3, <2>6, <2>7
<1>16. 0..n - (q + 1) \subseteq T
  <2> HIDE DEF T
  <2> QED BY <1>13, <1>14, <1>15, BoundedInduction
<1>17. LevelFrom(q + 1)[n] = LevelFrom(p)[n] - (v + 1)
  <2>1. n - (q + 1) \in 0..n - (q + 1) /\ (q + 1) + (n - (q + 1)) = n
    BY <1>1, <1>10, <1>13
  <2>2. n - (q + 1) \in T
    BY <1>16, <2>1
  <2> QED BY <2>1, <2>2
<1>18. PICK x \in Nat, y \in Nat : x = LevelFrom(p)[n] /\ y = LevelFrom(p)[m]
  <2>1. m \in p..N + 1
    BY <1>1, <1>8
  <2> QED BY <1>2, <1>10, <2>1
<1>19. y = LevelAfter(x, program[n]) /\ x >= v + 1 /\ y <= v
  <2>1. n \in q + 1..n
    BY <1>10
  <2> QED BY <1>2, <1>8, <1>10, <1>11, <1>18, <2>1
<1>20. program[n].k = "endif" /\ x = v + 1
  BY <1>19 DEF LevelAfter
<1>21. LevelFrom(q + 1)[n] = 0
  BY <1>17, <1>18, <1>20
<1>22. PICK e \in q + 1..N + 1 : e = SkipUntil(q + 1, {"endif"})
  BY <1>1, SkipIs
<1>23. \A i \in q + 1..N : i < e => ~(LevelFrom(q + 1)[i] = 0 /\ program[i].k \in {"endif"})
  BY <1>1, <1>22, SkipIs
<1>24. ~(n < e)
  BY <1>10, <1>20, <1>21, <1>23
<1>25. e <= N
  BY <1>1, <1>10, <1>22, <1>24
<1> QED BY <1>1, <1>22, <1>25 DEF Unmatched

----------------------------------------------------------------------------
(***************************************************************************)
(* As long as no error was raised, assembly is in no macro, and every #if  *)
(* before where it is has its #endif.                                      *)
(***************************************************************************)
Clear(n) ==
  /\ ~InMacro(Reading[n - 1])
  /\ \A q \in 1..N : q < n /\ OpensIf(program[q]) => ~Unmatched(q)

NothingOpen == Tidy => errors # {} \/ Clear(pos)

LEMMA BranchKeepsIf ==
  ASSUME NEW s \in States, NEW l \in Lines, NEW t \in States, Moves(s, l, t), InIf(s),
         l.k \in {"else", "elif"}
  PROVE  InIf(t)
<1>1. /\ s.stack \in Seq(Marks) /\ Height(s) \in Nat /\ Height(s) = Len(s.stack) /\ Height(t) = Len(t.stack)
      /\ Height(s) > 0 /\ s.stack[Height(s)].state # "macro" /\ s.stack # <<>>
  BY StateIs DEF Height, InIf, Last
<1>2. CASE t.stack = s.stack
  BY <1>2 DEF InIf
<1>3. CASE \E m \in Marks : t.stack = [s.stack EXCEPT ![Height(s)] = m] /\ m.state # "macro"
  <2>1. PICK m \in Marks : t.stack = [s.stack EXCEPT ![Height(s)] = m] /\ m.state # "macro"
    BY <1>3
  <2>2. Height(t) = Height(s) /\ t.stack[Height(t)] = m
    BY <1>1, <2>1
  <2>3. t.stack # <<>>
    BY <1>1, <2>2, StateIs
  <2> QED BY <2>1, <2>2, <2>3 DEF InIf, Height, Last
<1> QED BY <1>2, <1>3 DEF Moves, OpensIf

\* A scan that stops on a branch or the end of an #if stops outside macros.
LEMMA StopsOutside ==
  ASSUME Orderly, NEW p \in 1..N + 1, NEW words, Scans(p, words),
         words \subseteq {"else", "elif", "endif"}, ~InMacro(Reading[p - 1]),
         SkipUntil(p, words) <= N
  PROVE  LET r == SkipUntil(p, words)
         IN /\ r \in p..N /\ program[r].k \in words
            /\ ~InMacro(Reading[r]) /\ (program[r].k # "endif" => InIf(Reading[r]))
<1>1. N \in Nat /\ program \in Seq(Lines) /\ p \in Nat \ {0} /\ p - 1 \in 0..N
  BY IfsRead
<1>2. PICK a \in States : a = Reading[p - 1]
  BY <1>1 DEF Orderly, Balanced
<1>3. Height(a) \in Nat \ {0} /\ ~InMacro(a)
  BY <1>2, StateIs DEF Scans
<1>4. PICK r : r = SkipUntil(p, words)
  OBVIOUS
<1>5. r \in p..N /\ LevelFrom(p)[r] = 0 /\ program[r].k \in words
  <2>1. r \in p..N + 1 /\ r <= N
    BY <1>1, <1>4, SkipIs
  <2> QED BY <1>1, <1>4, <2>1, SkipIs
<1>6. r \in 1..N /\ r - 1 \in 0..N /\ r \in 0..N /\ r \in p..r
  BY <1>1, <1>5
<1>7. PICK s \in States : s = Reading[r - 1]
  BY <1>6 DEF Orderly, Balanced
<1>8. PICK t \in States : t = Reading[r]
  BY <1>6 DEF Orderly, Balanced
<1>9. OneMacro(s) /\ TidyLine(s, program[r], t) /\ program[r] \in Lines
  BY <1>6, <1>7, <1>8 DEF Orderly, Balanced
<1>10. InIf(s)
  BY <1>5, <1>9 DEF TidyLine
<1>11. Nested(a, s, Height(a), 0)
  <2>1. \A i \in p..r : Nested(a, Reading[i - 1], Height(a), LevelFrom(p)[i])
    BY <1>2, <1>4, ScanNested DEF Orderly
  <2> QED BY <1>5, <1>6, <1>7, <2>1
<1>12. /\ Height(s) \in Nat /\ MacrosAbove(s, Height(a)) \in {0, 1}
       /\ DOMAIN s.stack = 1..Height(s) /\ DOMAIN a.stack = 1..Height(a)
       /\ s.stack[Height(s)].state # "macro"
  BY <1>10, StateIs DEF MacrosAbove, InIf, Last, Height
<1>13. Height(s) = Height(a) + MacrosAbove(s, Height(a))
  BY <1>3, <1>11, <1>12 DEF Nested
<1>14. MacrosAbove(s, Height(a)) = 0
  <2> SUFFICES ASSUME MacrosAbove(s, Height(a)) = 1 PROVE FALSE
    BY <1>12
  <2>1. PICK j \in Height(a) + 1..Height(s) : s.stack[j].state = "macro"
    BY DEF MacrosAbove
  <2>2. j = Height(s)
    BY <1>3, <1>13, <2>1
  <2> QED BY <1>12, <2>1, <2>2
<1>15. ~InMacro(s)
  <2> SUFFICES ASSUME InMacro(s) PROVE FALSE
    OBVIOUS
  <2>1. PICK j \in 1..Height(s) : s.stack[j].state = "macro"
    BY <1>12 DEF InMacro
  <2>2. Height(s) = Height(a)
    BY <1>3, <1>13, <1>14
  <2>3. j # Height(s)
    BY <1>12, <2>1
  <2>4. j \in 1..Height(a) - 1 /\ j \in 1..Height(a)
    BY <1>3, <2>1, <2>2, <2>3
  <2>5. s.stack[j] = a.stack[j]
    BY <1>11, <2>4 DEF Nested
  <2> QED BY <1>3, <1>12, <2>1, <2>4, <2>5 DEF InMacro
<1>16. ~InMacro(t)
  <2>1. program[r].k # "macro"
    BY <1>5
  <2>2. Moves(s, program[r], t)
    BY <1>9 DEF TidyLine
  <2> QED BY <1>9, <1>15, <2>1, <2>2, IfsMove
<1>17. program[r].k # "endif" => InIf(t)
  <2> SUFFICES ASSUME program[r].k \in {"else", "elif"} PROVE InIf(t)
    BY <1>5
  <2>1. Moves(s, program[r], t)
    BY <1>9 DEF TidyLine
  <2> QED BY <1>9, <1>10, <2>1, BranchKeepsIf
<1> QED BY <1>4, <1>5, <1>8, <1>16, <1>17

\* If do_if raises nothing, it passes nothing that has no end.
LEMMA DoIfClear ==
  ASSUME Orderly
  PROVE  \A q \in 1..N :
           InIf(Reading[q]) /\ ~InMacro(Reading[q]) /\ DoIf(q).raised = {} =>
             /\ ~InMacro(Reading[DoIf(q).next - 1])
             /\ \A j \in q..DoIf(q).next - 1 : OpensIf(program[j]) => ~Unmatched(j)
<1>1. N \in Nat /\ program \in Seq(Lines)
  BY IfsRead
<1> DEFINE Good(q) == InIf(Reading[q]) /\ ~InMacro(Reading[q]) /\ DoIf(q).raised = {} =>
                        /\ ~InMacro(Reading[DoIf(q).next - 1])
                        /\ \A j \in q..DoIf(q).next - 1 : OpensIf(program[j]) => ~Unmatched(j)
           T == {q \in 1..N : Good(q)}
<1>2. ASSUME NEW q \in 1..N, \A r \in q + 1..N : r \in T PROVE q \in T
  <2> SUFFICES ASSUME InIf(Reading[q]), ~InMacro(Reading[q]), DoIf(q).raised = {}
               PROVE  /\ ~InMacro(Reading[DoIf(q).next - 1])
                      /\ \A j \in q..DoIf(q).next - 1 : OpensIf(program[j]) => ~Unmatched(j)
    OBVIOUS
  <2>1. PICK g : g = [r \in 1..N |-> DoIf(r)]
    OBVIOUS
  <2>2. DoIf(q) = IfFrom(q, g)
    BY <1>1, <2>1, DoIfIs
  <2>3. program[q].cond # "none" /\ Check(q) = {}
    BY <2>2 DEF IfFrom
  <2>4. ~Unmatched(q)
    BY <2>3 DEF Check
  <2>5. PICK p \in 1..N + 1 : p = q + 1 /\ p - 1 = q
    BY <1>1
  <2>6. CASE Holds(program[q])
    <3>1. DoIf(q).next = q + 1
      BY <2>2, <2>3, <2>6 DEF IfFrom
    <3>2. \A j \in q..(q + 1) - 1 : j = q
      BY <1>1
    <3> QED BY <2>4, <2>5, <3>1, <3>2
  <2>7. CASE ~Holds(program[q])
    <3>1. PICK words : words = {"else", "elif", "endif"}
      OBVIOUS
    <3>2. PICK r : r = NextBranch(q) /\ r = SkipUntil(p, words)
      BY <2>5, <3>1 DEF NextBranch
    <3>3. r <= N
      <4>1. PICK e \in p..N + 1 : e = SkipUntil(p, {"endif"})
        BY <1>1, SkipIs
      <4>2. e <= N /\ e \in p..N
        BY <1>1, <2>4, <2>5, <4>1 DEF Unmatched
      <4>3. LevelFrom(p)[e] = 0 /\ program[e].k \in {"endif"}
        BY <1>1, <4>1, <4>2, SkipIs
      <4>4. ~(e < r)
        <5>1. \A i \in p..N : i < r => ~(LevelFrom(p)[i] = 0 /\ program[i].k \in words)
          BY <1>1, <3>2, SkipIs
        <5> QED BY <3>1, <4>2, <4>3, <5>1
      <4>5. r \in p..N + 1
        BY <1>1, <3>2, SkipIs
      <4> QED BY <1>1, <4>2, <4>4, <4>5
    <3>4. Scans(p, words)
      <4>1. q \in 0..N
        BY <1>1
      <4>2. PICK a \in States : a = Reading[q] /\ a = Reading[p - 1]
        BY <2>5, <4>1 DEF Orderly, Balanced
      <4>3. Height(a) > 0 /\ a.stack[Height(a)].state # "macro"
        BY <4>2, StateIs DEF InIf, Height, Last
      <4> QED BY <3>1, <4>2, <4>3 DEF Scans, Closes
    <3>5. /\ r \in p..N /\ program[r].k \in words
          /\ ~InMacro(Reading[r]) /\ (program[r].k # "endif" => InIf(Reading[r]))
      <4>1. ~InMacro(Reading[p - 1]) /\ words \subseteq {"else", "elif", "endif"}
        BY <2>5, <3>1
      <4> QED BY <3>2, <3>3, <3>4, <4>1, StopsOutside
    <3>6. ASSUME NEW j \in q..r, OpensIf(program[j]) PROVE ~Unmatched(j)
      <4>1. CASE j = q
        BY <2>4, <4>1
      <4>2. CASE j = r
        BY <3>1, <3>5, <3>6, <4>2 DEF OpensIf
      <4>3. CASE j # q /\ j # r
        <5>1. j \in p..r - 1
          BY <1>1, <2>5, <3>5, <4>3
        <5>2. LevelFrom(p)[r] = 0
          BY <1>1, <3>2, <3>3, SkipIs
        <5> QED BY <1>1, <3>5, <3>6, <5>1, <5>2, PassedMatched
      <4> QED BY <4>1, <4>2, <4>3
    <3>7. After(r) = r + 1 /\ (r + 1) - 1 = r /\ r \in 1..N /\ r \in q + 1..N /\ r \in Nat
      BY <1>1, <2>5, <3>5 DEF After
    <3>8. CASE program[r].k # "elif"
      <4>1. DoIf(q).next = r + 1
        BY <2>2, <2>3, <2>7, <3>2, <3>7, <3>8 DEF IfFrom
      <4>2. \A j \in q..(r + 1) - 1 : j \in q..r
        BY <3>7
      <4> QED BY <3>5, <3>6, <3>7, <4>1, <4>2
    <3>9. CASE program[r].k = "elif"
      <4>1. g[r] = DoIf(r)
        BY <2>1, <3>7
      <4>2. DoIf(q).next = DoIf(r).next /\ DoIf(q).raised = Check(q) \cup DoIf(r).raised
        BY <2>2, <2>3, <2>7, <3>2, <3>3, <3>9, <4>1 DEF IfFrom
      <4>3. DoIf(r).raised = {}
        BY <4>2
      <4>4. /\ ~InMacro(Reading[DoIf(r).next - 1])
            /\ \A j \in r..DoIf(r).next - 1 : OpensIf(program[j]) => ~Unmatched(j)
        <5>1. Good(r)
          <6>1. r \in T
            BY <1>2, <3>7
          <6> QED BY <6>1
        <5> QED BY <3>5, <3>9, <4>3, <5>1
      <4>5. ASSUME NEW j \in q..DoIf(q).next - 1, OpensIf(program[j]) PROVE ~Unmatched(j)
        <5>1. DoIf(r).next \in r + 1..N + 1
          BY <1>1, <3>7, DoIfTyped
        <5>2. j \in q..r \/ j \in r..DoIf(r).next - 1
          BY <1>1, <3>7, <4>2, <5>1
        <5> QED BY <3>6, <4>4, <4>5, <5>2
      <4> QED BY <4>2, <4>4, <4>5
    <3> QED BY <3>8, <3>9
  <2> QED BY <2>6, <2>7
<1>3. 1..N \subseteq T
  <2> HIDE DEF T
  <2> QED BY <1>1, <1>2, Descent
<1> QED BY <1>3

\* Where a scan for #endif runs off the program, the #if that is open there
\* was met before, and has no end.
LEMMA RunsOff ==
  ASSUME Orderly, NEW p \in 1..N, InIf(Reading[p - 1]), program[p].k \in {"else", "elif"},
         NEW words, "endif" \in words, SkipUntil(p + 1, words) > N
  PROVE  \E q \in 1..p - 1 : OpensIf(program[q]) /\ Unmatched(q)
<1>1. N \in Nat /\ program \in Seq(Lines) /\ p \in 0..N /\ p - 1 \in 0..N /\ p \in Nat \ {0}
  BY IfsRead
<1>2. PICK x \in Nat, c \in Nat : x = Ifs(Reading[p - 1]) /\ c = Ifs(Reading[p])
  BY <1>1, IfsRead
<1>3. x > 0 /\ c = x
  <2>1. /\ Reading[p - 1] \in States /\ Reading[p] \in States /\ program[p] \in Lines
        /\ Moves(Reading[p - 1], program[p], Reading[p]) /\ OneMacro(Reading[p - 1])
    BY <1>1 DEF Orderly, Balanced
  <2>2. /\ Ifs(Reading[p - 1]) > 0
        /\ Ifs(Reading[p]) =
             Ifs(Reading[p - 1]) + IF OpensIf(program[p]) THEN 1 ELSE IF program[p].k = "endif" THEN -1 ELSE 0
    BY <2>1, IfsMove
  <2> QED BY <1>2, <2>2 DEF OpensIf
<1>4. PICK q \in 1..p : /\ OpensIf(program[q]) /\ Ifs(Reading[q]) = Ifs(Reading[p])
                        /\ \A j \in q..p : Ifs(Reading[j]) >= Ifs(Reading[p])
  <2>1. Ifs(Reading[p]) > 0
    BY <1>2, <1>3
  <2> QED BY <1>1, <2>1, OpenerOf
<1>5. q \in 1..p - 1 /\ q \in 1..N
  <2>1. q # p
    BY <1>4 DEF OpensIf
  <2> QED BY <1>1, <2>1
<1>6. ASSUME NEW j \in q..N PROVE Ifs(Reading[j]) >= Ifs(Reading[q])
  <2>1. CASE j \in q..p
    BY <1>4, <2>1
  <2>2. CASE j \notin q..p
    <3>1. PICK n \in 1..N + 1 : n = p + 1 /\ n - 1 = p
      BY <1>1
    <3>2. \A k \in n - 1..N : Ifs(Reading[k]) >= Ifs(Reading[n - 1])
      BY <3>1, NeverClosed
    <3>3. j \in n - 1..N
      BY <1>1, <1>5, <2>2, <3>1
    <3> QED BY <1>4, <3>1, <3>2, <3>3
  <2> QED BY <2>1, <2>2
<1>7. Unmatched(q)
  BY <1>5, <1>6, OpenUnmatched
<1> QED BY <1>4, <1>5, <1>7

\* The end of a macro that assembly meets leads out of it.
LEMMA MacroClear ==
  ASSUME Orderly, NEW p \in 1..N, ~InMacro(Reading[p - 1]), program[p].k = "macro",
         SkipUntil(p + 1, {"endmacro"}) <= N
  PROVE  ~InMacro(Reading[SkipUntil(p + 1, {"endmacro"})])
<1>1. N \in Nat /\ program \in Seq(Lines) /\ p \in 0..N /\ p - 1 \in 0..N /\ p \in Nat \ {0}
  BY IfsRead
<1>2. PICK b \in States : b = Reading[p - 1]
  BY <1>1 DEF Orderly, Balanced
<1>3. PICK n \in 1..N + 1 : n = p + 1 /\ n - 1 = p
  BY <1>1
<1>4. PICK a \in States : a = Reading[p] /\ a = Reading[n - 1]
  BY <1>1, <1>3 DEF Orderly, Balanced
<1>5. PICK m \in Marks : a.stack = Append(b.stack, m) /\ m.state = "macro"
  BY <1>2, <1>4 DEF Orderly, TidyLine
<1>6. /\ b.stack \in Seq(Marks) /\ Height(b) = Len(b.stack) /\ Height(a) = Len(a.stack)
      /\ Height(b) \in Nat
  BY StateIs DEF Height
<1>7. /\ Height(a) = Height(b) + 1 /\ a.stack[Height(a)] = m
      /\ \A j \in 1..Height(b) : a.stack[j] = b.stack[j]
  BY <1>5, <1>6
<1>8. \A j \in 1..Height(a) - 1 : a.stack[j].state # "macro"
  <2> TAKE j \in 1..Height(a) - 1
  <2>1. j \in 1..Height(b)
    BY <1>6, <1>7
  <2>2. b.stack[j].state # "macro"
    BY <1>2, <2>1, StateIs DEF InMacro
  <2> QED BY <1>7, <2>1, <2>2
<1>9. PICK words : words = {"endmacro"}
  OBVIOUS
<1>10. Scans(n, words)
  BY <1>4, <1>5, <1>6, <1>7, <1>9 DEF Scans, Closes
<1>11. PICK r : r = SkipUntil(n, words)
  OBVIOUS
<1>12. r \in n..N /\ LevelFrom(n)[r] = 0 /\ program[r].k = "endmacro"
  <2>1. r \in n..N + 1 /\ r <= N
    BY <1>1, <1>3, <1>9, <1>11, SkipIs
  <2>2. LevelFrom(n)[r] = 0 /\ program[r].k \in words
    BY <1>1, <1>11, <2>1, SkipIs
  <2> QED BY <1>1, <1>9, <2>1, <2>2
<1>13. r \in 1..N /\ r - 1 \in 0..N /\ r \in 0..N /\ r \in n..r
  BY <1>1, <1>12
<1>14. PICK s \in States : s = Reading[r - 1]
  BY <1>13 DEF Orderly, Balanced
<1>15. PICK t \in States : t = Reading[r]
  BY <1>13 DEF Orderly, Balanced
<1>16. OneMacro(s) /\ TidyLine(s, program[r], t)
  BY <1>13, <1>14, <1>15 DEF Orderly, Balanced
<1>17. Nested(a, s, Height(a), 0)
  <2>1. \A i \in n..r : Nested(a, Reading[i - 1], Height(a), LevelFrom(n)[i])
    BY <1>4, <1>10, <1>11, ScanNested DEF Orderly
  <2> QED BY <1>12, <1>13, <1>14, <2>1
<1>18. /\ s.stack \in Seq(Marks) /\ Height(s) = Len(s.stack) /\ Height(t) = Len(t.stack)
       /\ Height(s) \in Nat /\ Height(t) \in Nat /\ MacrosAbove(s, Height(a)) \in {0, 1}
       /\ DOMAIN s.stack = 1..Height(s) /\ DOMAIN t.stack = 1..Height(t)
  BY StateIs DEF Height, MacrosAbove
<1>19. Height(s) = Height(a) + MacrosAbove(s, Height(a)) /\ s.stack[Height(a)].state = "macro"
  BY <1>5, <1>6, <1>7, <1>17, <1>18 DEF Nested
<1>20. MacrosAbove(s, Height(a)) = 0
  <2> SUFFICES ASSUME MacrosAbove(s, Height(a)) = 1 PROVE FALSE
    BY <1>18
  <2>1. PICK j \in Height(a) + 1..Height(s) : s.stack[j].state = "macro"
    BY DEF MacrosAbove
  <2>2. j \in 1..Height(s) /\ Height(a) \in 1..Height(s) /\ j # Height(a)
    BY <1>6, <1>7, <1>19, <2>1
  <2> QED BY <1>16, <1>19, <2>1, <2>2 DEF OneMacro
<1>21. Height(s) = Height(a)
  BY <1>6, <1>7, <1>19, <1>20
<1>22. InMacro(s) /\ ~InIf(s)
  <2>1. Height(s) \in 1..Height(s)
    BY <1>6, <1>7, <1>21
  <2> QED BY <1>18, <1>19, <1>21, <2>1 DEF InMacro, InIf, Last, Height
<1>23. Left(s, t)
  BY <1>12, <1>16, <1>22 DEF TidyLine
<1>24. Height(t) = Height(a) - 1 /\ \A j \in 1..Height(t) : t.stack[j] = s.stack[j]
  <2>1. s.stack # <<>> /\ t.stack = SubSeq(s.stack, 1, Height(s) - 1)
    BY <1>23 DEF Left
  <2>2. Height(t) = Height(s) - 1 /\ \A j \in 1..Height(t) : t.stack[j] = s.stack[j]
    BY <1>6, <1>7, <1>18, <1>21, <2>1
  <2> QED BY <1>21, <2>2
<1>25. ~InMacro(t)
  <2> SUFFICES ASSUME NEW j \in 1..Height(t), t.stack[j].state = "macro" PROVE FALSE
    BY <1>18 DEF InMacro
  <2>1. j \in 1..Height(a) - 1
    BY <1>24
  <2>2. t.stack[j] = s.stack[j] /\ s.stack[j] = a.stack[j]
    BY <1>17, <1>24, <2>1 DEF Nested
  <2> QED BY <1>8, <2>1, <2>2
<1> QED BY <1>3, <1>9, <1>11, <1>15, <1>25

LEMMA NothingOpenKept == IInv /\ NothingOpen /\ [Next]_vars => NothingOpen'
<1> SUFFICES ASSUME IInv, NothingOpen, [Next]_vars PROVE NothingOpen'
  OBVIOUS
<1>1. /\ program \in Seq(Lines) /\ N \in Nat /\ pos \in 1..N + 1
      /\ pos <= N => program[pos] \in Lines /\ program[pos].k \in Kinds /\ pos + 1 \in 1..N + 1
  BY Facts DEF IInv
<1>2. program' = program /\ errors \subseteq errors'
  BY DEF Next, If, Ifdef, Elif, Else, Endif, Comment, Macro, Define, Text, Finished, At, vars
<1>3. /\ Reading' = Reading /\ N' = N
      /\ \A q : Unmatched(q)' = Unmatched(q)
  BY <1>2 DEF Reading, N, Unmatched, SkipUntil
<1>4. Tidy' = Tidy
  BY <1>2, <1>3 DEF Tidy, NothingStray
<1> SUFFICES ASSUME Tidy, errors' = {} PROVE Clear(pos')
  <2>1. NothingOpen' = (Tidy' => errors' # {} \/
          (~InMacro(Reading'[pos' - 1])
           /\ \A q \in 1..N' : q < pos' /\ OpensIf(program'[q]) => ~Unmatched(q)'))
    BY DEF NothingOpen, Clear, InMacro
  <2>2. Tidy /\ errors' = {} => Clear(pos')
    OBVIOUS
  <2> QED BY <1>2, <1>3, <1>4, <2>1, <2>2 DEF Clear
<1>5. Orderly
  BY <1>1, TidyOrderly
<1>6. errors = {} /\ Clear(pos)
  BY <1>2 DEF NothingOpen
<1>7. CASE UNCHANGED vars
  BY <1>6, <1>7 DEF vars
<1>8. ASSUME Next, pos <= N PROVE Clear(pos')
  <2>1. /\ pos \in 1..N /\ (pos + 1) - 1 = pos /\ pos \in 0..N /\ pos - 1 \in 0..N /\ pos \in Nat \ {0}
        /\ program[pos] \in Lines
    BY <1>1, <1>8
  <2>2. PICK s \in States : s = Reading[pos - 1]
    BY <1>5, <2>1 DEF Orderly, Balanced
  <2>3. PICK a \in States : a = Reading[pos]
    BY <1>5, <2>1 DEF Orderly, Balanced
  <2>4. TidyLine(s, program[pos], a) /\ OneMacro(s) /\ ~InMacro(s)
    BY <1>5, <1>6, <2>1, <2>2, <2>3 DEF Orderly, Balanced, Clear
  <2>5. /\ program[pos].k # "macro" => ~InMacro(a)
        /\ program[pos].k \in {"else", "elif"} => InIf(s) /\ InIf(a)
        /\ OpensIf(program[pos]) => InIf(a)
    <3>1. Moves(s, program[pos], a)
      BY <2>4 DEF TidyLine
    <3>2. program[pos].k # "macro" => ~InMacro(a)
      BY <2>1, <2>4, <3>1, IfsMove
    <3>3. program[pos].k \in {"else", "elif"} => InIf(s)
      BY <2>4 DEF TidyLine
    <3>4. program[pos].k \in {"else", "elif"} => InIf(a)
      BY <2>1, <3>1, <3>3, BranchKeepsIf
    <3>5. ASSUME OpensIf(program[pos]) PROVE InIf(a)
      <4>1. PICK m \in Marks : a.stack = Append(s.stack, m) /\ m.state # "macro"
        BY <3>1, <3>5 DEF Moves, OpensIf
      <4>2. s.stack \in Seq(Marks)
        BY StateIs
      <4>3. a.stack # <<>> /\ a.stack[Len(a.stack)] = m
        BY <4>1, <4>2
      <4> QED BY <4>1, <4>3 DEF InIf, Last
    <3> QED BY <3>2, <3>3, <3>4, <3>5
  <2>6. ASSUME NEW n \in pos + 1..N + 1, ~InMacro(Reading[n - 1]),
               \A q \in pos..n - 1 : OpensIf(program[q]) => ~Unmatched(q)
        PROVE  Clear(n)
    <3>1. ASSUME NEW q \in 1..N, q < n, OpensIf(program[q]) PROVE ~Unmatched(q)
      <4>1. q < pos \/ q \in pos..n - 1
        BY <1>1, <3>1
      <4> QED BY <1>6, <2>6, <3>1, <4>1 DEF Clear
    <3> QED BY <2>6, <3>1 DEF Clear
  <2>7. ASSUME program[pos].k # "macro", ~OpensIf(program[pos]) PROVE Clear(pos + 1)
    <3>1. pos + 1 \in pos + 1..N + 1 /\ \A q \in pos..(pos + 1) - 1 : q = pos
      BY <1>1, <2>1
    <3> QED BY <2>1, <2>3, <2>5, <2>6, <2>7, <3>1
  <2>8. ASSUME NEW words, words \cap {"if", "ifdef", "ifndef"} = {}, program[pos].k \in {"else", "elif", "macro"},
               SkipUntil(pos + 1, words) <= N, ~InMacro(Reading[SkipUntil(pos + 1, words)])
        PROVE  Clear(After(SkipUntil(pos + 1, words)))
    <3>1. PICK r : r = SkipUntil(pos + 1, words)
      OBVIOUS
    <3>2. r \in pos + 1..N /\ LevelFrom(pos + 1)[r] = 0 /\ program[r].k \in words
      <4>1. pos + 1 \in 1..N + 1
        BY <1>1, <2>1
      <4>2. r \in pos + 1..N + 1 /\ r <= N
        BY <1>1, <2>8, <3>1, <4>1, SkipIs
      <4>3. LevelFrom(pos + 1)[r] = 0 /\ program[r].k \in words
        BY <1>1, <3>1, <4>1, <4>2, SkipIs
      <4> QED BY <1>1, <4>2, <4>3
    <3>3. After(r) = r + 1 /\ r + 1 \in pos + 1..N + 1 /\ (r + 1) - 1 = r
      BY <1>1, <2>1, <3>2 DEF After
    <3>4. ASSUME NEW q \in pos..(r + 1) - 1, OpensIf(program[q]) PROVE ~Unmatched(q)
      <4>1. q # pos
        BY <2>8, <3>4 DEF OpensIf
      <4>2. q # r
        BY <2>8, <3>2, <3>4 DEF OpensIf
      <4>3. q \in pos + 1..r - 1 /\ pos + 1 \in 1..N + 1
        BY <1>1, <2>1, <3>2, <3>3, <4>1, <4>2
      <4> QED BY <1>1, <3>2, <3>4, <4>3, PassedMatched
    <3> QED BY <2>6, <2>8, <3>1, <3>3, <3>4
  <2>9. ASSUME NEW words, words \subseteq {"else", "elif", "endif"}, "endif" \in words,
               program[pos].k \in {"else", "elif"}
        PROVE  Clear(After(SkipUntil(pos + 1, words)))
    <3>1. PICK p \in 1..N + 1 : p = pos + 1 /\ p - 1 = pos
      BY <1>1, <2>1
    <3>2. SkipUntil(p, words) <= N
      <4> SUFFICES ASSUME SkipUntil(p, words) > N PROVE FALSE
        <5>1. SkipUntil(p, words) \in p..N + 1
          BY <1>1, SkipIs
        <5> QED BY <1>1, <3>1, <5>1
      <4>1. PICK q \in 1..pos - 1 : OpensIf(program[q]) /\ Unmatched(q)
        BY <1>5, <2>1, <2>2, <2>5, <2>9, <3>1, RunsOff
      <4>2. q \in 1..N /\ q < pos
        BY <1>1, <2>1
      <4> QED BY <1>6, <4>1, <4>2 DEF Clear
    <3>3. Scans(p, words)
      <4>1. Height(a) > 0 /\ a.stack[Height(a)].state # "macro"
        BY <2>5, <2>9, StateIs DEF InIf, Height, Last
      <4> QED BY <2>3, <2>9, <3>1, <4>1 DEF Scans, Closes
    <3>4. ~InMacro(Reading[SkipUntil(p, words)])
      <4>1. ~InMacro(Reading[p - 1])
        BY <2>3, <2>5, <2>9, <3>1
      <4> QED BY <1>5, <2>9, <3>2, <3>3, <4>1, StopsOutside
    <3>5. words \cap {"if", "ifdef", "ifndef"} = {}
      BY <2>9
    <3> QED BY <2>8, <2>9, <3>1, <3>2, <3>4, <3>5
  <2>10. ASSUME OpensIf(program[pos]), pos' = DoIf(pos).next, errors' = errors \cup DoIf(pos).raised
         PROVE  Clear(pos')
    <3>1. DoIf(pos).raised = {}
      BY <2>10
    <3>2. ~InMacro(a) /\ InIf(a)
      BY <2>5, <2>10 DEF OpensIf
    <3>3. /\ ~InMacro(Reading[DoIf(pos).next - 1])
          /\ \A j \in pos..DoIf(pos).next - 1 : OpensIf(program[j]) => ~Unmatched(j)
      BY <1>5, <2>1, <2>3, <3>1, <3>2, DoIfClear
    <3>4. DoIf(pos).next \in pos + 1..N + 1
      BY <1>1, <2>1, DoIfTyped
    <3> QED BY <2>6, <2>10, <3>3, <3>4
  <2>11. CASE If
    BY <2>10, <2>11 DEF If, At, OpensIf
  <2>12. CASE Ifdef
    BY <2>10, <2>12 DEF Ifdef, At, OpensIf
  <2>13. CASE Elif
    BY <2>9, <2>13 DEF Elif, At
  <2>14. CASE Else
    <3>1. program[pos].k = "else"
      BY <2>14 DEF Else, At
    <3>2. CASE nIfLevel = 0
      BY <2>14, <3>2 DEF Else
    <3>3. CASE nIfLevel # 0
      <4>1. PICK words : words = {"else", "elif", "endif"}
        OBVIOUS
      <4>2. Clear(After(SkipUntil(pos + 1, words)))
        BY <2>9, <3>1, <4>1
      <4> QED BY <2>14, <3>3, <4>1, <4>2 DEF Else
    <3> QED BY <3>2, <3>3
  <2>15. CASE Endif
    BY <2>7, <2>15 DEF Endif, At, OpensIf
  <2>16. CASE Comment
    BY <2>1, <2>16 DEF Comment, At, Tidy
  <2>17. CASE Macro
    <3>1. program[pos].k = "macro" /\ pos' = After(SkipUntil(pos + 1, {"endmacro"}))
      BY <2>17 DEF Macro, At
    <3>2. SkipUntil(pos + 1, {"endmacro"}) <= N
      <4>1. ~(SkipUntil(pos + 1, {"endmacro"}) > N)
        BY <2>17 DEF Macro
      <4>2. SkipUntil(pos + 1, {"endmacro"}) \in pos + 1..N + 1
        BY <1>1, <1>8, SkipIs
      <4> QED BY <1>1, <2>1, <4>1, <4>2
    <3>3. ~InMacro(Reading[SkipUntil(pos + 1, {"endmacro"})])
      BY <1>5, <2>1, <2>2, <2>4, <3>1, <3>2, MacroClear
    <3>4. {"endmacro"} \cap {"if", "ifdef", "ifndef"} = {}
      OBVIOUS
    <3> QED BY <2>8, <3>1, <3>2, <3>3, <3>4
  <2>18. CASE Define
    BY <2>7, <2>18 DEF Define, At, OpensIf
  <2>19. CASE Text
    BY <2>7, <2>19 DEF Text, At, OpensIf
  <2>20. CASE Finished
    BY <1>6, <2>20 DEF Finished, vars
  <2> QED BY <1>8, <2>11, <2>12, <2>13, <2>14, <2>15, <2>16, <2>17, <2>18, <2>19, <2>20 DEF Next
<1>9. ASSUME Next, ~(pos <= N) PROVE UNCHANGED vars
  BY <1>1, <1>9 DEF Next, If, Ifdef, Elif, Else, Endif, Comment, Macro, Define, Text, Finished, At
<1> QED BY <1>7, <1>8, <1>9

LEMMA NothingOpenStarted == Init => NothingOpen
<1> SUFFICES ASSUME Init, Tidy PROVE Clear(pos)
  BY DEF NothingOpen
<1>1. program \in Seq(Lines)
  BY ConditionalsAssumption DEF Init
<1>2. Orderly
  BY <1>1, TidyOrderly
<1>3. pos = 1 /\ pos - 1 = 0 /\ \A q \in 1..N : ~(q < pos)
  BY <1>2, IfsRead DEF Init
<1> QED BY <1>2, <1>3 DEF Clear, Orderly

LEMMA NothingOpenReports == IInv /\ NothingOpen => UnbalancedReported
<1> SUFFICES ASSUME IInv, NothingOpen, pos > N, errors = {}, Tidy PROVE Reading[N].stack = <<>>
  BY DEF UnbalancedReported, Tidy
<1>1. program \in Seq(Lines) /\ pos \in 1..N + 1
  BY Facts DEF IInv
<1>2. Orderly
  BY <1>1, TidyOrderly
<1>3. N \in Nat /\ N \in 0..N /\ pos - 1 = N
  BY <1>1, <1>2, IfsRead
<1>4. /\ ~InMacro(Reading[N])
      /\ \A q \in 1..N : OpensIf(program[q]) => ~Unmatched(q)
  <2>1. Clear(pos) /\ \A q \in 1..N : q < pos
    BY <1>1, <1>3 DEF NothingOpen
  <2> QED BY <1>3, <2>1 DEF Clear
<1>5. PICK s \in States : s = Reading[N]
  BY <1>2, <1>3 DEF Orderly, Balanced
<1>6. Height(s) \in Nat /\ (s.stack # <<>> <=> Height(s) > 0)
  BY StateIs
<1> SUFFICES ASSUME Height(s) > 0 PROVE FALSE
  BY <1>5, <1>6
<1>7. Ifs(Reading[N]) > 0
  <2>1. Ifs(s) = Height(s) - 0
    BY <1>4, <1>5 DEF Ifs
  <2> QED BY <1>5, <1>6, <2>1
<1>8. PICK q \in 1..N : /\ OpensIf(program[q]) /\ Ifs(Reading[q]) = Ifs(Reading[N])
                        /\ \A j \in q..N : Ifs(Reading[j]) >= Ifs(Reading[N])
  BY <1>2, <1>3, <1>7, OpenerOf
<1>9. Unmatched(q)
  BY <1>2, <1>8, OpenUnmatched
<1> QED BY <1>4, <1>8, <1>9

\* A program without comments in which an #if or #macro has no end is never
\* assembled without an error, wherever the scans skip to: every #if before
\* the line assembly is at has its end, or an error was raised.
THEOREM UnbalancedIsReported == Spec => []UnbalancedReported
<1>1. IInv /\ NothingOpen /\ [Next]_vars => (IInv /\ NothingOpen)'
  BY TypeKept, AlignedKept, NothingOpenKept DEF IInv
<1>2. Init => IInv /\ NothingOpen
  BY Started, NothingOpenStarted
<1> QED BY <1>1, <1>2, NothingOpenReports, PTL DEF Spec
=============================================================================
