------------------------------- MODULE Macros -------------------------------
(***************************************************************************)
(* Macros and their arguments: pass_one.cpp, utils.cpp, storage.cpp.       *)
(*                                                                         *)
(* Invoking a macro pushes a table of its arguments on arg_list and runs   *)
(* its lines as if they stood in place of the invocation; a name is looked *)
(* up in the tables of all the macros being run, innermost first.  An      *)
(* argument is evaluated where the macro is invoked.  If that fails, its   *)
(* text is kept, with the names that are known replaced, to be read again  *)
(* wherever the macro uses it.                                             *)
(*                                                                         *)
(* The history variable scopes holds what the arguments should be: the     *)
(* same tables with every argument as its invoker meant it.                *)
(***************************************************************************)
EXTENDS Expression

CONSTANT Programs  \* a program: the macros it defines, and its other lines

\* Lines of a program whose macros have these names.
Lines(macros) ==
  [kind : {"emit"}, expr : Seq(Term)]
    \cup [kind : {"invoke"}, name : macros, args : Seq(Seq(Term))]
    \cup [kind : {"define"}, name : Names, expr : Seq(Term)]
    \cup [kind : {"undef", "label"}, name : Names]

ASSUME MacrosAssumption ==
  \A p \in Programs :
    /\ p.main \in Seq(Lines(DOMAIN p.macros))
    /\ \A m \in DOMAIN p.macros : /\ p.macros[m].params \in Seq(Names)
                                  /\ p.macros[m].lines \in Seq(Lines(DOMAIN p.macros))

VARIABLES
  program,
  running,          \* what is being run, innermost first: the lines left, and
                    \* whether it has a table of arguments; last, the program
  arg_list,         \* tables of arguments, innermost first: name -> contents
  labels,           \* label table: name -> value
  defines,          \* define table: name -> contents
  program_counter,
  out,              \* arguments of the instructions written so far
  failed,           \* a fatal error was raised
  scopes,           \* history: the arguments as their invokers meant them
  captured          \* history: an argument's text came to stand for something else

vars == <<program, running, arg_list, labels, defines, program_counter, out, failed, scopes, captured>>

symbols == <<labels, defines>>

Env == [args |-> arg_list, labels |-> labels, defines |-> defines, pc |-> program_counter,
        marks |-> <<>>, cur |-> 0]

\* A table with a new entry, or with another value in an old one.
Insert(table, x, v) == [y \in DOMAIN table \cup {x} |-> IF y = x THEN v ELSE table[y]]

Macro(s) == program.macros[s.name]

\* s is the next line.
Reads(s) ==
  /\ running # <<>> /\ Head(running).lines # <<>> /\ s = Head(Head(running).lines)
  /\ UNCHANGED program

\* What is running once that line has been read.
Rest == <<[Head(running) EXCEPT !.lines = Tail(@)]>> \o Tail(running)

(***************************************************************************)
(* eval and parse_args.                                                    *)
(***************************************************************************)
\* Mutant: the argument is not evaluated but kept as text.
Eval_Text(env, e) == e

Eval(env, e) ==
  LET r == ParseNum(env, e)
  IN IF r.ok THEN <<Number(r.v)>> ELSE ExpandExpr(env, e)

\* The table of a macro's arguments.  It is on arg_list while it is filled,
\* so an argument sees those before it.  Parameters left over have no value.
ParseArgs(s) ==
  LET params == Macro(s).params
      table[i \in 0..Len(params)] ==
        IF i = 0 THEN <<>>
        ELSE LET filled == table[i - 1]
             IN Insert(filled, params[i],
                       IF i > Len(s.args) THEN NoValue
                       ELSE Eval([Env EXCEPT !.args = <<filled>> \o @], s.args[i]))
  IN table[Len(params)]

TooMany(s) == Len(s.args) > Len(Macro(s).params)

\* An invocation without parentheses of a macro without parameters.
Bare(s) == s.args = <<>> /\ Macro(s).params = <<>>

(***************************************************************************)
(* What the arguments should be.                                           *)
(***************************************************************************)
Mentions(e) == {e[i].x : i \in {j \in DOMAIN e : e[j].k = "name"}}

\* A sum with the names that are known by now replaced, but for arguments.
Known(e) ==
  LET term(t) ==
        CASE t.k = "here" -> <<Number(program_counter)>>
          [] t.k = "name" /\ t.x \in DOMAIN labels -> <<Number(labels[t.x])>>
          [] t.k = "name" /\ t.x \in DOMAIN defines \ DOMAIN labels -> defines[t.x]
          [] OTHER -> <<t>>
  IN FlattenSeq([i \in DOMAIN e |-> term(e[i])])

Invalid == [Here EXCEPT !.k = "syntax"]

\* The sum e means where it stands, as an invoker's names and numbers.
Meant(e) ==
  LET term(t) ==
        IF t.k = "name" /\ Bound(scopes, t.x)
        THEN LET v == scopes[Innermost(scopes, t.x)][t.x]
             IN IF v = NoValue THEN <<Invalid>> ELSE Known(v)
        ELSE Known(<<t>>)
  IN FlattenSeq([i \in DOMAIN e |-> term(e[i])])

Scope(s) ==
  [x \in DOMAIN ParseArgs(s) |->
     LET i == CHOOSE j \in DOMAIN Macro(s).params : Macro(s).params[j] = x
     IN IF i > Len(s.args) THEN NoValue ELSE Meant(s.args[i])]

\* An argument names a parameter before it; a text kept for later names a
\* parameter, of this macro or of one that runs inside of it, or is relative to $.
Captures(s) ==
  LET params == Macro(s).params
      names == {params[j] : j \in DOMAIN params}
      tables == <<ParseArgs(s)>> \o arg_list
  IN \/ \E i \in DOMAIN s.args \cap DOMAIN params, j \in DOMAIN params :
          j < i /\ params[j] \in Mentions(s.args[i])
     \/ \E i \in DOMAIN tables : \E x \in DOMAIN tables[i] :
          \/ Mentions(tables[i][x]) \cap names # {}
          \/ \E k \in DOMAIN tables[i][x] : tables[i][x][k].k = "here"

(***************************************************************************)
(* Actions.                                                                *)
(***************************************************************************)
Init ==
  /\ program \in Programs
  /\ running = <<[lines |-> program.main, table |-> FALSE]>>
  /\ arg_list = <<>> /\ labels = <<>> /\ defines = <<>> /\ program_counter = 0
  /\ out = <<>> /\ failed = FALSE
  /\ scopes = <<>> /\ captured = FALSE

\* Mutant: the arguments are not removed when there are too many.
Invoke_KeepsTable(s) ==
  /\ s.kind = "invoke" /\ Reads(s)
  /\ IF TooMany(s)
     THEN failed' = TRUE /\ running' = Rest /\ arg_list' = <<ParseArgs(s)>> \o arg_list
          /\ UNCHANGED <<scopes, captured>>
     ELSE /\ running' = <<[lines |-> Macro(s).lines, table |-> ~Bare(s)]>> \o Rest
          /\ arg_list' = IF Bare(s) THEN arg_list ELSE <<ParseArgs(s)>> \o arg_list
          /\ scopes' = IF Bare(s) THEN scopes ELSE <<Scope(s)>> \o scopes
          /\ captured' = (captured \/ Captures(s))
          /\ UNCHANGED failed
  /\ UNCHANGED <<symbols, program_counter, out>>

\* The warning about an argument too many counts as fatal: the macro is not
\* run and its arguments are removed at once.
Invoke(s) ==
  /\ s.kind = "invoke" /\ Reads(s)
  /\ IF TooMany(s)
     THEN failed' = TRUE /\ running' = Rest /\ UNCHANGED <<arg_list, scopes, captured>>
     ELSE /\ running' = <<[lines |-> Macro(s).lines, table |-> ~Bare(s)]>> \o Rest
          /\ arg_list' = IF Bare(s) THEN arg_list ELSE <<ParseArgs(s)>> \o arg_list
          /\ scopes' = IF Bare(s) THEN scopes ELSE <<Scope(s)>> \o scopes
          /\ captured' = (captured \/ Captures(s))
          /\ UNCHANGED failed
  /\ UNCHANGED <<symbols, program_counter, out>>

\* The lines of a macro have been run.
Return ==
  /\ Len(running) > 1 /\ Head(running).lines = <<>>
  /\ running' = Tail(running)
  /\ arg_list' = IF Head(running).table THEN Tail(arg_list) ELSE arg_list
  /\ scopes' = IF Head(running).table THEN Tail(scopes) ELSE scopes
  /\ UNCHANGED <<program, symbols, program_counter, out, failed, captured>>

\* Mutant: an argument that fails is passed over without an error.
Emit_Silent(s) ==
  LET r == ParseNum(Env, s.expr)
  IN /\ s.kind = "emit" /\ Reads(s)
     /\ running' = Rest
     /\ program_counter' = program_counter + 2
     /\ out' = IF r.ok \/ Deferrable(r)
               THEN Append(out, [ok |-> r.ok, v |-> r.v, pc |-> program_counter, meant |-> Meant(s.expr),
                                 expr |-> IF r.ok THEN s.expr ELSE ExpandExpr(Env, s.expr)])
               ELSE out
     /\ UNCHANGED <<arg_list, symbols, failed, scopes, captured>>

\* An instruction of two bytes, an opcode and the argument: add_pass_two_expr.
Emit(s) ==
  LET r == ParseNum(Env, s.expr)
  IN /\ s.kind = "emit" /\ Reads(s)
     /\ running' = Rest
     /\ program_counter' = program_counter + 2
     /\ IF r.ok \/ Deferrable(r)
        THEN /\ out' = Append(out, [ok |-> r.ok, v |-> r.v, pc |-> program_counter, meant |-> Meant(s.expr),
                                    expr |-> IF r.ok THEN s.expr ELSE ExpandExpr(Env, s.expr)])
             /\ UNCHANGED failed
        ELSE failed' = TRUE /\ UNCHANGED out
     /\ UNCHANGED <<arg_list, symbols, scopes, captured>>

\* set_define: a redefinition replaces its references to itself.
NewContents(x, e) ==
  IF Contents(Env, x) = NoValue THEN e
  ELSE ExpandExpr([args |-> <<>>, labels |-> labels, defines |-> [y \in {x} |-> Contents(Env, x)]], e)

\* Mutant: add_define does not look at the arguments.
Define_Global(s) ==
  /\ s.kind = "define" /\ Reads(s)
  /\ running' = Rest
  /\ IF s.name \in DOMAIN labels THEN UNCHANGED defines
     ELSE defines' = Insert(defines, s.name, NewContents(s.name, s.expr))
  /\ UNCHANGED <<arg_list, scopes, labels, program_counter, out, failed, captured>>

\* #define of a parameter changes the argument, of any other name the global.
Define(s) ==
  LET x == s.name
      i == Innermost(arg_list, x)
  IN /\ s.kind = "define" /\ Reads(s)
     /\ running' = Rest
     /\ IF x \in DOMAIN labels THEN UNCHANGED <<arg_list, scopes, defines>>
        ELSE IF Bound(arg_list, x)
        THEN /\ arg_list' = [arg_list EXCEPT ![i][x] = NewContents(x, s.expr)]
             /\ scopes' = [scopes EXCEPT ![i][x] = Meant(s.expr)]
             /\ UNCHANGED defines
        ELSE /\ defines' = Insert(defines, x, NewContents(x, s.expr))
             /\ UNCHANGED <<arg_list, scopes>>
     /\ UNCHANGED <<labels, program_counter, out, failed, captured>>

\* remove_define looks at no arguments.
Undef(s) ==
  /\ s.kind = "undef" /\ Reads(s)
  /\ running' = Rest
  /\ defines' = [x \in DOMAIN defines \ {s.name} |-> defines[x]]
  /\ UNCHANGED <<arg_list, scopes, labels, program_counter, out, failed, captured>>

\* add_label: an argument or #define of the name is in its way.
Label(s) ==
  /\ s.kind = "label" /\ Reads(s)
  /\ running' = Rest
  /\ labels' = IF Bound(arg_list, s.name) \/ s.name \in DOMAIN defines THEN labels
               ELSE Insert(labels, s.name, program_counter)
  /\ UNCHANGED <<arg_list, scopes, defines, program_counter, out, failed, captured>>

EndOfProgram ==
  /\ Len(running) = 1 /\ Head(running).lines = <<>>
  /\ running' = <<>>
  /\ UNCHANGED <<program, arg_list, symbols, program_counter, out, failed, scopes, captured>>

Done == running = <<>> /\ UNCHANGED vars

Step ==
  /\ running # <<>> /\ Head(running).lines # <<>>
  /\ LET s == Head(Head(running).lines)
     IN Invoke(s) \/ Emit(s) \/ Define(s) \/ Undef(s) \/ Label(s)

Next == Step \/ Return \/ EndOfProgram \/ Done

Spec == Init /\ [][Next]_vars

(***************************************************************************)
(* Properties.                                                             *)
(***************************************************************************)
Tables(l) == \A i \in DOMAIN l : \A x \in DOMAIN l[i] : x \in Names /\ l[i][x] \in Seq(Term)

\* Every variable has its type.
TypeOK ==
  /\ \A i \in DOMAIN running : running[i].table \in BOOLEAN
  /\ Tables(arg_list) /\ Tables(scopes) /\ Tables(<<defines>>)
  /\ \A x \in DOMAIN labels : x \in Names /\ labels[x] \in Nat
  /\ program_counter = 2 * Len(out) \/ failed
  /\ captured \in BOOLEAN

\* The tables of arguments are those of the macros being run, however an
\* invocation or a line of a macro failed: none is left behind by an
\* invocation that was given up, and none is left when the program ends.
TablesFollowMacros ==
  /\ Len(arg_list) = Cardinality({i \in DOMAIN running : running[i].table})
  /\ Len(scopes) = Len(arg_list)
  /\ \A i \in DOMAIN arg_list : DOMAIN arg_list[i] = DOMAIN scopes[i]

\* What an argument written to the output reads as after pass two.
Final(o) ==
  IF o.ok THEN Good(o.v) ELSE ParseNum([Env EXCEPT !.pc = o.pc], o.expr)

\* Every argument that reaches the output through macros has the value its
\* invoker meant, whether it was known there or later, whatever #defines and
\* labels the macros redefined in between and however deep it was passed on.
ArgumentsMeanTheSame ==
  running = <<>> /\ ~failed /\ ~captured =>
    \A i \in DOMAIN out :
      LET is == Final(out[i])
          meant == ParseNum(Env, out[i].meant)
      IN is.ok = meant.ok /\ is.v = meant.v

\* The same without a restriction on the names of parameters.
ArgumentsMeanTheSameUnderAnyNames ==
  running = <<>> /\ ~failed =>
    \A i \in DOMAIN out :
      LET is == Final(out[i])
          meant == ParseNum(Env, out[i].meant)
      IN is.ok = meant.ok /\ is.v = meant.v

\* While a name is a parameter of a macro that runs, no #define and no label
\* line changes what it stands for outside of the macro.
ParametersShadow ==
  [][\A x \in Names :
       Bound(arg_list, x) =>
         /\ (x \in DOMAIN defines' => x \in DOMAIN defines /\ defines'[x] = defines[x])
         /\ (x \in DOMAIN labels' => x \in DOMAIN labels /\ labels'[x] = labels[x])]_vars
=============================================================================
