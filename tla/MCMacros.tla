------------------------------ MODULE MCMacros ------------------------------
(***************************************************************************)
(* Programs for TLC: two lines of a macro m(x, y), one of a macro n that m *)
(* may invoke, and three lines that use them.                              *)
(***************************************************************************)
EXTENDS Macros

Emits(e) == [kind |-> "emit", expr |-> e]
Invokes(m, args) == [kind |-> "invoke", name |-> m, args |-> args]
Defines(x, e) == [kind |-> "define", name |-> x, expr |-> e]
Undefs(x) == [kind |-> "undef", name |-> x]
LabelLine(x) == [kind |-> "label", name |-> x]

MainLines ==
  {Invokes("m", <<<<Here>>, <<Name("u"), Number(1)>>>>),
   Invokes("m", <<<<Name("g")>>, <<Name("x")>>, <<Number(3)>>>>),
   Invokes("m", <<<<Name("g"), Number(1)>>>>),
   Invokes("n", <<>>),
   Defines("g", <<Number(2)>>), LabelLine("u"), Defines("x", <<Number(5)>>)}

MLines ==
  {Emits(<<Name("x"), Name("y")>>), Invokes("n", <<<<Name("x")>>>>),
   Invokes("n", <<<<Name("y")>>, <<Name("x")>>>>), Invokes("n", <<<<Name("u"), Name("x")>>>>),
   Defines("x", <<Name("x"), Number(1)>>), Defines("g", <<Number(7)>>), Undefs("x")}

NMacros ==
  {[params |-> <<"z">>, lines |-> <<Defines("z", <<Name("z"), Number(4)>>), Emits(<<Name("z"), Name("x")>>)>>],
   [params |-> <<"x">>, lines |-> <<Emits(<<Name("x"), Name("y"), Here>>)>>],
   [params |-> <<"x", "y">>, lines |-> <<LabelLine("x"), Emits(<<Name("x")>>), Emits(<<Name("u"), Name("y")>>)>>],
   [params |-> <<"u">>, lines |-> <<LabelLine("u"), Emits(<<Name("u"), Name("x")>>)>>],
   [params |-> <<>>, lines |-> <<LabelLine("u"), Emits(<<Name("u"), Name("g")>>)>>]}

MCPrograms ==
  {[macros |-> [m |-> [params |-> <<"x", "y">>, lines |-> body], n |-> n], main |-> main] :
     body \in [1..2 -> MLines], n \in NMacros, main \in [1..3 -> MainLines]}

SwapPrograms ==
  {[macros |-> [m |-> [params |-> <<"x", "y">>, lines |-> body], n |-> n], main |-> main] :
     body \in [1..1 -> MLines], n \in NMacros, main \in [1..2 -> MainLines]}
=============================================================================
