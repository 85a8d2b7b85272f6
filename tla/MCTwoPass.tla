------------------------------ MODULE MCTwoPass ------------------------------
(***************************************************************************)
(* Programs for TLC: each set gives the statements a run may put in any    *)
(* order.                                                                  *)
(***************************************************************************)
EXTENDS TwoPass

LabelLine(x) == [kind |-> "label", name |-> x]
ReusableLine == [kind |-> "reusable"]
Equ(e) == [kind |-> "equ", expr |-> e]
Assign(e) == [kind |-> "=", expr |-> e]
DefineLine(x, e) == [kind |-> "define", name |-> x, expr |-> e]
Db(e) == [kind |-> "data", type |-> "NUM_8", size |-> 0, orv |-> 0, expr |-> e]
Dw(e) == [kind |-> "data", type |-> "NUM_16", size |-> 0, orv |-> 0, expr |-> e]
Dl(e) == [kind |-> "data", type |-> "NUM_24", size |-> 0, orv |-> 0, expr |-> e]
Jr(e) == [kind |-> "instruction", type |-> "ADDR_OFFSET", size |-> 2, orv |-> 0,
          opcode |-> <<24>>, expr |-> e]
Jp(e) == [kind |-> "instruction", type |-> "NUM_16", size |-> 3, orv |-> 0,
          opcode |-> <<195>>, expr |-> e]
Rst(e) == [kind |-> "instruction", type |-> "RST", size |-> 1, orv |-> 0,
           opcode |-> <<>>, expr |-> e]
BitA(e) == [kind |-> "instruction", type |-> "BIT_NUM", size |-> 2, orv |-> 71,
            opcode |-> <<203>>, expr |-> e]
LdIx(e) == [kind |-> "instruction", type |-> "IX_IY_OFFSET", size |-> 3, orv |-> 0,
            opcode |-> <<221, 126>>, expr |-> e]
OrgLine(e) == [kind |-> "org", expr |-> e]
FillLine(e) == [kind |-> "fill", expr |-> e, value |-> <<>>]
FillWith(e, v) == [kind |-> "fill", expr |-> e, value |-> v]
ImportLine(b) == [kind |-> "import", bytes |-> b]
ErrorLine == [kind |-> "error"]
OptionLine(x, e) == [kind |-> "option", name |-> x, expr |-> e]
EchoLine(e) == [kind |-> "echo", expr |-> e]
ShowLine(x) == [kind |-> "show", name |-> x]
SeekLine(e) == [kind |-> "seek", expr |-> e]

(***************************************************************************)
(* Labels, reusable labels and relocation.                                 *)
(***************************************************************************)
CodePrograms ==
  {LabelLine("a"), LabelLine("b"), ReusableLine, Jr(<<Name("a")>>), Jp(<<Name("b"), Here>>),
   Jr(<<Ahead(1)>>), Jr(<<Back(1)>>), Db(<<Ahead(2), Minus(Here)>>), BitA(<<Name("a")>>),
   OrgLine(<<Number(20)>>), FillLine(<<Name("a")>>)}

(***************************************************************************)
(* Labels given values, #defines and redefinitions of both.                *)
(***************************************************************************)
DefinePrograms ==
  {LabelLine("a"), LabelLine("b"), Equ(<<Number(3), Name("b")>>), Assign(<<Name("a"), Number(1)>>),
   DefineLine("d", <<Name("a"), Here>>), DefineLine("d", <<Name("d"), Number(2)>>),
   DefineLine("b", <<Number(4)>>),
   Db(<<Name("a"), Name("d")>>), Dw(<<Name("b"), Times(Name("a"))>>), LdIx(<<Number(0), Name("d")>>)}

\* Only forward: going back, or to a name without a value, which is 0, makes
\* pass two overwrite what was written there after the placeholder.
SeekPrograms ==
  {LabelLine("a"), Db(<<Name("a")>>), Dl(<<Here, Name("a")>>), SeekLine(<<Here, Number(2)>>),
   ReusableLine, Jr(<<Ahead(1)>>), Rst(<<Name("a")>>), FillLine(<<Number(2)>>),
   FillLine(<<Minus(Number(1))>>), OrgLine(<<Number(3)>>), ErrorLine}

(***************************************************************************)
(* Messages, bytes from a file and the operators that can fail.  A #define  *)
(* of several terms stands first: it means the same evaluated and replaced. *)
(***************************************************************************)
MessagePrograms ==
  {LabelLine("a"), Assign(<<Name("a"), Number(3)>>), OptionLine("d", <<Name("a"), Modulo(Number(2))>>),
   DefineLine("d", <<Here, Minus(Number(1))>>),
   EchoLine(<<Here, Plus(Name("a"))>>), EchoLine(<<Name("d"), Minus(Number(9)), Over(Name("a"))>>), ShowLine("d"),
   ImportLine(<<7, 0>>), FillWith(<<Name("a"), Below(Number(4))>>, <<Number(-2)>>),
   Db(<<Name("d"), Over(Name("a")), Equals(Number(1))>>)}

RstPrograms ==
  {LabelLine("a"), Equ(<<Number(8)>>), Rst(<<Name("a")>>), Rst(<<Number(16)>>), Db(<<Name("a")>>)}

AllSources == {CodePrograms, DefinePrograms, SeekPrograms, MessagePrograms}
RstSources == {RstPrograms}
=============================================================================
