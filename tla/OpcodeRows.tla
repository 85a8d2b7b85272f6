----------------------------- MODULE OpcodeRows -----------------------------
(***************************************************************************)
(* The rows the opcode tables of the Z80 and of the eZ80 are made of:      *)
(* struct instr of opcodes.h, and groups of rows that several tables of    *)
(* opcodes.cpp have in common.  Cycle counts are left out.                 *)
(*                                                                         *)
(* An operand is written as in the tables, "(IX@)" for example; Cut takes  *)
(* the operands of a whole list of opcodes apart into words, punctuation   *)
(* and wildcards.  instr_data is in the order of the tables, last byte of  *)
(* the instruction first.                                                  *)
(***************************************************************************)
EXTENDS Integers, Sequences, SequencesExt

\* Tokens of the operands that are not a single one.
TokensOf ==
  [o \in {"(HL)", "(BC)", "(DE)", "(SP)", "(C)", "(*)", "(&)", "(IX)", "(IY)", "(IX@)", "(IY@)",
          "IX@", "IY@"} |->
     CASE o = "(HL)" -> <<"(", "HL", ")">>
       [] o = "(BC)" -> <<"(", "BC", ")">>
       [] o = "(DE)" -> <<"(", "DE", ")">>
       [] o = "(SP)" -> <<"(", "SP", ")">>
       [] o = "(C)" -> <<"(", "C", ")">>
       [] o = "(*)" -> <<"(", "*", ")">>
       [] o = "(&)" -> <<"(", "&", ")">>
       [] o = "(IX)" -> <<"(", "IX", ")">>
       [] o = "(IY)" -> <<"(", "IY", ")">>
       [] o = "(IX@)" -> <<"(", "IX", "@", ")">>
       [] o = "(IY@)" -> <<"(", "IY", "@", ")">>
       [] o = "IX@" -> <<"IX", "@">>
       [] o = "IY@" -> <<"IY", "@">>]

OperandTokens(o) == IF o \in DOMAIN TokensOf THEN TokensOf[o] ELSE <<o>>

\* Operands, each a sequence of tokens, with commas between them.
Commas(operands) ==
  FoldLeft(LAMBDA text, o : IF text = <<>> THEN o ELSE text \o <<",">> \o o, <<>>, operands)

\* A list of mnemonics with their tables, args being tokens.
CutRow(row) ==
  [row EXCEPT !.args = Commas([i \in DOMAIN row.args |-> OperandTokens(row.args[i])])]

\* An empty sequence in front makes TLC write the function out as a tuple.
Cut(list) ==
  LET rows(k) == <<>> \o [j \in DOMAIN list[k][2] |-> CutRow(list[k][2][j])]
  IN <<>> \o [k \in DOMAIN list |-> <<list[k][1], rows(k)>>]

Row(operands, data, size) ==
  [args |-> operands, instr_data |-> data, has_end_data |-> FALSE, end_data |-> 0, size |-> size]

RowWithEnd(operands, data, end, size) ==
  [Row(operands, data, size) EXCEPT !.has_end_data = TRUE, !.end_data = end]

(***************************************************************************)
(* Registers, in the order of their codes.                                 *)
(***************************************************************************)
Reg8 == <<"B", "C", "D", "E", "H", "L", "(HL)", "A">>
Reg8FromA == <<"A", "B", "C", "D", "E", "H", "L", "(HL)">>
Reg16 == <<"BC", "DE", "HL", "SP">>
Conditions == <<"NZ", "Z", "NC", "C", "PO", "PE", "P", "M">>

Code(r) == (CHOOSE i \in DOMAIN Reg8 : Reg8[i] = r) - 1

IX == [r |-> "IX", h |-> "IXH", l |-> "IXL", p |-> "(IX)", m |-> "(IX@)", o |-> "IX@", prefix |-> \hDD]
IY == [r |-> "IY", h |-> "IYH", l |-> "IYL", p |-> "(IY)", m |-> "(IY@)", o |-> "IY@", prefix |-> \hFD]

\* The row of IX and after it the one of IY.
IxIy(F(_)) == <<F(IX), F(IY)>>

\* A row without operands.
Plain(data) == <<Row(<<>>, data, Len(data))>>

(***************************************************************************)
(* 8-bit arithmetic: operand A, other operand, or the other one alone.     *)
(***************************************************************************)
AluOperandRows(op, order, Ops(_)) ==
     IxIy(LAMBDA x : Row(Ops(x.h), <<op + 4, x.prefix>>, 2))
  \o IxIy(LAMBDA x : Row(Ops(x.l), <<op + 5, x.prefix>>, 2))
  \o IxIy(LAMBDA x : Row(Ops(x.m), <<op + 6, x.prefix>>, 3))
  \o [i \in 1..8 |-> Row(Ops(order[i]), <<op + Code(order[i])>>, 1)]

AluRows(op, order) ==
  LET Forms(Ops(_)) ==
        AluOperandRows(op, order, Ops) \o <<Row(Ops("&"), <<op + \h46>>, 2)>>
  IN Forms(LAMBDA o : <<"A", o>>) \o Forms(LAMBDA o : <<o>>)

\* adc and sbc: only with A, and between HL and register pairs.
CarryRows(op, op16) ==
     AluOperandRows(op, Reg8, LAMBDA o : <<"A", o>>)
  \o <<Row(<<"A", "&">>, <<op + \h46>>, 2)>>
  \o [i \in 1..4 |-> Row(<<"HL", Reg16[i]>>, <<op16 + (i - 1) * 16, \hED>>, 2)]

AddRows ==
     FlattenSeq([i \in 1..4 |->
       IxIy(LAMBDA x : Row(<<x.r, IF Reg16[i] = "HL" THEN x.r ELSE Reg16[i]>>,
                           <<\h09 + (i - 1) * 16, x.prefix>>, 2))])
  \o AluOperandRows(\h80, Reg8, LAMBDA o : <<"A", o>>)
  \o [i \in 1..4 |-> Row(<<"HL", Reg16[i]>>, <<\h09 + (i - 1) * 16>>, 1)]
  \o <<Row(<<"A", "&">>, <<\hC6>>, 2)>>

(***************************************************************************)
(* Rotations and single bits, behind the byte CB.                          *)
(***************************************************************************)
RotateRows(op) ==
     IxIy(LAMBDA x : RowWithEnd(<<x.m>>, <<\hCB, x.prefix>>, op + 6, 4))
  \o [i \in 1..8 |-> Row(<<Reg8[i]>>, <<op + i - 1, \hCB>>, 2)]

\* The Z80 also loads the result into a register.
RotateRowsZ80(op) ==
     FlattenSeq([i \in 1..8 |-> IxIy(LAMBDA x :
       RowWithEnd(IF Reg8[i] = "(HL)" THEN <<x.m>> ELSE <<Reg8[i], x.m>>,
                  <<\hCB, x.prefix>>, op + i - 1, 4))])
  \o [i \in 1..8 |-> Row(<<Reg8[i]>>, <<op + i - 1, \hCB>>, 2)]

BitRows(op) ==
     IxIy(LAMBDA x : RowWithEnd(<<"^", x.m>>, <<\hCB, x.prefix>>, op + 6, 4))
  \o [i \in 1..8 |-> RowWithEnd(<<"^", Reg8[i]>>, <<\hCB>>, op + i - 1, 2)]

BitRowsZ80(op) ==
     FlattenSeq([i \in 1..8 |-> IxIy(LAMBDA x :
       RowWithEnd(IF Reg8[i] = "(HL)" THEN <<"^", x.m>> ELSE <<Reg8[i], "^", x.m>>,
                  <<\hCB, x.prefix>>, op + i - 1, 4))])
  \o [i \in 1..8 |-> RowWithEnd(<<"^", Reg8[i]>>, <<\hCB>>, op + i - 1, 2)]

(***************************************************************************)
(* Jumps, calls, the stack, and increments.                                *)
(***************************************************************************)
JumpRows ==
     IxIy(LAMBDA x : Row(<<x.p>>, <<\hE9, x.prefix>>, 2))
  \o [i \in 1..5 |-> Row(<<Conditions[i], "*">>, <<\hC2 + (i - 1) * 8>>, 3)]
  \o <<Row(<<"(HL)">>, <<\hE9>>, 1)>>
  \o [i \in 1..3 |-> Row(<<Conditions[i + 5], "*">>, <<\hEA + (i - 1) * 8>>, 3)]
  \o <<Row(<<"*">>, <<\hC3>>, 3)>>

RelativeJumpRows ==
     [i \in 1..4 |-> Row(<<Conditions[i], "%">>, <<\h20 + (i - 1) * 8>>, 2)]
  \o <<Row(<<"%">>, <<\h18>>, 2)>>

CallRows ==
     [i \in 1..8 |-> Row(<<Conditions[i], "*">>, <<\hC4 + (i - 1) * 8>>, 3)]
  \o <<Row(<<"*">>, <<\hCD>>, 3)>>

ReturnRows ==
  Plain(<<\hC9>>) \o [i \in 1..8 |-> Row(<<Conditions[i]>>, <<\hC0 + (i - 1) * 8>>, 1)]

StackRows(op) ==
     IxIy(LAMBDA x : Row(<<x.r>>, <<op + \h20, x.prefix>>, 2))
  \o [i \in 1..4 |-> Row(<<(<<"BC", "DE", "HL", "AF">>)[i]>>, <<op + (i - 1) * 16>>, 1)]

IncRows ==
     IxIy(LAMBDA x : Row(<<x.r>>, <<\h23, x.prefix>>, 2))
  \o IxIy(LAMBDA x : Row(<<x.h>>, <<\h24, x.prefix>>, 2))
  \o IxIy(LAMBDA x : Row(<<x.l>>, <<\h2C, x.prefix>>, 2))
  \o IxIy(LAMBDA x : Row(<<x.m>>, <<\h34, x.prefix>>, 3))
  \o FlattenSeq([i \in 1..3 |->
       << Row(<<Reg16[i]>>, <<\h03 + (i - 1) * 16>>, 1),
          Row(<<Reg8[2 * i - 1]>>, <<\h04 + (i - 1) * 16>>, 1),
          Row(<<Reg8[2 * i]>>, <<\h0C + (i - 1) * 16>>, 1) >>])
  \o << Row(<<"SP">>, <<\h33>>, 1), Row(<<"(HL)">>, <<\h34>>, 1), Row(<<"A">>, <<\h3C>>, 1) >>

DecRows ==
     IxIy(LAMBDA x : Row(<<x.h>>, <<\h25, x.prefix>>, 2))
  \o IxIy(LAMBDA x : Row(<<x.r>>, <<\h2B, x.prefix>>, 2))
  \o IxIy(LAMBDA x : Row(<<x.l>>, <<\h2D, x.prefix>>, 2))
  \o IxIy(LAMBDA x : Row(<<x.m>>, <<\h35, x.prefix>>, 3))
  \o << Row(<<"B">>, <<\h05>>, 1), Row(<<"BC">>, <<\h0B>>, 1), Row(<<"C">>, <<\h0D>>, 1),
        Row(<<"D">>, <<\h15>>, 1), Row(<<"DE">>, <<\h1B>>, 1), Row(<<"E">>, <<\h1D>>, 1),
        Row(<<"H">>, <<\h25>>, 1), Row(<<"HL">>, <<\h2B>>, 1), Row(<<"L">>, <<\h2D>>, 1),
        Row(<<"(HL)">>, <<\h35>>, 1), Row(<<"SP">>, <<\h3B>>, 1), Row(<<"A">>, <<\h3D>>, 1) >>

ExchangeRows ==
     IxIy(LAMBDA x : Row(<<"(SP)", x.r>>, <<\hE3, x.prefix>>, 2))
  \o << Row(<<"AF", "AF'">>, <<\h08>>, 1), Row(<<"(SP)", "HL">>, <<\hE3>>, 1),
        Row(<<"DE", "HL">>, <<\hEB>>, 1) >>

\* 00H, 08H, ... are matched as words; # takes any other expression.
RestartRows ==
     [i \in 1..8 |->
        Row(<<(<<"00H", "08H", "10H", "18H", "20H", "28H", "30H", "38H">>)[i]>>,
            <<\hC7 + (i - 1) * 8>>, 1)]
  \o <<Row(<<"#">>, <<>>, 1)>>

InterruptModeRows ==
  << Row(<<"0">>, <<\h46, \hED>>, 2), Row(<<"1">>, <<\h56, \hED>>, 2), Row(<<"2">>, <<\h5E, \hED>>, 2) >>

(***************************************************************************)
(* Loads that both processors have.                                        *)
(***************************************************************************)
\* ld with the halves of IX and IY and what they point to: a row for each of
\* the operands of the destination.
LdIndexHalfRows(half, op, through) ==
     FlattenSeq([i \in 1..4 |->
       IxIy(LAMBDA x : Row(<<x[half], Reg8[i]>>, <<op + i - 1, x.prefix>>, 2))])
  \o IxIy(LAMBDA x : Row(<<x[half], x.h>>, <<op + 4, x.prefix>>, 2))
  \o IxIy(LAMBDA x : Row(<<x[half], x.l>>, <<op + 5, x.prefix>>, 2))
  \o IxIy(LAMBDA x : Row(<<through, x.m>>, <<op + 6, x.prefix>>, 3))
  \o IxIy(LAMBDA x : Row(<<x[half], "A">>, <<op + 7, x.prefix>>, 2))

LdFromIndexRows(r, op) ==
     IxIy(LAMBDA x : Row(<<r, x.h>>, <<op + 4, x.prefix>>, 2))
  \o IxIy(LAMBDA x : Row(<<r, x.l>>, <<op + 5, x.prefix>>, 2))
  \o IxIy(LAMBDA x : Row(<<r, x.m>>, <<op + 6, x.prefix>>, 3))

LdIndexRows ==
     LdIndexHalfRows("h", \h60, "H") \o LdIndexHalfRows("l", \h68, "L")
  \o IxIy(LAMBDA x : Row(<<"(*)", x.r>>, <<\h22, x.prefix>>, 4))
  \o IxIy(LAMBDA x : Row(<<x.h, "&">>, <<\h26, x.prefix>>, 3))
  \o IxIy(LAMBDA x : Row(<<x.r, "(*)">>, <<\h2A, x.prefix>>, 4))
  \o IxIy(LAMBDA x : Row(<<x.l, "&">>, <<\h2E, x.prefix>>, 3))
  \o FlattenSeq([i \in 1..4 |-> LdFromIndexRows(Reg8[i], \h40 + (i - 1) * 8)])
  \o FlattenSeq([i \in 1..8 |-> IF Reg8[i] = "(HL)" THEN <<>>
       ELSE IxIy(LAMBDA x : Row(<<x.m, Reg8[i]>>, <<\h70 + i - 1, x.prefix>>, 3))])
  \o LdFromIndexRows("A", \h78)
  \o IxIy(LAMBDA x : Row(<<x.m, "&">>, <<\h36, x.prefix>>, 4))
  \o IxIy(LAMBDA x : Row(<<"SP", x.r>>, <<\hF9, x.prefix>>, 2))

\* Every pair of 8-bit registers but (HL),(HL), whose code is halt.
LdRegisterRows ==
  FlattenSeq([i \in 1..8 |-> FlattenSeq([j \in 1..8 |->
    IF Reg8[i] = "(HL)" /\ Reg8[j] = "(HL)" THEN <<>>
    ELSE <<Row(<<Reg8[i], Reg8[j]>>, <<\h40 + (i - 1) * 8 + j - 1>>, 1)>>])])

LdMemoryRows ==
  << Row(<<"(BC)", "A">>, <<\h02>>, 1), Row(<<"B", "&">>, <<\h06>>, 2),
     Row(<<"A", "(BC)">>, <<\h0A>>, 1), Row(<<"C", "&">>, <<\h0E>>, 2),
     Row(<<"(DE)", "A">>, <<\h12>>, 1), Row(<<"D", "&">>, <<\h16>>, 2),
     Row(<<"A", "(DE)">>, <<\h1A>>, 1), Row(<<"E", "&">>, <<\h1E>>, 2),
     Row(<<"(*)", "HL">>, <<\h22>>, 3), Row(<<"H", "&">>, <<\h26>>, 2),
     Row(<<"HL", "(*)">>, <<\h2A>>, 3), Row(<<"L", "&">>, <<\h2E>>, 2),
     Row(<<"(*)", "A">>, <<\h32>>, 3), Row(<<"(HL)", "&">>, <<\h36>>, 2),
     Row(<<"A", "(*)">>, <<\h3A>>, 3), Row(<<"A", "&">>, <<\h3E>>, 2),
     Row(<<"(*)", "BC">>, <<\h43, \hED>>, 4), Row(<<"I", "A">>, <<\h47, \hED>>, 2),
     Row(<<"BC", "(*)">>, <<\h4B, \hED>>, 4), Row(<<"R", "A">>, <<\h4F, \hED>>, 2),
     Row(<<"(*)", "DE">>, <<\h53, \hED>>, 4), Row(<<"DE", "(*)">>, <<\h5B, \hED>>, 4),
     Row(<<"(*)", "HL">>, <<\h63, \hED>>, 4), Row(<<"HL", "(*)">>, <<\h6B, \hED>>, 4) >>

LdStackPointerRows ==
  << Row(<<"(*)", "SP">>, <<\h73, \hED>>, 4), Row(<<"SP", "(*)">>, <<\h7B, \hED>>, 4) >>

LdWordRows ==
     << Row(<<"HL", "*">>, <<\h21>>, 3), Row(<<"BC", "*">>, <<\h01>>, 3), Row(<<"DE", "*">>, <<\h11>>, 3) >>
  \o IxIy(LAMBDA x : Row(<<x.r, "*">>, <<\h21, x.prefix>>, 4))
  \o << Row(<<"SP", "*">>, <<\h31>>, 3) >>
=============================================================================
