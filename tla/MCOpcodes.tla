----------------------------- MODULE MCOpcodes -----------------------------
(***************************************************************************)
(* The tables of both processors, and programs for TLC.  "plain" is a      *)
(* statement with an instruction of either processor in its plain          *)
(* spelling, with every suffix; "odd" one with any mnemonic and any        *)
(* operands; "changes" switches modes and adds opcodes before a statement  *)
(* of a sample.                                                            *)
(***************************************************************************)
EXTENDS Opcodes

Z80 == INSTANCE Z80Opcodes
EZ80 == INSTANCE EZ80Opcodes

\* Lists TLC works out once; it evaluates what a constant is replaced by each
\* time the constant is used.
Z80List == Table!Cut(Z80!opcode_list)
EZ80List == Table!Cut(EZ80!opcode_list_ez80)

MCOpcodesZ80 == Z80List
MCOpcodesEZ80 == EZ80List

Digits == <<"0", "1", "2", "3", "4", "5", "6", "7">>
Restarts == <<"00H", "08H", "10H", "18H", "20H", "28H", "30H", "38H">>

MCValue ==
  [w \in {Digits[i] : i \in 1..8} \union {Restarts[i] : i \in 1..8} \union {"$123456", "300"} |->
     CASE w = "$123456" -> \h123456
       [] w = "300" -> 300
       [] \E i \in 1..8 : w = Digits[i] -> (CHOOSE i \in 1..8 : w = Digits[i]) - 1
       [] OTHER -> 8 * ((CHOOSE i \in 1..8 : w = Restarts[i]) - 1)]

Number(v) == CHOOSE w \in DOMAIN MCValue : MCValue[w] = v

Text(o) ==
  CASE o.mode = "imm" -> <<Number(o.val)>>
    [] o.mode = "mem" /\ o.reg = "" -> <<"(", Number(o.val), ")">>
    [] o.mode = "mem" /\ o.val = 0 -> <<"(", o.reg, ")">>
    [] o.mode = "mem" -> <<"(", o.reg, "+", Number(o.val), ")">>
    [] o.val = 0 -> <<o.reg>>
    [] OTHER -> <<o.reg, "+", Number(o.val)>>

Operands(i) == [k \in DOMAIN i.ops |-> Text(i.ops[k])]

Code(name, suffix, operands) ==
  [kind |-> "code", name |-> name, suffix |-> suffix, operands |-> operands]

MCSuffixes == {"", ".S", ".L", ".IS", ".IL", ".SIS", ".LIS", ".SIL", ".LIL"}

Plainly(instructions) ==
  {Code(i.name, suffix, Operands(i)) : i \in instructions, suffix \in MCSuffixes}

\* Single operands of every kind, spelled in every way.
Odd ==
  {<<"A">>, <<"B">>, <<"HL">>, <<"IX">>, <<"IXH">>, <<"C">>,
   <<"5">>, <<"300">>, <<"08H">>, <<"$123456">>, <<"IXN">>,
   <<"(", "HL", ")">>, <<"(", "C", ")">>, <<"(", "BC", ")">>, <<"(", "5", ")">>,
   <<"(", "5", ")", "+", "(", "3", ")">>,
   <<"(", "IX", "-", "5", ")">>, <<"(", "IX", ")">>, <<"(", "IX", "5", ")">>, <<"(", "IX", ")", "+", "5">>,
   <<"(", "IX", "+", "300", ")">>, <<"IY", "-", "5">>}

OddLists ==
  {<<o>> : o \in Odd} \union {<<o, p>> : o \in Odd, p \in Odd}
  \union {<<r, <<"3">>, o>> : r \in {<<"B">>, <<"(", "HL", ")">>}, o \in Odd} \union {<<>>}

Oddly(instructions) ==
  {Code(name, "", operands) : name \in {i.name : i \in instructions} \union {"SL1"},
                              operands \in OddLists}

Adds(name, pattern, data, size, end) ==
  [kind |-> "addinstr", name |-> name, pattern |-> pattern, data |-> data, size |-> size, end |-> end]

Changes ==
  {[kind |-> "assume", value |-> v] : v \in {0, 1}} \union {[kind |-> "include"]}
  \union {Adds("LD", <<"A", ",", "Q">>, <<\h12>>, 1, <<>>), Adds("LD", <<"A", ",", "*">>, <<\h3E>>, 2, <<>>),
          Adds("FOO", <<"A", ",", "*">>, <<\h12, \h34>>, 4, <<>>),
          Adds("FOO", <<"*">>, <<\h56>>, 3, <<\h78>>),
          Adds("FOO", <<"*">>, <<1, 2, 3, 4, 5, 6, 7, 8, 9>>, 10, <<>>)}
  \union {Code("JP", "", <<<<"5">>>>), Code("NOP", ".LIL", <<>>)}

Sample(instructions) ==
  {Code(i.name, s, Operands(i)) : s \in {"", ".IL", ".SIS"},
     i \in {i \in instructions : \/ i.name \in {"JP", "DJNZ", "LEA", "OTIMR"}
                                 \/ i.name = "LD" /\ i.ops[1] = Cpu!Reg("A")}}
  \union {Code("FOO", s, operands) : s \in {"", ".SIS", ".LIL"},
            operands \in {<<<<"A">>, <<"5">>>>, <<<<"5">>>>, <<<<"300">>>>}}
  \union {Code("LD", "", <<<<"A">>, <<"Q">>>>)}

SourcesOf(instructions) ==
  [plain |-> <<Plainly(instructions)>>, odd |-> <<Oddly(instructions)>>,
   changes |-> <<Changes, Changes, Sample(instructions)>>]

Programs == SourcesOf(UNION {Legal(ez80) : ez80 \in BOOLEAN})

MCSources == Programs
=============================================================================
