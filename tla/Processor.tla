------------------------------ MODULE Processor ------------------------------
(***************************************************************************)
(* What a Z80 or an eZ80 makes of the bytes it fetches.  This is no part   *)
(* of the assembler: the properties of Opcodes use it to read back what    *)
(* the assembler wrote.  It follows the fields of the opcode byte          *)
(* (x = bits 7-6, y = bits 5-3, z = bits 2-0) and not the tables.          *)
(***************************************************************************)
EXTENDS Integers, Sequences

\* Operands.  At is memory through a register, Mem memory at an address.
Reg(r) == [mode |-> "reg", reg |-> r, val |-> 0]
RegPlus(r, d) == [mode |-> "reg", reg |-> r, val |-> d]
Imm(v) == [mode |-> "imm", reg |-> "", val |-> v]
Mem(v) == [mode |-> "mem", reg |-> "", val |-> v]
At(r, d) == [mode |-> "mem", reg |-> r, val |-> d]

Byte(p, i) == IF i \in DOMAIN p THEN p[i] ELSE 0
Signed(b) == IF b > 127 THEN b - 256 ELSE b

Pairs == <<"BC", "DE", "HL", "SP">>
PairsAF == <<"BC", "DE", "HL", "AF">>
Tests == <<"NZ", "Z", "NC", "C", "PO", "PE", "P", "M">>
Arithmetic == <<"ADD", "ADC", "SUB", "SBC", "AND", "XOR", "OR", "CP">>
Rotations == <<"RLC", "RRC", "RL", "RR", "SLA", "SRA", "SLL", "SRL">>
Accumulator == <<"RLCA", "RRCA", "RLA", "RRA", "DAA", "CPL", "SCF", "CCF">>

\* What stands for HL, H, L and (HL) without a prefix, and after DD or FD.
NoPrefix == [hl |-> "HL", h |-> "H", l |-> "L", mem |-> At("HL", 0), extra |-> 0]
Prefixed(r, d) ==
  [hl |-> r, h |-> IF r = "IX" THEN "IXH" ELSE "IYH", l |-> IF r = "IX" THEN "IXL" ELSE "IYL",
   mem |-> At(r, d), extra |-> 1]

Register(k, c) ==
  IF k = 6 THEN c.mem ELSE Reg((<<"B", "C", "D", "E", c.h, c.l, "", "A">>)[k + 1])

Pair(k, c) == IF k = 2 THEN c.hl ELSE Pairs[k + 1]

(***************************************************************************)
(* p: bytes from the start of the instruction; i: where its opcode is; c:  *)
(* meaning of HL; w: bytes of an address; pc: address of the instruction.  *)
(***************************************************************************)
Word(p, i, w) ==
  Byte(p, i) + 256 * Byte(p, i + 1) + (IF w = 3 THEN 65536 * Byte(p, i + 2) ELSE 0)

MainOpcode(p, i, c, w, pc) ==
  LET op == Byte(p, i)
      x == op \div 64   y == (op \div 8) % 8   z == op % 8   k == y \div 2   q == y % 2
      usesMem == (x = 0 /\ z \in {4, 5, 6} /\ y = 6) \/ (x = 1 /\ (y = 6) # (z = 6)) \/ (x = 2 /\ z = 6)
      at == i + (IF usesMem THEN c.extra ELSE 0)   \* last byte before an immediate operand
      n8 == Imm(Byte(p, at + 1))
      nn == Word(p, at + 1, w)
      target == Imm(pc + at + 1 + Signed(Byte(p, at + 1)))
      \* next to (IX+d), H and L are themselves
      r(j) == IF j = 6 \/ ~usesMem THEN Register(j, c) ELSE Register(j, NoPrefix)
      rr == Reg(Pair(k, c))
      I(name, ops) == [name |-> name, ops |-> ops, len |-> at]
      I8(name, ops) == [name |-> name, ops |-> ops, len |-> at + 1]
      Iw(name, ops) == [name |-> name, ops |-> ops, len |-> at + w]
  IN
  CASE x = 0 /\ z = 0 -> ( CASE y = 0 -> I("NOP", <<>>)
                             [] y = 1 -> I("EX", <<Reg("AF"), Reg("AF'")>>)
                             [] y = 2 -> I8("DJNZ", <<target>>)
                             [] y = 3 -> I8("JR", <<target>>)
                             [] OTHER -> I8("JR", <<Reg(Tests[y - 3]), target>>) )
    [] x = 0 /\ z = 1 -> IF q = 0 THEN Iw("LD", <<rr, Imm(nn)>>) ELSE I("ADD", <<Reg(c.hl), rr>>)
    [] x = 0 /\ z = 2 -> LET there == IF k \in {0, 1} THEN At(Pairs[k + 1], 0) ELSE Mem(nn)
                             here == IF k = 2 THEN Reg(c.hl) ELSE Reg("A")
                             ops == IF q = 0 THEN <<there, here>> ELSE <<here, there>>
                         IN IF k \in {0, 1} THEN I("LD", ops) ELSE Iw("LD", ops)
    [] x = 0 /\ z = 3 -> I(IF q = 0 THEN "INC" ELSE "DEC", <<rr>>)
    [] x = 0 /\ z = 4 -> I("INC", <<r(y)>>)
    [] x = 0 /\ z = 5 -> I("DEC", <<r(y)>>)
    [] x = 0 /\ z = 6 -> I8("LD", <<r(y), n8>>)
    [] x = 0 /\ z = 7 -> I(Accumulator[y + 1], <<>>)
    [] x = 1 -> IF y = 6 /\ z = 6 THEN I("HALT", <<>>) ELSE I("LD", <<r(y), r(z)>>)
    [] x = 2 -> I(Arithmetic[y + 1], <<Reg("A"), r(z)>>)
    [] x = 3 /\ z = 0 -> I("RET", <<Reg(Tests[y + 1])>>)
    [] x = 3 /\ z = 1 -> ( CASE q = 0 -> I("POP", <<Reg(IF k = 2 THEN c.hl ELSE PairsAF[k + 1])>>)
                             [] y = 1 -> I("RET", <<>>)
                             [] y = 3 -> I("EXX", <<>>)
                             [] y = 5 -> I("JP", <<At(c.hl, 0)>>)
                             [] y = 7 -> I("LD", <<Reg("SP"), Reg(c.hl)>>) )
    [] x = 3 /\ z = 2 -> Iw("JP", <<Reg(Tests[y + 1]), Imm(nn)>>)
    [] x = 3 /\ z = 3 -> ( CASE y = 0 -> Iw("JP", <<Imm(nn)>>)
                             [] y = 2 -> I8("OUT", <<Mem(n8.val), Reg("A")>>)
                             [] y = 3 -> I8("IN", <<Reg("A"), Mem(n8.val)>>)
                             [] y = 4 -> I("EX", <<At("SP", 0), Reg(c.hl)>>)
                             [] y = 5 -> I("EX", <<Reg("DE"), Reg("HL")>>)
                             [] y = 6 -> I("DI", <<>>)
                             [] y = 7 -> I("EI", <<>>)
                             [] OTHER -> I("prefix", <<>>) )
    [] x = 3 /\ z = 4 -> Iw("CALL", <<Reg(Tests[y + 1]), Imm(nn)>>)
    [] x = 3 /\ z = 5 -> IF q = 0 THEN I("PUSH", <<Reg(IF k = 2 THEN c.hl ELSE PairsAF[k + 1])>>)
                         ELSE IF y = 1 THEN Iw("CALL", <<Imm(nn)>>) ELSE I("prefix", <<>>)
    [] x = 3 /\ z = 6 -> I8(Arithmetic[y + 1], <<Reg("A"), n8>>)
    [] OTHER -> I("RST", <<Imm(y * 8)>>)

\* After CB: op is the opcode, m what code 6 means, len the length.  With a
\* prefix the Z80 also copies the result to the register of code z; the eZ80
\* has neither that nor SLL.
BitOpcode(op, m, prefixed, len, ez80) ==
  LET x == op \div 64   y == (op \div 8) % 8   z == op % 8
      r == IF z = 6 THEN <<m>> ELSE <<Register(z, NoPrefix)>>
      copy == IF prefixed /\ z # 6 /\ x # 1 THEN r ELSE <<>>
      operand == IF prefixed THEN <<m>> ELSE r
  IN IF ez80 /\ (copy # <<>> \/ op \in \h30..\h37) THEN [name |-> "undefined", ops |-> <<>>, len |-> len]
     ELSE IF x = 0 THEN [name |-> Rotations[y + 1], ops |-> copy \o operand, len |-> len]
     ELSE [name |-> (<<"BIT", "RES", "SET">>)[x], ops |-> copy \o <<Imm(y)>> \o operand, len |-> len]

BlockOpcodes ==
  << <<\hA0, "LDI">>, <<\hA1, "CPI">>, <<\hA2, "INI">>, <<\hA3, "OUTI">>,
     <<\hA8, "LDD">>, <<\hA9, "CPD">>, <<\hAA, "IND">>, <<\hAB, "OUTD">>,
     <<\hB0, "LDIR">>, <<\hB1, "CPIR">>, <<\hB2, "INIR">>, <<\hB3, "OTIR">>,
     <<\hB8, "LDDR">>, <<\hB9, "CPDR">>, <<\hBA, "INDR">>, <<\hBB, "OTDR">>,
     <<\h44, "NEG">>, <<\h45, "RETN">>, <<\h4D, "RETI">>, <<\h67, "RRD">>, <<\h6F, "RLD">> >>

BlockOpcodesEZ80 ==
  << <<\h82, "INIM">>, <<\h83, "OTIM">>, <<\h84, "INI2">>, <<\h8A, "INDM">>, <<\h8B, "OTDM">>,
     <<\h8C, "IND2">>, <<\h92, "INIMR">>, <<\h93, "OTIMR">>, <<\h94, "INI2R">>, <<\h9A, "INDMR">>,
     <<\h9B, "OTDMR">>, <<\h9C, "IND2R">>, <<\hA4, "OUTI2">>, <<\hAC, "OUTD2">>, <<\hB4, "OTI2R">>,
     <<\hBC, "OTD2R">>, <<\hC2, "INIRX">>, <<\hC3, "OTIRX">>, <<\hCA, "INDRX">>, <<\hCB, "OTDRX">>,
     <<\h76, "SLP">>, <<\h7D, "STMIX">>, <<\h7E, "RSMIX">> >>

\* Register pairs to and from memory: 07, 0F, ..., 3F, with ED through HL and
\* with DD or FD through an index register (here) whose counterpart is other.
PairOpcode(op, mem, here, other, len) ==
  LET load(r) == [name |-> "LD", ops |-> <<Reg(r), mem>>, len |-> len]
      store(r) == [name |-> "LD", ops |-> <<mem, Reg(r)>>, len |-> len]
  IN CASE op \in {\h07, \h17, \h27} -> load(Pairs[op \div 16 + 1])
       [] op \in {\h0F, \h1F, \h2F} -> store(Pairs[op \div 16 + 1])
       [] op = \h31 -> load(other)
       [] op = \h37 -> load(here)
       [] op = \h3E -> store(other)
       [] op = \h3F -> store(here)

PairOpcodes == {\h07, \h17, \h27, \h0F, \h1F, \h2F, \h31, \h37, \h3E, \h3F}

EdOpcode(p, w, ez80) ==
  LET op == Byte(p, 2)   x == op \div 64   y == (op \div 8) % 8   z == op % 8   k == y \div 2
      I(name, ops) == [name |-> name, ops |-> ops, len |-> 2]
      I8(name, ops) == [name |-> name, ops |-> ops, len |-> 3]
      n8 == Byte(p, 3)   d == Signed(n8)   nn == Word(p, 3, w)
      r == Register(y, NoPrefix)
      rr == Reg(Pairs[k + 1])
      named == {e \in {BlockOpcodes[j] : j \in DOMAIN BlockOpcodes}
                      \union {BlockOpcodesEZ80[j] : j \in DOMAIN BlockOpcodesEZ80} : e[1] = op}
      core == op \in {BlockOpcodes[j][1] : j \in DOMAIN BlockOpcodes}
  IN
  CASE core \/ (ez80 /\ named # {}) -> I((CHOOSE e \in named : TRUE)[2], <<>>)
    [] ez80 /\ op \in PairOpcodes -> PairOpcode(op, At("HL", 0), "IX", "IY", 2)
    [] ez80 /\ x = 0 /\ z = 0 -> I8("IN0", <<IF y = 6 THEN Reg("F") ELSE r, Mem(n8)>>)
    [] ez80 /\ x = 0 /\ z = 1 /\ y # 6 -> I8("OUT0", <<Mem(n8), r>>)
    [] ez80 /\ x = 0 /\ z \in {2, 3} /\ y \in {0, 2, 4} ->
         I8("LEA", <<rr, RegPlus(IF z = 2 THEN "IX" ELSE "IY", d)>>)
    [] ez80 /\ op = \h32 -> I8("LEA", <<Reg("IX"), RegPlus("IX", d)>>)
    [] ez80 /\ op = \h33 -> I8("LEA", <<Reg("IY"), RegPlus("IY", d)>>)
    [] ez80 /\ op = \h54 -> I8("LEA", <<Reg("IX"), RegPlus("IY", d)>>)
    [] ez80 /\ op = \h55 -> I8("LEA", <<Reg("IY"), RegPlus("IX", d)>>)
    [] ez80 /\ x = 0 /\ z = 4 -> I("TST", <<Reg("A"), r>>)
    [] ez80 /\ op = \h64 -> I8("TST", <<Reg("A"), Imm(n8)>>)
    [] ez80 /\ op = \h65 -> I8("PEA", <<RegPlus("IX", d)>>)
    [] ez80 /\ op = \h66 -> I8("PEA", <<RegPlus("IY", d)>>)
    [] ez80 /\ op = \h74 -> I8("TSTIO", <<Imm(n8)>>)
    [] ez80 /\ op \in {\h4C, \h5C, \h6C, \h7C} -> I("MLT", <<rr>>)
    [] ez80 /\ op = \h6D -> I("LD", <<Reg("MB"), Reg("A")>>)
    [] ez80 /\ op = \h6E -> I("LD", <<Reg("A"), Reg("MB")>>)
    [] ez80 /\ op = \hC7 -> I("LD", <<Reg("I"), Reg("HL")>>)
    [] ez80 /\ op = \hD7 -> I("LD", <<Reg("HL"), Reg("I")>>)
    [] x = 1 /\ z = 0 -> I("IN", <<IF y = 6 THEN Reg("F") ELSE r, At("C", 0)>>)
    [] x = 1 /\ z = 1 /\ ~(ez80 /\ y = 6) -> I("OUT", <<At("C", 0), IF y = 6 THEN Imm(0) ELSE r>>)
    [] x = 1 /\ z = 2 -> I(IF y % 2 = 0 THEN "SBC" ELSE "ADC", <<Reg("HL"), rr>>)
    [] x = 1 /\ z = 3 -> [name |-> "LD", len |-> 2 + w,
                          ops |-> IF y % 2 = 0 THEN <<Mem(nn), rr>> ELSE <<rr, Mem(nn)>>]
    [] op = \h46 -> I("IM", <<Imm(0)>>)
    [] op = \h56 -> I("IM", <<Imm(1)>>)
    [] op = \h5E -> I("IM", <<Imm(2)>>)
    [] op = \h47 -> I("LD", <<Reg("I"), Reg("A")>>)
    [] op = \h4F -> I("LD", <<Reg("R"), Reg("A")>>)
    [] op = \h57 -> I("LD", <<Reg("A"), Reg("I")>>)
    [] op = \h5F -> I("LD", <<Reg("A"), Reg("R")>>)
    [] OTHER -> I("undefined", <<>>)

\* DD and FD only stand before what names the index register: for the eZ80
\* anything else is no instruction, for the Z80 one with a byte to spare.
NamesIndex(ops, r) ==
  LET x == Prefixed(r, 0) IN \E i \in DOMAIN ops : ops[i].reg \in {x.hl, x.h, x.l}

\* An instruction whose suffix, if any, was taken off.
Unsuffixed(p, pc, ez80, w) ==
  LET r == IF Byte(p, 1) = \hDD THEN "IX" ELSE "IY"
      other == IF r = "IX" THEN "IY" ELSE "IX"
      prefixed ==
        IF Byte(p, 2) = \hCB
        THEN BitOpcode(Byte(p, 4), At(r, Signed(Byte(p, 3))), TRUE, 4, ez80)
        ELSE IF ez80 /\ Byte(p, 2) \in PairOpcodes
        THEN PairOpcode(Byte(p, 2), At(r, Signed(Byte(p, 3))), r, other, 3)
        ELSE MainOpcode(p, 2, Prefixed(r, Signed(Byte(p, 3))), w, pc)
  IN CASE Byte(p, 1) = \hCB -> BitOpcode(Byte(p, 2), At("HL", 0), FALSE, 2, ez80)
       [] Byte(p, 1) = \hED -> EdOpcode(p, w, ez80)
       [] Byte(p, 1) \in {\hDD, \hFD} ->
            [prefixed EXCEPT !.name = IF ez80 /\ ~NamesIndex(prefixed.ops, r) THEN "undefined" ELSE @]
       [] OTHER -> MainOpcode(p, 1, NoPrefix, w, pc)

\* The suffixes of the eZ80: .sis, .lis, .sil and .lil.  The second letter
\* gives the width of addresses, which otherwise the mode (adl) gives.
Suffixes == {\h40, \h49, \h52, \h5B}

Disassemble(p, pc, ez80, adl) ==
  IF ez80 /\ Byte(p, 1) \in Suffixes
  THEN LET long == Byte(p, 1) \in {\h52, \h5B}
           d == Unsuffixed(Tail(p), pc + 1, TRUE, IF long THEN 3 ELSE 2)
       IN [d EXCEPT !.len = @ + 1]
  ELSE Unsuffixed(p, pc, ez80, IF ez80 /\ adl THEN 3 ELSE 2)
=============================================================================
