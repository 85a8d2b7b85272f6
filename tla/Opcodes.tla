------------------------------- MODULE Opcodes -------------------------------
(***************************************************************************)
(* Instructions: how pass one finds the row of an opcode table that fits   *)
(* the text of a statement and writes its bytes (pass_one.cpp), with the   *)
(* two tables, the suffixes and modes of the eZ80, and opcodes a program   *)
(* adds (directive.cpp).                                                   *)
(*                                                                         *)
(* The matcher does not take the text apart into operands.  It runs along  *)
(* the text and the pattern of a row side by side, row after row, and a    *)
(* wildcard swallows whatever looks like an expression; the first row to   *)
(* come through to the end wins.                                           *)
(*                                                                         *)
(* Text is a sequence of tokens: words, and the characters ( ) , + -.      *)
(***************************************************************************)
EXTENDS Integers, Sequences, SequencesExt, FiniteSetsExt

CONSTANTS
  OpcodesZ80,   \* opcode_list: mnemonics of the Z80 with their rows, from Z80Opcodes
  OpcodesEZ80,  \* opcode_list_ez80, from EZ80Opcodes
  Sources,      \* programs, by name: sequences of the sets each statement is taken from
  Value         \* what the words that are numbers stand for

Table == INSTANCE OpcodeRows
Cpu == INSTANCE Processor

ASSUME OpcodesAssumption == \A w \in DOMAIN Value : Value[w] \in Int

VARIABLES
  source,           \* name of the program
  mode_ez80,        \* mode & MODE_EZ80
  adl_mode,
  added,            \* opcodes of .addinstr, newest first
  program_counter,
  out,              \* output up to out_ptr
  log               \* history: one entry per statement

vars == <<source, mode_ez80, adl_mode, added, program_counter, out, log>>

Commas(operands) == Table!Commas(operands)

(***************************************************************************)
(* The list of opcodes.  A new one is put before the first of its name, or *)
(* at the end if there is none; opcodes are only looked for by name.       *)
(***************************************************************************)
all_opcodes == added \o IF mode_ez80 THEN OpcodesEZ80 ELSE OpcodesZ80

Named(name) == SelectSeq(all_opcodes, LAMBDA o : o[1] = name)

\* All rows of a mnemonic: those of the first opcode of that name, then those
\* of the next, as match_opcode_args goes on to it.
\* Mutant: only the first group is tried.
Rows_FirstGroup(name) == LET o == Named(name) IN IF o = <<>> THEN <<>> ELSE o[1][2]

Rows(name) == FlattenSeq([i \in DOMAIN Named(name) |-> Named(name)[i][2]])

SUFFIX_L == 1
SUFFIX_IL == 2

\* The suffix as bits, -1 for none.  What it does not say is as in the mode.
ParseSuffix(suffix) ==
  LET Bits(l, il) == (IF l THEN SUFFIX_L ELSE 0) + (IF il THEN SUFFIX_IL ELSE 0)
  IN CASE suffix = "" -> -1
       [] suffix = ".S" -> Bits(FALSE, adl_mode)
       [] suffix = ".L" -> Bits(TRUE, adl_mode)
       [] suffix = ".IS" -> Bits(adl_mode, FALSE)
       [] suffix = ".IL" -> Bits(adl_mode, TRUE)
       [] suffix = ".SIS" -> Bits(FALSE, FALSE)
       [] suffix = ".LIS" -> Bits(TRUE, FALSE)
       [] suffix = ".SIL" -> Bits(FALSE, TRUE)
       [] suffix = ".LIL" -> Bits(TRUE, TRUE)

(***************************************************************************)
(* Matching.                                                               *)
(***************************************************************************)
Wildcards == {"*", "&", "%", "@", "^", "#"}
Punctuation == {"(", ")", ",", "+", "-"}

Level(text, i, j) ==
  Cardinality({k \in i..j : text[k] = "("}) - Cardinality({k \in i..j : text[k] = ")"})

\* read_expr from token i: up to a comma outside parentheses, a parenthesis
\* that closes none of its own, or the end.  The caller steps back over a
\* comma the expression started after.
ExprEnd(text, i) ==
  LET stops == {j \in i..Len(text) : \/ text[j] = "," /\ Level(text, i, j) = 0
                                     \/ Level(text, i, j) < 0}
      end == IF stops = {} THEN Len(text) + 1 ELSE Min(stops)
  IN IF end = i /\ i > 1 /\ i <= Len(text) /\ text[i - 1] = "," /\ text[i] = "," THEN i - 1 ELSE end

\* The loop over pattern and text: at, the next token of the text; used, the
\* tokens of the pattern that came through; args, the text of the wildcards.
Scan(pattern, text) ==
  LET scan[k \in 0..Len(pattern)] ==
        IF k = 0 THEN [at |-> 1, used |-> 0, args |-> <<>>]
        ELSE LET m == scan[k - 1]
                 p == pattern[k]
             IN IF \/ m.used < k - 1
                   \/ m.at > Len(text)
                   \/ p = "@" /\ text[m.at] \notin Punctuation
                   \/ p \notin Wildcards /\ p # text[m.at]
                THEN m
                ELSE IF p \in Wildcards
                THEN LET e == ExprEnd(text, m.at)
                     IN [at |-> e, used |-> k, args |-> Append(m.args, SubSeq(text, m.at, e - 1))]
                ELSE [m EXCEPT !.at = @ + 1, !.used = k]
  IN scan[Len(pattern)]

\* An offset may be missing, also at the end of the text.
Matched(pattern, text) ==
  LET m == Scan(pattern, text)
  IN IF m.used < Len(pattern) /\ pattern[m.used + 1] = "@"
     THEN [m EXCEPT !.used = @ + 1, !.args = Append(@, <<>>)]
     ELSE m

Fits(pattern, text) ==
  LET m == Matched(pattern, text) IN m.used = Len(pattern) /\ m.at > Len(text)

\* Index of the row, 0 if none fits.
MatchOpcodeArgs(rows, text) == SelectInSeq(rows, LAMBDA row : Fits(row.args, text))

(***************************************************************************)
(* Arguments.  Those of the instances are sums; Expression has the rest of *)
(* parse_num.                                                              *)
(***************************************************************************)
Known(arg) == \A i \in DOMAIN arg : arg[i] \in Punctuation \union DOMAIN Value

Sum(arg) ==
  MapThenSumSet(LAMBDA i : IF i > 1 /\ arg[i - 1] = "-" THEN -Value[arg[i]] ELSE Value[arg[i]],
                {i \in DOMAIN arg : arg[i] \in DOMAIN Value})

\* Mutant: what does not fit is not cut off.
Bytes_Uncut(v, n) == [i \in 1..n |-> v \div 256 ^ (i - 1)]

Bytes(v, n) == [i \in 1..n |-> (v \div 256 ^ (i - 1)) % 256]

Written(bytes, problems) == [bytes |-> bytes, problems |-> problems]

Checked(v, low, high, problem) ==
  IF v \in low..high THEN Written(Bytes(v, 1), {}) ELSE Written(<<0>>, {problem})

\* Mutant: a relative jump counts from the opcode.
JumpOffset_FromStart(v, size) == LET w == IF mode_ez80 THEN 256 ^ 3 ELSE 256 ^ 2
                                 IN (v % w) - (program_counter % w)

JumpOffset(v, size) == LET w == IF mode_ez80 THEN 256 ^ 3 ELSE 256 ^ 2
                       IN (v % w) - ((program_counter % w) + size)

WriteArg(type, v, size, or_value) ==
  CASE type = "NUM_8" ->
         Written(Bytes(v, 1), IF v \in -128..255 THEN {} ELSE {"TRUNCATING_8"})
    [] type = "RST" ->
         IF v % 8 = 0 /\ v \in 0..56 THEN Written(<<v + \hC7>>, {})
         ELSE Written(<<>>, {"INVALID_RST_OPERANDS"})
    [] type = "NUM_16" ->
         Written(Bytes(v, 2), IF mode_ez80 /\ v \notin -32768..65535 THEN {"TRUNCATING_16"} ELSE {})
    [] type = "NUM_24" -> Written(Bytes(v, 3), {})
    [] type = "ADDR_OFFSET" -> Checked(JumpOffset(v, size), -128, 127, "JUMP_EXCEEDED")
    [] type = "IX_IY_OFFSET" -> Checked(v, -128, 127, "INDEX_OFFSET_EXCEEDED")
    [] type = "BIT_NUM" ->
         IF v \in 0..7 THEN Written(<<v * 8 + or_value>>, {}) ELSE Written(<<or_value>>, {"BIT_NUMBER"})

\* An argument with a name that has no value leaves its placeholder.
AddPassTwoExpr(arg, type, size, or_value) ==
  IF Known(arg) THEN WriteArg(type, Sum(arg), size, or_value)
  ELSE Written(WriteArg(IF type = "ADDR_OFFSET" THEN "NUM_8" ELSE type, 0, size, 0).bytes,
               {"LABEL_NOT_FOUND"})

ExtraParens(arg) ==
  /\ arg # <<>> /\ arg[1] = "("
  /\ \A k \in 1..(Len(arg) - 1) : Level(arg, 1, k) > 0

(***************************************************************************)
(* write_instruction_data: bytes, size and problems.                       *)
(***************************************************************************)
InstrBytes(row) == Reverse(row.instr_data)

\* Mutant: a long address does not make the instruction longer.
GrownBy_Nothing(wildcard, suffix) == 0

\* Bytes an address takes up beyond the size in the row.
GrownBy(wildcard, suffix) == IF wildcard = "*" /\ suffix >= SUFFIX_IL THEN 1 ELSE 0

WriteOneArg(wildcard, arg, suffix, size) ==
  CASE wildcard = "*" ->
         AddPassTwoExpr(arg, IF suffix >= SUFFIX_IL THEN "NUM_24" ELSE "NUM_16", size, 0)
    [] wildcard = "&" -> AddPassTwoExpr(arg, "NUM_8", size, 0)
    [] wildcard = "%" -> AddPassTwoExpr(arg, "ADDR_OFFSET", size, 0)
    [] wildcard = "@" ->
         IF arg # <<>> /\ arg[1] \notin {"+", "-"} THEN Written(<<>>, {"INVALID_INDEX_OFFSET"})
         ELSE AddPassTwoExpr(arg, "IX_IY_OFFSET", size, 0)
    [] wildcard = "^" -> Written(<<>>, {})
    [] wildcard = "#" -> AddPassTwoExpr(arg, "RST", size, 0)

\* One argument more.
Extended(before, wildcard, arg, suffix) ==
  LET size == before.size + GrownBy(wildcard, suffix)
      w == WriteOneArg(wildcard, arg, suffix, size)
  IN [bytes |-> before.bytes \o w.bytes, size |-> size,
      problems |-> before.problems \union w.problems
                   \union IF ExtraParens(arg) THEN {"EXTRA_PARENS"} ELSE {}]

\* The byte behind the arguments, with the bit number or'ed in.
EndData(row, args, bits, size) ==
  IF ~row.has_end_data THEN Written(<<>>, {})
  ELSE IF bits = {} THEN Written(<<row.end_data>>, {})
  ELSE AddPassTwoExpr(args[Max(bits)], "BIT_NUM", size, row.end_data)

Followed(before, end) ==
  [bytes |-> before.bytes \o end.bytes, size |-> before.size,
   problems |-> before.problems \union end.problems]

WriteInstructionData(row, args, suffix) ==
  LET wildcards == SelectSeq(row.args, LAMBDA p : p \in Wildcards)
      width == IF suffix >= 0 THEN suffix
               ELSE IF mode_ez80 /\ adl_mode THEN SUFFIX_L + SUFFIX_IL ELSE suffix
      prefix == IF suffix >= 0 THEN <<\h40 + suffix * 9>> ELSE <<>>
      write[k \in 0..Len(wildcards)] ==
        IF k = 0
        THEN [bytes |-> prefix \o InstrBytes(row), size |-> row.size + Len(prefix), problems |-> {}]
        ELSE Extended(write[k - 1], wildcards[k], args[k], width)
      all == write[Len(wildcards)]
      bits == {k \in DOMAIN wildcards : wildcards[k] = "^"}
  IN Followed(all, EndData(row, args, bits, all.size))

(***************************************************************************)
(* Statements.                                                             *)
(***************************************************************************)
Init ==
  /\ source \in DOMAIN Sources
  /\ mode_ez80 \in BOOLEAN
  /\ adl_mode = mode_ez80
  /\ added = <<>>
  /\ program_counter = 0
  /\ out = <<>>
  /\ log = <<>>

\* at: offset of what the statement wrote; pc, adl: as it found them.
Noted(s, bytes, row, problems) ==
  log' = Append(log, [statement |-> s, pc |-> program_counter, adl |-> adl_mode, at |-> Len(out),
                      length |-> Len(bytes), row |-> row, problems |-> problems])

Skipped(s, problem) ==
  /\ Noted(s, <<>>, 0, {problem})
  /\ UNCHANGED <<source, mode_ez80, adl_mode, added, program_counter, out>>

\* In an assembly for the Z80 a suffix is part of the name.
IsOpcode(s) == Named(s.name) # <<>> /\ (mode_ez80 \/ s.suffix = "")

HandleOpcode(s) ==
  /\ s.kind = "code" /\ IsOpcode(s)
  /\ \E rows \in {Rows(s.name)}, text \in {Commas(s.operands)} :
       \E i \in {MatchOpcodeArgs(rows, text)} :
         IF i = 0 THEN Skipped(s, "INVALID_OPERANDS")
         ELSE \E w \in {WriteInstructionData(rows[i], Matched(rows[i].args, text).args,
                                            ParseSuffix(s.suffix))} :
                /\ Noted(s, w.bytes, i, w.problems)
                /\ out' = out \o w.bytes
                /\ program_counter' = program_counter + w.size
                /\ UNCHANGED <<source, mode_ez80, adl_mode, added>>

\* Macros and #defines, which the programs here have none of.
HandleMacro(s) == s.kind = "code" /\ ~IsOpcode(s) /\ Skipped(s, "UNKNOWN_OPCODE")

Assume(s) ==
  /\ s.kind = "assume"
  /\ IF ~mode_ez80 THEN Skipped(s, "INVALID_OPTION")
     ELSE /\ adl_mode' = (s.value # 0)
          /\ Noted(s, <<>>, 0, {})
          /\ UNCHANGED <<source, mode_ez80, added, program_counter, out>>

\* #include of an empty file: run_first_pass sets the mode, and nothing
\* restores it.
Include(s) ==
  /\ s.kind = "include"
  /\ adl_mode' = mode_ez80
  /\ Noted(s, <<>>, 0, {})
  /\ UNCHANGED <<source, mode_ez80, added, program_counter, out>>

\* Each * in the operands is an address if two bytes are left, else a byte.
AddedPattern(s) ==
  LET star[k \in 0..Len(s.pattern)] == Cardinality({j \in 1..k : s.pattern[j] = "*"})
      left(k) == s.size - Len(s.data) - 2 * (star[k] - 1) - Len(s.end)
  IN [k \in DOMAIN s.pattern |-> IF s.pattern[k] = "*" /\ left(k) # 2 THEN "&" ELSE s.pattern[k]]

\* Five to eight bytes are accepted and shift an int by more than it has.
MaxData == 8

Added(s) ==
  <<s.name, <<[args |-> AddedPattern(s), instr_data |-> s.data, size |-> s.size,
               has_end_data |-> s.end # <<>>, end_data |-> IF s.end = <<>> THEN 0 ELSE s.end[1]]>>>>

\* Mutant: a new opcode goes behind the others.
WithAdded_Behind(s) == Append(added, Added(s))

WithAdded(s) == <<Added(s)>> \o added

AddInstr(s) ==
  /\ s.kind = "addinstr"
  /\ IF Len(s.data) > MaxData THEN Skipped(s, "INVALID_ADDINSTR")
     ELSE /\ added' = WithAdded(s)
          /\ Noted(s, <<>>, 0, {})
          /\ UNCHANGED <<source, mode_ez80, adl_mode, program_counter, out>>

Read(s) == HandleOpcode(s) \/ HandleMacro(s) \/ Assume(s) \/ Include(s) \/ AddInstr(s)

Next == Len(log) < Len(Sources[source]) /\ \E s \in Sources[source][Len(log) + 1] : Read(s)

Spec == Init /\ [][Next]_vars
-----------------------------------------------------------------------------
(***************************************************************************)
(* Properties.  They look at the statement read last.                      *)
(***************************************************************************)
Kinds == {"code", "assume", "include", "addinstr"}
Warnings == {"EXTRA_PARENS", "TRUNCATING_8", "TRUNCATING_16"}
Errors == {"INVALID_OPERANDS", "UNKNOWN_OPCODE", "INVALID_OPTION", "INVALID_ADDINSTR",
           "INVALID_RST_OPERANDS", "JUMP_EXCEEDED", "INDEX_OFFSET_EXCEEDED", "BIT_NUMBER",
           "LABEL_NOT_FOUND", "INVALID_INDEX_OFFSET"}

\* Types; what is written are bytes.
TypeOK ==
  /\ source \in DOMAIN Sources
  /\ mode_ez80 \in BOOLEAN /\ adl_mode \in BOOLEAN
  /\ program_counter \in Nat
  /\ \A i \in DOMAIN out : out[i] \in 0..255
  /\ \A i \in DOMAIN log : /\ log[i].statement.kind \in Kinds
                           /\ log[i].problems \subseteq Warnings \union Errors

IsCode(e) == e.statement.kind = "code"
Output(e) == SubSeq(out, e.at + 1, e.at + e.length)

\* Rows of added opcodes stand before those of the tables.
ByAddedForm(e) == e.row \in 1..Len(SelectSeq(added, LAMBDA o : o[1] = e.statement.name))

(***************************************************************************)
(* What a statement says, operand by operand.                              *)
(***************************************************************************)
Words == {"A", "B", "C", "D", "E", "H", "L", "I", "R", "F", "MB", "AF", "AF'", "BC", "DE", "HL",
          "SP", "IX", "IY", "IXH", "IXL", "IYH", "IYL", "NZ", "Z", "NC", "PO", "PE", "P", "M"}

Unreadable == [mode |-> "none", reg |-> "", val |-> 0]

Operand(o) ==
  LET wrapped == Len(o) > 2 /\ ExtraParens(o)
      inner == SubSeq(o, 2, Len(o) - 1)
      index(t) == t[1] \in {"IX", "IY"} /\ Len(t) > 1 /\ t[2] \in {"+", "-"}
  IN CASE Len(o) = 1 /\ o[1] \in Words -> Cpu!Reg(o[1])
       [] index(o) -> Cpu!RegPlus(o[1], Sum(Tail(o)))
       [] wrapped /\ inner[1] \in Words /\ Len(inner) = 1 -> Cpu!At(inner[1], 0)
       [] wrapped /\ index(inner) -> Cpu!At(inner[1], Sum(Tail(inner)))
       [] ~Known(o) -> Unreadable
       [] wrapped -> Cpu!Mem(Sum(inner))
       [] OTHER -> Cpu!Imm(Sum(o))

Reading(name, operands) == [name |-> name, ops |-> [i \in DOMAIN operands |-> Operand(operands[i])]]

\* Spellings of the same instruction: a left out accumulator, the port in BC
\* written as (BC), sl1 for sll.
Meaning(name, operands) ==
  LET ops == Reading(name, operands).ops
      port(o) == IF o = Cpu!At("BC", 0) THEN Cpu!At("C", 0) ELSE o
      implied == CASE name \in {"CP", "OR", "XOR", "AND", "SUB"} /\ Len(ops) = 1 -> <<Cpu!Reg("A")>>
                   [] name \in {"IN", "IN0"} /\ Len(ops) = 1 -> <<Cpu!Reg("F")>>
                   [] OTHER -> <<>>
  IN [name |-> IF name = "SL1" THEN "SLL" ELSE name,
      ops |-> implied \o IF name \in {"IN", "OUT"} THEN [i \in DOMAIN ops |-> port(ops[i])] ELSE ops]

\* Addresses of the Z80 are 16 bits wide; the bits above hold a page.
Modulo(ops) ==
  [i \in DOMAIN ops |-> IF mode_ez80 \/ ops[i].mode = "reg" \/ ops[i].reg # "" THEN ops[i]
                        ELSE [ops[i] EXCEPT !.val = @ % 65536]]

Same(d, m) == d.name = m.name /\ Modulo(d.ops) = Modulo(m.ops)

ReadsBack(e) ==
  \E d \in {Cpu!Disassemble(Output(e), e.pc, mode_ez80, e.adl)} :
    d.len = e.length /\ Same(d, Meaning(e.statement.name, e.statement.operands))

\* Instructions the processor has, with 5 for addresses, bytes and offsets.
Legal(ez80) ==
  LET codes == {<<a, 5, 0, 0>> : a \in 0..255} \union {<<\hCB, a>> : a \in 0..255}
               \union {<<\hED, a, 5, 0, 0>> : a \in 0..255}
               \union {<<x, a, 5, 0, 0>> : x \in {\hDD, \hFD}, a \in 0..255}
               \union {<<x, \hCB, 5, a>> : x \in {\hDD, \hFD}, a \in 0..255}
      plain == {c \in codes : ez80 => c[1] \notin Cpu!Suffixes}
      decoded == {Cpu!Disassemble(c, 0, ez80, FALSE) : c \in plain}
  IN {[name |-> d.name, ops |-> d.ops] : d \in {d \in decoded : d.name \notin {"prefix", "undefined"}}}

LegalZ80 == Legal(FALSE)
LegalEZ80 == Legal(TRUE)

(***************************************************************************)
(* A statement that draws no diagnostic is the instruction it reads as: a  *)
(* processor in the mode the assembler is in decodes the bytes to the same *)
(* operation and operands, and to all of them.  The matcher and the order  *)
(* of the rows in opcodes.cpp decide which instruction a text is           *)
(* (pass_one.cpp:577-649).                                                 *)
(***************************************************************************)
WrittenAsRead ==
  \/ log = <<>>
  \/ LET e == Last(log)
     IN IsCode(e) /\ e.problems = {} /\ ~ByAddedForm(e) => ReadsBack(e)

(***************************************************************************)
(* Every instruction the processor has can be written: its plain spelling  *)
(* is never rejected, warned of or taken for something else, whatever the  *)
(* program has added or switched before (pass_one.cpp:279-331).            *)
(***************************************************************************)
LegalAccepted ==
  \/ log = <<>>
  \/ LET e == Last(log)
     IN /\ IsCode(e) /\ ~ByAddedForm(e)
        /\ mode_ez80 \/ e.statement.suffix = ""
        /\ Reading(e.statement.name, e.statement.operands) \in IF mode_ez80 THEN LegalEZ80 ELSE LegalZ80
        => e.problems = {}

(***************************************************************************)
(* The program counter moves by what was written, with every suffix and in *)
(* every mode, warned or not: otherwise all labels behind are off.  The    *)
(* bytes come from the table, suffix and arguments, the size from the row  *)
(* and corrections made on the way (pass_one.cpp:662-771).                 *)
(***************************************************************************)
BytesCounted ==
  \/ log = <<>>
  \/ LET e == Last(log) IN e.problems \subseteq Warnings => program_counter - e.pc = e.length

(***************************************************************************)
(* The form a program added last is the one that is used, also when it     *)
(* redefines an instruction of the tables (directive.cpp:213-229).         *)
(***************************************************************************)
NewestFormWins ==
  \/ log = <<>>
  \/ LET e == Last(log)
         forms == {i \in DOMAIN log : /\ log[i].statement.kind = "addinstr" /\ log[i].problems = {}
                                      /\ log[i].statement.name = e.statement.name}
     IN IsCode(e) /\ IsOpcode(e.statement) /\ forms # {} =>
          LET d == log[Max(forms)].statement
              skip == IF e.statement.suffix = "" THEN 0 ELSE 1
          IN Fits(AddedPattern(d), Commas(e.statement.operands)) =>
               SubSeq(Output(e), skip + 1, skip + Len(d.data)) = Reverse(d.data)
=============================================================================
