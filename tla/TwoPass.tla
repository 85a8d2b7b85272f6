------------------------------- MODULE TwoPass -------------------------------
(***************************************************************************)
(* The two passes over a program: pass_one.cpp, directive.cpp and          *)
(* pass_two.cpp.                                                           *)
(*                                                                         *)
(* Pass one writes bytes as it reads statements.  An argument that cannot  *)
(* be evaluated yet leaves a placeholder in the output and an entry in     *)
(* expr_list that remembers where the placeholder is and what the argument *)
(* was read against: program counter, reusable label, and the text with    *)
(* every name that is already known replaced.  Pass two works through the  *)
(* list and overwrites the placeholders, and then prints the messages that *)
(* .echo and .show have left it.                                           *)
(*                                                                         *)
(* The program is not fixed: each step of pass one reads any statement of  *)
(* the source, one of the sets of statements of the constant Sources.      *)
(***************************************************************************)
EXTENDS Expression, TLC

CONSTANTS
  Sources,     \* sets of statements; a program is made of the statements of one
  MaxLines,    \* bound on the length of a program
  BufferSize   \* output_buf_size, large enough for MaxLines statements

ASSUME TwoPassAssumption == MaxLines \in Nat /\ BufferSize \in Nat

ArgTypes == {"NUM_8", "NUM_16", "NUM_24", "ADDR_OFFSET", "IX_IY_OFFSET", "RST", "BIT_NUM"}

ASSUME StatementsAssumption ==
  \A S \in Sources : \A s \in S :
    /\ s.kind = "data" => s.type \in {"NUM_8", "NUM_16", "NUM_24"}
    /\ s.kind = "instruction" => s.type \in ArgTypes /\ s.opcode \in Seq(0..255)
    /\ s.kind = "import" => s.bytes \in Seq(0..255)

Unwritten == -1  \* a byte of the buffer nothing was written to

VARIABLES
  source,           \* the statements this program is made of
  phase,            \* "pass_one", "pass_two", "done", or "exited"
  lines,            \* statements read so far (bounds the model)
  program_counter,
  out_ptr,          \* offset of the next byte in the output
  saved_out_ptr,    \* run_second_pass: out_ptr when it started
  contents,         \* output_contents
  labels,           \* label table: name -> value
  last_label,       \* name the last label line defined, "" for NULL
  defines,          \* define table: name -> contents
  marks,            \* reusables
  cur,              \* curr_reusable
  expr_list,        \* placeholders to fill in, oldest first
  output_list,      \* messages to print in pass two, oldest first
  console,          \* messages printed, each with the .echo or .show it is of
  raised,           \* kinds of errors in the session of the running pass
  printed,          \* kinds of errors printed so far
  log,              \* history: every argument written or deferred, as it was read
  said              \* history: every .echo, as it was read

vars == <<source, phase, lines, program_counter, out_ptr, saved_out_ptr, contents, labels, last_label,
          defines, marks, cur, expr_list, output_list, console, raised, printed, log, said>>

messages == <<output_list, console, said>>

pass_one_state == <<labels, last_label, defines, marks>>

Env == [args |-> <<>>, labels |-> labels, defines |-> defines, pc |-> program_counter,
        marks |-> marks, cur |-> cur]

(***************************************************************************)
(* write_out and write_arg.                                                *)
(***************************************************************************)
Put(img, at, bytes) ==
  [a \in DOMAIN img |-> IF a >= at /\ a < at + Len(bytes) THEN bytes[a - at + 1] ELSE img[a]]

RstTargets == {0, 8, 16, 24, 32, 40, 48, 56}

\* Bytes a placeholder of the type takes up.
Width(type) == CASE type = "NUM_16" -> 2 [] type = "NUM_24" -> 3 [] OTHER -> 1

\* arg: a record with type, pc, size (inst_size) and orv (or_value).
\* Mutant: a relative jump is taken from the instruction, not from its end.
Offset_FromStart(arg, v) == (v % 65536) - (arg.pc % 65536)

Offset(arg, v) == (v % 65536) - ((arg.pc % 65536) + arg.size)

\* Mutant: the byte of a relative jump is not masked.
OffsetByte_NoMask(arg, v) == IF Offset(arg, v) \in -128..127 THEN Offset(arg, v) ELSE 0

OffsetByte(arg, v) == IF Offset(arg, v) \in -128..127 THEN Offset(arg, v) % 256 ELSE 0

ArgBytes(arg, v) ==
  CASE arg.type = "NUM_8" -> <<v % 256>>
    [] arg.type = "NUM_16" -> <<v % 256, (v \div 256) % 256>>
    [] arg.type = "NUM_24" -> <<v % 256, (v \div 256) % 256, (v \div 65536) % 256>>
    [] arg.type = "RST" -> IF v \in RstTargets THEN <<v + 199>> ELSE <<>>
    [] arg.type = "BIT_NUM" -> <<(IF v \in 0..7 THEN v * 8 ELSE 0) + arg.orv>>
    [] arg.type = "IX_IY_OFFSET" -> <<IF v \in -128..127 THEN v % 256 ELSE 0>>
    [] arg.type = "ADDR_OFFSET" -> <<OffsetByte(arg, v)>>

\* Errors and warnings through SetLastSPASMProblem; both end the assembly.
ArgProblems(arg, v) ==
  IF \/ arg.type = "NUM_8" /\ v \notin -128..255
     \/ arg.type = "RST" /\ v \notin RstTargets
     \/ arg.type = "IX_IY_OFFSET" /\ v \notin -128..127
     \/ arg.type = "ADDR_OFFSET" /\ Offset(arg, v) \notin -128..127
  THEN {"bad"} ELSE {}

\* show_error: printed at once, the assembly goes on.
ArgShown(arg, v) == IF arg.type = "BIT_NUM" /\ v \notin 0..7 THEN {"shown"} ELSE {}

(***************************************************************************)
(* add_pass_two_expr: e is evaluated, deferred, or fails for good; `at` is *)
(* where its bytes go.                                                     *)
(***************************************************************************)
\* Mutant: a placeholder is a single byte.
Placeholder_OneByte(arg) == ArgBytes([arg EXCEPT !.type = "NUM_8"], 0)

\* A placeholder is a zero of the argument's type; a relative jump that is
\* not known yet is written as a plain byte.
Placeholder(arg) == ArgBytes([arg EXCEPT !.type = IF @ = "ADDR_OFFSET" THEN "NUM_8" ELSE @, !.orv = 0], 0)

\* What pass two is left to know about an argument.
Slot(arg, at, e) ==
  [pc |-> arg.pc, type |-> arg.type, size |-> arg.size, orv |-> arg.orv,
   at |-> at, cur |-> cur, expr |-> ExpandExpr(Env, e)]

AddPassTwoExpr(arg, at, img, e) ==
  LET r == ParseNum(Env, e)
      deferred == ~r.ok /\ Deferrable(r)
      bytes == IF r.ok THEN ArgBytes(arg, r.v) ELSE IF deferred THEN Placeholder(arg) ELSE <<>>
  IN /\ contents' = Put(img, at, bytes)
     /\ out_ptr' = at + Len(bytes)
     /\ expr_list' = IF deferred THEN Append(expr_list, Slot(arg, at, e)) ELSE expr_list
     /\ raised' = raised \cup (IF r.ok THEN ArgProblems(arg, r.v)
                               ELSE IF deferred THEN {} ELSE {"bad"})
     /\ printed' = printed \cup (IF r.ok THEN ArgShown(arg, r.v) ELSE {})
     /\ log' = IF r.ok \/ deferred
               THEN Append(log, [arg |-> arg, at |-> at, expr |-> e, env |-> Env])
               ELSE log

(***************************************************************************)
(* Pass one: one action per kind of statement.                             *)
(***************************************************************************)
Reads(s) ==
  /\ phase = "pass_one" /\ lines < MaxLines /\ s \in source
  /\ lines' = lines + 1 /\ UNCHANGED source

Arg(s) == [type |-> s.type, pc |-> program_counter, size |-> s.size, orv |-> s.orv]

Init ==
  /\ source \in Sources
  /\ phase = "pass_one" /\ lines = 0
  /\ program_counter = 0 /\ out_ptr = 0 /\ saved_out_ptr = 0
  /\ contents = [a \in 0..BufferSize - 1 |-> Unwritten]
  /\ labels = <<>> /\ last_label = "" /\ defines = <<>>
  /\ marks = <<>> /\ cur = 0
  /\ expr_list = <<>> /\ raised = {} /\ printed = {} /\ log = <<>>
  /\ output_list = <<>> /\ console = <<>> /\ said = <<>>

\* A name at the start of a line: add_label.
Label(s) ==
  /\ s.kind = "label" /\ Reads(s)
  /\ IF s.name \in DOMAIN defines
     THEN /\ last_label' = "" /\ printed' = printed \cup {"shown"}
          /\ UNCHANGED labels
     ELSE /\ last_label' = s.name
          /\ labels' = (s.name :> program_counter) @@ labels
          /\ printed' = printed \cup (IF /\ s.name \in DOMAIN labels
                                         /\ labels[s.name] # program_counter
                                      THEN {"shown"} ELSE {})
  /\ UNCHANGED <<phase, program_counter, out_ptr, saved_out_ptr, contents, defines, marks, cur,
                 expr_list, raised, log, messages>>

\* `_` at the start of a line: add_reusable.
Reusable(s) ==
  /\ s.kind = "reusable" /\ Reads(s)
  /\ marks' = Append(marks, program_counter)
  /\ cur' = cur + 1
  /\ UNCHANGED <<phase, program_counter, out_ptr, saved_out_ptr, contents, labels, last_label,
                 defines, expr_list, raised, printed, log, messages>>

\* Both `=` and .equ give the last label a value.  `=` does so only if the
\* expression has one; .equ does so with 0 unless a name was not found.
Equate(s) ==
  LET r == ParseNum(Env, s.expr)
      keeps == IF s.kind = "=" THEN ~r.ok ELSE r.why = "label"
  IN /\ s.kind \in {"=", "equ"} /\ Reads(s)
     /\ labels' = IF keeps \/ last_label = "" THEN labels ELSE [labels EXCEPT ![last_label] = r.v]
     /\ raised' = raised \cup (IF r.ok \/ Deferrable(r) THEN {} ELSE {"bad"})
                         \cup (IF ~keeps /\ last_label = "" THEN {"bad"} ELSE {})
     /\ UNCHANGED <<phase, program_counter, out_ptr, saved_out_ptr, contents, last_label, defines,
                    marks, cur, expr_list, printed, log, messages>>

\* #define without arguments.  A redefinition replaces its references to
\* itself, and every label known by now, in its new contents.
Define(s) ==
  /\ s.kind = "define" /\ Reads(s)
  /\ IF s.name \in DOMAIN labels
     THEN printed' = printed \cup {"shown"} /\ UNCHANGED defines
     ELSE /\ defines' = (s.name :>
               IF s.name \in DOMAIN defines
               THEN ExpandExpr([args |-> <<>>, labels |-> labels, defines |-> s.name :> defines[s.name]], s.expr)
               ELSE s.expr) @@ defines
          /\ UNCHANGED printed
  /\ UNCHANGED <<phase, program_counter, out_ptr, saved_out_ptr, contents, labels, last_label,
                 marks, cur, expr_list, raised, log, messages>>

\* .option: a #define that is replaced, not redefined.  A label of its name
\* makes the program crash.
Option(s) ==
  /\ s.kind = "option" /\ Reads(s)
  /\ s.name \notin DOMAIN labels
  /\ defines' = (s.name :> IF s.expr = <<>> THEN <<Number(1)>> ELSE s.expr) @@ defines
  /\ UNCHANGED <<phase, program_counter, out_ptr, saved_out_ptr, contents, labels, last_label,
                 marks, cur, expr_list, raised, printed, log, messages>>

\* .error: whatever its text is.
Error(s) ==
  /\ s.kind = "error" /\ Reads(s)
  /\ raised' = raised \cup {"bad"}
  /\ UNCHANGED <<phase, program_counter, out_ptr, saved_out_ptr, contents, pass_one_state, cur,
                 expr_list, printed, log, messages>>

\* One word of .db, .dw or .dl.
Data(s) ==
  /\ s.kind = "data" /\ Reads(s)
  /\ AddPassTwoExpr(Arg(s), out_ptr, contents, s.expr)
  /\ program_counter' = program_counter + out_ptr' - out_ptr
  /\ UNCHANGED <<phase, saved_out_ptr, pass_one_state, cur, messages>>

\* An instruction with one argument: its opcode, then the argument; for a
\* bit instruction the argument is or'ed into the last byte.
Instruction(s) ==
  /\ s.kind = "instruction" /\ Reads(s)
  /\ AddPassTwoExpr(Arg(s), out_ptr + Len(s.opcode), Put(contents, out_ptr, s.opcode), s.expr)
  /\ program_counter' = program_counter + s.size
  /\ UNCHANGED <<phase, saved_out_ptr, pass_one_state, cur, messages>>

\* .org moves the program counter only.
Org(s) ==
  LET r == ParseNum(Env, s.expr)
  IN /\ s.kind = "org" /\ Reads(s)
     /\ program_counter' = IF r.ok /\ r.v >= 0 THEN r.v ELSE program_counter
     /\ raised' = raised \cup (IF (r.ok /\ r.v < 0) \/ r.why = "bad" THEN {"bad"} ELSE {})
     /\ UNCHANGED <<phase, out_ptr, saved_out_ptr, contents, pass_one_state, cur, expr_list,
                    printed, log, messages>>

\* .fill of a block that fits the buffer: a size or a value that cannot be
\* evaluated counts as 0.
Fill(s) ==
  LET size == ParseNum(Env, s.expr)
      value == IF s.value = <<>> THEN Good(0) ELSE ParseNum(Env, s.value)
  IN /\ s.kind = "fill" /\ Reads(s)
     /\ raised' = raised \cup (IF \/ "bad" \in {size.why, value.why}
                                  \/ size.v < 0 \/ value.v \notin -128..255
                               THEN {"bad"} ELSE {})
     /\ \/ size.v < 0 /\ UNCHANGED <<program_counter, out_ptr, contents>>
        \/ /\ size.v \in 0..BufferSize - out_ptr
           /\ program_counter' = program_counter + size.v
           /\ out_ptr' = out_ptr + size.v
           /\ contents' = Put(contents, out_ptr, [i \in 1..size.v |-> value.v % 256])
     /\ UNCHANGED <<phase, saved_out_ptr, pass_one_state, cur, expr_list, printed, log, messages>>

\* .seek to a place inside the buffer: both counters move by the same amount.
Seek(s) ==
  LET r == ParseNum(Env, s.expr)
      to == out_ptr + r.v - program_counter
  IN /\ s.kind = "seek" /\ Reads(s)
     /\ to \in 0..BufferSize
     /\ out_ptr' = to
     /\ program_counter' = r.v
     /\ raised' = raised \cup (IF r.why = "bad" THEN {"bad"} ELSE {})
     /\ UNCHANGED <<phase, saved_out_ptr, contents, pass_one_state, cur, expr_list, printed, log, messages>>

\* #import: the bytes of a file, as they are.
Import(s) ==
  /\ s.kind = "import" /\ Reads(s)
  /\ contents' = Put(contents, out_ptr, s.bytes)
  /\ out_ptr' = out_ptr + Len(s.bytes)
  /\ program_counter' = program_counter + Len(s.bytes)
  /\ UNCHANGED <<phase, saved_out_ptr, pass_one_state, cur, expr_list, raised, printed, log, messages>>

(***************************************************************************)
(* Messages: said at once or left to pass two (add_pass_two_output).       *)
(***************************************************************************)
Says(s) == said' = Append(said, [line |-> lines, s |-> s, env |-> Env])

PrintMessage(line, text) == console' = Append(console, [line |-> line, text |-> text])

AddPassTwoOutput(type, e) ==
  output_list' = Append(output_list, [type |-> type, line |-> lines, pc |-> program_counter, cur |-> cur, expr |-> e])

\* Mutant: an echo with a value is left to pass two as it is written.
Saved_AsWritten(r, e) == e

\* A value is saved as the text of its digits.
Saved(r, e) == ExpandExpr(Env, IF r.ok THEN <<Number(r.v)>> ELSE e)

\* .echo of one expression: left to pass two with its value, or because it
\* failed for good; without a value yet it prints an empty line at once, and
\* its error is dropped when the pass ends (see EchoedTooEarly).
Echo(s) ==
  LET r == ParseNum(Env, s.expr)
  IN /\ s.kind = "echo" /\ Reads(s) /\ Says(s)
     /\ IF Deferrable(r)
        THEN PrintMessage(lines, <<>>) /\ UNCHANGED output_list
        ELSE AddPassTwoOutput("ECHO", Saved(r, s.expr)) /\ UNCHANGED console
     /\ UNCHANGED <<phase, program_counter, out_ptr, saved_out_ptr, contents, pass_one_state, cur,
                    expr_list, raised, printed, log>>

\* .show: the contents of a #define, at once if there is one.
Show(s) ==
  /\ s.kind = "show" /\ Reads(s) /\ Says(s)
  /\ IF s.name \in DOMAIN defines
     THEN PrintMessage(lines, defines[s.name]) /\ UNCHANGED output_list
     ELSE AddPassTwoOutput("SHOW", <<Name(s.name)>>) /\ UNCHANGED console
  /\ UNCHANGED <<phase, program_counter, out_ptr, saved_out_ptr, contents, pass_one_state, cur,
                 expr_list, raised, printed, log>>

(***************************************************************************)
(* Pass two.                                                               *)
(***************************************************************************)
\* The end of the pass's error session: replayed, fatal entries exit.  Pass
\* one prints the fatal ones only.
EndPassOne ==
  /\ phase = "pass_one"
  /\ phase' = IF "bad" \in raised THEN "exited" ELSE "pass_two"
  /\ printed' = printed \cup (raised \cap {"bad"})
  /\ raised' = {}
  /\ saved_out_ptr' = out_ptr
  /\ UNCHANGED <<source, lines, program_counter, out_ptr, contents, pass_one_state, cur, expr_list, log, messages>>

\* Mutant: the argument is evaluated with the program counter pass one ended with.
SecondPassEnv_StalePc(x) == [Env EXCEPT !.cur = x.cur]

SecondPassEnv(x) == [Env EXCEPT !.pc = x.pc, !.cur = x.cur]

\* Mutant: the value is written where the output ended.
FillIn_AtOutPtr(x, r) ==
  LET bytes == ArgBytes(x, r.v)
  IN /\ contents' = Put(contents, out_ptr, bytes)
     /\ out_ptr' = out_ptr + Len(bytes)
     /\ raised' = raised \cup ArgProblems(x, r.v)
     /\ printed' = printed \cup ArgShown(x, r.v)

\* An rst is checked once more after 0xC7 was added, which no value passes,
\* so its placeholder (rst 0) is never overwritten.
FillIn(x, r) ==
  IF x.type = "RST"
  THEN /\ raised' = raised \cup {"bad"}
       /\ UNCHANGED <<out_ptr, contents, printed>>
  ELSE LET bytes == ArgBytes(x, r.v)
       IN /\ contents' = Put(contents, x.at, bytes)
          /\ out_ptr' = x.at + Len(bytes)
          /\ raised' = raised \cup ArgProblems(x, r.v)
          /\ printed' = printed \cup ArgShown(x, r.v)

SecondPassStep ==
  LET x == Head(expr_list)
      r == ParseNum(SecondPassEnv(x), x.expr)
  IN /\ phase = "pass_two" /\ expr_list # <<>>
     /\ expr_list' = Tail(expr_list)
     /\ program_counter' = x.pc /\ cur' = x.cur
     /\ IF r.ok THEN FillIn(x, r)
                ELSE raised' = raised \cup {r.why} /\ UNCHANGED <<out_ptr, contents, printed>>
     /\ UNCHANGED <<source, phase, lines, saved_out_ptr, pass_one_state, log, messages>>

\* Once the placeholders are filled in: the oldest message left.
OutputStep ==
  LET x == Head(output_list)
      r == ParseNum(SecondPassEnv(x), x.expr)
      name == x.expr[1].x
  IN /\ phase = "pass_two" /\ expr_list = <<>> /\ output_list # <<>>
     /\ output_list' = Tail(output_list)
     /\ program_counter' = x.pc /\ cur' = x.cur
     /\ \/ /\ x.type = "ECHO"
           /\ PrintMessage(x.line, IF r.ok THEN <<Number(r.v)>> ELSE <<>>)
           /\ raised' = raised \cup (IF r.ok THEN {} ELSE {r.why})
        \/ /\ x.type = "SHOW" /\ name \in DOMAIN defines
           /\ PrintMessage(x.line, defines[name])
           /\ UNCHANGED raised
        \/ /\ x.type = "SHOW" /\ name \notin DOMAIN defines
           /\ raised' = raised \cup {"label"}
           /\ UNCHANGED console
     /\ UNCHANGED <<source, phase, lines, out_ptr, saved_out_ptr, contents, pass_one_state, expr_list,
                    printed, log, said>>

\* Mutant: the output ends where the last placeholder was.
EndPassTwo_NoRestore ==
  /\ phase = "pass_two" /\ expr_list = <<>> /\ output_list = <<>>
  /\ phase' = IF "bad" \in raised THEN "exited" ELSE "done"
  /\ printed' = printed \cup raised
  /\ raised' = {}
  /\ UNCHANGED <<source, lines, program_counter, out_ptr, saved_out_ptr, contents, pass_one_state, cur,
                 expr_list, log, messages>>

\* Mutant: the session is replayed for fatal errors only, as in pass one.
EndPassTwo_FatalOnly ==
  /\ phase = "pass_two" /\ expr_list = <<>> /\ output_list = <<>>
  /\ phase' = IF "bad" \in raised THEN "exited" ELSE "done"
  /\ out_ptr' = saved_out_ptr
  /\ printed' = printed \cup (raised \cap {"bad"})
  /\ raised' = {}
  /\ UNCHANGED <<source, lines, program_counter, saved_out_ptr, contents, pass_one_state, cur,
                 expr_list, log, messages>>

EndPassTwo ==
  /\ phase = "pass_two" /\ expr_list = <<>> /\ output_list = <<>>
  /\ phase' = IF "bad" \in raised THEN "exited" ELSE "done"
  /\ out_ptr' = saved_out_ptr
  /\ printed' = printed \cup raised
  /\ raised' = {}
  /\ UNCHANGED <<source, lines, program_counter, saved_out_ptr, contents, pass_one_state, cur,
                 expr_list, log, messages>>

Done == phase \in {"done", "exited"} /\ UNCHANGED vars

Next ==
  \/ \E s \in source :
       \/ Label(s) \/ Reusable(s) \/ Equate(s) \/ Define(s) \/ Option(s) \/ Error(s)
       \/ Data(s) \/ Instruction(s) \/ Org(s) \/ Fill(s) \/ Seek(s) \/ Import(s)
       \/ Echo(s) \/ Show(s)
  \/ EndPassOne \/ SecondPassStep \/ OutputStep \/ EndPassTwo
  \/ Done

Spec == Init /\ [][Next]_vars
(***************************************************************************)
(* Properties.                                                             *)
(***************************************************************************)
Byte == 0..255
Addresses == 0..BufferSize - 1

\* Every variable has its type; in particular nothing is written outside the
\* output buffer and every byte written is a byte.
TypeOK ==
  /\ source \in Sources
  /\ phase \in {"pass_one", "pass_two", "done", "exited"}
  /\ lines \in 0..MaxLines
  /\ program_counter \in Int
  /\ out_ptr \in 0..BufferSize /\ saved_out_ptr \in 0..BufferSize
  /\ contents \in [Addresses -> Byte \cup {Unwritten}]
  /\ DOMAIN labels \subseteq Names /\ \A x \in DOMAIN labels : labels[x] \in Int
  /\ last_label \in DOMAIN labels \cup {""}
  /\ DOMAIN defines \subseteq Names /\ \A x \in DOMAIN defines : defines[x] \in Seq(Term)
  /\ marks \in Seq(Int) /\ cur \in 0..Len(marks)
  /\ \A i \in DOMAIN expr_list : expr_list[i].at \in Nat /\ expr_list[i].type \in ArgTypes
  /\ \A i \in DOMAIN output_list :
       output_list[i].type \in {"ECHO", "SHOW"} /\ output_list[i].expr \in Seq(Term)
  /\ \A i \in DOMAIN console : console[i].text \in Seq(Term)
  /\ raised \subseteq {"label", "local", "bad"}
  /\ printed \subseteq {"label", "local", "bad", "shown"}

\* End of the output while a pass runs: pass two moves out_ptr about.
OutputEnd == IF phase = "pass_two" THEN saved_out_ptr ELSE out_ptr

\* Placeholders do not overlap and lie within the output, in the order in
\* which pass two fills them in, whatever mixture of instructions, data,
\* .org and .fill the program is: filling one in can damage no other.
SlotsReserved ==
  /\ \A i \in DOMAIN expr_list : expr_list[i].at + Width(expr_list[i].type) <= OutputEnd
  /\ \A i, j \in DOMAIN expr_list :
       i < j => expr_list[i].at + Width(expr_list[i].type) <= expr_list[j].at

\* A step of pass two changes no byte but those of the placeholder it works
\* on, and leaves what the program defined alone.
FillsOnlySlots ==
  [][phase = "pass_two" =>
       /\ \A a \in Addresses :
            contents'[a] # contents[a] =>
              /\ expr_list # <<>>
              /\ a \in Head(expr_list).at..Head(expr_list).at + Width(Head(expr_list).type) - 1
       /\ UNCHANGED pass_one_state]_vars

(***************************************************************************)
(* What an argument means: a name known where it stands has the value it   *)
(* has there, any other the value it has in the end; $ and reusable labels *)
(* are relative to where it stands.                                        *)
(***************************************************************************)
Meaning(l) ==
  LET final == [Env EXCEPT !.pc = l.env.pc, !.cur = l.env.cur]
      unknown == (DOMAIN labels \cup DOMAIN defines) \ (DOMAIN l.env.labels \cup DOMAIN l.env.defines)
      late(x) == ParseNum(final, <<Name(x)>>)
  IN ParseNum([final EXCEPT !.labels = l.env.labels @@ [x \in {y \in unknown : late(y).ok} |-> late(x).v],
                            !.defines = l.env.defines @@ defines],
              l.expr)

Dangling(l) == Deferrable(Meaning(l))

MeaningBytes(l) ==
  IF Meaning(l).ok THEN ArgBytes(l.arg, Meaning(l).v)
  ELSE IF Dangling(l) THEN Placeholder(l.arg)
  ELSE <<>>

\* In a finished program every argument reads as what it means, whether it
\* was written at once or deferred, whatever was redefined, relocated or
\* defined in between; a dangling one reads as its placeholder.
MeansWhatItSays ==
  phase = "done" =>
    \A i \in DOMAIN log :
      LET bytes == MeaningBytes(log[i])
      IN \A k \in DOMAIN bytes : contents[log[i].at + k - 1] = bytes[k]

\* The file ends where pass one left off: it holds every argument.
FileIsWhole ==
  phase = "done" =>
    \A i \in DOMAIN log : log[i].at + Len(MeaningBytes(log[i])) <= out_ptr

\* A placeholder that stays in the output because its argument has no value
\* was reported: no program with a dangling reference assembles silently.
DanglingReported ==
  phase = "done" =>
    ((\E i \in DOMAIN log : Dangling(log[i])) => printed \cap {"label", "local"} # {})

\* A relative jump lands on its target: what a Z80 adds to the address of
\* the next instruction is the distance to the label, before or behind it.
JumpsLand ==
  phase = "done" =>
    \A i \in DOMAIN log :
      LET l == log[i]
          byte == contents[l.at]
      IN l.arg.type = "ADDR_OFFSET" /\ Meaning(l).ok =>
           Meaning(l).v = l.arg.pc + 2 + (IF byte < 128 THEN byte ELSE byte - 256)

\* An .echo of a name that has no value yet.  "If it craps out for some reason,
\* save it for the next pass" (directive.cpp:291) promises its value in the end;
\* the code prints an empty line at once and forgets it (lines 297-308).
EchoedTooEarly(m) == m.s.kind = "echo" /\ Deferrable(ParseNum(m.env, m.s.expr))

\* What any other message says: an .echo the value its expression has where it
\* stands, nothing if that can never have one (a division by zero); a .show the
\* contents known there or else in the end.
SaidText(m) ==
  IF m.s.kind = "show"
  THEN Contents(IF m.s.name \in DOMAIN m.env.defines THEN m.env ELSE Env, m.s.name)
  ELSE LET r == ParseNum(m.env, m.s.expr) IN IF r.ok THEN <<Number(r.v)>> ELSE <<>>

\* Every message of a finished program was printed once, and reads as it did
\* where it stands, whatever was redefined or relocated until pass two
\* printed it; the .echos with a value come in the order of the program.  Of an
\* .echo that came too early nothing is claimed.
MessagesAsSaid ==
  phase = "done" =>
    /\ \A i \in DOMAIN said :
         \/ EchoedTooEarly(said[i])
         \/ /\ said[i].s.kind = "show" /\ said[i].s.name \notin DOMAIN defines
            /\ "label" \in printed
         \/ \E j \in DOMAIN console :
              /\ console[j] = [line |-> said[i].line, text |-> SaidText(said[i])]
              /\ \A k \in DOMAIN console : console[k].line = console[j].line => k = j
    /\ \A i, j \in DOMAIN console :
         LET valued(l) == \E k \in DOMAIN said :
                            /\ said[k].line = l /\ said[k].s.kind = "echo" /\ SaidText(said[k]) # <<>>
         IN i < j /\ valued(console[i].line) /\ valued(console[j].line) => console[i].line < console[j].line

\* Pass two accepts an argument that would be valid if it were known in pass one.
DeferredArgumentsAccepted ==
  [][LET x == Head(expr_list)
         r == ParseNum(SecondPassEnv(x), x.expr)
     IN phase = "pass_two" /\ expr_list # <<>> /\ r.ok /\ ArgProblems(x, r.v) = {}
          => "bad" \notin raised' \ raised]_vars
=============================================================================
