# Verification of spasm-ng

spasm-ng is an assembler for the Z80 and eZ80 calculators of Texas Instruments.
This directory models the parts of it whose behaviour is hard to see from the
code or to reach with a test: its diagnostics, its two passes, conditional
assembly, macros, the choice of opcodes, the listing and output files. The
models are TLA+ modules translated from the C++ source, checked with TLC on small instances, and some of what they
promise is proved with TLAPS for all instances. `PROJECT.json` maps every
definition to the lines it models and lists runs, hazards and findings.

To check a run: `tlc -config TwoPass.cfg MCTwoPass.tla`. To check the proofs of
a module: `tlapm TwoPassProofs.tla`.

## The system

The program is sequential: one thread, one assembly at a time, no callbacks
from outside, nothing persisted but the files it writes at the end. What is
hard about it is not concurrency but *state kept between steps that are far
apart in the text of the program*: some thirty global variables are set by one
handler and read by another, in an order the assembled program decides.

| Component | State | Operations | Modelled in |
|---|---|---|---|
| Error sessions (`errors.cpp`, call sites everywhere) | `g_ErrorList`, `g_nErrorSession` | start, raise, inspect, annotate, replay, end | `ErrorSessions`, `ErrorStack` |
| Two passes (`pass_one.cpp`, `pass_two.cpp`, `directive.cpp`, `storage.cpp`) | `program_counter`, `out_ptr`, output buffer, label and define tables, reusable labels, `expr_list`, `output_list` | one per statement; `add_pass_two_expr`, `add_pass_two_output`; `run_second_pass` | `TwoPass` |
| Expressions (`parser.cpp`, `utils.cpp`) | none (reads the tables) | `parse_num`, `expand_expr` | `Expression` |
| Conditional assembly (`preop.cpp`) | `nIfLevel`, place in the file | `#if`..., `#comment`, `#macro`, `skip_until` | `Conditionals` |
| Macros (`pass_one.cpp`, `utils.cpp`, `storage.cpp`) | `arg_list`, lines being run | invoke, bind arguments, return, `#define`, `#undef`, labels | `Macros` |
| Output formats (`export.cpp`) | bytes and records written | app, hex, program | `Export` |
| Listing (`expand_buf.cpp`, parts of both passes) | `listing_buf`, `listing_offset`, `listing_on`, `listing_for_line_done`, `listing_width` | insert in pass one, overwrite in pass two, `.list`, `.nolist` | `Listing` |
| Includes (`preop.cpp`) | file, line number, `in_macro`, `line_start`, `adl_mode` | nested `run_first_pass` | `Listing`, `adl_mode` in `Opcodes` |
| Driver (`main.cpp`) | resets, order of passes | `run_assembly` | sessions only |
| Opcode matching (`pass_one.cpp`) | opcodes the program added, `adl_mode` | find the row, write its bytes, `.addinstr`, `.assume` | `Opcodes` |
| Opcode tables (`opcodes.cpp`, `opcodes_ez80.cpp`) | constant | | `OpcodeRows`, `Z80Opcodes`, `EZ80Opcodes` |
| Directives (`directive.cpp`) | those of the passes | `.db`, `.fill`, `.seek`, `.echo`, `.show`, ... | `TwoPass`; `Opcodes` and `Listing` have theirs |
| Containers, files, bitmaps, console, COM wrappers, test drivers | | | not modelled |

How they interact:

* `run_assembly` (main.cpp) opens an error session around each of pass one,
  pass two, the symbol file and the output file. The end of a top-level session
  is the only place where the assembly is given up.
* Pass one calls a handler per line. A handler that evaluates an operand calls
  `add_pass_two_expr`, which either writes the value, or writes a placeholder
  and appends to `expr_list`, or fails. Between the two passes that list, the
  tables and the output are all that survives.
* Macros and conditionals decide which lines pass one sees: macros by running
  text with tables of arguments pushed on `arg_list`, conditionals by moving
  the pointer into the file.
* A statement that is an instruction is run against the rows of its mnemonic;
  the row decides its bytes and size, and which of its arguments may wait for
  pass two.
* The exporter gets the finished bytes.

Behaviours that are hard, with the properties that watch them, are the
`hazards` of `PROJECT.json`. In short: an inspection of the error list is right
only if every call site on every path closed its session; an argument is read
twice, in pass one against tables that later lines change, and again in pass
two; its placeholder must have the width of what replaces it; an `#else` must
find its `#if` without a stack; a macro's argument is read among other names
than those of its invoker; one of up to 220 rows of a mnemonic must be the first
to fit an instruction, and its size must be that of the bytes written; a message
printed late must say what was true early; lengths in file headers are computed before what
they measure is written.

## Modules

### ErrorSessions and ErrorStack

`ErrorSessions` is `errors.cpp` with the call sites of all its users. `errs` is
`g_ErrorList` (newest first, each entry tagged with a session), `session` is
`g_nErrorSession`, and `frames` is the part of the C++ stack that has sessions
open. Each path of a call site is an action: reading the arguments of a macro,
running its body, an expression that is tried out, a word of `.db` that is a
number, a forward reference, a define with one word, with a list of words or
with nothing to emit (`DefineEmpty`), and so on. `IsHeadRun` and `InHeadRun` are the `while` loops of the code, which
stop at the first entry of another session. `phase` is the place in
`run_assembly`, `owed` a history variable: the ways in which fatal diagnostics
were left behind below call sites that hand on all they get. `"plain"` is one
that was raised and must reach the driver. The others are the three ways in
which `parse_emit_string` loses some by ending the session of a word without a
replay (directive.cpp:749): `"list"`, those of the words of a list-valued
define; `"define"`, that the word could not be evaluated, when the define's
contents are emitted in its place; `"empty"`, the same when there are no
contents and nothing is emitted. `FatalStopsAssembly` says that there is no
fourth way: an output file is only written when each fatal diagnostic went one
of these three.

`ErrorStack` is what this machinery promises: each call site has a list of its
own, which it hands up whole or discards whole. `ImplementsErrorStack` is the
refinement, with the entries of session *n* as the *n*-th list.

### Expression

`parse_num` evaluates a chain of operands left to right without precedence, so
an expression is a sequence of terms, each with the operator before it. A
`#define` or argument is evaluated by itself and is one operand (`ParseNum`).
`ExpandExpr` is the textual replacement that `expand_expr` does for deferred
expressions, with its effects on text: a substituted sum loses its grouping,
two minus signs in a row become another token, numbers are cut to the ten bytes
of `buf`. Both are recursive functions (no RECURSIVE operators), since modules
with proofs extend this one. Of the operators +, -, *, /, %, < and = are
modelled: one of each way C has to compute (rounding towards zero, an operand
that is an error, a result of 0 or 1). Parentheses and the bitwise operators
are not.

### TwoPass

One action per kind of statement (label, reusable label, `=`, `.equ`,
`#define`, `.option`, data, instruction with one argument, `.org`, `.fill`,
`.seek`, `#import`, `.error`, `.echo`, `.show`), then `EndPassOne`,
`SecondPassStep` for each entry of `expr_list`, `OutputStep` for each entry of
`output_list`, and `EndPassTwo`. `console` holds the messages in the order they
are printed in, and `said` is a history of the statements they are of.
The program is not fixed: each step of pass one reads any statement of
`source`, so a run covers all programs up to `MaxLines` statements over a set.
`log` is a history of what was read where and with which names known; `Meaning`
gives the value an argument should have: names known where it stands have the
value they have there, others the one they have at the end.

### Conditionals

The code has no stack of open conditionals. A false `#if` scans for the line to
go on from; a taken branch is left by the `#else` or `#elif` it runs into;
`nIfLevel` only serves to call something stray. The model has exactly this
machinery (`SkipUntil`, `DoIf`, an action per directive). A `#macro` is read to
its `#endmacro` with the same scan, whatever `#if`s its body has. `Reading` is the
usual reading with a stack, one line at a time, and the properties compare both.

### Macros

`arg_list` and `running` are the stacks of argument tables and of texts being
run. `ParseArgs` fills the table while it is already visible, as `parse_args`
does. `scopes` is a history variable with the same tables, every argument as its
invoker meant it. `Captures` marks programs in which an argument names a
parameter bound before it, or a text kept for later names a parameter or `$`;
these are the programs of the finding `MacroCapture`.

### Opcodes, OpcodeRows, Z80Opcodes, EZ80Opcodes and Processor

`Opcodes` is the part of `pass_one.cpp` between the name of an instruction and
its bytes. The text of a statement is a sequence of tokens. `MatchOpcodeArgs`
runs it against the patterns of the rows of its mnemonic, in order, as
`match_opcode_args` does: a wildcard swallows what looks like an expression
(`ExprEnd`), and the first row that is matched to its end wins.
`WriteInstructionData` writes the suffix, the bytes of the row and the
arguments, and corrects the size on the way. A program is a sequence of such
statements, of `.assume`, of `.addinstr`, whose forms go in front of the table,
and of `#include`s, of which only the effect on `adl_mode` matters here.

The tables are all there. `Z80Opcodes` and `EZ80Opcodes` list the mnemonics in
the order of `opcodes.cpp` and `opcodes_ez80.cpp`, and what the rows of
mnemonics have in common is written once, in `OpcodeRows`.

`Processor` is not part of the assembler. It decodes bytes as a Z80 or eZ80
fetches them, from the fields of the opcode byte, so that it shares nothing with
the tables it is compared with. DD and FD before what does not name the index
register are no instruction of the eZ80 (`NamesIndex`). `Meaning` reads a statement operand by operand,
which is what its author sees; `WrittenAsRead` says that the processor sees the
same, `LegalAccepted` that for all the processor has a text is found.

### Export

A job is a file to write. `MakeApp`, `MakeHex` and `MakePrgm` are the functions
of `export.cpp`; Intel hex is written by `StartPage`, `DataRecord` and
`EndOfHex`, a record per step. `Loaded` reads the records back as a loader would.

### Listing

The listing is one buffer that both passes write through one offset. Pass one
inserts at it: the number and address of a line before the line is read
(`BeginLine`), a column per byte (`WriteColumn`), the text at its end
(`Listed`). Pass two goes back to the offset an argument was given in
`expr_list` and overwrites its columns, over the end of a row if need be
(`OverwriteColumn`), so everything rests on nothing having been inserted before
a column that was handed out. `ListOff` moves the offset back to before the
prefix of its line and leaves the prefix in the buffer, to be pushed on by
later insertions and cut off at the end by the length the file is written with
(`EndPassTwo`). `Include` and `EndInclude` are `handle_preop_include` around its
nested pass; `files` is the part of the C++ stack that has files open, with the
values the handler saves in `old`. The local `old_line_num` there hides the
global of that name, which is therefore neither saved nor restored; the next
line sets it anew.

A cell of the buffer is a piece of text none of the code looks into. Only the
prefix is taken apart, by the 14 characters of `.nolist`, and is therefore
`PrefixWidth` cells. The properties compare the listing with `program` and the
bytes in `contents` (`LinesShowOutput`), and with the lines a walk through
the files would list (`Walk`, `LinesListed`). A line has a column for each byte
its statements write, or none if a false `#if` before it took it along
(`Skipped`).

## Runs

| Run | Result | Instance | States | What it shows |
|---|---|---|---|---|
| Errors | pass | one code of each severity, 4 nested sites, 2 diagnostics | 69 744 | sessions pair up, the list is sorted, the list refines a stack, failures stop the assembly unless they are lost with the word that names a define, and exits are explained |
| ErrorsJunkLeak | pass | 3 sites, also strings with junk | 3 733 | even then no session is left open |
| ErrorsListLost | violation | as Errors | | an error in a list-valued define is lost |
| TwoPass | pass | programs of 5 statements out of four sets | 979 009 | arguments mean what they say, jumps land, placeholders do not overlap, dangling names are reported, the file is whole, messages say what was true where they stand (but a forward `.echo`) |
| TwoPassRst | violation | 3 statements | | `rst` of a forward label always fails |
| Conditionals | pass | all programs of 6 lines over 7 kinds (branches, macros), of 5 over 9 and 10 (names and comments, anything) | 1 498 148 | jumps follow the structure, missing `#endif`s are reported, every program ends |
| Macros | pass | 3 lines that use a macro of 2, which may invoke one of 5 | 860 000 | argument tables come and go with macros, arguments mean what they should, parameters shadow |
| MacroCapture | violation | 2 lines and a macro of 1 | | capture of an argument |
| Listing | pass | main files of 3 lines over 8 kinds, included files of 2 and 0 to 2 lines | 826 515 | each line listed once, with its number, address and final bytes; nothing else is overwritten or left over |
| Opcodes | pass | both tables; every instruction of both processors with each of nine suffixes; every mnemonic with 551 lists of operands; two changes of mode or table before an instruction of a sample | 161 244 | what is written is what was read, all instructions can be written, sizes and bytes agree, added forms win |
| Export | pass | all sizes from 0 to 40 bytes on pages of 12; nine program types at the sizes where a field carries | 1 448 | records load as written, lengths and checksums agree |
| AppRoom | violation | apps of 1 to 40 bytes | | the fields of a one-page app with its signature on a second page |

Why the bounds are enough. *Errors*: a site only looks at its own session and
the ones next to it; four levels hold a macro in a list in a define in a word,
and two diagnostics are needed to have a fatal one behind a recoverable one.
*TwoPass*: every way an argument can go wrong needs a use, a definition and one
or two changes in between (a redefinition, a relocation, another placeholder);
five statements leave room for one more. The buffer of 70 bytes holds any of
the programs. `RECURSION_LIMIT` is 20 in the code and 4 or 5 here; no `#define`
of these programs nests deeper but those that refer to themselves.
*Conditionals*: six lines hold two nested conditionals with a branch each.
*Opcodes*: a statement is matched on its own, so each instruction the processor
has and each mnemonic with operands of every kind, well spelled or not, is a
program of its own; modes and added forms are all that statements leave behind,
and two of them in either order reach what they can do to a third statement.
Numbers are the ones at which a width or range ends.
*Listing*: rows are scaled from four columns to two and prefixes from 14
characters to 3 cells, so that an argument of two bytes starts a row or
crosses one, and one of three always crosses one. Three lines hold a
`.nolist`, what it pushes before it, and a placeholder behind; two levels of
files switch the listing between an `#include` and the end of its line.
*Macros*: nesting of two is what capture needs, three invocations leave stale
state from earlier ones. *Export*: pages are scaled from 512 records of 32 bytes
to 3 records of 4 and signatures from 96 bytes to 5, so that sizes reach every
boundary of three pages; program sections have their real layout and sizes.

Deadlock is checked in every run but Opcodes, whose programs end; elsewhere a
finished program stutters (`Done`, `Finished`). No symmetry is used: programs
name their names. Statements of `TwoPass` keep clear of the divergences listed
below: `#define`s of several terms stand first in an expression, `.seek` goes
forward, labels have less than ten digits.

## Fairness and liveness

`Conditionals` states weak fairness of its next step, `WF_vars(Next)`: the
program is a single thread that reads on as long as there is a line, and nothing
but the end of the file stops it. `AssemblyEnds` says that then the whole file
is read, although `#if`, `#else`, `#comment` and `#macro` move the place to read
on from by scans that may find nothing, and that all lines of a well-formed
program which count have been run by then. A scan that leaves the place where
it was would repeat for ever.

The other specifications assume no fairness. Each of their steps uses up
something finite (statements, `expr_list`, `output_list`, bytes), and the
properties about finished states (`MeansWhatItSays`, `FileIsWhole`,
`ArgumentsMeanTheSame`, ...) are about states the runs do reach. What else could
fail to end is a macro that invokes itself, which in the code runs out of C
stack; the programs checked contain none.

## Proofs

All proofs are for every value of the constants. They rest on the named
assumptions of the modules, which TLC evaluates on each run, and on nothing
else. What needs an inductive invariant had it checked by TLC before.

*NatRecursion* is what the others share. The theorems on induction of the
prover's library take an operator for a parameter, which its backends cannot
instantiate. Here a property of numbers is the set of numbers that have it, so
that induction is a statement about sets: `LeastNumber`, `Induction`,
`BoundedInduction` (over places of a sequence), `Descent` (a scan that moves on
at each step). `RecursiveFunction` says that a recursive definition has the
function it speaks of, `StepsStay` that a fold stays in the set its steps stay
in, `FlattenStays` the same of `FlattenSeq`. With them recursive functions of
the models can be reasoned about for all inputs.

*ErrorSessionsProofs*. `TypeCorrect` and `SessionsMatched` hold for every
program: every path through a call site that starts a session ends it.
`SessionDiscipline`: the list is sorted by session and names only open ones,
for programs without strings with junk after them (`"string_junk" \notin
Clients`; with them it does not hold, which is why the run ErrorsJunkLeak
exists). `Discipline` is not inductive alone, since the walks over the list keep
it sorted only if entries are records of the right kind: `IInv == TypeOK /\
Discipline`. `CleanupSorted`, `ReplaySorted`, `AnnotationSorted` and
`RaiseSorted` say what each list operation does to a sorted list, `EnterSite` and
`LeaveSite` what a call site does to the stack; the step lemma has a case for
each call site. `FatalErrorsStop` (no output after a fatal diagnostic, but for
those that went with the session of a word that names a define: the three ways
`owed` tells from `"plain"`) and `ExitsExplained` (an exit has printed one) need
more, `FatalInv`: which site may be on top of which (`Outermost`,
`DefinesNested`, `DefinesFailed`, `LaterQuiet`), and that what is owed as
`"plain"` is an entry of the list in a session from which every site down to the driver replays (`FatalKept`).

*ErrorStackProofs*. `SessionsAreStack`, under the same assumption: the list with
session numbers implements `ErrorStack`. The entries of session *n* are list *n*;
each action of `ErrorSessions` is a step of the stack or a stutter, action by
action, from `FatalInv`.

*TwoPassProofs*. `PassTwoConfined`: pass two changes no byte outside of the
placeholder it works on, and no table. Its invariant `Shapes` is the part of the
type invariant about where things are; what expressions evaluate to plays no
part; the messages of pass two, `.fill` and `#import` are steps like the others.
`PlaceholdersReserved` and `NothingTruncated`: placeholders lie in the
output, in order and without overlap, and the file ends after the last argument,
for programs without `.seek` (backwards it breaks both). `SlotsReserved` becomes
inductive with `LogWithin`: everything logged ends before the output does,
unless a fatal error was raised (a rejected `rst` is logged and not written). The
key lemma is `ArgumentReserved`: a new placeholder starts at the end of the
output and has the width of its type, or for a relative jump one byte.

*ConditionalsProofs*, for every program (`Programs \subseteq Seq(Lines)` is all
that is assumed). `TypeCorrect`: scans and chains of `#elif` end on a line or
behind the last. `StructureFollowed` and `NestingCovered`: in a well-formed
program the scans run what the reading with a stack runs, and `nIfLevel` is
never too low. The invariant is `IInv == TypeOK /\ LevelBounded /\ Aligned`:
assembly is always at a line of which the reading skips nothing, with the same
effects. Its lemmas follow the reading along a scan (`Moves`, `Nested`,
`Quiet`) to where it ends (`Decides`, `Lands`), and `DoIf`, which calls itself
for an `#elif`, by `Descent`. `UnbalancedIsReported`: in programs without
comments and stray lines an `#if` without an end is an error wherever scans skip
to; `Orderly` counts the open `#if`s, and `NothingOpen` says that assembly has
passed none of them.

*MacrosProofs*, for every program, recursive macros included. `TypeCorrect` rests
on what `ParseNum` and `ExpandExpr` return: they are solved level by level of
`RECURSION_LIMIT`, each level by `RecursiveFunction`, and `ParseArgs` as steps.
`NoTableLeft`: the tables of arguments are those of the macros that run, also
after an invocation that was given up. Tables are counted by the cardinality of
the set of frames that have one (`FramePushed`); `IInv == Typed /\ Framed /\
TablesFollowMacros`. `ParametersHide`: no `#define` and no label line reaches past
a parameter.

*ExportProofs*, for output of every size, and pages and records of every size
that `ExportAssumption` allows. The invariant `Inv` knows where the writing is:
at the start of a page or *m* records into it (`Place`). `RecordsAccepted`: every
record adds up to 0. `NothingMisplaced`: what a loader makes of the records is
the output, by induction over the records. `AppsStateTheirLength`: the number of
characters is the sum over the records, which `Counted` knows at each step, and
the header states it in advance (`AppStated`). `ProgramsStateTheirLengths`: the
lengths and the checksum of a program file, from its parts. `TypeCorrect`.

*ListingProofs*, for every program, width of a prefix and number of columns.
`TypeCorrect` (the offset stays in its buffer), `NoPrefixIsLeft` and `ColumnsOnly`
(pass two overwrites columns and nothing else) rest on one invariant, `IInv`,
about the cells before the offset. While pass one reads, they are finished lines
(`Complete`), or finished lines and one whose prefix is there and whose text is
not (`Partial`); if the next statement is `.nolist`, nothing but the prefix is
(`Fresh`), so that what `.nolist` takes back is that. From the offset of each
placeholder on there is a chain of columns (`Columned`), each in the cell after
the one before or in the first of the next row. Lemmas say what each operation on
the buffer does to lines and chains (`InsertIs`, `ColumnsWritten`, `ListedIs`,
`ColumnsOverwritten`), and every action is a lemma of its own.

`OutputIsShown`, that each finished line has the bytes of the output at the address
it shows, in both passes, needs to know which byte a column shows, and no variable
does. The invariant `TInv` therefore says that there is a function `addr` from the
columns to addresses that rises along the listing (`Addressed`), with the value of
each column that of its byte in `contents`. A place in the listing goes with an
address if it divides the columns as the address divides the bytes (`Cut`), and
bytes are listed if each has a column (`Filled`); `Placed` says both of every
argument in `expr_list`, or that it has no columns, and `From` of every finished
line. Of the line that is read, `OpenLine` says that its columns up to here are the
bytes of its statements up to here. Each action of pass one extends `addr`
(`Added`, `Extends`); `.nolist`, which takes cells back, cuts it (`ToldCut`). Pass
two leaves it alone: the chain of columns behind a remembered offset is that of the
bytes behind the remembered address (`ChainAddressed`), so what is written over
the one is what is put into the other (`ValuesFilled`). At the end the columns of
a line are counted through `addr` (`ColumnsCounted`). `At` ties the lines an
`#include` goes back to to the files they are of.

Only model-checked:

* `MeansWhatItSays`, `JumpsLand`, `DanglingReported`, `MessagesAsSaid` of `TwoPass`
  and `ArgumentsMeanTheSame` of `Macros`: they hold for the programs of the runs,
  which keep clear of the divergences below, and not for every value of the
  constants. So does `TypeOK` of `TwoPass`, since nothing checks the end of the
  output buffer.
* `LinesListed` of `Listing`, whose statement rests on `SelectSeq`, which the prover
  does not expand, and on a walk that recurs through files.
* `Opcodes`: its properties are facts about the rows of its tables, which a
  run goes through and a proof would have to repeat row by row.
* `AssemblyEnds`, liveness, and everything about ENABLED.

## Where code and promises part

Runs that show a violation, each with its entry under `findings`: lost errors of
list-valued defines, deferred `rst`, captured arguments, single-page apps without
room for their signature. All were also seen in the program itself.

Seen while modelling, in the models or left out of the properties, but without
a run of their own:

* A deferred argument is evaluated from text in which `#define`s have lost their
  grouping (pass_two.cpp:60-67): with `#define two 1+1`, `a*two` is 6 for a known
  `a` of 3 and 4 for a forward one. `-7/d` with `#define d $-1` at address 1 is a
  division by zero in `.db`, and in `.echo`, which tries again in pass two, it is -8.
* `.echo` keeps for pass two what has a value or never will. A forward reference
  is printed at once, as an empty line and before all other messages
  (directive.cpp:297-308), where the comment above says "If it craps out for some
  reason, save it for the next pass". `Echo` has the empty line; `MessagesAsSaid`
  is about all other messages and leaves such an `.echo` out by name
  (`EchoedTooEarly`).
* `.option x` in a program with a label `__x` crashes: `add_define` returns NULL and
  directive.cpp:432 uses it. `Option` leaves it out.
* The eZ80 table has no rows for `ld b,b`, `ld c,c`, `ld d,d` and `ld e,e`, whose
  opcodes are the suffixes (opcodes_ez80.cpp:224, 233, 242, 251 are commented out).
  Such a line is not refused as what the processor lacks: it matches `B,&`, and what
  is reported is that there is no label `b`.
* Each file included switches an eZ80 assembly back to ADL mode (pass_one.cpp:120),
  also after `.assume adl=0`, and the mode stays when the file ends.
* The second `*` of a pattern given to `.addinstr` gets its bytes before the
  first. Five to eight data bytes shift an `int` by more than its width
  (directive.cpp:178); the programs checked have at most four, or nine, which is
  rejected.
* The rows of the eZ80 for `ld hl,(*)` and `ld (*),hl` with prefix ED cannot be
  reached, since shorter ones stand before them.
* `if (MODE_EZ80)` in pass_one.cpp:322 tests a constant and not the mode.
* The warning about extra parentheses makes the exit code 1, and the file is
  written all the same.
* `#define f(x) f(x+1)` overflows the C stack: `parse_num` of an argument sets the
  depth back to 0 (parser.cpp:118), which RECURSION_LIMIT is compared with.
* Warnings are fatal: `SetLastSPASMWarning` counts as an error of its session
  (errors.cpp:110, 230). Messages that promise to go on, such as "ignoring
  extras" for too many arguments of a macro, end the assembly.
* A string followed by junk in `.db` jumps into a branch that ends a session the
  word never started (directive.cpp:545).
* Values of ten digits and more lose digits in deferred arguments (utils.cpp:845).
  `LabelText` has it; the programs checked have no such values.
* A `#define` that refers to itself disappears from a deferred expression without
  a message (utils.cpp:798).
* A word of `.db` that names a define or an argument without contents emits nothing:
  ARG_USED_WITHOUT_VALUE is raised (directive.cpp:671-674), `parse_define` returns
  NULL, so line 682 passes over the emission and every replay, line 749 ends the
  session without one, and the output is written. `DefineEmpty` has this, and
  `FatalStopsAssembly` names it as the way `"empty"`. With `"define"`, warnings go
  too, such as that of too many arguments in the word.
* `.seek` backwards makes pass two write over later statements.
* `#undef` of a macro's parameter removes the global `#define` it hides.
* Lengths of TI-85 and TI-86 strings count a padded name and one byte less than
  is written; those of a TI-85 program count all letters of a name cut to eight.
  `ProgramFieldsAgree` leaves the strings and such names out.
* The record that names a page has a checksum of the low byte of its number only
  (export.cpp), so from page 256 on it does not add up to 0; `RecordsAddUp` speaks
  of files with fewer. An app's field for pages holds one byte (`AppFieldsAgree`).
* An `#endif` that a skip ends on is not read as a line and does not lower
  `nIfLevel` (preop.cpp:157), so after `#if 0` and `#endif` a stray `#else` passes
  for one with an `#if` (preop.cpp:141) and skips the rest of the program in
  silence, where errors.h:127 has a message for it. `UnbalancedReported`
  therefore leaves programs with stray lines out.
* `.nolist` takes back 14 characters (directive.cpp:357), also when they are not
  the prefix of its line: in `.db 1 \ .nolist` they are the column and most of the
  prefix, and in `.list \ .nolist` the end of the line before. Placeholders of
  such a line keep their offsets and pass two then writes into later lines.
  `ProgramsAssumption` has `.list` and `.nolist` on lines of their own.
* A macro's banner is written for the invocation of an inner macro too
  (pass_one.cpp:494), and the bytes the outer one has left follow it outside of
  any line.
* A `#comment` that contains an `#if` hides its own `#endcomment` from the skip.

## Not modelled

Text below the level of tokens: letter case, spaces, quoting, numbers in their
bases, names of files and the directories they are searched in. Bitmaps
(arithmetic on pixels of one file), console colours, the COM and DLL wrappers and
their tests. `hash.cpp` and `list.cpp` are containers without a surprise, for
which the models have functions and sequences. Of the driver only the order of
passes and error sessions is there; assembling twice in one process, which only
the DLL does, would show `nIfLevel` and `last_define` keep their values
(preop.cpp:23). Limits the code does not check are bounds of the models: the
output buffer (pass_one.cpp:69) and the 4096 reusable labels (storage.cpp:514). A
build without signing, which uses `total_size` unset (export.cpp:321).

## Plan

Done: sessions, the two passes, conditionals with `#macro` and their end, macros,
listing, output files, opcodes.

1. *Macros in expressions*, `#defcont` (which may use the argument of a macro that
   has ended, preop.cpp:244) and `#macro` in macros, by extending `Macros`; code
   after an invocation on its line.
2. *Listings* of macros and `#fcreate`.
3. *Proofs*: that `TwoPass` keeps its type invariant in programs that fit the
   buffer; that every message of `TwoPass` is printed at most once; that forms of
   `.addinstr` win, which needs the tables only as sequences of rows.
