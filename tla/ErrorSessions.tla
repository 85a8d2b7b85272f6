--------------------------- MODULE ErrorSessions ---------------------------
(***************************************************************************)
(* errors.cpp and the call sites that use it.                              *)
(*                                                                         *)
(* Every diagnostic goes to one global list, newest first, tagged with the *)
(* number of the error session that was open when it was raised.  Code     *)
(* that tries something out opens a session, looks at what was raised in   *)
(* it, and either replays it (moves it to the enclosing session) or lets   *)
(* the end of the session discard it.  All inspections walk the list from  *)
(* its head and stop at the first entry of another session, so they are    *)
(* right only while the list is sorted by session and every session that   *)
(* is started is ended by the call that started it.                        *)
(*                                                                         *)
(* The C++ call stack is `frames`: one record per call site that has a     *)
(* session open, holding the number Start returned.                        *)
(***************************************************************************)
EXTENDS Integers, Sequences, FiniteSets

CONSTANTS
  Errors,       \* codes passed to SetLastSPASMError that end an assembly
  Warnings,     \* codes passed to SetLastSPASMWarning
  Recoverable,  \* LABEL_NOT_FOUND, LOCAL_LABEL_FORWARD_REF, RECURSION_DEPTH
  Clients,      \* the optional call sites the program makes use of
  MaxFrames,    \* bound on nested call sites (a deferral adds one more)
  MaxRaised,    \* bound on diagnostics raised in one assembly
  MaxJunk       \* bound on strings with trailing characters

Codes == Errors \cup Warnings \cup Recoverable
OptionalClients == {"expr_macro", "fcreate", "define_single", "define_list", "define_empty",
                    "string_junk"}

ASSUME CodesAssumption ==
  /\ Errors \cap Recoverable = {} /\ Warnings \cap Recoverable = {}
  /\ Clients \subseteq OptionalClients
  /\ MaxFrames \in Nat /\ MaxRaised \in Nat /\ MaxJunk \in Nat

VARIABLES
  errs,     \* g_ErrorList, newest first
  session,  \* g_nErrorSession
  frames,   \* call sites with an open session, outermost first
  phase,    \* where run_assembly is
  printed,  \* entries printed so far, in order
  raised,   \* number of SetLastSPASMProblem calls (bounds the model)
  owed,     \* history: the ways in which fatal diagnostics of a statement were left
            \* behind.  "plain": raised below call sites that hand on all they get;
            \* "list": the same below a word that names a list-valued define;
            \* "define", "empty": dropped with the session of a word that names a
            \* define, with its contents emitted instead and with nothing emitted
  output    \* what write_file did: "none" yet, "written", or "failed"

vars == <<errs, session, frames, phase, printed, raised, owed, output>>

(***************************************************************************)
(* The list, as errors.cpp walks it.                                       *)
(***************************************************************************)
IsSPASMErrorFatal(c) == c \notin Recoverable

\* The walk of `while (pList != NULL && nSession == n)` visits k entries of s.
IsHeadRun(s, k, n) ==
  /\ \A i \in 1..k : s[i].session = n
  /\ k < Len(s) => s[k + 1].session # n

InHeadRun(s, i, n) == \A j \in 1..i : s[j].session = n

\* Mutant: only the newest entry is looked at.
IsSPASMErrorSessionFatal_Newest(s, n) ==
  s # <<>> /\ s[1].session = n /\ IsSPASMErrorFatal(s[1].code)

IsSPASMErrorSessionFatal(s, n) ==
  \E i \in DOMAIN s : InHeadRun(s, i, n) /\ IsSPASMErrorFatal(s[i].code)

GetSPASMErrorSessionErrorCount(s, n) ==
  Cardinality({i \in DOMAIN s : InHeadRun(s, i, n)})

\* Mutant: the walk forgets to advance and moves the newest entry only.
ReplaySPASMErrorSession_One(s, n) ==
  [i \in DOMAIN s |->
     IF n # 1 /\ i = 1 /\ s[i].session = n THEN [s[i] EXCEPT !.session = n - 1] ELSE s[i]]

\* Mutant: replaying moves entries to the outermost session.
ReplaySPASMErrorSession_Outermost(s, n) ==
  [i \in DOMAIN s |->
     IF n # 1 /\ InHeadRun(s, i, n) THEN [s[i] EXCEPT !.session = 1] ELSE s[i]]

\* Replaying session 1 prints it (Reportable) and leaves the list alone;
\* replaying another moves its entries up, the recoverable ones too.
ReplaySPASMErrorSession(s, n) ==
  [i \in DOMAIN s |->
     IF n # 1 /\ InHeadRun(s, i, n) THEN [s[i] EXCEPT !.session = n - 1] ELSE s[i]]

\* Mutant: the test for fatalOnly is inverted.
Reportable_Inverted(s, n, fatalOnly) ==
  LET Shown(e) == n = 1 /\ e.session = 1 /\ (fatalOnly => ~IsSPASMErrorFatal(e.code))
      Oldest[k \in 0..Len(s)] ==
        IF k = 0 THEN <<>>
        ELSE IF Shown(s[Len(s) + 1 - k]) THEN Append(Oldest[k - 1], s[Len(s) + 1 - k])
        ELSE Oldest[k - 1]
  IN Oldest[Len(s)]

\* ReplayErrorRecursive: the rest of the list, then its head, if they are of
\* session 1.  Oldest[k] is what the k oldest entries print.
Reportable(s, n, fatalOnly) ==
  LET Shown(e) == n = 1 /\ e.session = 1 /\ (fatalOnly => IsSPASMErrorFatal(e.code))
      Oldest[k \in 0..Len(s)] ==
        IF k = 0 THEN <<>>
        ELSE IF Shown(s[Len(s) + 1 - k]) THEN Append(Oldest[k - 1], s[Len(s) + 1 - k])
        ELSE Oldest[k - 1]
  IN Oldest[Len(s)]

AddSPASMErrorSessionAnnotation(s, n) ==
  [i \in DOMAIN s |-> IF s[i].session >= n THEN [s[i] EXCEPT !.note = n] ELSE s[i]]

Top == frames[Len(frames)]
Depth == Len(frames)
Pop == SubSeq(frames, 1, Len(frames) - 1)
Running == phase \notin {"done", "exited"}
InKind(K) == Running /\ Depth > 0 /\ Top.kind \in K

StartSPASMErrorSession(fs, kind) ==
  /\ session' = session + 1
  /\ frames' = Append(fs, [kind |-> kind, id |-> session + 1])

\* CleanupSPASMErrorSession: s is the list when it is called.
CleanupSPASMErrorSession(s, n) ==
  /\ session' = session - 1
  /\ \E k \in 0..Len(s) : IsHeadRun(s, k, n) /\ errs' = SubSeq(s, k + 1, Len(s))

\* EndSPASMErrorSession exits the program when session 1 held a fatal entry.
EndSPASMErrorSession(s, n, next) ==
  /\ CleanupSPASMErrorSession(s, n)
  /\ phase' = IF n = 1 /\ IsSPASMErrorSessionFatal(s, n) THEN "exited" ELSE next

ReplayAndEnd(s, n, fatalOnly, next) ==
  /\ printed' = printed \o Reportable(s, n, fatalOnly)
  /\ EndSPASMErrorSession(ReplaySPASMErrorSession(s, n), n, next)

\* Mutant: the entry is linked in before its code is set.
SetLastSPASMProblem_NoCode(c) == <<[code |-> "", session |-> session, note |-> 0]>> \o errs

SetLastSPASMProblem(c) == <<[code |-> c, session |-> session, note |-> 0]>> \o errs

(***************************************************************************)
(* Which call sites may run statements, parse expressions, or read the     *)
(* words of a data directive.                                              *)
(***************************************************************************)
RunsStatements ==
  \/ InKind({"macro_body", "fcreate"})
  \/ InKind({"top"}) /\ phase = "pass_one"

ParsesExpressions ==
  \/ RunsStatements
  \/ InKind({"macro_args", "expr_macro", "quiet", "word", "defer"})
  \/ InKind({"top"}) /\ phase = "pass_two"

ReadsWords == RunsStatements \/ InKind({"define_list", "define_inner"})

\* Call sites whose code hands on every fatal diagnostic of the statements,
\* macro bodies and list elements they run.
Hands(f) == f.kind \in {"top", "macro_body", "fcreate", "define_list", "define_single", "define_inner"}
Via(n) == IF \E i \in 1..n : frames[i].kind = "define_list" THEN "list" ELSE "plain"
Record(n, loss) == owed' = IF \A i \in 1..n : Hands(frames[i]) THEN owed \cup {loss} ELSE owed
Owe(n) == Record(n, Via(n))

Init ==
  /\ errs = <<>> /\ session = 0 /\ frames = <<>> /\ phase = "pass_one"
  /\ printed = <<>> /\ raised = 0 /\ owed = {} /\ output = "none"

(***************************************************************************)
(* run_assembly: the four top-level sessions.                              *)
(***************************************************************************)
Successor == [pass_one |-> "pass_two", pass_two |-> "write_labels",
              write_labels |-> "write_file", write_file |-> "done"]

StartPhase ==
  /\ Running /\ frames = <<>>
  /\ StartSPASMErrorSession(frames, "top")
  /\ UNCHANGED <<errs, phase, printed, raised, owed, output>>

\* write_file: an unknown extension is a warning, an output that cannot be
\* opened is an error and nothing is written.
WriteFile ==
  /\ phase = "write_file" /\ InKind({"top"}) /\ output = "none"
  /\ \/ output' = "written" /\ UNCHANGED <<errs, raised>>
     \/ /\ raised < MaxRaised /\ raised' = raised + 1
        /\ \E c \in Errors \cup Warnings :
             /\ errs' = SetLastSPASMProblem(c)
             /\ output' = IF c \in Warnings THEN "written" ELSE "failed"
  /\ UNCHANGED <<session, frames, phase, printed, owed>>

EndPhase ==
  /\ InKind({"top"}) /\ Running
  /\ phase = "write_file" => output # "none"
  /\ ReplayAndEnd(errs, Top.id, phase # "pass_two", Successor[phase])
  /\ frames' = Pop
  /\ UNCHANGED <<raised, owed, output>>

(***************************************************************************)
(* Raising: a handler, or parse_num under it, calls SetLastSPASMProblem.   *)
(***************************************************************************)
Raise(c) ==
  /\ ParsesExpressions /\ raised < MaxRaised
  /\ errs' = SetLastSPASMProblem(c)
  /\ raised' = raised + 1
  /\ IF IsSPASMErrorFatal(c) /\ InKind({"top", "macro_body", "fcreate"})
     THEN Owe(Depth) ELSE owed' = owed
  /\ UNCHANGED <<session, frames, phase, printed, output>>

(***************************************************************************)
(* Call sites that only try something out: parse_f, eval, the skipping of  *)
(* #else, #elif and #comment, write_labels.  Nothing they raise survives.  *)
(***************************************************************************)
BeginQuiet ==
  /\ (ParsesExpressions \/ (InKind({"top"}) /\ phase = "write_labels"))
  /\ Depth < MaxFrames
  /\ StartSPASMErrorSession(frames, "quiet")
  /\ UNCHANGED <<errs, phase, printed, raised, owed, output>>

EndQuiet ==
  /\ InKind({"quiet"})
  /\ EndSPASMErrorSession(errs, Top.id, phase)
  /\ frames' = Pop
  /\ UNCHANGED <<printed, raised, owed, output>>

(***************************************************************************)
(* handle_opcode_or_macro: the invocation of a macro.                      *)
(***************************************************************************)
BeginMacro ==
  /\ RunsStatements
  /\ Depth < MaxFrames
  /\ StartSPASMErrorSession(frames, "macro_args")
  /\ UNCHANGED <<errs, phase, printed, raised, owed, output>>

\* The body runs unless reading the arguments raised something fatal.
RunMacroBody ==
  /\ InKind({"macro_args"}) /\ ~IsSPASMErrorSessionFatal(errs, Top.id)
  /\ frames' = [frames EXCEPT ![Depth].kind = "macro_body"]
  /\ UNCHANGED <<errs, session, phase, printed, raised, owed, output>>

EndMacro ==
  LET badArgs == InKind({"macro_args"}) /\ IsSPASMErrorSessionFatal(errs, Top.id)
  IN /\ InKind({"macro_body"}) \/ badArgs
     /\ ReplayAndEnd(AddSPASMErrorSessionAnnotation(errs, Top.id), Top.id, TRUE, phase)
     /\ IF badArgs THEN Owe(Depth - 1) ELSE owed' = owed
     /\ frames' = Pop
     /\ UNCHANGED <<raised, output>>

(***************************************************************************)
(* A macro evaluated inside an expression, and the run of an fcreate       *)
(* buffer: annotate and replay whatever was raised.                        *)
(***************************************************************************)
BeginExprMacro ==
  /\ "expr_macro" \in Clients /\ ParsesExpressions
  /\ Depth < MaxFrames
  /\ StartSPASMErrorSession(frames, "expr_macro")
  /\ UNCHANGED <<errs, phase, printed, raised, owed, output>>

BeginFcreateRun ==
  /\ "fcreate" \in Clients /\ RunsStatements
  /\ Depth < MaxFrames
  /\ StartSPASMErrorSession(frames, "fcreate")
  /\ UNCHANGED <<errs, phase, printed, raised, owed, output>>

EndAnnotated ==
  /\ InKind({"expr_macro", "fcreate"})
  /\ IF GetSPASMErrorSessionErrorCount(errs, Top.id) > 0
     THEN ReplayAndEnd(AddSPASMErrorSessionAnnotation(errs, Top.id), Top.id, FALSE, phase)
     ELSE EndSPASMErrorSession(errs, Top.id, phase) /\ printed' = printed
  /\ frames' = Pop
  /\ UNCHANGED <<raised, owed, output>>

(***************************************************************************)
(* add_pass_two_expr.                                                      *)
(***************************************************************************)
BeginDefer ==
  /\ RunsStatements
  /\ Depth < MaxFrames
  /\ StartSPASMErrorSession(frames, "defer")
  /\ UNCHANGED <<errs, phase, printed, raised, owed, output>>

\* parse_num failed on something a later pass may resolve: it is queued and
\* what was raised is dropped.
DeferToPassTwo ==
  /\ InKind({"defer"})
  /\ GetSPASMErrorSessionErrorCount(errs, Top.id) > 0
  /\ ~IsSPASMErrorSessionFatal(errs, Top.id)
  /\ EndSPASMErrorSession(errs, Top.id, phase)
  /\ frames' = Pop
  /\ UNCHANGED <<printed, raised, owed, output>>

\* parse_num failed for good.
DeferFails ==
  /\ InKind({"defer"}) /\ IsSPASMErrorSessionFatal(errs, Top.id)
  /\ ReplayAndEnd(errs, Top.id, FALSE, phase)
  /\ Owe(Depth - 1)
  /\ frames' = Pop
  /\ UNCHANGED <<raised, output>>

\* Tail of a successful parse: write_arg may complain about the value, then
\* the session is replayed and ended.
WriteAndReplay ==
  /\ \/ /\ ReplayAndEnd(errs, Top.id, FALSE, phase)
        /\ UNCHANGED <<raised, owed>>
     \/ /\ raised < MaxRaised /\ raised' = raised + 1
        /\ \E c \in Errors \cup Warnings :
             ReplayAndEnd(SetLastSPASMProblem(c), Top.id, FALSE, phase)
        /\ Owe(Depth - 1)
  /\ frames' = Pop
  /\ UNCHANGED output

DeferWrites ==
  /\ InKind({"defer"}) /\ GetSPASMErrorSessionErrorCount(errs, Top.id) = 0
  /\ WriteAndReplay

(***************************************************************************)
(* parse_emit_string for .db, .dw and .dl: one session per word.           *)
(***************************************************************************)
BeginWord ==
  /\ ReadsWords
  /\ Depth < MaxFrames
  /\ StartSPASMErrorSession(frames, "word")
  /\ UNCHANGED <<errs, phase, printed, raised, owed, output>>

WordParsed ==
  /\ InKind({"word"}) /\ GetSPASMErrorSessionErrorCount(errs, Top.id) = 0
  /\ WriteAndReplay

\* A forward reference: the word goes to add_pass_two_expr ...
WordForward ==
  /\ InKind({"word"})
  /\ GetSPASMErrorSessionErrorCount(errs, Top.id) > 0
  /\ ~IsSPASMErrorSessionFatal(errs, Top.id)
  /\ StartSPASMErrorSession([frames EXCEPT ![Depth].kind = "word_deferred"], "defer")
  /\ UNCHANGED <<errs, phase, printed, raised, owed, output>>

\* ... and what the word raised is replayed, recoverable entries included.
EndForwardWord ==
  /\ InKind({"word_deferred"})
  /\ ReplayAndEnd(errs, Top.id, TRUE, phase)
  /\ frames' = Pop
  /\ UNCHANGED <<raised, owed, output>>

\* Not an expression, not a define: the label echo_error.
WordError ==
  /\ InKind({"word"}) /\ IsSPASMErrorSessionFatal(errs, Top.id)
  /\ ReplayAndEnd(errs, Top.id, FALSE, phase)
  /\ Owe(Depth - 1)
  /\ frames' = Pop
  /\ UNCHANGED <<raised, output>>

\* A define whose contents are one word: run in a session of its own, which
\* is then discarded; if it was fatal the outer session is replayed.
BeginDefineSingle ==
  /\ "define_single" \in Clients
  /\ InKind({"word"}) /\ IsSPASMErrorSessionFatal(errs, Top.id) /\ Depth < MaxFrames
  /\ StartSPASMErrorSession([frames EXCEPT ![Depth].kind = "define_single"], "define_inner")
  /\ UNCHANGED <<errs, phase, printed, raised, owed, output>>

EndDefineInner ==
  /\ InKind({"define_inner"})
  /\ EndSPASMErrorSession(errs, Top.id, phase)
  /\ frames' = IF IsSPASMErrorSessionFatal(errs, Top.id)
               THEN [Pop EXCEPT ![Depth - 1].kind = "define_failed"]
               ELSE Pop
  /\ UNCHANGED <<printed, raised, owed, output>>

EndDefineSingle ==
  /\ \/ /\ InKind({"define_failed"}) /\ owed' = owed
        /\ ReplayAndEnd(AddSPASMErrorSessionAnnotation(errs, Top.id), Top.id, FALSE, phase)
     \/ /\ InKind({"define_single"}) /\ Record(Depth - 1, "define")
        /\ EndSPASMErrorSession(errs, Top.id, phase) /\ printed' = printed
  /\ frames' = Pop
  /\ UNCHANGED <<raised, output>>

\* A define whose contents are a list: its words are emitted in place and the
\* session they replay into is then ended without a replay.
BeginDefineList ==
  /\ "define_list" \in Clients
  /\ InKind({"word"}) /\ IsSPASMErrorSessionFatal(errs, Top.id)
  /\ frames' = [frames EXCEPT ![Depth].kind = "define_list"]
  /\ UNCHANGED <<errs, session, phase, printed, raised, owed, output>>

\* Mutant: the branch returns without ending its session.
EndDefineList_NoEnd ==
  /\ InKind({"define_list"})
  /\ frames' = Pop
  /\ UNCHANGED <<errs, session, phase, printed, raised, owed, output>>

EndDefineList ==
  /\ InKind({"define_list"})
  /\ EndSPASMErrorSession(errs, Top.id, phase)
  /\ Record(Depth - 1, "define")
  /\ frames' = Pop
  /\ UNCHANGED <<printed, raised, output>>

\* A define or an argument without contents: parse_define gives nothing to
\* emit, and the session ends without a replay.  The complaint parse_num made
\* of it goes with it, and so does its repetition at line 673.
DefineEmpty ==
  /\ "define_empty" \in Clients
  /\ InKind({"word"}) /\ IsSPASMErrorSessionFatal(errs, Top.id)
  /\ EndSPASMErrorSession(errs, Top.id, phase)
  /\ Record(Depth - 1, "empty")
  /\ frames' = Pop
  /\ UNCHANGED <<printed, raised, output>>

\* A string with trailing characters jumps to echo_error from a branch that
\* started no session: `session` holds what the previous word left in it, or
\* is uninitialized.
StringJunk ==
  /\ "string_junk" \in Clients /\ ReadsWords
  /\ Depth - session < MaxJunk
  /\ \E n \in 0..(session + 1) : ReplayAndEnd(errs, n, FALSE, phase)
  /\ UNCHANGED <<frames, raised, owed, output>>

Done == ~Running /\ UNCHANGED vars

Next ==
  \/ StartPhase \/ WriteFile \/ EndPhase
  \/ \E c \in Codes : Raise(c)
  \/ BeginQuiet \/ EndQuiet
  \/ BeginMacro \/ RunMacroBody \/ EndMacro
  \/ BeginExprMacro \/ BeginFcreateRun \/ EndAnnotated
  \/ BeginDefer \/ DeferToPassTwo \/ DeferFails \/ DeferWrites
  \/ BeginWord \/ WordParsed \/ WordForward \/ EndForwardWord \/ WordError
  \/ BeginDefineSingle \/ EndDefineInner \/ EndDefineSingle
  \/ BeginDefineList \/ EndDefineList \/ DefineEmpty
  \/ StringJunk \/ Done

Spec == Init /\ [][Next]_vars

(***************************************************************************)
(* Properties.                                                             *)
(***************************************************************************)
Kinds == {"top", "quiet", "macro_args", "macro_body", "expr_macro", "fcreate", "defer",
          "word", "word_deferred", "define_single", "define_inner", "define_failed", "define_list"}

Losses == {"plain", "list", "define", "empty"}
Frame == [kind : Kinds, id : Int]
Entry == [code : Codes, session : Int, note : Int]

\* Every variable has its type: the list holds only codes of the table, the
\* driver is in one of its phases and ends in one of two ways.
TypeOK ==
  /\ errs \in Seq(Entry)
  /\ session \in Int
  /\ frames \in Seq(Frame)
  /\ phase \in DOMAIN Successor \cup {"done", "exited"}
  /\ raised \in 0..MaxRaised
  /\ owed \subseteq Losses
  /\ output \in {"none", "written", "failed"}

\* The numbers handed out by Start are the positions of the call sites on the
\* C++ stack, and the counter is its depth.
SessionsNested ==
  /\ session = Depth
  /\ \A i \in DOMAIN frames : frames[i].id = i

\* The list is sorted, innermost session first, and names only open sessions:
\* what makes every walk that stops at the first foreign entry complete.
Sorted(s, n) ==
  /\ \A i \in DOMAIN s : s[i].session \in 1..n
  /\ \A i, j \in DOMAIN s : i <= j => s[i].session >= s[j].session

ListSorted == Sorted(errs, session)

\* Starts and ends pair up and the list follows them; between two top-level
\* sessions nothing is left over, so the second pass cannot report or exit on
\* errors of the first.
Discipline == SessionsNested /\ ListSorted

\* Every Start is matched: no path through a call site leaves its session
\* open, so the counter never exceeds the number of call sites under way.
NoSessionLeak == session <= Depth

\* A fatal diagnostic that has not stopped the assembly went one way only: with
\* the session of a data word that names a define or an argument, which line
\* 749 of directive.cpp ends without a replay.  Whatever else fails fatally - a
\* statement, a macro invocation, a queued expression, a word that names no
\* define, the one word a define stands for - leaves no output file, provided
\* all call sites above it hand errors on.  Lost with the word's session are
\* its own complaint when contents are emitted in its place ("define") and when
\* there are none and nothing is emitted ("empty"), and those of the words of a
\* list ("list").
FatalStopsAssembly == output = "written" => owed \subseteq {"define", "empty", "list"}

\* The words of a define that stands for a list of words: none of them has
\* failed fatally when an output file is written.
FatalInListStopsAssembly == output = "written" => "list" \notin owed

\* The program never exits through EndSPASMErrorSession without having shown
\* a diagnostic that explains why.
ExitIsExplained ==
  phase = "exited" => \E i \in DOMAIN printed : IsSPASMErrorFatal(printed[i].code)

(***************************************************************************)
(* The flat list implements a stack with one error list per call site.     *)
(***************************************************************************)
\* How many entries belong to session n or to one inside it: a prefix.
Cut(n) == Cardinality({i \in DOMAIN errs : errs[i].session >= n})
Level(n) == SubSeq(errs, Cut(n + 1) + 1, Cut(n))
Unlabelled(s) == [i \in DOMAIN s |-> [code |-> s[i].code, note |-> s[i].note]]

ListsOfSites == [n \in 1..session |-> Unlabelled(Level(n))]
ShownToUser == Unlabelled(printed)

Abstract == INSTANCE ErrorStack WITH
  stack <- ListsOfSites,
  shown <- ShownToUser,
  over  <- phase = "exited"

\* One list of session numbers behaves as a stack of error lists: an inner
\* session sees only its own errors, a replay moves all of them out by one
\* level, an end discards all of them and no others.
ImplementsErrorStack == Abstract!Spec
=============================================================================
