---------------------------- MODULE Conditionals ----------------------------
(***************************************************************************)
(* Conditional assembly: preop.cpp.                                        *)
(*                                                                         *)
(* There is no stack of open #ifs.  A false #if scans forward for the line *)
(* to go on from, a true one lets assembly run on until it meets #else or  *)
(* #elif, which scan forward in turn; nIfLevel counts the #ifs met, and is *)
(* only looked at to tell whether an #else, #elif or #endif is stray.      *)
(*                                                                         *)
(* A program is one of the sequences of lines of the constant Programs.    *)
(***************************************************************************)
EXTENDS Integers, Sequences, SequencesExt, FiniteSetsExt

CONSTANT Programs  \* sequences of lines

\* cond: of an #if or #elif "true" or "false", or "none" if it has no
\* expression; of an #ifdef or #ifndef "name" or "none"; of other lines "".
Kinds == {"if", "ifdef", "ifndef", "elif", "else", "endif", "comment", "endcomment",
          "macro", "endmacro", "define", "undef", "text"}

Lines == [k : Kinds, cond : {"true", "false", "name", "none", ""}]

ASSUME ConditionalsAssumption == Programs \subseteq Seq(Lines)

VARIABLES
  program,  \* the lines of the file
  pos,      \* number of the line to be read next
  nIfLevel,
  defined,  \* the one name #define, #undef and #ifdef speak of has a value
  ran,      \* numbers of the text lines assembled so far
  errors    \* kinds of errors raised in the session of pass one

vars == <<program, pos, nIfLevel, defined, ran, errors>>

N == Len(program)

(***************************************************************************)
(* skip_until: the first line from p on that starts with one of the words  *)
(* and is not inside an #if met on the way, or N + 1.  It knows nothing of *)
(* comments.                                                               *)
(***************************************************************************)
OpensIf(l) == l.k \in {"if", "ifdef", "ifndef"}

\* Mutant: #ifdef and #ifndef do not nest.
SkipUntil_IfOnly(p, words) ==
  LET level[i \in p..N + 1] ==
        IF i = p THEN 0
        ELSE IF program[i - 1].k = "if" THEN level[i - 1] + 1
        ELSE IF program[i - 1].k = "endif" /\ level[i - 1] > 0 THEN level[i - 1] - 1
        ELSE level[i - 1]
      stops == {i \in p..N : level[i] = 0 /\ program[i].k \in words}
  IN Min(stops \cup {N + 1})

SkipUntil(p, words) ==
  LET level[i \in p..N + 1] ==
        IF i = p THEN 0
        ELSE IF OpensIf(program[i - 1]) THEN level[i - 1] + 1
        ELSE IF program[i - 1].k = "endif" /\ level[i - 1] > 0 THEN level[i - 1] - 1
        ELSE level[i - 1]
      stops == {i \in p..N : level[i] = 0 /\ program[i].k \in words}
  IN Min(stops \cup {N + 1})

Unmatched(p) == SkipUntil(p + 1, {"endif"}) > N

\* Whatever line a skip ends on, the caller goes on with the one after it.
After(p) == IF p > N THEN p ELSE p + 1

\* The value parse_num or search_defines gives; a missing expression is an error.
Holds(l) ==
  CASE l.k \in {"if", "elif"} -> l.cond = "true"
    [] l.k = "ifdef" -> defined
    [] l.k = "ifndef" -> ~defined

(***************************************************************************)
(* do_if and handle_preop_if, from the #if or #elif on line p: the line to *)
(* go on from and the errors raised.                                       *)
(***************************************************************************)
\* Mutant: the #endif is not looked for.
DoIf_Unchecked(p) ==
  LET from[q \in 1..N] ==
        IF program[q].cond = "none" THEN [next |-> q + 1, raised |-> {"expected"}]
        ELSE IF Holds(program[q]) THEN [next |-> q + 1, raised |-> {}]
        ELSE LET r == SkipUntil(q + 1, {"else", "elif", "endif"})
             IN IF r <= N /\ program[r].k = "elif" THEN from[r]
                ELSE [next |-> After(r), raised |-> {}]
  IN from[p]

DoIf(p) ==
  LET from[q \in 1..N] ==
        LET check == IF Unmatched(q) THEN {"unmatched"} ELSE {}
            r == SkipUntil(q + 1, {"else", "elif", "endif"})
        IN IF program[q].cond = "none" THEN [next |-> q + 1, raised |-> {"expected"}]
           ELSE IF Holds(program[q]) THEN [next |-> q + 1, raised |-> check]
           ELSE IF r <= N /\ program[r].k = "elif"
           THEN [next |-> from[r].next, raised |-> check \cup from[r].raised]
           ELSE [next |-> After(r), raised |-> check]
  IN from[p]

(***************************************************************************)
(* handle_preop, one action per directive.                                 *)
(***************************************************************************)
At(kinds) == pos <= N /\ program[pos].k \in kinds /\ UNCHANGED program

Init ==
  /\ program \in Programs
  /\ pos = 1 /\ nIfLevel = 0 /\ defined = FALSE /\ ran = {} /\ errors = {}

If ==
  /\ At({"if"})
  /\ nIfLevel' = nIfLevel + 1
  /\ pos' = DoIf(pos).next
  /\ errors' = errors \cup DoIf(pos).raised
  /\ UNCHANGED <<defined, ran>>

\* Unlike #if, a missing name is found before the level is raised.
Ifdef ==
  /\ At({"ifdef", "ifndef"})
  /\ nIfLevel' = IF program[pos].cond = "none" THEN nIfLevel ELSE nIfLevel + 1
  /\ pos' = DoIf(pos).next
  /\ errors' = errors \cup DoIf(pos).raised
  /\ UNCHANGED <<defined, ran>>

\* Reached from a branch that was taken.  What the skip raises is discarded.
Elif ==
  /\ At({"elif"})
  /\ errors' = errors \cup (IF nIfLevel = 0 THEN {"elif"} ELSE {})
  /\ pos' = After(SkipUntil(pos + 1, {"endif"}))
  /\ UNCHANGED <<nIfLevel, defined, ran>>

\* Mutant: the skip starts on the line of the #else.
Else_FromItself ==
  /\ At({"else"})
  /\ IF nIfLevel = 0
     THEN errors' = errors \cup {"stray"} /\ pos' = pos + 1
     ELSE UNCHANGED errors /\ pos' = SkipUntil(pos, {"else", "elif", "endif"})
  /\ UNCHANGED <<nIfLevel, defined, ran>>

Else ==
  /\ At({"else"})
  /\ IF nIfLevel = 0
     THEN errors' = errors \cup {"stray"} /\ pos' = pos + 1
     ELSE UNCHANGED errors /\ pos' = After(SkipUntil(pos + 1, {"else", "elif", "endif"}))
  /\ UNCHANGED <<nIfLevel, defined, ran>>

\* Mutant: an #if that was skipped to its end is taken back as well.
Endif_Eager ==
  /\ At({"endif"})
  /\ nIfLevel' = 0
  /\ errors' = errors \cup (IF nIfLevel = 0 THEN {"stray"} ELSE {})
  /\ pos' = pos + 1
  /\ UNCHANGED <<defined, ran>>

\* Mutant: the level is lowered before it is looked at.
Endif_Unguarded ==
  /\ At({"endif"})
  /\ nIfLevel' = nIfLevel - 1
  /\ errors' = errors \cup (IF nIfLevel = 0 THEN {"stray"} ELSE {})
  /\ pos' = pos + 1
  /\ UNCHANGED <<defined, ran>>

\* Only an #endif that is read, not one a skip ends on, lowers the level.
Endif ==
  /\ At({"endif"})
  /\ IF nIfLevel > 0
     THEN nIfLevel' = nIfLevel - 1 /\ UNCHANGED errors
     ELSE errors' = errors \cup {"stray"} /\ UNCHANGED nIfLevel
  /\ pos' = pos + 1
  /\ UNCHANGED <<defined, ran>>

Comment ==
  /\ At({"comment"})
  /\ pos' = After(SkipUntil(pos + 1, {"endcomment"}))
  /\ UNCHANGED <<nIfLevel, defined, ran, errors>>

\* The lines of a macro are kept for later; its name is none the program asks
\* for.  Unlike that of a comment, a missing end is an error.
Macro ==
  LET end == SkipUntil(pos + 1, {"endmacro"})
  IN /\ At({"macro"})
     /\ errors' = errors \cup (IF end > N THEN {"unmatched"} ELSE {})
     /\ pos' = After(end)
     /\ UNCHANGED <<nIfLevel, defined, ran>>

Define ==
  /\ At({"define", "undef"})
  /\ defined' = (program[pos].k = "define")
  /\ pos' = pos + 1
  /\ UNCHANGED <<nIfLevel, ran, errors>>

\* Any other line; a lone #endcomment or #endmacro does nothing.
Text ==
  /\ At({"text", "endcomment", "endmacro"})
  /\ ran' = IF program[pos].k = "text" THEN ran \cup {pos} ELSE ran
  /\ pos' = pos + 1
  /\ UNCHANGED <<nIfLevel, defined, errors>>

Finished == pos > N /\ UNCHANGED vars

Next == If \/ Ifdef \/ Elif \/ Else \/ Endif \/ Comment \/ Macro \/ Define \/ Text \/ Finished

\* One thread reads line after line and waits for nothing.
Spec == Init /\ [][Next]_vars /\ WF_vars(Next)

(***************************************************************************)
(* The usual reading of conditional assembly: a stack with an entry per    *)
(* open #if, read one line at a time.  An entry is "on" while its branch   *)
(* is the one taken, "off" while no branch was taken yet, "done" after     *)
(* one was taken, "skip" inside a part that is skipped.  A macro being     *)
(* defined is an entry too.  ok is false from the first line on that is    *)
(* out of place.                                                           *)
(***************************************************************************)
Enter(s, l) ==
  LET live == \A i \in DOMAIN s.stack : s.stack[i].state = "on"
      holds == CASE l.k = "if" -> l.cond = "true"
                 [] l.k = "ifdef" -> s.defined
                 [] l.k = "ifndef" -> ~s.defined
  IN [s EXCEPT !.stack = Append(@, [state |-> IF ~live THEN "skip" ELSE IF holds THEN "on" ELSE "off",
                                    elsed |-> FALSE]),
               !.ok = @ /\ l.cond # "none"]

InIf(s) == s.stack # <<>> /\ Last(s.stack).state # "macro"
InMacro(s) == \E i \in DOMAIN s.stack : s.stack[i].state = "macro"

Branch(s, l) ==
  IF ~InIf(s) \/ Last(s.stack).elsed THEN [s EXCEPT !.ok = FALSE]
  ELSE LET top == Last(s.stack)
           holds == l.k = "else" \/ l.cond = "true"
           new == CASE top.state \in {"on", "done"} -> "done"
                    [] top.state = "skip" -> "skip"
                    [] top.state = "off" -> IF holds THEN "on" ELSE "off"
       IN [s EXCEPT !.stack[Len(s.stack)] = [state |-> new, elsed |-> l.k = "else"],
                    !.ok = @ /\ l.cond # "none"]

Leave(s) ==
  IF ~InIf(s) THEN [s EXCEPT !.ok = FALSE] ELSE [s EXCEPT !.stack = Front(@)]

\* Macros do not nest.
EnterMacro(s) ==
  IF InMacro(s) THEN [s EXCEPT !.ok = FALSE]
  ELSE [s EXCEPT !.stack = Append(@, [state |-> "macro", elsed |-> FALSE])]

LeaveMacro(s) ==
  IF InMacro(s) /\ ~InIf(s) THEN [s EXCEPT !.stack = Front(@)] ELSE [s EXCEPT !.ok = FALSE]

ReadLine(s, l, i) ==
  LET live == \A j \in DOMAIN s.stack : s.stack[j].state = "on"
  IN CASE s.comment -> [s EXCEPT !.comment = l.k # "endcomment",
                                 !.ok = @ /\ ~OpensIf(l) /\ l.k # "endif" /\ l.k # "comment"]
       [] ~s.comment /\ OpensIf(l) -> Enter(s, l)
       [] ~s.comment /\ l.k \in {"elif", "else"} -> Branch(s, l)
       [] ~s.comment /\ l.k = "endif" -> Leave(s)
       [] ~s.comment /\ l.k = "macro" -> EnterMacro(s)
       [] ~s.comment /\ l.k = "endmacro" -> LeaveMacro(s)
       [] ~s.comment /\ l.k = "comment" -> [s EXCEPT !.comment = TRUE, !.ok = @ /\ live]
       [] ~s.comment /\ l.k = "endcomment" -> [s EXCEPT !.ok = FALSE]
       [] ~s.comment /\ l.k \in {"define", "undef"} ->
            [s EXCEPT !.defined = IF live THEN l.k = "define" ELSE @]
       [] ~s.comment /\ l.k = "text" -> [s EXCEPT !.ran = IF live THEN @ \cup {i} ELSE @]

Unread == [stack |-> <<>>, comment |-> FALSE, defined |-> FALSE, ran |-> {}, ok |-> TRUE]

ReadingOf(lines) ==
  LET upto[i \in 0..Len(lines)] ==
        IF i = 0 THEN Unread ELSE ReadLine(upto[i - 1], lines[i], i)
  IN upto

Reading == ReadingOf(program)

WellFormed == Reading[N].ok /\ Reading[N].stack = <<>> /\ ~Reading[N].comment

(***************************************************************************)
(* Properties.                                                             *)
(***************************************************************************)
\* Every variable has its type.
TypeOK ==
  /\ program \in Programs
  /\ pos \in 1..N + 1
  /\ nIfLevel \in 0..N
  /\ defined \in BOOLEAN
  /\ ran \subseteq 1..N
  /\ errors \subseteq {"unmatched", "expected", "elif", "stray"}

\* However it jumps about, a well-formed program has at every moment run the
\* lines the usual reading runs up to there, with the same names defined,
\* and raised no error.
FollowsStructure ==
  WellFormed =>
    /\ ran = Reading[pos - 1].ran /\ defined = Reading[pos - 1].defined
    /\ errors = {}

\* The level never falls below the number of #ifs that are open where
\* assembly is, so no #else, #elif or #endif of a well-formed program is
\* taken for stray.
LevelCoversNesting == WellFormed => nIfLevel >= Len(Reading[pos - 1].stack)

\* Every #else, #elif and #endif belongs to some #if.
NothingStray ==
  \A i \in 1..N : program[i].k \in {"else", "elif", "endif"} =>
    InIf(Reading[i - 1]) \/ Reading[i - 1].comment

\* Without comments, a program some #if or #macro of which has no end never
\* ends without an error, even if it is in a part that is skipped.
UnbalancedReported ==
  pos > N /\ errors = {} /\ NothingStray /\ (\A i \in 1..N : program[i].k # "comment") =>
    Reading[N].stack = <<>>

\* Every program comes to its end, from any line and past any missing #endif,
\* and if it is well-formed all its lines that count have been run by then.
AssemblyEnds == <>(pos > N /\ (WellFormed => ran = Reading[N].ran))
=============================================================================
