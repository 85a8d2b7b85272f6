----------------------------- MODULE ErrorStack -----------------------------
(***************************************************************************)
(* What the error sessions of errors.cpp promise: each call site that      *)
(* opened one has a list of its own, newest first.  A call site leaves by  *)
(* handing its whole list to its caller or by discarding the whole of it.  *)
(* When the outermost one leaves, what it shows goes to the user, and the  *)
(* program is over if its list held a code that is not recoverable.        *)
(***************************************************************************)
EXTENDS Integers, Sequences

CONSTANTS Errors, Warnings, Recoverable

VARIABLES stack, shown, over

stackVars == <<stack, shown, over>>

Height == Len(stack)
Below == SubSeq(stack, 1, Height - 1)

New(c) == [code |-> c, note |-> 0]

\* The lists a site may leave with: its own, one more complaint in front of
\* it, either of them marked as seen by this site.
Marked(s) == [i \in DOMAIN s |-> [s[i] EXCEPT !.note = Height]]
Final == LET own == stack[Height]
         IN {own, Marked(own)} \cup {<<New(c)>> \o own : c \in Errors \cup Warnings}

Init == stack = <<>> /\ shown = <<>> /\ over = FALSE

Open == ~over /\ stack' = Append(stack, <<>>) /\ UNCHANGED <<shown, over>>

Complain(c) ==
  /\ ~over /\ Height > 0
  /\ stack' = [stack EXCEPT ![Height] = <<New(c)>> \o @]
  /\ UNCHANGED <<shown, over>>

HandUp ==
  /\ ~over /\ Height > 1
  /\ \E s \in Final : stack' = [Below EXCEPT ![Height - 1] = s \o @]
  /\ UNCHANGED <<shown, over>>

Discard ==
  /\ ~over /\ Height > 1
  /\ stack' = Below
  /\ UNCHANGED <<shown, over>>

IsFatal(e) == e.code \notin Recoverable

\* The fatal entries of a list, oldest first: those among its k oldest.
Fatals(s) ==
  LET Oldest[k \in 0..Len(s)] ==
        IF k = 0 THEN <<>>
        ELSE IF IsFatal(s[Len(s) + 1 - k]) THEN Append(Oldest[k - 1], s[Len(s) + 1 - k])
        ELSE Oldest[k - 1]
  IN Oldest[Len(s)]

Conclude ==
  /\ ~over /\ Height = 1
  /\ LET own == stack[1]
         oldestFirst == [i \in DOMAIN own |-> own[Len(own) + 1 - i]]
     IN /\ shown' \in {shown \o oldestFirst, shown \o Fatals(own)}
        /\ over' = \E i \in DOMAIN own : IsFatal(own[i])
  /\ stack' = <<>>

Next ==
  \/ Open \/ HandUp \/ Discard \/ Conclude
  \/ \E c \in Errors \cup Warnings \cup Recoverable : Complain(c)

Spec == Init /\ [][Next]_stackVars
=============================================================================
