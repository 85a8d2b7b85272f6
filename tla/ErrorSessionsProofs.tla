------------------------- MODULE ErrorSessionsProofs -------------------------
(***************************************************************************)
(* The session discipline of ErrorSessions for every set of codes, every   *)
(* bound and every program that has no string with trailing characters.    *)
(***************************************************************************)
EXTENDS ErrorSessions, FiniteSetTheorems, NatRecursion, TLAPS

IInv == TypeOK /\ Discipline

----------------------------------------------------------------------------
(***************************************************************************)
(* The list operations on a sorted list.                                   *)
(***************************************************************************)

\* A list changed entry by entry is a list of the same length.
LEMMA EntryWise ==
  ASSUME NEW s \in Seq(Entry), NEW t, t = [i \in DOMAIN s |-> t[i]],
         \A i \in 1..Len(s) : s[i] \in Entry => t[i] \in Entry
  PROVE  t \in Seq(Entry) /\ DOMAIN t = 1..Len(s) /\ DOMAIN s = 1..Len(s) /\ Len(s) \in Nat
<1>1. DOMAIN s = 1..Len(s) /\ Len(s) \in Nat /\ \A i \in 1..Len(s) : s[i] \in Entry
  OBVIOUS
<1>2. t = [i \in 1..Len(s) |-> t[i]] /\ \A i \in 1..Len(s) : t[i] \in Entry
  BY <1>1
<1>3. t \in Seq(Entry)
  BY <1>1, <1>2
<1> QED BY <1>1, <1>2, <1>3

\* Ending the innermost session of a sorted list leaves a list sorted for the
\* session around it.
LEMMA CleanupSorted ==
  ASSUME NEW s \in Seq(Entry), NEW n \in Nat \ {0}, Sorted(s, n),
         NEW k \in 0..Len(s), IsHeadRun(s, k, n)
  PROVE  /\ SubSeq(s, k + 1, Len(s)) \in Seq(Entry)
         /\ Sorted(SubSeq(s, k + 1, Len(s)), n - 1)
<1> DEFINE t == SubSeq(s, k + 1, Len(s))
<1>1. /\ t \in Seq(Entry) /\ Len(t) = Len(s) - k /\ DOMAIN t = 1..(Len(s) - k)
      /\ \A i \in 1..(Len(s) - k) : t[i] = s[i + k]
  OBVIOUS
<1>2. \A i \in DOMAIN t : t[i].session \in 1..(n - 1)
  <2> SUFFICES ASSUME NEW i \in 1..(Len(s) - k) PROVE s[i + k].session \in 1..(n - 1)
    BY <1>1
  <2>1. k + 1 \in DOMAIN s /\ i + k \in DOMAIN s /\ k < Len(s)
    OBVIOUS
  <2>2. s[k + 1].session # n /\ s[k + 1].session \in 1..n
    BY <2>1 DEF IsHeadRun, Sorted
  <2>3. s[k + 1].session >= s[i + k].session /\ s[i + k].session \in 1..n
    BY <2>1 DEF Sorted
  <2> QED BY <2>2, <2>3
<1>3. ASSUME NEW i \in DOMAIN t, NEW j \in DOMAIN t, i <= j
      PROVE  t[i].session >= t[j].session
  <2>1. i + k \in DOMAIN s /\ j + k \in DOMAIN s /\ i + k <= j + k
    BY <1>1, <1>3
  <2>2. s[i + k].session >= s[j + k].session
    BY <2>1 DEF Sorted
  <2>3. t[i] = s[i + k] /\ t[j] = s[j + k]
    BY <1>1, <1>3
  <2> HIDE DEF t
  <2> QED BY <2>2, <2>3
<1> QED BY <1>1, <1>2, <1>3 DEF Sorted

\* Replaying the innermost session keeps the list sorted.
LEMMA ReplaySorted ==
  ASSUME NEW s \in Seq(Entry), NEW n \in Nat \ {0}, Sorted(s, n)
  PROVE  /\ ReplaySPASMErrorSession(s, n) \in Seq(Entry)
         /\ Sorted(ReplaySPASMErrorSession(s, n), n)
<1> DEFINE t == ReplaySPASMErrorSession(s, n)
<1>1. t = [i \in DOMAIN s |-> t[i]] /\ DOMAIN s = 1..Len(s)
  BY DEF ReplaySPASMErrorSession
<1>2. \A i \in 1..Len(s) :
        t[i] = IF n # 1 /\ InHeadRun(s, i, n) THEN [s[i] EXCEPT !.session = n - 1] ELSE s[i]
  BY <1>1 DEF ReplaySPASMErrorSession
<1> HIDE DEF t
<1>3. t \in Seq(Entry) /\ DOMAIN t = 1..Len(s) /\ Len(s) \in Nat
  <2>1. \A e \in Entry : [e EXCEPT !.session = n - 1] \in Entry
    BY DEF Entry
  <2>2. \A i \in 1..Len(s) : s[i] \in Entry => t[i] \in Entry
    BY <1>2, <2>1
  <2> QED BY <1>1, <2>2, EntryWise
<1>4. \A i \in 1..Len(s) :
        t[i].session = IF n # 1 /\ InHeadRun(s, i, n) THEN n - 1 ELSE s[i].session
  <2>1. \A i \in 1..Len(s) : s[i] \in Entry
    OBVIOUS
  <2> QED BY <1>2, <2>1 DEF Entry
<1>5. \A i \in 1..Len(s) : t[i].session \in 1..n
  BY <1>1, <1>4 DEF Sorted
<1>6. ASSUME NEW i \in 1..Len(s), NEW j \in 1..Len(s), i <= j
      PROVE  t[i].session >= t[j].session
  <2>1. s[i].session >= s[j].session /\ s[i].session \in 1..n /\ s[j].session \in 1..n
    BY <1>1, <1>6 DEF Sorted
  <2>2. CASE n # 1 /\ InHeadRun(s, j, n)
    <3>1. InHeadRun(s, i, n)
      BY <1>6, <2>2 DEF InHeadRun
    <3> QED BY <3>1, <2>2, <1>4
  <2>3. CASE n = 1
    BY <2>1, <2>3, <1>4
  <2>4. CASE n # 1 /\ ~InHeadRun(s, j, n)
    <3>1. PICK m \in 1..j : s[m].session # n
      BY <2>4 DEF InHeadRun
    <3>2. s[m].session >= s[j].session /\ s[m].session \in 1..n
      BY <3>1, <1>1 DEF Sorted
    <3>3. s[j].session <= n - 1
      BY <3>1, <3>2, <2>1
    <3> QED BY <3>3, <2>1, <2>4, <1>4
  <2> QED BY <2>2, <2>3, <2>4
<1> QED BY <1>1, <1>3, <1>5, <1>6 DEF Sorted, t

\* Annotating touches no session.
LEMMA AnnotationSorted ==
  ASSUME NEW s \in Seq(Entry), NEW n \in Nat \ {0}, NEW m \in Int, Sorted(s, n)
  PROVE  /\ AddSPASMErrorSessionAnnotation(s, m) \in Seq(Entry)
         /\ Sorted(AddSPASMErrorSessionAnnotation(s, m), n)
<1> DEFINE t == AddSPASMErrorSessionAnnotation(s, m)
<1>1. t = [i \in DOMAIN s |-> t[i]] /\ DOMAIN s = 1..Len(s)
  BY DEF AddSPASMErrorSessionAnnotation
<1>2. \A i \in 1..Len(s) : t[i] = IF s[i].session >= m THEN [s[i] EXCEPT !.note = m] ELSE s[i]
  BY <1>1 DEF AddSPASMErrorSessionAnnotation
<1> HIDE DEF t
<1>3. t \in Seq(Entry) /\ DOMAIN t = 1..Len(s)
  <2>1. \A i \in 1..Len(s) : s[i] \in Entry => t[i] \in Entry
    BY <1>2 DEF Entry
  <2> QED BY <1>1, <2>1, EntryWise
<1>4. \A i \in 1..Len(s) : t[i].session = s[i].session
  <2>1. \A i \in 1..Len(s) : s[i] \in Entry
    OBVIOUS
  <2> QED BY <1>2, <2>1 DEF Entry
<1> QED BY <1>1, <1>3, <1>4 DEF Sorted, t

\* A new entry is tagged with the innermost session and goes to the head.
LEMMA RaiseSorted ==
  ASSUME NEW c \in Codes, errs \in Seq(Entry), session \in Nat \ {0}, ListSorted
  PROVE  /\ SetLastSPASMProblem(c) \in Seq(Entry)
         /\ Sorted(SetLastSPASMProblem(c), session)
<1> DEFINE e == [code |-> c, session |-> session, note |-> 0]
           t == <<e>> \o errs
<1>1. e \in Entry /\ e.session = session
  BY DEF Entry
<1>2. /\ t \in Seq(Entry) /\ Len(t) = Len(errs) + 1 /\ t[1] = e
      /\ \A i \in 2..Len(t) : t[i] = errs[i - 1]
  BY <1>1
<1>3. \A i \in 2..Len(t) : t[i].session \in 1..session
  BY <1>2 DEF ListSorted, Sorted
<1>4. \A i, j \in 2..Len(t) : i <= j => t[i].session >= t[j].session
  BY <1>2 DEF ListSorted, Sorted
<1>5. /\ DOMAIN t = 1..Len(t) /\ Len(t) \in Nat /\ session \in Nat \ {0} /\ t[1].session = session
      /\ \A i \in 1..Len(t) : i = 1 \/ i \in 2..Len(t)
  BY <1>1, <1>2
<1> HIDE DEF e, t
<1>6. \A i \in 1..Len(t) : t[i].session \in 1..session
  BY <1>3, <1>5
<1>7. \A i, j \in 1..Len(t) : i <= j => t[i].session >= t[j].session
  BY <1>3, <1>4, <1>5, <1>6
<1>8. Sorted(t, session)
  BY <1>5, <1>6, <1>7 DEF Sorted
<1> QED BY <1>2, <1>8 DEF SetLastSPASMProblem, e, t

----------------------------------------------------------------------------
(***************************************************************************)
(* Entering and leaving a call site.                                       *)
(***************************************************************************)
\* What IInv says of the call stack, in the form the lemmas need it.
LEMMA Stack ==
  ASSUME IInv
  PROVE  /\ frames \in Seq(Frame) /\ Len(frames) = Depth /\ Depth \in Nat
         /\ DOMAIN frames = 1..Depth /\ session = Depth
         /\ \A i \in 1..Depth : frames[i] \in Frame /\ frames[i].id = i
         /\ Depth > 0 => Top.id = session
         /\ errs \in Seq(Entry) /\ ListSorted
<1>1. frames \in Seq(Frame) /\ errs \in Seq(Entry) /\ ListSorted
  BY DEF IInv, TypeOK, Discipline
<1>2. Len(frames) = Depth /\ Depth \in Nat /\ DOMAIN frames = 1..Depth
  BY <1>1 DEF Depth
<1>3. session = Depth /\ \A i \in 1..Depth : frames[i].id = i
  BY <1>2 DEF IInv, Discipline, SessionsNested
<1>4. \A i \in 1..Depth : frames[i] \in Frame
  BY <1>1, <1>2
<1>5. Depth > 0 => Top.id = session
  BY <1>2, <1>3 DEF Top
<1> QED BY <1>1, <1>2, <1>3, <1>4, <1>5

SameSites(fs) == \A i \in DOMAIN fs : fs[i].id = frames[i].id

LEMMA EnterSite ==
  ASSUME IInv, NEW fs \in Seq(Frame), Len(fs) = Depth, SameSites(fs),
         NEW kind \in Kinds, StartSPASMErrorSession(fs, kind), errs' = errs
  PROVE  frames' \in Seq(Frame) /\ session' \in Int /\ Discipline'
<1>1. /\ session' = session + 1 /\ session \in Nat /\ Len(fs) = session
      /\ frames' = Append(fs, [kind |-> kind, id |-> session + 1])
  BY Stack DEF StartSPASMErrorSession
<1>2. [kind |-> kind, id |-> session + 1] \in Frame
  BY <1>1 DEF Frame
<1>3. frames' \in Seq(Frame) /\ Len(frames') = session'
  BY <1>1, <1>2
<1>4. \A i \in 1..session : fs[i].id = i
  <2>1. DOMAIN fs = 1..session /\ session = Depth
    BY <1>1, Stack
  <2> QED BY <2>1, Stack DEF SameSites
<1>5. SessionsNested'
  BY <1>1, <1>2, <1>3, <1>4 DEF SessionsNested, Depth
<1>6. ListSorted'
  BY <1>1, Stack DEF ListSorted, Sorted
<1> QED BY <1>1, <1>3, <1>5, <1>6 DEF Discipline

LEMMA LeaveSite ==
  ASSUME IInv, Depth > 0, NEW s \in Seq(Entry), Sorted(s, session),
         CleanupSPASMErrorSession(s, Top.id),
         frames' \in Seq(Frame), Len(frames') = Depth - 1,
         \A i \in 1..(Depth - 1) : frames'[i].id = frames[i].id
  PROVE  errs' \in Seq(Entry) /\ session' \in Int /\ Discipline'
<1>1. /\ Top.id = session /\ session \in Nat \ {0}
  BY Stack
<1>2. PICK k \in 0..Len(s) : IsHeadRun(s, k, session) /\ errs' = SubSeq(s, k + 1, Len(s))
  BY <1>1 DEF CleanupSPASMErrorSession
<1>3. session' = session - 1
  BY DEF CleanupSPASMErrorSession
<1>4. errs' \in Seq(Entry) /\ Sorted(errs', session - 1)
  BY <1>1, <1>2, CleanupSorted
<1>5. ListSorted'
  BY <1>3, <1>4 DEF ListSorted
<1>6. SessionsNested'
  BY SMTT(20), <1>3, Stack DEF SessionsNested, Depth
<1> QED BY <1>1, <1>3, <1>4, <1>5, <1>6 DEF Discipline

LEMMA ReplayAndLeave ==
  ASSUME IInv, Depth > 0, NEW s \in Seq(Entry), Sorted(s, session),
         NEW fatalOnly \in BOOLEAN, NEW next, ReplayAndEnd(s, Top.id, fatalOnly, next),
         frames' \in Seq(Frame), Len(frames') = Depth - 1,
         \A i \in 1..(Depth - 1) : frames'[i].id = frames[i].id
  PROVE  errs' \in Seq(Entry) /\ session' \in Int /\ Discipline' /\ phase' \in {"exited", next}
<1>1. Top.id = session /\ session \in Nat \ {0}
  BY Stack
<1> DEFINE r == ReplaySPASMErrorSession(s, session)
<1>2. r \in Seq(Entry) /\ Sorted(r, session)
  BY <1>1, ReplaySorted
<1>3. CleanupSPASMErrorSession(r, Top.id) /\ phase' \in {"exited", next}
  BY <1>1 DEF ReplayAndEnd, EndSPASMErrorSession
<1> HIDE DEF r
<1> QED BY <1>2, <1>3, LeaveSite

\* Popping the innermost site leaves the others as they are.
LEMMA PopSites ==
  ASSUME IInv, Depth > 0
  PROVE  /\ Pop \in Seq(Frame) /\ Len(Pop) = Depth - 1
         /\ \A i \in 1..(Depth - 1) : Pop[i] = frames[i]
BY Stack DEF Pop

\* Changing what a site is doing changes no site's number.
LEMMA RenameSite ==
  ASSUME NEW fs \in Seq(Frame), NEW d \in Int, NEW kind \in Kinds
  PROVE  LET gs == [fs EXCEPT ![d].kind = kind]
         IN /\ gs \in Seq(Frame) /\ Len(gs) = Len(fs) /\ DOMAIN gs = 1..Len(fs)
            /\ \A i \in 1..Len(fs) : gs[i].id = fs[i].id
<1> DEFINE gs == [fs EXCEPT ![d].kind = kind]
<1>0. DOMAIN fs = 1..Len(fs) /\ Len(fs) \in Nat /\ DOMAIN gs = DOMAIN fs
  OBVIOUS
<1>1. DOMAIN gs = 1..Len(fs) /\ Len(fs) \in Nat
  BY <1>0
<1>2. \A i \in 1..Len(fs) : gs[i] = IF i = d THEN [fs[i] EXCEPT !.kind = kind] ELSE fs[i]
  BY <1>0
<1>3. \A i \in 1..Len(fs) : fs[i] \in Frame
  OBVIOUS
<1>4. \A i \in 1..Len(fs) : gs[i] \in Frame /\ gs[i].id = fs[i].id
  BY <1>2, <1>3 DEF Frame
<1>5. gs = [i \in 1..Len(fs) |-> gs[i]]
  BY <1>1
<1> HIDE DEF gs
<1>6. gs \in Seq(Frame) /\ Len(gs) = Len(fs)
  BY <1>1, <1>4, <1>5
<1> QED BY <1>1, <1>4, <1>6 DEF gs

----------------------------------------------------------------------------
(***************************************************************************)
(* The invariant.  A step that only touches the list or the names of the   *)
(* sites is handled in place; entering and leaving use the lemmas above.   *)
(***************************************************************************)
Phases == DOMAIN Successor \cup {"done", "exited"}

LEMMA StepKeepsIInv ==
  ASSUME "string_junk" \notin Clients, IInv, [Next]_vars
  PROVE  IInv'
<1> DEFINE Rest == /\ phase' \in Phases /\ raised' \in 0..MaxRaised
                   /\ owed' \subseteq Losses /\ output' \in {"none", "written", "failed"}
           Core == /\ errs' \in Seq(Entry) /\ session' \in Int
                   /\ frames' \in Seq(Frame) /\ Discipline'
<1>0. /\ phase \in Phases /\ raised \in 0..MaxRaised /\ owed \subseteq Losses
      /\ output \in {"none", "written", "failed"} /\ MaxRaised \in Nat
  BY CodesAssumption DEF IInv, TypeOK, Phases
<1>a. SUFFICES Core /\ Rest
  BY DEF IInv, TypeOK, Phases
<1>b. \A K : InKind(K) => Depth > 0 /\ Running
  BY DEF InKind
<1>c. Running => phase \in DOMAIN Successor /\ Successor[phase] \in Phases
  BY <1>0 DEF Running, Phases, Successor
<1> HIDE DEF Phases
<1>d. "exited" \in Phases
  BY DEF Phases
\* Entering.
<1>e. ASSUME NEW kind \in Kinds, StartSPASMErrorSession(frames, kind), errs' = errs
      PROVE  Core
  BY <1>e, Stack, EnterSite DEF SameSites
<1>f. ASSUME NEW old \in Kinds, NEW kind \in Kinds, Depth > 0, errs' = errs,
             StartSPASMErrorSession([frames EXCEPT ![Depth].kind = old], kind)
      PROVE  Core
  <2>0. PICK fs : fs = [frames EXCEPT ![Depth].kind = old]
    OBVIOUS
  <2>1. frames \in Seq(Frame) /\ Len(frames) = Depth /\ Depth \in Int
    BY Stack
  <2>2. fs \in Seq(Frame) /\ Len(fs) = Depth /\ DOMAIN fs = 1..Depth
        /\ \A i \in 1..Depth : fs[i].id = frames[i].id
    BY <2>0, <2>1, RenameSite
  <2>3. SameSites(fs)
    BY <2>2 DEF SameSites
  <2>4. StartSPASMErrorSession(fs, kind) /\ errs' = errs /\ kind \in Kinds
    BY <1>f, <2>0
  <2>5. fs \in Seq(Frame) /\ Len(fs) = Depth
    BY <2>2
  <2>6. frames' \in Seq(Frame) /\ session' \in Int /\ Discipline'
    BY <2>3, <2>4, <2>5, EnterSite
  <2>7. errs' \in Seq(Entry)
    BY <2>4, Stack
  <2> QED BY <2>6, <2>7
\* Leaving.
<1>g. ASSUME Depth > 0, frames' = Pop
      PROVE  /\ frames' \in Seq(Frame) /\ Len(frames') = Depth - 1
             /\ \A i \in 1..(Depth - 1) : frames'[i].id = frames[i].id
  BY <1>g, PopSites
<1>h. ASSUME Depth > 0, frames' = Pop, EndSPASMErrorSession(errs, Top.id, phase)
      PROVE  Core /\ phase' \in Phases
  BY <1>h, <1>g, <1>0, <1>d, Stack, LeaveSite DEF ListSorted, EndSPASMErrorSession
<1>i. ASSUME Depth > 0, frames' = Pop, NEW s \in Seq(Entry), Sorted(s, session),
             NEW b \in BOOLEAN, NEW next \in Phases, ReplayAndEnd(s, Top.id, b, next)
      PROVE  Core /\ phase' \in Phases
  BY <1>i, <1>g, <1>d, ReplayAndLeave
<1>j. ASSUME Depth > 0
      PROVE  /\ errs \in Seq(Entry) /\ Sorted(errs, session)
             /\ AddSPASMErrorSessionAnnotation(errs, Top.id) \in Seq(Entry)
             /\ Sorted(AddSPASMErrorSessionAnnotation(errs, Top.id), session)
             /\ \A c \in Codes : /\ SetLastSPASMProblem(c) \in Seq(Entry)
                                 /\ Sorted(SetLastSPASMProblem(c), session)
  <2>1. errs \in Seq(Entry) /\ Sorted(errs, session) /\ session \in Nat \ {0} /\ Top.id \in Int
    BY <1>j, Stack DEF ListSorted
  <2> QED BY <2>1, AnnotationSorted, RaiseSorted DEF ListSorted
\* Staying.
<1>k. ASSUME Depth > 0, UNCHANGED <<session, frames>>, NEW c \in Codes, errs' = SetLastSPASMProblem(c)
      PROVE  Core
  BY <1>k, <1>j, Stack DEF ListSorted, Discipline, SessionsNested, Depth, IInv
<1>l. ASSUME Depth > 0, NEW kind \in Kinds, frames' = [frames EXCEPT ![Depth].kind = kind],
             UNCHANGED <<errs, session>>
      PROVE  Core
  <2>1. frames \in Seq(Frame) /\ Len(frames) = Depth /\ Depth \in Int
    BY Stack
  <2>2. frames' \in Seq(Frame) /\ Len(frames') = Depth /\ DOMAIN frames' = 1..Depth
        /\ \A i \in 1..Depth : frames'[i].id = frames[i].id
    BY <1>l, <2>1, RenameSite
  <2>3. SessionsNested'
    BY <1>l, <2>2, Stack DEF SessionsNested, Depth
  <2> QED BY <1>l, <2>2, <2>3, Stack DEF Discipline, ListSorted
<1>q. ASSUME Depth > 0, EndSPASMErrorSession(errs, Top.id, phase),
             frames' = Pop \/ frames' = [Pop EXCEPT ![Depth - 1].kind = "define_failed"]
      PROVE  Core /\ phase' \in Phases
  <2>1. /\ Pop \in Seq(Frame) /\ Len(Pop) = Depth - 1 /\ Depth - 1 \in Int /\ "define_failed" \in Kinds
        /\ \A i \in 1..(Depth - 1) : Pop[i].id = frames[i].id
    BY <1>q, PopSites, Stack DEF Kinds
  <2>2. CASE frames' = Pop
    BY <1>q, <2>1, <2>2, <1>h
  <2>3. CASE frames' = [Pop EXCEPT ![Depth - 1].kind = "define_failed"]
    <3>1. /\ frames' \in Seq(Frame) /\ Len(frames') = Depth - 1
          /\ \A i \in 1..(Depth - 1) : frames'[i].id = Pop[i].id
      BY <2>1, <2>3, RenameSite
    <3> QED
      BY <1>q, <2>1, <3>1, <1>0, <1>d, Stack, LeaveSite DEF ListSorted, EndSPASMErrorSession
  <2> QED BY <1>q, <2>2, <2>3
<1>m. UNCHANGED <<errs, session, frames>> => Core
  BY Stack DEF IInv, Discipline, SessionsNested, ListSorted, Depth
<1> HIDE DEF Core
\* The codes handlers raise.
<1>n. /\ Errors \cup Warnings \subseteq Codes
      /\ raised < MaxRaised => raised + 1 \in 0..MaxRaised
  BY <1>0 DEF Codes
<1>o. \A n : Owe(n) \/ Record(n, "define") \/ Record(n, "empty") => owed' \subseteq Losses
  BY <1>0 DEF Owe, Record, Via, Losses
<1>p. ASSUME Depth > 0, Running, WriteAndReplay
      PROVE  Core /\ Rest
  <2>1. frames' = Pop /\ output' = output
    BY <1>p DEF WriteAndReplay
  <2>2. CASE ReplayAndEnd(errs, Top.id, FALSE, phase) /\ UNCHANGED <<raised, owed>>
    BY <1>p, <2>1, <2>2, <1>0, <1>i, <1>j
  <2>3. CASE /\ raised < MaxRaised /\ raised' = raised + 1 /\ Owe(Depth - 1)
             /\ \E c \in Errors \cup Warnings :
                  ReplayAndEnd(SetLastSPASMProblem(c), Top.id, FALSE, phase)
    BY <1>p, <2>1, <2>3, <1>0, <1>i, <1>j, <1>n, <1>o
  <2> QED BY <1>p, <2>2, <2>3 DEF WriteAndReplay
<1> USE DEF InKind
<1>1. CASE StartPhase
  BY <1>1, <1>0, <1>e DEF StartPhase, Kinds
<1>2. CASE WriteFile
  <2>1. CASE errs' = errs
    BY <1>2, <2>1, <1>0, <1>m, <1>n DEF WriteFile
  <2>2. CASE \E c \in Errors \cup Warnings : errs' = SetLastSPASMProblem(c)
    BY <1>2, <2>2, <1>0, <1>k, <1>n DEF WriteFile
  <2>3. Rest
    BY <1>2, <1>0, <1>n DEF WriteFile
  <2> QED BY <1>2, <2>1, <2>2, <2>3 DEF WriteFile
<1>3. CASE EndPhase
  BY <1>3, <1>0, <1>b, <1>c, <1>i, <1>j DEF EndPhase
<1>4. ASSUME NEW c \in Codes, Raise(c) PROVE Core /\ Rest
  <2>1. Depth > 0
    BY <1>4 DEF Raise, ParsesExpressions, RunsStatements
  <2>2. Core
    BY <1>4, <2>1, <1>k DEF Raise
  <2>3. Rest
    BY <1>4, <1>0, <1>n, <1>o DEF Raise
  <2> QED BY <2>2, <2>3
<1>5. CASE BeginQuiet
  BY <1>5, <1>0, <1>e DEF BeginQuiet, Kinds
<1>6. CASE EndQuiet
  BY <1>6, <1>0, <1>h DEF EndQuiet
<1>7. CASE BeginMacro
  BY <1>7, <1>0, <1>e DEF BeginMacro, Kinds
<1>8. CASE RunMacroBody
  BY <1>8, <1>0, <1>l DEF RunMacroBody, Kinds
<1>9. CASE EndMacro
  BY <1>9, <1>0, <1>i, <1>j, <1>o DEF EndMacro
<1>10. CASE BeginExprMacro
  BY <1>10, <1>0, <1>e DEF BeginExprMacro, Kinds
<1>11. CASE BeginFcreateRun
  BY <1>11, <1>0, <1>e DEF BeginFcreateRun, Kinds
<1>12. CASE EndAnnotated
  <2>1. CASE EndSPASMErrorSession(errs, Top.id, phase)
    BY <1>12, <2>1, <1>0, <1>h DEF EndAnnotated
  <2>2. CASE ReplayAndEnd(AddSPASMErrorSessionAnnotation(errs, Top.id), Top.id, FALSE, phase)
    BY <1>12, <2>2, <1>0, <1>i, <1>j DEF EndAnnotated
  <2> QED BY <1>12, <2>1, <2>2 DEF EndAnnotated
<1>13. CASE BeginDefer
  BY <1>13, <1>0, <1>e DEF BeginDefer, Kinds
<1>14. CASE DeferToPassTwo
  BY <1>14, <1>0, <1>h DEF DeferToPassTwo
<1>15. CASE DeferFails
  BY <1>15, <1>0, <1>i, <1>j, <1>o DEF DeferFails
<1>16. CASE DeferWrites
  BY <1>16, <1>p DEF DeferWrites
<1>17. CASE BeginWord
  BY <1>17, <1>0, <1>e DEF BeginWord, Kinds
<1>18. CASE WordParsed
  BY <1>18, <1>p DEF WordParsed
<1>19. CASE WordForward
  BY <1>19, <1>0, <1>f DEF WordForward, Kinds
<1>20. CASE EndForwardWord
  BY <1>20, <1>0, <1>i, <1>j DEF EndForwardWord
<1>21. CASE WordError
  BY <1>21, <1>0, <1>i, <1>j, <1>o DEF WordError
<1>22. CASE BeginDefineSingle
  BY <1>22, <1>0, <1>f DEF BeginDefineSingle, Kinds
<1>23. CASE EndDefineInner
  BY <1>23, <1>0, <1>q DEF EndDefineInner
<1>24. CASE EndDefineSingle
  <2>1. CASE EndSPASMErrorSession(errs, Top.id, phase)
    BY <1>24, <2>1, <1>0, <1>h, <1>o DEF EndDefineSingle
  <2>2. CASE ReplayAndEnd(AddSPASMErrorSessionAnnotation(errs, Top.id), Top.id, FALSE, phase)
    BY <1>24, <2>2, <1>0, <1>i, <1>j, <1>o DEF EndDefineSingle
  <2> QED BY <1>24, <2>1, <2>2 DEF EndDefineSingle
<1>25. CASE BeginDefineList
  BY <1>25, <1>0, <1>l DEF BeginDefineList, Kinds
<1>26. CASE EndDefineList \/ DefineEmpty
  BY <1>26, <1>0, <1>h, <1>o DEF EndDefineList, DefineEmpty
<1>27. CASE StringJunk
  BY <1>27 DEF StringJunk
<1>28. CASE Done \/ UNCHANGED vars
  BY <1>28, <1>0, <1>m DEF Done, vars
<1> QED
  BY <1>1, <1>2, <1>3, <1>4, <1>5, <1>6, <1>7, <1>8, <1>9, <1>10, <1>11, <1>12, <1>13, <1>14, <1>15,
     <1>16, <1>17, <1>18, <1>19, <1>20, <1>21, <1>22, <1>23, <1>24, <1>25, <1>26, <1>27, <1>28
  DEF Next

LEMMA InitIInv == Init => IInv
<1> SUFFICES ASSUME Init PROVE IInv
  OBVIOUS
<1>1. errs = <<>> /\ frames = <<>> /\ session = 0
  BY DEF Init
<1>2. TypeOK
  <2>1. errs \in Seq(Entry) /\ frames \in Seq(Frame) /\ session \in Int
    BY <1>1
  <2>2. phase \in DOMAIN Successor
    BY DEF Init, Successor
  <2>3. raised \in 0..MaxRaised
    BY CodesAssumption DEF Init
  <2>4. owed \subseteq Losses /\ output \in {"none", "written", "failed"}
    BY DEF Init
  <2> QED BY <2>1, <2>2, <2>3, <2>4 DEF TypeOK
<1>3. SessionsNested
  BY <1>1 DEF SessionsNested, Depth
<1>4. ListSorted
  BY <1>1 DEF ListSorted, Sorted
<1> QED BY <1>2, <1>3, <1>4 DEF IInv, Discipline

----------------------------------------------------------------------------
(***************************************************************************)
(* What holds of every program, also one whose strings have trailing       *)
(* characters: the types, and how far the counter and the stack move.      *)
(***************************************************************************)
LEMMA ListsTyped ==
  ASSUME NEW s \in Seq(Entry), NEW n \in Int
  PROVE  /\ ReplaySPASMErrorSession(s, n) \in Seq(Entry)
         /\ AddSPASMErrorSessionAnnotation(s, n) \in Seq(Entry)
         /\ \A k \in 0..Len(s) : SubSeq(s, k + 1, Len(s)) \in Seq(Entry)
<1>1. DOMAIN s = 1..Len(s) /\ Len(s) \in Nat
  OBVIOUS
<1>2. \A e \in Entry : [e EXCEPT !.session = n - 1] \in Entry /\ [e EXCEPT !.note = n] \in Entry
  BY DEF Entry
<1>3. PICK t : t = ReplaySPASMErrorSession(s, n)
  OBVIOUS
<1>4. PICK u : u = AddSPASMErrorSessionAnnotation(s, n)
  OBVIOUS
<1>5. t = [i \in DOMAIN s |-> t[i]] /\ \A i \in 1..Len(s) : s[i] \in Entry => t[i] \in Entry
  BY <1>1, <1>2, <1>3 DEF ReplaySPASMErrorSession
<1>6. u = [i \in DOMAIN s |-> u[i]] /\ \A i \in 1..Len(s) : s[i] \in Entry => u[i] \in Entry
  BY <1>1, <1>2, <1>4 DEF AddSPASMErrorSessionAnnotation
<1>7. t \in Seq(Entry)
  BY <1>5, EntryWise
<1>8. u \in Seq(Entry)
  BY <1>6, EntryWise
<1> QED BY <1>3, <1>4, <1>7, <1>8

LEMMA RaiseTyped ==
  ASSUME NEW c \in Codes, TypeOK
  PROVE  SetLastSPASMProblem(c) \in Seq(Entry)
<1>1. [code |-> c, session |-> session, note |-> 0] \in Entry /\ errs \in Seq(Entry)
  BY DEF Entry, TypeOK
<1> QED BY <1>1 DEF SetLastSPASMProblem

\* No step lets the counter gain on the stack: a call site that starts a
\* session is pushed, one that is popped ends its session.
Balanced == session' - session <= Depth' - Depth

LEMMA StepKeepsType ==
  ASSUME TypeOK, [Next]_vars
  PROVE  TypeOK' /\ Balanced
<1> DEFINE Rest == /\ phase' \in Phases /\ raised' \in 0..MaxRaised
                   /\ owed' \subseteq Losses /\ output' \in {"none", "written", "failed"}
           Core == /\ errs' \in Seq(Entry) /\ session' \in Int
                   /\ frames' \in Seq(Frame) /\ Balanced
<1>0. /\ phase \in Phases /\ raised \in 0..MaxRaised /\ owed \subseteq Losses
      /\ output \in {"none", "written", "failed"} /\ MaxRaised \in Nat
      /\ errs \in Seq(Entry) /\ frames \in Seq(Frame) /\ session \in Int
      /\ Depth = Len(frames) /\ Depth \in Nat
  BY CodesAssumption DEF TypeOK, Phases, Depth
<1>a. SUFFICES Core /\ Rest
  BY DEF TypeOK, Phases
<1>c. Running => phase \in DOMAIN Successor /\ Successor[phase] \in Phases
  BY <1>0 DEF Running, Phases, Successor
<1>d. "exited" \in Phases
  BY DEF Phases
<1> HIDE DEF Phases
<1>e. ASSUME Depth > 0 PROVE Top.id \in Int
  <2>1. Top = frames[Depth] /\ frames[Depth] \in Frame
    BY <1>e, <1>0 DEF Top
  <2> QED BY <2>1 DEF Frame
<1>f. ASSUME NEW fs \in Seq(Frame), Len(fs) = Depth, NEW kind \in Kinds,
             StartSPASMErrorSession(fs, kind), errs' = errs
      PROVE  Core
  <2>1. [kind |-> kind, id |-> session + 1] \in Frame
    BY <1>0 DEF Frame
  <2> QED BY <1>f, <1>0, <2>1 DEF StartSPASMErrorSession, Balanced, Depth
<1>g. ASSUME NEW old \in Kinds
      PROVE  [frames EXCEPT ![Depth].kind = old] \in Seq(Frame)
             /\ Len([frames EXCEPT ![Depth].kind = old]) = Depth
  BY <1>0, RenameSite
<1>h. ASSUME NEW s \in Seq(Entry), NEW n \in Int, NEW next \in Phases, EndSPASMErrorSession(s, n, next)
      PROVE  errs' \in Seq(Entry) /\ session' = session - 1 /\ phase' \in Phases
  BY <1>h, <1>d, ListsTyped DEF EndSPASMErrorSession, CleanupSPASMErrorSession
<1>i. ASSUME NEW s \in Seq(Entry), NEW n \in Int, NEW next \in Phases, NEW b \in BOOLEAN,
             ReplayAndEnd(s, n, b, next)
      PROVE  errs' \in Seq(Entry) /\ session' = session - 1 /\ phase' \in Phases
  <2>1. PICK r \in Seq(Entry) : r = ReplaySPASMErrorSession(s, n)
    BY ListsTyped
  <2>2. EndSPASMErrorSession(r, n, next)
    BY <1>i, <2>1 DEF ReplayAndEnd
  <2> QED BY <2>2, <1>h
<1>j. ASSUME Depth > 0
      PROVE  Pop \in Seq(Frame) /\ Len(Pop) = Depth - 1 /\ Depth - 1 \in Int
  BY <1>j, <1>0 DEF Pop
<1>k. ASSUME errs' \in Seq(Entry), session' = session - 1, frames' \in Seq(Frame),
             Len(frames') >= Depth - 1
      PROVE  Core
  BY <1>k, <1>0 DEF Balanced, Depth
<1>l. ASSUME Depth > 0, frames' = Pop, EndSPASMErrorSession(errs, Top.id, phase)
      PROVE  Core /\ phase' \in Phases
  BY <1>l, <1>0, <1>e, <1>h, <1>j, <1>k
<1>m. ASSUME Depth > 0, frames' = Pop, NEW s \in Seq(Entry), NEW b \in BOOLEAN, NEW next \in Phases,
             ReplayAndEnd(s, Top.id, b, next)
      PROVE  Core /\ phase' \in Phases
  BY <1>m, <1>0, <1>e, <1>i, <1>j, <1>k
<1>n. ASSUME errs' \in Seq(Entry), session' = session, frames' \in Seq(Frame), Len(frames') = Depth
      PROVE  Core
  BY <1>n, <1>0 DEF Balanced, Depth
<1>o. /\ Errors \cup Warnings \subseteq Codes
      /\ raised < MaxRaised => raised + 1 \in 0..MaxRaised
      /\ \A n : Owe(n) \/ Record(n, "define") \/ Record(n, "empty") => owed' \subseteq Losses
      /\ \A c \in Codes : SetLastSPASMProblem(c) \in Seq(Entry)
  <2>1. \A c \in Codes : SetLastSPASMProblem(c) \in Seq(Entry)
    BY RaiseTyped
  <2>2. \A n : Owe(n) \/ Record(n, "define") \/ Record(n, "empty") => owed' \subseteq Losses
    BY <1>0 DEF Owe, Record, Via, Losses
  <2> QED BY <1>0, <2>1, <2>2 DEF Codes
<1>p. Depth > 0 => AddSPASMErrorSessionAnnotation(errs, Top.id) \in Seq(Entry)
  BY <1>0, <1>e, ListsTyped
<1>q. ASSUME Depth > 0, Running, WriteAndReplay
      PROVE  Core /\ Rest
  <2>1. frames' = Pop /\ output' = output
    BY <1>q DEF WriteAndReplay
  <2>2. CASE ReplayAndEnd(errs, Top.id, FALSE, phase) /\ UNCHANGED <<raised, owed>>
    BY <1>q, <2>1, <2>2, <1>0, <1>m
  <2>3. CASE /\ raised < MaxRaised /\ raised' = raised + 1 /\ Owe(Depth - 1)
             /\ \E c \in Errors \cup Warnings :
                  ReplayAndEnd(SetLastSPASMProblem(c), Top.id, FALSE, phase)
    BY <1>q, <2>1, <2>3, <1>0, <1>m, <1>o
  <2> QED BY <1>q, <2>2, <2>3 DEF WriteAndReplay
<1>r. \A K : InKind(K) => Depth > 0 /\ Running
  BY DEF InKind
<1> HIDE DEF Core
<1> USE DEF InKind
<1>1. CASE StartPhase
  BY <1>1, <1>0, <1>f DEF StartPhase, Kinds
<1>2. CASE WriteFile
  BY <1>2, <1>0, <1>n, <1>o DEF WriteFile
<1>3. CASE EndPhase
  BY <1>3, <1>0, <1>c, <1>m DEF EndPhase
<1>4. ASSUME NEW c \in Codes, Raise(c) PROVE Core /\ Rest
  BY <1>4, <1>0, <1>n, <1>o DEF Raise
<1>5. CASE BeginQuiet \/ BeginMacro \/ BeginExprMacro \/ BeginFcreateRun \/ BeginDefer \/ BeginWord
  BY <1>5, <1>0, <1>f
  DEF BeginQuiet, BeginMacro, BeginExprMacro, BeginFcreateRun, BeginDefer, BeginWord, Kinds
<1>6. CASE EndQuiet \/ DeferToPassTwo \/ EndDefineList \/ DefineEmpty
  BY <1>6, <1>0, <1>l, <1>o DEF EndQuiet, DeferToPassTwo, EndDefineList, DefineEmpty
<1>7. CASE RunMacroBody \/ BeginDefineList
  BY <1>7, <1>0, <1>g, <1>n DEF RunMacroBody, BeginDefineList, Kinds
<1>8. CASE EndMacro
  BY <1>8, <1>0, <1>m, <1>o, <1>p DEF EndMacro
<1>9. CASE EndAnnotated \/ EndDefineSingle
  <2>1. /\ Depth > 0 /\ Running /\ frames' = Pop /\ UNCHANGED <<raised, output>>
        /\ owed' = owed \/ Record(Depth - 1, "define")
        /\ \/ EndSPASMErrorSession(errs, Top.id, phase)
           \/ ReplayAndEnd(AddSPASMErrorSessionAnnotation(errs, Top.id), Top.id, FALSE, phase)
    BY <1>9 DEF EndAnnotated, EndDefineSingle
  <2> QED BY <2>1, <1>0, <1>l, <1>m, <1>o, <1>p
<1>10. CASE DeferFails \/ WordError
  BY <1>10, <1>0, <1>m, <1>o DEF DeferFails, WordError
<1>11. CASE DeferWrites \/ WordParsed
  BY <1>11, <1>q DEF DeferWrites, WordParsed
<1>12. CASE WordForward
  BY <1>12, <1>0, <1>f, <1>g DEF WordForward, Kinds
<1>13. CASE EndForwardWord
  BY <1>13, <1>0, <1>m DEF EndForwardWord
<1>14. CASE BeginDefineSingle
  BY <1>14, <1>0, <1>f, <1>g DEF BeginDefineSingle, Kinds
<1>15. CASE EndDefineInner
  <2>1. /\ Depth > 0 /\ Running /\ EndSPASMErrorSession(errs, Top.id, phase)
        /\ frames' = Pop \/ frames' = [Pop EXCEPT ![Depth - 1].kind = "define_failed"]
        /\ UNCHANGED <<raised, owed, output>>
    BY <1>15 DEF EndDefineInner
  <2>2. frames' \in Seq(Frame) /\ Len(frames') = Depth - 1
    <3>1. "define_failed" \in Kinds
      BY DEF Kinds
    <3> QED BY <2>1, <3>1, <1>j, RenameSite
  <2> QED BY <2>1, <2>2, <1>0, <1>e, <1>h, <1>k
<1>16. CASE StringJunk
  <2>1. PICK n \in 0..(session + 1) : ReplayAndEnd(errs, n, FALSE, phase)
    BY <1>16 DEF StringJunk
  <2>2. errs' \in Seq(Entry) /\ session' = session - 1 /\ phase' \in Phases
    <3>1. n \in Int
      BY <1>0
    <3> QED BY <2>1, <3>1, <1>0, <1>i
  <2> QED BY <2>2, <1>16, <1>0, <1>k DEF StringJunk
<1>17. CASE Done \/ UNCHANGED vars
  BY <1>17, <1>0, <1>n DEF Done, vars
<1> QED
  BY <1>1, <1>2, <1>3, <1>4, <1>5, <1>6, <1>7, <1>8, <1>9, <1>10, <1>11, <1>12, <1>13, <1>14, <1>15,
     <1>16, <1>17
  DEF Next

\* Whatever a program does, the state stays well-typed, also when a string
\* with trailing characters makes errors.cpp end a session nobody started.
THEOREM TypeCorrect == Spec => []TypeOK
<1>1. Init => TypeOK
  BY InitIInv DEF IInv
<1>2. TypeOK /\ [Next]_vars => TypeOK'
  BY StepKeepsType
<1> QED BY <1>1, <1>2, PTL DEF Spec

\* No program, not even one with such strings, makes the session counter
\* exceed the number of call sites under way: every path through a call site
\* that started a session ends it.
THEOREM SessionsMatched == Spec => []NoSessionLeak
<1>1. Init => TypeOK /\ NoSessionLeak
  BY InitIInv DEF IInv, Init, NoSessionLeak, Depth
<1>2. TypeOK /\ NoSessionLeak /\ [Next]_vars => (TypeOK /\ NoSessionLeak)'
  <2> SUFFICES ASSUME TypeOK, NoSessionLeak, [Next]_vars PROVE TypeOK' /\ NoSessionLeak'
    OBVIOUS
  <2>1. TypeOK' /\ Balanced
    BY StepKeepsType
  <2>2. /\ session \in Int /\ Depth \in Int /\ session' \in Int /\ Depth' \in Int
    BY <2>1 DEF TypeOK, Depth
  <2>3. session <= Depth
    BY DEF NoSessionLeak
  <2>4. session' - session <= Depth' - Depth
    BY <2>1 DEF Balanced
  <2>5. session' <= Depth'
    BY <2>2, <2>3, <2>4 DEF Depth
  <2> QED BY <2>1, <2>5 DEF NoSessionLeak
<1> QED BY <1>1, <1>2, PTL DEF Spec

\* Every call site's session number is its depth on the call stack and the
\* diagnostics are sorted by it, whatever the nesting and the codes: the
\* walks of errors.cpp that stop at the first foreign entry see everything.
THEOREM SessionDiscipline ==
  ASSUME "string_junk" \notin Clients
  PROVE  Spec => []Discipline
<1>1. Init => IInv
  BY InitIInv
<1>2. IInv /\ [Next]_vars => IInv'
  BY StepKeepsIInv
<1>3. IInv => Discipline
  BY DEF IInv
<1> QED BY <1>1, <1>2, <1>3, PTL DEF Spec

----------------------------------------------------------------------------
(***************************************************************************)
(* What becomes of a fatal entry.                                          *)
(***************************************************************************)
FatalIn(s, n) == \E i \in DOMAIN s : s[i].session = n /\ IsSPASMErrorFatal(s[i].code)

\* In a sorted list the walk from the head meets the whole innermost session.
LEMMA HeadRunComplete ==
  ASSUME NEW s \in Seq(Entry), NEW n \in Nat \ {0}, Sorted(s, n), NEW i \in DOMAIN s
  PROVE  InHeadRun(s, i, n) <=> s[i].session = n
<1>1. ASSUME s[i].session = n, NEW j \in 1..i PROVE s[j].session = n
  <2>1. j \in DOMAIN s /\ j <= i
    OBVIOUS
  <2>2. s[j].session >= s[i].session /\ s[j].session \in 1..n
    BY <2>1 DEF Sorted
  <2> QED BY <1>1, <2>2
<1>2. i \in 1..i
  OBVIOUS
<1> QED BY <1>1, <1>2 DEF InHeadRun

LEMMA SessionFatal ==
  ASSUME NEW s \in Seq(Entry), NEW n \in Nat \ {0}, Sorted(s, n)
  PROVE  IsSPASMErrorSessionFatal(s, n) <=> FatalIn(s, n)
BY HeadRunComplete DEF IsSPASMErrorSessionFatal, FatalIn

LEMMA FatalAfterCleanup ==
  ASSUME NEW s \in Seq(Entry), NEW n \in Nat \ {0},
         NEW k \in 0..Len(s), IsHeadRun(s, k, n), NEW m \in Nat, m < n, FatalIn(s, m)
  PROVE  FatalIn(SubSeq(s, k + 1, Len(s)), m)
<1>1. PICK i \in DOMAIN s : s[i].session = m /\ IsSPASMErrorFatal(s[i].code)
  BY DEF FatalIn
<1>2. i \in 1..Len(s) /\ ~(i \in 1..k)
  BY <1>1 DEF IsHeadRun
<1> DEFINE t == SubSeq(s, k + 1, Len(s))
<1>3. i - k \in DOMAIN t /\ t[i - k] = s[i]
  BY <1>2
<1> HIDE DEF t
<1>4. FatalIn(t, m)
  BY <1>1, <1>3 DEF FatalIn
<1> QED BY <1>4 DEF t

LEMMA FatalAfterReplay ==
  ASSUME NEW s \in Seq(Entry), NEW n \in Nat \ {0}, Sorted(s, n)
  PROVE  LET r == ReplaySPASMErrorSession(s, n)
         IN /\ \A m \in Nat : m < n /\ FatalIn(s, m) => FatalIn(r, m)
            /\ n > 1 /\ FatalIn(s, n) => FatalIn(r, n - 1)
            /\ n = 1 => r = s
<1> DEFINE r == ReplaySPASMErrorSession(s, n)
<1>1. /\ DOMAIN r = DOMAIN s /\ DOMAIN s = 1..Len(s)
      /\ \A i \in DOMAIN s :
           r[i] = IF n # 1 /\ InHeadRun(s, i, n) THEN [s[i] EXCEPT !.session = n - 1] ELSE s[i]
  BY DEF ReplaySPASMErrorSession
<1>2. n = 1 => r = s
  <2>1. ASSUME n = 1 PROVE r = s
    <3>1. \A i \in DOMAIN s : r[i] = s[i]
      BY <1>1, <2>1
    <3>2. r = [i \in DOMAIN s |-> r[i]] /\ s = [i \in DOMAIN s |-> s[i]]
      BY DEF ReplaySPASMErrorSession
    <3> QED BY <3>1, <3>2
  <2> QED BY <2>1
<1> HIDE DEF r
<1>3. \A i \in DOMAIN s : s[i] \in Entry
  OBVIOUS
<1>4. \A i \in DOMAIN s :
        /\ r[i].code = s[i].code
        /\ r[i].session = IF n # 1 /\ s[i].session = n THEN n - 1 ELSE s[i].session
  BY <1>1, <1>3, HeadRunComplete DEF Entry
<1>5. \A m \in Nat : m < n /\ FatalIn(s, m) => FatalIn(r, m)
  BY <1>1, <1>4 DEF FatalIn
<1>6. n > 1 /\ FatalIn(s, n) => FatalIn(r, n - 1)
  BY <1>1, <1>4 DEF FatalIn
<1> QED BY <1>2, <1>5, <1>6 DEF r

LEMMA FatalAfterAnnotation ==
  ASSUME NEW s \in Seq(Entry), NEW n, NEW m, FatalIn(s, m)
  PROVE  FatalIn(AddSPASMErrorSessionAnnotation(s, n), m)
<1>1. PICK i \in DOMAIN s : s[i].session = m /\ IsSPASMErrorFatal(s[i].code)
  BY DEF FatalIn
<1>2. s[i] \in Entry
  OBVIOUS
<1> DEFINE t == AddSPASMErrorSessionAnnotation(s, n)
<1>3. i \in DOMAIN t /\ t[i] = IF s[i].session >= n THEN [s[i] EXCEPT !.note = n] ELSE s[i]
  BY DEF AddSPASMErrorSessionAnnotation
<1> HIDE DEF t
<1>4. t[i].session = s[i].session /\ t[i].code = s[i].code
  BY <1>2, <1>3 DEF Entry
<1>5. FatalIn(t, m)
  BY <1>1, <1>3, <1>4 DEF FatalIn
<1> QED BY <1>5 DEF t

LEMMA FatalAfterRaise ==
  ASSUME NEW c \in Codes, errs \in Seq(Entry)
  PROVE  /\ \A m : FatalIn(errs, m) => FatalIn(SetLastSPASMProblem(c), m)
         /\ IsSPASMErrorFatal(c) => FatalIn(SetLastSPASMProblem(c), session)
<1> DEFINE e == [code |-> c, session |-> session, note |-> 0]
           t == <<e>> \o errs
<1>1. /\ DOMAIN t = 1..(Len(errs) + 1) /\ t[1] = e /\ Len(errs) \in Nat
      /\ \A i \in 1..Len(errs) : i + 1 \in DOMAIN t /\ t[i + 1] = errs[i]
  OBVIOUS
<1>2. DOMAIN errs = 1..Len(errs) /\ e.code = c /\ e.session = session
  OBVIOUS
<1> HIDE DEF t, e
<1>3. \A m : FatalIn(errs, m) => FatalIn(t, m)
  BY <1>1, <1>2 DEF FatalIn
<1>4. IsSPASMErrorFatal(c) => FatalIn(t, session)
  <2>1. 1 \in DOMAIN t
    BY <1>1
  <2> QED BY <1>1, <1>2, <2>1 DEF FatalIn
<1> QED BY <1>3, <1>4 DEF t, e, SetLastSPASMProblem

----------------------------------------------------------------------------
(***************************************************************************)
(* Printing: the recursive function of ReplayErrorRecursive.               *)
(***************************************************************************)
\* f[k] collects those of x[1] to x[k], members of S, that B selects.
IsFilter(f, N, S, B, x) ==
  /\ N \in Nat /\ x \in [1..N -> S]
  /\ f = [k \in 0..N |-> IF k = 0 THEN <<>> ELSE IF B[k] THEN Append(f[k - 1], x[k]) ELSE f[k - 1]]

LEMMA FilterExists ==
  ASSUME NEW N \in Nat, NEW S, NEW B, NEW x \in [1..N -> S]
  PROVE  \E f : IsFilter(f, N, S, B, x)
<1>1. PICK G : G = [k \in 1..N |-> [v \in Seq(S) |-> IF B[k] THEN Append(v, x[k]) ELSE v]]
  OBVIOUS
<1>2. PICK f : Unfolds(f, N, Seq(S), <<>>, G)
  <2>1. \A k \in 1..N : \A v \in Seq(S) : Append(v, x[k]) \in Seq(S)
    OBVIOUS
  <2>2. G \in [1..N -> [Seq(S) -> Seq(S)]]
    BY <1>1, <2>1
  <2>3. <<>> \in Seq(S)
    OBVIOUS
  <2> QED BY <2>2, <2>3, RecursiveFunction DEF Steps
<1>3. \A k \in 0..N :
        f[k] = IF k = 0 THEN <<>> ELSE IF B[k] THEN Append(f[k - 1], x[k]) ELSE f[k - 1]
  <2> SUFFICES ASSUME NEW k \in 1..N
               PROVE  f[k] = IF B[k] THEN Append(f[k - 1], x[k]) ELSE f[k - 1]
    <3>1. f[0] = <<>>
      BY <1>2 DEF Unfolds
    <3> QED BY <3>1
  <2>1. f[k] = G[k][f[k - 1]] /\ f[k - 1] \in Seq(S)
    BY <1>2 DEF Unfolds
  <2> QED BY <1>1, <2>1
<1>4. f = [k \in 0..N |-> f[k]]
  BY <1>2 DEF Unfolds
<1> QED BY <1>3, <1>4 DEF IsFilter

\* What v, the k-th value of a filter, holds: entries of S, every selected
\* one, none if none is selected, and all in their order if all are.
Collects(v, k, S, B, x) ==
  /\ v \in Seq(S)
  /\ \A i \in 1..k : B[i] => \E j \in 1..Len(v) : v[j] = x[i]
  /\ (\A i \in 1..k : ~B[i]) => v = <<>>
  /\ (\A i \in 1..k : B[i]) => Len(v) = k /\ \A j \in 1..k : v[j] = x[j]

LEMMA FilterHolds ==
  ASSUME NEW N, NEW S, NEW B, NEW x, NEW f, IsFilter(f, N, S, B, x), NEW k \in 0..N
  PROVE  Collects(f[k], k, S, B, x)
<1>0. N \in Nat /\ x \in [1..N -> S]
  BY DEF IsFilter
<1> DEFINE P(j) == Collects(f[j], j, S, B, x)
           T == {j \in 0..N : P(j)}
<1> USE DEF Collects
<1>1. 0 \in T
  <2>1. f[0] = <<>>
    BY <1>0 DEF IsFilter
  <2>2. P(0) /\ 0 \in 0..N
    BY <1>0, <2>1
  <2> QED BY <2>2
<1>2. ASSUME NEW m \in 0..(N - 1), m \in T PROVE m + 1 \in T
  <2>1. f[m + 1] = IF B[m + 1] THEN Append(f[m], x[m + 1]) ELSE f[m]
    <3>1. m + 1 \in 0..N /\ m + 1 # 0 /\ (m + 1) - 1 = m
      BY <1>0
    <3> QED BY <3>1 DEF IsFilter
  <2>2. P(m)
    BY <1>2
  <2>3. CASE ~B[m + 1]
    <3>1. f[m + 1] = f[m] /\ \A i \in 1..(m + 1) : B[i] => i \in 1..m
      BY <2>1, <2>3
    <3>2. (\A i \in 1..(m + 1) : ~B[i]) => \A i \in 1..m : ~B[i]
      OBVIOUS
    <3>3. ~(\A i \in 1..(m + 1) : B[i])
      BY <2>3
    <3>4. P(m + 1)
      BY <2>2, <3>1, <3>2, <3>3
    <3>5. m + 1 \in 0..N
      BY <1>0
    <3> HIDE DEF P
    <3> QED BY <3>4, <3>5
  <2>4. CASE B[m + 1]
    <3>1. PICK v \in Seq(S) : v = f[m]
      BY <2>2
    <3>2. PICK e \in S : e = x[m + 1]
      BY <1>0
    <3>3. PICK w : w = Append(v, e)
      OBVIOUS
    <3>4. /\ f[m + 1] = w /\ w \in Seq(S) /\ Len(w) = Len(v) + 1 /\ Len(v) \in Nat
          /\ w[Len(v) + 1] = e /\ \A j \in 1..Len(v) : w[j] = v[j]
      BY <2>1, <2>4, <3>1, <3>2, <3>3
    <3>5. \A i \in 1..(m + 1) : B[i] => \E j \in 1..Len(w) : w[j] = x[i]
      <4> SUFFICES ASSUME NEW i \in 1..(m + 1), B[i] PROVE \E j \in 1..Len(w) : w[j] = x[i]
        OBVIOUS
      <4>1. CASE i = m + 1
        <5>1. Len(v) + 1 \in 1..Len(w)
          BY <3>4
        <5> QED BY <4>1, <5>1, <3>2, <3>4
      <4>2. CASE i # m + 1
        <5>1. PICK j \in 1..Len(v) : v[j] = x[i]
          BY <2>2, <3>1, <4>2
        <5>2. j \in 1..Len(w) /\ w[j] = x[i]
          BY <3>4, <5>1
        <5> QED BY <5>2
      <4> QED BY <4>1, <4>2
    <3>6. ~(\A i \in 1..(m + 1) : ~B[i])
      BY <2>4
    <3>7. ASSUME \A i \in 1..(m + 1) : B[i]
          PROVE  Len(w) = m + 1 /\ \A j \in 1..(m + 1) : w[j] = x[j]
      <4>1. Len(v) = m /\ \A j \in 1..m : v[j] = x[j]
        BY <2>2, <3>1, <3>7
      <4> QED BY <4>1, <3>2, <3>4
    <3>8. P(m + 1)
      BY <3>4, <3>5, <3>6, <3>7
    <3>9. m + 1 \in 0..N
      BY <1>0
    <3> HIDE DEF P
    <3> QED BY <3>8, <3>9
  <2> HIDE DEF T
  <2> QED BY <2>3, <2>4
<1>3. 0..N \subseteq T
  <2> HIDE DEF T
  <2> QED BY <1>0, <1>1, <1>2, BoundedInduction
<1> QED BY <1>3

ShownIn(s, n, fatalOnly) ==
  [k \in 1..Len(s) |-> LET e == s[Len(s) + 1 - k]
                       IN n = 1 /\ e.session = 1 /\ (fatalOnly => IsSPASMErrorFatal(e.code))]
FromOldest(s) == [k \in 1..Len(s) |-> s[Len(s) + 1 - k]]

LEMMA ReportableFilters ==
  ASSUME NEW s \in Seq(Entry), NEW n, NEW fatalOnly
  PROVE  /\ FromOldest(s) \in [1..Len(s) -> Entry] /\ Len(s) \in Nat
         /\ \E f : /\ IsFilter(f, Len(s), Entry, ShownIn(s, n, fatalOnly), FromOldest(s))
                   /\ Reportable(s, n, fatalOnly) = f[Len(s)]
<1> DEFINE Shown(e) == n = 1 /\ e.session = 1 /\ (fatalOnly => IsSPASMErrorFatal(e.code))
           Oldest == CHOOSE f : f = [k \in 0..Len(s) |->
             IF k = 0 THEN <<>>
             ELSE IF Shown(s[Len(s) + 1 - k]) THEN Append(f[k - 1], s[Len(s) + 1 - k])
             ELSE f[k - 1]]
           Unrolled(f) == [k \in 0..Len(s) |->
             IF k = 0 THEN <<>>
             ELSE IF Shown(s[Len(s) + 1 - k]) THEN Append(f[k - 1], s[Len(s) + 1 - k])
             ELSE f[k - 1]]
           B == ShownIn(s, n, fatalOnly)
           x == FromOldest(s)
<1>1. x \in [1..Len(s) -> Entry] /\ Len(s) \in Nat
  BY DEF FromOldest
<1>2. \A k \in 1..Len(s) : x[k] = s[Len(s) + 1 - k] /\ (B[k] <=> Shown(s[Len(s) + 1 - k]))
  BY DEF FromOldest, ShownIn
<1>3. PICK f : IsFilter(f, Len(s), Entry, B, x)
  <2> HIDE DEF B, x
  <2> QED BY <1>1, FilterExists
<1>4. \A g : IsFilter(g, Len(s), Entry, B, x) <=> g = Unrolled(g)
  <2> TAKE g
  <2> DEFINE Left == [k \in 0..Len(s) |-> IF k = 0 THEN <<>> ELSE IF B[k] THEN Append(g[k - 1], x[k]) ELSE g[k - 1]]
  <2>1. \A k \in 0..Len(s) : Left[k] = Unrolled(g)[k]
    <3> HIDE DEF B, x, Shown
    <3>1. ASSUME NEW k \in 1..Len(s) PROVE Left[k] = Unrolled(g)[k]
      BY <1>1, <1>2
    <3>2. Left[0] = Unrolled(g)[0]
      BY <1>1
    <3> HIDE DEF Left, Unrolled
    <3> QED BY <1>1, <3>1, <3>2
  <2>2. Left = Unrolled(g)
    <3>1. Left = [k \in 0..Len(s) |-> Left[k]] /\ Unrolled(g) = [k \in 0..Len(s) |-> Unrolled(g)[k]]
      OBVIOUS
    <3> HIDE DEF Left, Unrolled
    <3> QED BY <2>1, <3>1
  <2> QED BY <1>1, <2>2 DEF IsFilter
<1>5. Oldest = Unrolled(Oldest)
  <2>1. \E g : g = Unrolled(g)
    BY <1>3, <1>4
  <2> QED BY <2>1
<1>6. IsFilter(Oldest, Len(s), Entry, B, x)
  BY <1>4, <1>5
<1>7. Reportable(s, n, fatalOnly) = Oldest[Len(s)]
  BY DEF Reportable
<1> HIDE DEF Oldest, B, x
<1> QED BY <1>1, <1>6, <1>7 DEF B, x

\* What a replay prints is a list of entries, holds every fatal entry of
\* session 1, and is nothing when another session is replayed.
LEMMA ReportableHolds ==
  ASSUME NEW s \in Seq(Entry), NEW n, NEW fatalOnly
  PROVE  /\ Reportable(s, n, fatalOnly) \in Seq(Entry)
         /\ n # 1 => Reportable(s, n, fatalOnly) = <<>>
         /\ n = 1 /\ FatalIn(s, 1) =>
              \E j \in DOMAIN Reportable(s, n, fatalOnly) :
                IsSPASMErrorFatal(Reportable(s, n, fatalOnly)[j].code)
<1>1. PICK B, x, N : B = ShownIn(s, n, fatalOnly) /\ x = FromOldest(s) /\ N = Len(s)
  OBVIOUS
<1>2. PICK f : /\ IsFilter(f, N, Entry, B, x) /\ Reportable(s, n, fatalOnly) = f[N]
               /\ x \in [1..N -> Entry] /\ N \in Nat
  BY <1>1, ReportableFilters
<1>3. /\ f[N] \in Seq(Entry)
      /\ \A i \in 1..N : B[i] => \E j \in 1..Len(f[N]) : f[N][j] = x[i]
      /\ (\A i \in 1..N : ~B[i]) => f[N] = <<>>
  <2>1. N \in 0..N
    BY <1>2
  <2>2. Collects(f[N], N, Entry, B, x)
    BY <1>2, <2>1, FilterHolds
  <2> QED BY <2>2 DEF Collects
<1>4. n # 1 => \A i \in 1..N : ~B[i]
  BY <1>1 DEF ShownIn
<1>5. ASSUME n = 1, FatalIn(s, 1)
      PROVE  \E j \in DOMAIN f[N] : IsSPASMErrorFatal(f[N][j].code)
  <2>1. PICK i \in DOMAIN s : s[i].session = 1 /\ IsSPASMErrorFatal(s[i].code)
    BY <1>5 DEF FatalIn
  <2>2. N + 1 - i \in 1..N /\ N + 1 - (N + 1 - i) = i
    BY <1>1
  <2>3. B[N + 1 - i] /\ x[N + 1 - i] = s[i]
    BY <1>1, <1>5, <2>1, <2>2 DEF ShownIn, FromOldest
  <2>4. PICK j \in 1..Len(f[N]) : f[N][j] = s[i]
    BY <1>3, <2>2, <2>3
  <2>5. j \in DOMAIN f[N]
    BY <1>3, <2>4
  <2> QED BY <2>1, <2>4, <2>5
<1> QED BY <1>2, <1>3, <1>4, <1>5

----------------------------------------------------------------------------
(***************************************************************************)
(* Fatal diagnostics are not lost.  Only the outermost call site is the    *)
(* driver's; a define of one word has its inner session right above it; a  *)
(* define that is tried out has a fatal entry of its own, so that handing  *)
(* it on replaces what the inner session discarded; and once something     *)
(* fatal is owed, the list holds a fatal entry in a session from which     *)
(* every call site down to the driver replays.                             *)
(***************************************************************************)
Outermost == \A i \in 1..Depth : frames[i].kind = "top" <=> i = 1

DefinesNested ==
  \A i \in 1..Depth :
    /\ frames[i].kind = "define_inner" => i > 1 /\ frames[i - 1].kind = "define_single"
    /\ frames[i].kind = "define_single" /\ i < Depth => frames[i + 1].kind = "define_inner"

DefinesFailed ==
  \A i \in 1..Depth : frames[i].kind \in {"define_single", "define_failed"} => FatalIn(errs, i)

LaterQuiet ==
  phase # "pass_one" => \A i \in 1..Depth : frames[i].kind \in {"top", "quiet", "expr_macro"}

Shape == Outermost /\ DefinesNested /\ DefinesFailed /\ LaterQuiet

Carriers == {"top", "macro_body", "fcreate", "define_single", "define_inner", "define_failed"}

\* A fatal entry of session n reaches the driver.
Reaches(n) ==
  /\ n \in 1..Depth /\ frames[n].kind # "define_single"
  /\ \A i \in 1..n : frames[i].kind \in Carriers

FatalKept ==
  "plain" \in owed /\ phase \in {"pass_one", "pass_two"} =>
    \E n \in 1..Depth : Reaches(n) /\ FatalIn(errs, n)

NothingLate ==
  /\ phase \in {"write_labels", "write_file", "done"} => "plain" \notin owed
  /\ output # "none" => "plain" \notin owed /\ phase \in {"write_file", "done", "exited"}

FatalInv == IInv /\ Shape /\ FatalKept /\ NothingLate /\ printed \in Seq(Entry) /\ ExitIsExplained

\* The names of the sites are those of IInv's frames, one by one.
LEMMA Sites ==
  ASSUME IInv
  PROVE  /\ Depth \in Nat /\ session = Depth /\ Depth = Len(frames) /\ frames \in Seq(Frame)
         /\ \A i \in 1..Depth : frames[i].kind \in Kinds
         /\ Depth > 0 => Top = frames[Depth] /\ Top.id = Depth
         /\ errs \in Seq(Entry) /\ Sorted(errs, Depth)
<1>1. \A i \in 1..Depth : frames[i] \in Frame
  BY Stack
<1>2. \A i \in 1..Depth : frames[i].kind \in Kinds
  BY <1>1 DEF Frame
<1>3. Top = frames[Depth]
  BY DEF Top, Depth
<1>4. Sorted(errs, Depth)
  BY Stack DEF ListSorted
<1> QED BY <1>2, <1>3, <1>4, Stack

\* Leaving the innermost site without a replay discards its entries only.
LEMMA EndKeeps ==
  ASSUME IInv, Depth > 0, NEW s \in Seq(Entry), Sorted(s, Depth), NEW next,
         EndSPASMErrorSession(s, Top.id, next)
  PROVE  /\ \A m \in 1..(Depth - 1) : FatalIn(s, m) => FatalIn(errs', m)
         /\ phase' = IF Depth = 1 /\ FatalIn(s, 1) THEN "exited" ELSE next
<1>1. Top.id = Depth /\ Depth \in Nat \ {0}
  BY Sites
<1>2. PICK k \in 0..Len(s) : IsHeadRun(s, k, Depth) /\ errs' = SubSeq(s, k + 1, Len(s))
  BY <1>1 DEF EndSPASMErrorSession, CleanupSPASMErrorSession
<1>3. \A m \in 1..(Depth - 1) : FatalIn(s, m) => FatalIn(errs', m)
  BY <1>1, <1>2, FatalAfterCleanup
<1>4. phase' = IF Depth = 1 /\ IsSPASMErrorSessionFatal(s, Depth) THEN "exited" ELSE next
  BY <1>1 DEF EndSPASMErrorSession
<1>5. IsSPASMErrorSessionFatal(s, Depth) <=> FatalIn(s, Depth)
  BY <1>1, SessionFatal
<1> QED BY <1>3, <1>4, <1>5

\* Leaving it with a replay discards nothing but what session 1 printed.
LEMMA ReplayKeeps ==
  ASSUME IInv, Depth > 0, NEW s \in Seq(Entry), Sorted(s, Depth), NEW b \in BOOLEAN, NEW next,
         ReplayAndEnd(s, Top.id, b, next), printed \in Seq(Entry)
  PROVE  /\ \A m \in 1..(Depth - 1) : FatalIn(s, m) => FatalIn(errs', m)
         /\ Depth > 1 /\ FatalIn(s, Depth) => FatalIn(errs', Depth - 1)
         /\ phase' = IF Depth = 1 /\ FatalIn(s, 1) THEN "exited" ELSE next
         /\ printed' \in Seq(Entry)
         /\ Depth = 1 /\ FatalIn(s, 1) => \E j \in DOMAIN printed' : IsSPASMErrorFatal(printed'[j].code)
<1>1. Top.id = Depth /\ Depth \in Nat \ {0}
  BY Sites
<1>2. PICK r : r = ReplaySPASMErrorSession(s, Depth)
  OBVIOUS
<1>3. /\ r \in Seq(Entry) /\ Sorted(r, Depth)
  BY <1>1, <1>2, ReplaySorted
<1>4. EndSPASMErrorSession(r, Top.id, next)
  BY <1>1, <1>2 DEF ReplayAndEnd
<1>5. /\ \A m \in 1..(Depth - 1) : FatalIn(r, m) => FatalIn(errs', m)
      /\ phase' = IF Depth = 1 /\ FatalIn(r, 1) THEN "exited" ELSE next
  BY <1>3, <1>4, EndKeeps
<1>6. /\ \A m \in Nat : m < Depth /\ FatalIn(s, m) => FatalIn(r, m)
      /\ Depth > 1 /\ FatalIn(s, Depth) => FatalIn(r, Depth - 1)
      /\ Depth = 1 => r = s
  BY <1>1, <1>2, FatalAfterReplay
<1>7. PICK p : p = Reportable(s, Depth, b)
  OBVIOUS
<1>8. /\ p \in Seq(Entry) /\ printed' = printed \o p
      /\ Depth = 1 /\ FatalIn(s, 1) => \E j \in DOMAIN p : IsSPASMErrorFatal(p[j].code)
  BY <1>1, <1>7, ReportableHolds DEF ReplayAndEnd
<1>9. /\ printed' \in Seq(Entry)
      /\ \A j \in DOMAIN p : Len(printed) + j \in DOMAIN printed' /\ printed'[Len(printed) + j] = p[j]
  BY <1>8
<1>10. Depth = 1 /\ FatalIn(s, 1) => \E j \in DOMAIN printed' : IsSPASMErrorFatal(printed'[j].code)
  BY <1>8, <1>9
<1> QED BY <1>1, <1>5, <1>6, <1>9, <1>10

\* Changing what a site is doing, one site at a time.
LEMMA RenameKind ==
  ASSUME NEW fs \in Seq(Frame), NEW d \in Int, NEW kind \in Kinds, NEW i \in 1..Len(fs)
  PROVE  [fs EXCEPT ![d].kind = kind][i].kind = IF i = d THEN kind ELSE fs[i].kind
<1>1. [fs EXCEPT ![d].kind = kind][i] = IF i = d THEN [fs[i] EXCEPT !.kind = kind] ELSE fs[i]
  OBVIOUS
<1>2. fs[i] \in Frame
  OBVIOUS
<1> QED BY <1>1, <1>2 DEF Frame

\* The kinds of the sites below the innermost one, and of that one.
SameBelow == \A i \in 1..(Depth - 1) : frames'[i].kind = frames[i].kind

\* Entering a site.
LEMMA EnterKeepsFatal ==
  ASSUME FatalInv, IInv', NEW old, NEW kind,
         Depth' = Depth + 1, SameBelow, frames'[Depth + 1].kind = kind,
         Depth > 0 => frames'[Depth].kind = old,
         kind = "top" <=> Depth = 0, kind \notin {"define_single", "define_failed"},
         Depth > 0 =>
           \/ old = Top.kind /\ old # "define_single" /\ kind # "define_inner"
           \/ /\ Top.kind = "word"
              /\ \/ old = "word_deferred" /\ kind = "defer"
                 \/ old = "define_single" /\ kind = "define_inner" /\ FatalIn(errs, Depth),
         phase # "pass_one" => kind \in {"top", "quiet", "expr_macro"},
         Running, UNCHANGED <<errs, phase, printed, owed, output>>
  PROVE  FatalInv'
<1>1. /\ IInv /\ Outermost /\ DefinesNested /\ DefinesFailed /\ LaterQuiet
      /\ FatalKept /\ NothingLate /\ printed \in Seq(Entry) /\ ExitIsExplained
  BY DEF FatalInv, Shape
<1>2. Depth \in Nat /\ (Depth > 0 => Top.kind = frames[Depth].kind)
  BY <1>1, Sites
<1>3. Depth > 0 /\ Top.kind = "word" => Depth > 1 /\ phase = "pass_one"
  BY <1>1, <1>2 DEF Outermost, LaterQuiet
<1>4. Outermost'
  <2> SUFFICES ASSUME NEW i \in 1..(Depth + 1) PROVE frames'[i].kind = "top" <=> i = 1
    BY DEF Outermost
  <2> QED BY <1>1, <1>2, <1>3 DEF Outermost, SameBelow
<1>5. DefinesNested'
  <2> SUFFICES ASSUME NEW i \in 1..(Depth + 1)
               PROVE  /\ frames'[i].kind = "define_inner" => i > 1 /\ frames'[i - 1].kind = "define_single"
                      /\ frames'[i].kind = "define_single" /\ i < Depth + 1 => frames'[i + 1].kind = "define_inner"
    BY DEF DefinesNested
  <2>1. CASE i = Depth + 1
    BY <1>2, <1>3, <2>1
  <2>2. CASE i = Depth
    <3>1. i - 1 \in 1..(Depth - 1) \/ i = 1
      BY <1>2, <2>2
    <3> QED BY <1>1, <1>2, <1>3, <2>2, <3>1 DEF DefinesNested, SameBelow, Outermost
  <2>3. CASE i < Depth - 1
    <3>1. i \in 1..(Depth - 1) /\ i + 1 \in 1..(Depth - 1) /\ (i > 1 => i - 1 \in 1..(Depth - 1)) /\ i \in 1..Depth
      BY <1>2, <2>3
    <3> QED BY <1>1, <1>2, <3>1 DEF DefinesNested, SameBelow
  <2>4. CASE i = Depth - 1
    <3>1. i \in 1..(Depth - 1) /\ i + 1 = Depth /\ (i > 1 => i - 1 \in 1..(Depth - 1)) /\ i \in 1..Depth
      BY <1>2, <2>4
    <3>2. frames[i].kind = "define_single" => Top.kind = "define_inner"
      BY <1>1, <1>2, <3>1 DEF DefinesNested
    <3> QED BY <1>1, <1>2, <3>1, <3>2 DEF DefinesNested, SameBelow
  <2> QED BY <1>2, <2>1, <2>2, <2>3, <2>4
<1>6. DefinesFailed'
  <2> SUFFICES ASSUME NEW i \in 1..(Depth + 1), frames'[i].kind \in {"define_single", "define_failed"}
               PROVE  FatalIn(errs, i)
    BY DEF DefinesFailed, FatalIn
  <2> QED BY <1>1, <1>2 DEF DefinesFailed, SameBelow
<1>7. LaterQuiet'
  <2> SUFFICES ASSUME phase # "pass_one", NEW i \in 1..(Depth + 1)
               PROVE  frames'[i].kind \in {"top", "quiet", "expr_macro"}
    BY DEF LaterQuiet
  <2> QED BY <1>1, <1>2, <1>3 DEF LaterQuiet, SameBelow
<1>8. FatalKept'
  <2> SUFFICES ASSUME "plain" \in owed, phase \in {"pass_one", "pass_two"}
               PROVE  \E n \in 1..(Depth + 1) : Reaches(n)' /\ FatalIn(errs, n)
    BY DEF FatalKept, FatalIn
  <2>1. PICK n \in 1..Depth : Reaches(n) /\ FatalIn(errs, n)
    BY <1>1 DEF FatalKept
  <2>2. \A i \in 1..n : frames'[i].kind = frames[i].kind
    <3> TAKE i \in 1..n
    <3>1. frames[i].kind \in Carriers
      BY <2>1 DEF Reaches
    <3>2. frames[i].kind # "word"
      BY <3>1 DEF Carriers
    <3> QED BY <1>2, <3>2 DEF SameBelow
  <2>3. Reaches(n)'
    BY <1>2, <2>1, <2>2 DEF Reaches
  <2> QED BY <1>2, <2>1, <2>3
<1>9. NothingLate' /\ (printed \in Seq(Entry))' /\ ExitIsExplained'
  BY <1>1 DEF NothingLate, ExitIsExplained
<1> QED BY <1>4, <1>5, <1>6, <1>7, <1>8, <1>9 DEF FatalInv, Shape

\* A step after which no more has to reach the driver than before it.
NothingOwed == "plain" \in owed' => "plain" \in owed

\* Leaving a site that is not the driver's.
LEMMA LeaveKeepsFatal ==
  ASSUME FatalInv, IInv', Running, Depth > 1, Depth' = Depth - 1, SameBelow,
         \A m \in 1..(Depth - 1) : FatalIn(errs, m) => FatalIn(errs', m),
         phase' = phase, output' = output, printed' \in Seq(Entry),
         \/ Top.kind \notin Carriers \ {"define_single"}
         \/ ~FatalIn(errs, Depth)
         \/ FatalIn(errs', Depth - 1) /\ Top.kind # "define_inner",
         \/ NothingOwed
         \/ /\ Owe(Depth - 1) /\ FatalIn(errs', Depth - 1)
            /\ Top.kind \notin {"define_inner", "top", "quiet", "expr_macro"}
  PROVE  FatalInv'
<1>1. /\ IInv /\ Outermost /\ DefinesNested /\ DefinesFailed /\ LaterQuiet
      /\ FatalKept /\ NothingLate /\ printed \in Seq(Entry) /\ ExitIsExplained
  BY DEF FatalInv, Shape
<1>2. Depth \in Nat /\ Top.kind = frames[Depth].kind
  BY <1>1, Sites
<1>3. Outermost'
  BY <1>1, <1>2 DEF Outermost, SameBelow
<1>4. DefinesNested'
  <2> SUFFICES ASSUME NEW i \in 1..(Depth - 1)
               PROVE  /\ frames'[i].kind = "define_inner" => i > 1 /\ frames'[i - 1].kind = "define_single"
                      /\ frames'[i].kind = "define_single" /\ i < Depth - 1 => frames'[i + 1].kind = "define_inner"
    BY DEF DefinesNested
  <2>1. i \in 1..Depth /\ (i > 1 => i - 1 \in 1..(Depth - 1)) /\ (i < Depth - 1 => i + 1 \in 1..(Depth - 1))
    BY <1>2
  <2> QED BY <1>1, <1>2, <2>1 DEF DefinesNested, SameBelow
<1>5. DefinesFailed'
  <2> SUFFICES ASSUME NEW i \in 1..(Depth - 1), frames'[i].kind \in {"define_single", "define_failed"}
               PROVE  FatalIn(errs', i)
    BY DEF DefinesFailed, FatalIn
  <2> QED BY <1>1, <1>2 DEF DefinesFailed, SameBelow
<1>6. LaterQuiet'
  BY <1>1, <1>2 DEF LaterQuiet, SameBelow
<1>b. PICK d \in Nat : d = Depth - 1
  BY <1>2
<1>a. Top.kind # "define_inner" => frames[Depth - 1].kind # "define_single"
  <2>1. Depth - 1 \in 1..Depth /\ (Depth - 1) + 1 = Depth
    BY <1>2
  <2> QED BY <1>1, <1>2, <2>1 DEF DefinesNested
<1>7. FatalKept'
  <2> SUFFICES ASSUME "plain" \in owed', phase \in {"pass_one", "pass_two"}
               PROVE  \E n \in 1..(Depth - 1) : Reaches(n)' /\ FatalIn(errs', n)
    BY DEF FatalKept, FatalIn
  <2>1. CASE "plain" \in owed
    <3>1. PICK n \in 1..Depth : Reaches(n) /\ FatalIn(errs, n)
      BY <1>1, <2>1 DEF FatalKept
    <3>2. CASE n < Depth
      <4>1. n \in 1..(Depth - 1) /\ Reaches(n)'
        BY <1>2, <3>1, <3>2 DEF Reaches, SameBelow
      <4> QED BY <3>1, <4>1
    <3>3. CASE n = Depth
      <4>1. Top.kind \in Carriers \ {"define_single"}
        BY <1>2, <3>1, <3>3 DEF Reaches
      <4>2. FatalIn(errs', Depth - 1) /\ Top.kind # "define_inner"
        BY <3>1, <3>3, <4>1
      <4>3. d \in 1..(Depth - 1) /\ Reaches(d)'
        BY <1>2, <1>a, <1>b, <3>1, <3>3, <4>2 DEF Reaches, SameBelow
      <4> QED BY <1>b, <4>2, <4>3
    <3> QED BY <1>2, <3>2, <3>3
  <2>2. CASE "plain" \notin owed
    <3>1. /\ Owe(Depth - 1) /\ FatalIn(errs', Depth - 1) /\ Top.kind # "define_inner"
      BY <2>2 DEF NothingOwed
    <3>2. (\A i \in 1..(Depth - 1) : Hands(frames[i])) /\ Via(Depth - 1) = "plain"
      BY <2>2, <3>1 DEF Owe, Record
    <3>3. \A i \in 1..(Depth - 1) : frames[i].kind \in Carriers
      <4>1. \A i \in 1..(Depth - 1) : frames[i].kind # "define_list"
        BY <3>2 DEF Via
      <4> QED BY <3>2, <4>1 DEF Hands, Carriers
    <3>4. d \in 1..(Depth - 1) /\ Reaches(d)'
      BY <1>2, <1>a, <1>b, <3>1, <3>3 DEF Reaches, SameBelow
    <3> QED BY <1>b, <3>1, <3>4
  <2> QED BY <2>1, <2>2
<1>8. NothingLate'
  <2>1. CASE NothingOwed
    BY <1>1, <2>1 DEF NothingLate, NothingOwed
  <2>2. CASE Top.kind \notin {"top", "quiet", "expr_macro"}
    <3>1. phase = "pass_one"
      BY <1>1, <1>2, <2>2 DEF LaterQuiet
    <3> QED BY <1>1, <3>1 DEF NothingLate
  <2> QED BY <2>1, <2>2
<1>9. ExitIsExplained'
  BY DEF ExitIsExplained, Running
<1> QED BY <1>3, <1>4, <1>5, <1>6, <1>7, <1>8, <1>9 DEF FatalInv, Shape

\* Going on with the session that is open.
LEMMA RenameKeepsFatal ==
  ASSUME FatalInv, IInv', Depth > 1, Depth' = Depth, SameBelow, Running,
         Top.kind \in {"word", "macro_args"}, frames'[Depth].kind \in {"macro_body", "define_list"},
         UNCHANGED <<errs, phase, printed, owed, output>>
  PROVE  FatalInv'
<1>1. /\ IInv /\ Outermost /\ DefinesNested /\ DefinesFailed /\ LaterQuiet
      /\ FatalKept /\ NothingLate /\ printed \in Seq(Entry) /\ ExitIsExplained
  BY DEF FatalInv, Shape
<1>2. Depth \in Nat /\ Top.kind = frames[Depth].kind
  BY <1>1, Sites
<1>3. phase = "pass_one"
  BY <1>1, <1>2 DEF LaterQuiet
<1>4. Outermost'
  BY <1>1, <1>2 DEF Outermost, SameBelow
<1>5. DefinesNested'
  <2> SUFFICES ASSUME NEW i \in 1..Depth
               PROVE  /\ frames'[i].kind = "define_inner" => i > 1 /\ frames'[i - 1].kind = "define_single"
                      /\ frames'[i].kind = "define_single" /\ i < Depth => frames'[i + 1].kind = "define_inner"
    BY DEF DefinesNested
  <2>1. (i > 1 => i - 1 \in 1..(Depth - 1)) /\ (i < Depth => i \in 1..(Depth - 1) /\ i + 1 \in 1..Depth)
    BY <1>2
  <2> QED BY <1>1, <1>2, <2>1 DEF DefinesNested, SameBelow
<1>6. DefinesFailed'
  <2> SUFFICES ASSUME NEW i \in 1..Depth, frames'[i].kind \in {"define_single", "define_failed"}
               PROVE  FatalIn(errs, i)
    BY DEF DefinesFailed, FatalIn
  <2> QED BY <1>1, <1>2 DEF DefinesFailed, SameBelow
<1>7. FatalKept'
  <2> SUFFICES ASSUME "plain" \in owed, phase \in {"pass_one", "pass_two"}
               PROVE  \E n \in 1..Depth : Reaches(n)' /\ FatalIn(errs, n)
    BY DEF FatalKept, FatalIn
  <2>1. PICK n \in 1..Depth : Reaches(n) /\ FatalIn(errs, n)
    BY <1>1 DEF FatalKept
  <2>2. n # Depth
    BY <1>2, <2>1 DEF Reaches, Carriers
  <2>3. Reaches(n)'
    BY <1>2, <2>1, <2>2 DEF Reaches, SameBelow
  <2> QED BY <2>1, <2>3
<1>8. LaterQuiet' /\ NothingLate' /\ (printed \in Seq(Entry))' /\ ExitIsExplained'
  BY <1>1, <1>3 DEF LaterQuiet, NothingLate, ExitIsExplained
<1> QED BY <1>4, <1>5, <1>6, <1>7, <1>8 DEF FatalInv, Shape

\* A new entry.
LEMMA RaiseKeepsFatal ==
  ASSUME FatalInv, IInv', Running, NEW c \in Codes, errs' = SetLastSPASMProblem(c),
         UNCHANGED <<session, frames, phase, printed>>,
         \/ UNCHANGED owed
         \/ /\ Owe(Depth) /\ IsSPASMErrorFatal(c) /\ phase \in {"pass_one", "pass_two"}
            /\ Depth > 0 /\ Top.kind \in {"top", "macro_body", "fcreate"},
         UNCHANGED output \/ (phase = "write_file" /\ UNCHANGED owed)
  PROVE  FatalInv'
<1>1. /\ IInv /\ Outermost /\ DefinesNested /\ DefinesFailed /\ LaterQuiet
      /\ FatalKept /\ NothingLate /\ printed \in Seq(Entry) /\ ExitIsExplained
  BY DEF FatalInv, Shape
<1>2. /\ Depth \in Nat /\ errs \in Seq(Entry) /\ session = Depth
      /\ Depth > 0 => Top.kind = frames[Depth].kind
  BY <1>1, Sites
<1>3. /\ \A m : FatalIn(errs, m) => FatalIn(errs', m)
      /\ IsSPASMErrorFatal(c) => FatalIn(errs', Depth)
  BY <1>2, FatalAfterRaise
<1>a. Depth' = Depth
  BY DEF Depth
<1>4. Outermost' /\ DefinesNested' /\ LaterQuiet'
  BY <1>1, <1>a DEF Outermost, DefinesNested, LaterQuiet
<1>5. DefinesFailed'
  <2> SUFFICES ASSUME NEW i \in 1..Depth, frames[i].kind \in {"define_single", "define_failed"}
               PROVE  FatalIn(errs', i)
    BY <1>a DEF DefinesFailed, FatalIn
  <2> QED BY <1>1, <1>3 DEF DefinesFailed
<1>6. FatalKept'
  <2> SUFFICES ASSUME "plain" \in owed', phase \in {"pass_one", "pass_two"}
               PROVE  \E n \in 1..Depth : Reaches(n)' /\ FatalIn(errs', n)
    BY <1>a DEF FatalKept, FatalIn
  <2>1. \A n : Reaches(n)' <=> Reaches(n)
    BY <1>a DEF Reaches
  <2>2. CASE "plain" \in owed
    BY <1>1, <1>3, <2>1, <2>2 DEF FatalKept
  <2>3. CASE "plain" \notin owed
    <3>1. Owe(Depth) /\ FatalIn(errs', Depth) /\ Depth > 0 /\ Top.kind \in {"top", "macro_body", "fcreate"}
      BY <1>3, <2>3
    <3>2. (\A i \in 1..Depth : Hands(frames[i])) /\ Via(Depth) = "plain"
      BY <2>3, <3>1 DEF Owe, Record
    <3>3. \A i \in 1..Depth : frames[i].kind \in Carriers
      <4>1. \A i \in 1..Depth : frames[i].kind # "define_list"
        BY <3>2 DEF Via
      <4> QED BY <3>2, <4>1 DEF Hands, Carriers
    <3>4. Depth \in 1..Depth /\ Reaches(Depth)
      BY <1>2, <3>1, <3>3 DEF Reaches
    <3> QED BY <3>1, <3>4, <2>1
  <2> QED BY <2>2, <2>3
<1>7. NothingLate' /\ (printed \in Seq(Entry))' /\ ExitIsExplained'
  BY <1>1 DEF NothingLate, ExitIsExplained
<1> QED BY <1>4, <1>5, <1>6, <1>7 DEF FatalInv, Shape

\* The inner session of a define of one word failed: what it held is gone,
\* and the session around it, which has a fatal entry, is to be replayed.
LEMMA DefineFailsKeepsFatal ==
  ASSUME FatalInv, IInv', Running, Depth > 1, Depth' = Depth - 1, Top.kind = "define_inner",
         \A i \in 1..(Depth - 2) : frames'[i].kind = frames[i].kind,
         frames'[Depth - 1].kind = "define_failed",
         \A m \in 1..(Depth - 1) : FatalIn(errs, m) => FatalIn(errs', m),
         UNCHANGED <<phase, printed, owed, output>>
  PROVE  FatalInv'
<1>1. /\ IInv /\ Outermost /\ DefinesNested /\ DefinesFailed /\ LaterQuiet
      /\ FatalKept /\ NothingLate /\ printed \in Seq(Entry) /\ ExitIsExplained
  BY DEF FatalInv, Shape
<1>2. Depth \in Nat /\ Top.kind = frames[Depth].kind
  BY <1>1, Sites
<1>3. PICK d \in Nat : d = Depth - 1
  BY <1>2
<1>4. frames[d].kind = "define_single" /\ d \in 1..Depth
  <2>1. Depth \in 1..Depth
    BY <1>2
  <2> QED BY <1>1, <1>2, <1>3, <2>1 DEF DefinesNested
<1>5. phase = "pass_one" /\ d # 1
  BY <1>1, <1>4 DEF LaterQuiet, Outermost
<1>6. FatalIn(errs', d)
  BY <1>1, <1>3, <1>4 DEF DefinesFailed
<1>7. Outermost'
  BY <1>1, <1>2, <1>3, <1>5 DEF Outermost
<1>8. DefinesNested'
  <2> SUFFICES ASSUME NEW i \in 1..d
               PROVE  /\ frames'[i].kind = "define_inner" => i > 1 /\ frames'[i - 1].kind = "define_single"
                      /\ frames'[i].kind = "define_single" /\ i < d => frames'[i + 1].kind = "define_inner"
    BY <1>3 DEF DefinesNested
  <2>1. CASE i = d
    BY <1>3, <2>1
  <2>2. CASE i < d - 1
    <3>1. i \in 1..(Depth - 2) /\ i + 1 \in 1..(Depth - 2) /\ (i > 1 => i - 1 \in 1..(Depth - 2)) /\ i \in 1..Depth
      BY <1>2, <1>3, <2>2
    <3>2. /\ frames'[i].kind = frames[i].kind /\ frames'[i + 1].kind = frames[i + 1].kind
          /\ i > 1 => frames'[i - 1].kind = frames[i - 1].kind
      BY <3>1
    <3>3. i < Depth
      BY <1>2, <1>3, <2>2
    <3>4. /\ frames[i].kind = "define_inner" => i > 1 /\ frames[i - 1].kind = "define_single"
          /\ frames[i].kind = "define_single" => frames[i + 1].kind = "define_inner"
      BY <1>1, <3>1, <3>3 DEF DefinesNested
    <3> QED BY <3>2, <3>4
  <2>3. CASE i = d - 1
    <3>1. i \in 1..(Depth - 2) /\ (i > 1 => i - 1 \in 1..(Depth - 2)) /\ i \in 1..Depth /\ i + 1 = d /\ i < Depth
      BY <1>2, <1>3, <2>3
    <3>2. frames[i].kind # "define_single"
      BY <1>1, <1>4, <3>1 DEF DefinesNested
    <3> QED BY <1>1, <3>1, <3>2 DEF DefinesNested
  <2> QED BY <1>3, <2>1, <2>2, <2>3
<1>9. DefinesFailed'
  <2> SUFFICES ASSUME NEW i \in 1..d, frames'[i].kind \in {"define_single", "define_failed"}
               PROVE  FatalIn(errs', i)
    BY <1>3 DEF DefinesFailed, FatalIn
  <2> QED BY <1>1, <1>2, <1>3, <1>6 DEF DefinesFailed
<1>10. FatalKept'
  <2> SUFFICES ASSUME "plain" \in owed PROVE \E n \in 1..d : Reaches(n)' /\ FatalIn(errs', n)
    BY <1>3 DEF FatalKept, FatalIn
  <2>1. PICK n \in 1..Depth : Reaches(n) /\ FatalIn(errs, n)
    BY <1>1, <1>5 DEF FatalKept
  <2>2. CASE n = Depth
    <3>1. \A i \in 1..d : frames'[i].kind \in Carriers
      <4> TAKE i \in 1..d
      <4>1. CASE i = d
        BY <1>3, <4>1 DEF Carriers
      <4>2. CASE i # d
        BY <1>2, <1>3, <2>1, <2>2, <4>2 DEF Reaches
      <4> QED BY <4>1, <4>2
    <3>2. Reaches(d)'
      BY <1>3, <1>4, <3>1 DEF Reaches
    <3> QED BY <1>3, <1>4, <1>6, <3>2
  <2>3. CASE n # Depth
    <3>1. n # d
      BY <1>4, <2>1 DEF Reaches
    <3>2. n \in 1..d /\ Reaches(n)'
      BY <1>2, <1>3, <2>1, <2>3, <3>1 DEF Reaches
    <3> QED BY <1>3, <2>1, <3>2
  <2> QED BY <2>2, <2>3
<1>11. LaterQuiet' /\ NothingLate' /\ (printed \in Seq(Entry))' /\ ExitIsExplained'
  BY <1>1, <1>5 DEF LaterQuiet, NothingLate, ExitIsExplained
<1> QED BY <1>7, <1>8, <1>9, <1>10, <1>11 DEF FatalInv, Shape

\* The driver's session ends: the program exits if it holds a fatal entry.
LEMMA PhaseKeepsFatal ==
  ASSUME FatalInv, IInv', EndPhase
  PROVE  FatalInv'
<1>1. /\ IInv /\ Outermost /\ DefinesNested /\ DefinesFailed /\ LaterQuiet
      /\ FatalKept /\ NothingLate /\ printed \in Seq(Entry) /\ ExitIsExplained
  BY DEF FatalInv, Shape
<1>2. Running /\ Depth > 0 /\ Top.kind = "top"
  BY DEF EndPhase, InKind
<1>3. Depth \in Nat /\ Top.kind = frames[Depth].kind /\ errs \in Seq(Entry) /\ Sorted(errs, Depth)
  BY <1>1, <1>2, Sites
<1>4. Depth = 1
  BY <1>1, <1>2, <1>3 DEF Outermost
<1>5. PICK b, next : b \in BOOLEAN /\ ReplayAndEnd(errs, Top.id, b, next) /\ next = Successor[phase]
  BY DEF EndPhase
<1>6. /\ phase' = IF FatalIn(errs, 1) THEN "exited" ELSE Successor[phase]
      /\ printed' \in Seq(Entry)
      /\ FatalIn(errs, 1) => \E j \in DOMAIN printed' : IsSPASMErrorFatal(printed'[j].code)
  BY <1>1, <1>2, <1>3, <1>4, <1>5, ReplayKeeps
<1>7. Depth' = 0
  <2>1. frames' = Pop
    BY DEF EndPhase
  <2>2. Len(Pop) = 0
    BY <1>1, <1>2, <1>4, PopSites
  <2> QED BY <2>1, <2>2 DEF Depth
<1>8. Outermost' /\ DefinesNested' /\ DefinesFailed' /\ LaterQuiet'
  BY <1>7 DEF Outermost, DefinesNested, DefinesFailed, LaterQuiet
<1>9. UNCHANGED <<owed, output>>
  BY DEF EndPhase
<1>10. phase \in {"pass_one", "pass_two"} /\ "plain" \in owed => FatalIn(errs, 1)
  BY <1>1, <1>4 DEF FatalKept
<1>11. phase \in {"pass_one", "pass_two", "write_labels", "write_file"}
  BY <1>1, <1>2 DEF IInv, TypeOK, Running, Successor
<1>12. /\ Successor["pass_one"] = "pass_two" /\ Successor["pass_two"] = "write_labels"
       /\ Successor["write_labels"] = "write_file" /\ Successor["write_file"] = "done"
  BY DEF Successor
<1>13. FatalKept'
  BY <1>1, <1>6, <1>9, <1>10, <1>11, <1>12 DEF FatalKept, NothingLate
<1>14. NothingLate'
  BY <1>1, <1>6, <1>9, <1>10, <1>11, <1>12 DEF NothingLate
<1>15. ExitIsExplained'
  BY <1>6, <1>11, <1>12 DEF ExitIsExplained
<1> QED BY <1>6, <1>8, <1>13, <1>14, <1>15 DEF FatalInv, Shape

LEMMA StepKeepsFatal ==
  ASSUME "string_junk" \notin Clients, FatalInv, [Next]_vars
  PROVE  FatalInv'
<1>0. IInv /\ IInv' /\ Outermost /\ DefinesNested /\ DefinesFailed /\ LaterQuiet /\ printed \in Seq(Entry)
  BY StepKeepsIInv DEF FatalInv, Shape
<1>1. /\ Depth \in Nat /\ session = Depth /\ frames \in Seq(Frame) /\ Depth = Len(frames)
      /\ Depth > 0 => Top = frames[Depth] /\ Top.id = Depth
      /\ errs \in Seq(Entry) /\ Sorted(errs, Depth)
  BY <1>0, Sites
<1>2. Depth > 0 => (Top.kind = "top" <=> Depth = 1)
  BY <1>0, <1>1 DEF Outermost
<1>3. Depth > 0 /\ Top.kind \notin {"top", "quiet", "expr_macro"} => phase = "pass_one"
  BY <1>0, <1>1 DEF LaterQuiet
<1>a. ASSUME Depth > 0, frames' = Pop PROVE Depth' = Depth - 1 /\ SameBelow
  <2>1. Len(Pop) = Depth - 1 /\ \A i \in 1..(Depth - 1) : Pop[i] = frames[i]
    BY <1>0, <1>a, PopSites
  <2> QED BY <1>a, <2>1 DEF SameBelow, Depth
<1>b. ASSUME Depth > 1, frames' = Pop, Running, EndSPASMErrorSession(errs, Top.id, phase),
             Top.kind \notin Carriers \ {"define_single"} \/ ~FatalIn(errs, Depth), UNCHANGED <<printed, output>>,
             NothingOwed
      PROVE  FatalInv'
  <2>1. phase' = phase /\ \A m \in 1..(Depth - 1) : FatalIn(errs, m) => FatalIn(errs', m)
    BY <1>0, <1>1, <1>b, EndKeeps
  <2> QED BY <1>0, <1>1, <1>a, <1>b, <2>1, LeaveKeepsFatal
\* Leaving with a replay; whoever owes has a fatal entry to hand on.
<1>c. ASSUME Depth > 1, frames' = Pop, Running, Top.kind # "define_inner", UNCHANGED output,
             NEW s \in Seq(Entry), Sorted(s, Depth), NEW b \in BOOLEAN, ReplayAndEnd(s, Top.id, b, phase),
             \A m \in 1..Depth : FatalIn(errs, m) => FatalIn(s, m),
             \/ UNCHANGED owed
             \/ Owe(Depth - 1) /\ FatalIn(s, Depth) /\ Top.kind \notin {"top", "quiet", "expr_macro"}
      PROVE  FatalInv'
  <2>1. /\ phase' = phase /\ printed' \in Seq(Entry)
        /\ \A m \in 1..(Depth - 1) : FatalIn(s, m) => FatalIn(errs', m)
        /\ FatalIn(s, Depth) => FatalIn(errs', Depth - 1)
    BY <1>0, <1>1, <1>c, ReplayKeeps
  <2>2. \A m \in 1..(Depth - 1) : FatalIn(errs, m) => FatalIn(errs', m)
    BY <1>1, <1>c, <2>1
  <2>3. FatalIn(errs, Depth) => FatalIn(errs', Depth - 1)
    <3>1. Depth \in 1..Depth
      BY <1>1, <1>c
    <3> QED BY <1>c, <2>1, <3>1
  <2>4. UNCHANGED owed => NothingOwed
    BY DEF NothingOwed
  <2> QED BY <1>0, <1>1, <1>a, <1>c, <2>1, <2>2, <2>3, <2>4, LeaveKeepsFatal
<1>d. ASSUME Depth > 0
      PROVE  LET a == AddSPASMErrorSessionAnnotation(errs, Top.id)
             IN a \in Seq(Entry) /\ Sorted(a, Depth) /\ \A m \in 1..Depth : FatalIn(errs, m) => FatalIn(a, m)
  <2>1. Depth \in Nat \ {0} /\ Top.id \in Int
    BY <1>1, <1>d
  <2> QED BY <1>1, <2>1, AnnotationSorted, FatalAfterAnnotation
<1>e. ASSUME Depth > 0, NEW c \in Codes
      PROVE  LET a == SetLastSPASMProblem(c)
             IN /\ a \in Seq(Entry) /\ Sorted(a, Depth) /\ \A m \in 1..Depth : FatalIn(errs, m) => FatalIn(a, m)
                /\ IsSPASMErrorFatal(c) => FatalIn(a, Depth)
  <2>1. session \in Nat \ {0} /\ ListSorted
    BY <1>1, <1>e DEF ListSorted
  <2> QED BY <1>1, <1>e, <2>1, RaiseSorted, FatalAfterRaise
<1>f. Depth > 0 => (IsSPASMErrorSessionFatal(errs, Top.id) <=> FatalIn(errs, Depth))
  BY <1>1, SessionFatal
<1>g. ASSUME Depth > 1, frames' = Pop, Running, UNCHANGED output, NEW b \in BOOLEAN, Top.kind # "define_inner",
             \/ ReplayAndEnd(errs, Top.id, b, phase)
             \/ ReplayAndEnd(AddSPASMErrorSessionAnnotation(errs, Top.id), Top.id, b, phase),
             \/ UNCHANGED owed
             \/ Owe(Depth - 1) /\ FatalIn(errs, Depth) /\ Top.kind \notin {"top", "quiet", "expr_macro"}
      PROVE  FatalInv'
  <2>1. Depth \in 1..Depth
    BY <1>1, <1>g
  <2>2. CASE ReplayAndEnd(errs, Top.id, b, phase)
    BY <1>1, <1>c, <1>g, <2>2
  <2>3. CASE ReplayAndEnd(AddSPASMErrorSessionAnnotation(errs, Top.id), Top.id, b, phase)
    <3>1. PICK a : a = AddSPASMErrorSessionAnnotation(errs, Top.id)
      OBVIOUS
    <3>2. a \in Seq(Entry) /\ Sorted(a, Depth) /\ \A m \in 1..Depth : FatalIn(errs, m) => FatalIn(a, m)
      BY <1>1, <1>d, <1>g, <3>1
    <3>3. ReplayAndEnd(a, Top.id, b, phase)
      BY <2>3, <3>1
    <3> QED BY <1>c, <1>g, <2>1, <3>2, <3>3
  <2> QED BY <1>g, <2>2, <2>3
<1>h. ASSUME Depth > 1, Running, WriteAndReplay, Top.kind \in {"defer", "word"}
      PROVE  FatalInv'
  <2>1. CASE ReplayAndEnd(errs, Top.id, FALSE, phase) /\ UNCHANGED owed
    BY <1>g, <1>h, <2>1 DEF WriteAndReplay
  <2>2. CASE \E c \in Errors \cup Warnings : ReplayAndEnd(SetLastSPASMProblem(c), Top.id, FALSE, phase) /\ Owe(Depth - 1)
    <3>1. PICK c \in Errors \cup Warnings : ReplayAndEnd(SetLastSPASMProblem(c), Top.id, FALSE, phase)
      BY <2>2
    <3>2. c \in Codes /\ IsSPASMErrorFatal(c)
      BY CodesAssumption DEF Codes, IsSPASMErrorFatal
    <3>3. PICK a : a = SetLastSPASMProblem(c)
      OBVIOUS
    <3>4. /\ a \in Seq(Entry) /\ Sorted(a, Depth) /\ FatalIn(a, Depth)
          /\ \A m \in 1..Depth : FatalIn(errs, m) => FatalIn(a, m)
      BY <1>1, <1>e, <1>h, <3>2, <3>3
    <3>5. ReplayAndEnd(a, Top.id, FALSE, phase)
      BY <3>1, <3>3
    <3> QED BY <1>c, <1>h, <2>2, <3>4, <3>5 DEF WriteAndReplay
  <2> QED BY <1>h, <2>1, <2>2 DEF WriteAndReplay
\* Entering.
<1>i. ASSUME NEW kind \in Kinds, StartSPASMErrorSession(frames, kind), Running,
             kind = "top" <=> Depth = 0, kind \notin {"define_single", "define_failed", "define_inner"},
             Depth > 0 => Top.kind # "define_single",
             phase # "pass_one" => kind \in {"top", "quiet", "expr_macro"},
             UNCHANGED <<errs, phase, printed, owed, output>>
      PROVE  FatalInv'
  <2>1. frames' = Append(frames, [kind |-> kind, id |-> session + 1])
    BY <1>i DEF StartSPASMErrorSession
  <2>2. /\ Len(frames') = Depth + 1 /\ frames'[Depth + 1].kind = kind
        /\ \A i \in 1..Depth : frames'[i] = frames[i]
    BY <1>1, <2>1
  <2>3. Depth' = Depth + 1 /\ SameBelow /\ (Depth > 0 => frames'[Depth].kind = Top.kind)
    BY <1>1, <2>2 DEF SameBelow, Depth
  <2> QED BY <1>0, <1>i, <2>2, <2>3, EnterKeepsFatal
<1>j. ASSUME NEW old \in Kinds, NEW kind, Depth > 1, Running, Top.kind = "word",
             StartSPASMErrorSession([frames EXCEPT ![Depth].kind = old], kind),
             \/ old = "word_deferred" /\ kind = "defer"
             \/ old = "define_single" /\ kind = "define_inner" /\ FatalIn(errs, Depth),
             UNCHANGED <<errs, phase, printed, owed, output>>
      PROVE  FatalInv'
  <2>1. PICK fs : fs = [frames EXCEPT ![Depth].kind = old]
    OBVIOUS
  <2>2. /\ fs \in Seq(Frame) /\ Len(fs) = Depth
        /\ \A i \in 1..Depth : fs[i].kind = IF i = Depth THEN old ELSE frames[i].kind
    BY <1>1, <2>1, RenameSite, RenameKind
  <2>3. frames' = Append(fs, [kind |-> kind, id |-> session + 1])
    BY <1>j, <2>1 DEF StartSPASMErrorSession
  <2>4. /\ Len(frames') = Depth + 1 /\ frames'[Depth + 1].kind = kind
        /\ \A i \in 1..Depth : frames'[i] = fs[i]
    BY <1>1, <2>2, <2>3
  <2>5. Depth' = Depth + 1 /\ Depth \in 1..Depth
    BY <1>1, <1>j, <2>4 DEF Depth
  <2>6. SameBelow /\ frames'[Depth].kind = old
    BY <1>1, <2>2, <2>4, <2>5 DEF SameBelow
  <2>7. phase = "pass_one"
    BY <1>1, <1>3, <1>j
  <2>8. kind \in {"defer", "define_inner"} /\ Depth # 0
    BY <1>j, <2>5
  <2> QED BY <1>0, <1>1, <1>2, <1>j, <2>4, <2>5, <2>6, <2>7, <2>8, EnterKeepsFatal
<1>k. ASSUME NEW kind \in {"macro_body", "define_list"}, Depth > 1, Running, Top.kind \in {"word", "macro_args"},
             frames' = [frames EXCEPT ![Depth].kind = kind],
             UNCHANGED <<errs, phase, printed, owed, output>>
      PROVE  FatalInv'
  <2>1. kind \in Kinds
    BY DEF Kinds
  <2>2. /\ Len(frames') = Depth
        /\ \A i \in 1..Depth : frames'[i].kind = IF i = Depth THEN kind ELSE frames[i].kind
    BY <1>1, <1>k, <2>1, RenameSite, RenameKind
  <2>3. Depth' = Depth /\ SameBelow /\ frames'[Depth].kind = kind
    BY <1>1, <1>k, <2>2 DEF SameBelow, Depth
  <2> QED BY <1>0, <1>k, <2>3, RenameKeepsFatal
<1>l. ASSUME UNCHANGED vars PROVE FatalInv'
  BY <1>l, <1>0 DEF vars, FatalInv, Shape, Outermost, DefinesNested, DefinesFailed, LaterQuiet, FatalIn,
     FatalKept, Reaches, NothingLate, ExitIsExplained, Depth
<1>m. \A K : InKind(K) => Running /\ Depth > 0 /\ Top.kind \in K
  BY DEF InKind
<1>n. \A K : InKind(K) /\ "top" \notin K => Depth > 1
  BY <1>1, <1>2 DEF InKind
<1>o. /\ UNCHANGED owed => NothingOwed
      /\ \A n : Record(n, "define") \/ Record(n, "empty") => NothingOwed
  BY DEF Record, NothingOwed
<1>4. CASE StartPhase
  <2>1. Depth = 0
    BY <1>1, <1>4 DEF StartPhase
  <2> QED BY <1>4, <2>1, <1>i DEF StartPhase, Kinds
<1>5. CASE WriteFile
  <2>1. phase = "write_file" /\ Running /\ UNCHANGED <<session, frames, phase, printed, owed>>
    BY <1>5, <1>m DEF WriteFile
  <2>2. CASE \E c \in Errors \cup Warnings : errs' = SetLastSPASMProblem(c)
    <3>1. PICK c \in Codes : errs' = SetLastSPASMProblem(c)
      BY <2>2 DEF Codes
    <3> QED BY <1>0, <2>1, <3>1, RaiseKeepsFatal
  <2>3. CASE errs' = errs
    <3>1. Depth' = Depth
      BY <2>1 DEF Depth
    <3>2. Shape'
      BY <1>0, <2>1, <2>3, <3>1 DEF Shape, Outermost, DefinesNested, DefinesFailed, LaterQuiet, FatalIn
    <3>3. FatalKept' /\ NothingLate' /\ ExitIsExplained' /\ (printed \in Seq(Entry))'
      BY <2>1 DEF FatalInv, FatalKept, NothingLate, ExitIsExplained
    <3> QED BY <1>0, <3>2, <3>3 DEF FatalInv
  <2> QED BY <1>5, <2>2, <2>3 DEF WriteFile
<1>6. CASE EndPhase
  BY <1>0, <1>6, PhaseKeepsFatal
<1>7. ASSUME NEW c \in Codes, Raise(c) PROVE FatalInv'
  <2>1. Running /\ errs' = SetLastSPASMProblem(c) /\ UNCHANGED <<session, frames, phase, printed, output>>
    BY <1>7, <1>m DEF Raise, ParsesExpressions, RunsStatements
  <2>2. CASE owed' = owed
    BY <1>0, <2>1, <2>2, RaiseKeepsFatal
  <2>3. CASE Owe(Depth) /\ IsSPASMErrorFatal(c) /\ InKind({"top", "macro_body", "fcreate"})
    <3>1. Depth > 0 /\ Top.kind \in {"top", "macro_body", "fcreate"}
      BY <2>3, <1>m
    <3>2. phase \in {"pass_one", "pass_two"}
      <4>1. CASE Top.kind # "top"
        BY <3>1, <4>1, <1>3
      <4>2. CASE Top.kind = "top"
        BY <1>7, <4>2 DEF Raise, ParsesExpressions, RunsStatements, InKind
      <4> QED BY <4>1, <4>2
    <3> QED BY <1>0, <2>1, <2>3, <3>1, <3>2, RaiseKeepsFatal
  <2> QED BY <1>7, <2>2, <2>3 DEF Raise
<1>8. CASE BeginQuiet \/ BeginExprMacro
  <2>1. Running /\ Depth > 0 /\ Top.kind # "define_single"
    BY <1>8 DEF BeginQuiet, BeginExprMacro, ParsesExpressions, RunsStatements, InKind
  <2>2. CASE StartSPASMErrorSession(frames, "quiet")
    BY <1>8, <2>1, <2>2, <1>i DEF BeginQuiet, BeginExprMacro, Kinds
  <2>3. CASE StartSPASMErrorSession(frames, "expr_macro")
    BY <1>8, <2>1, <2>3, <1>i DEF BeginQuiet, BeginExprMacro, Kinds
  <2> QED BY <1>8, <2>2, <2>3 DEF BeginQuiet, BeginExprMacro
<1>9. CASE BeginMacro \/ BeginFcreateRun \/ BeginDefer \/ BeginWord
  <2>1. Running /\ Depth > 0 /\ Top.kind # "define_single"
    BY <1>9 DEF BeginMacro, BeginFcreateRun, BeginDefer, BeginWord, ReadsWords, RunsStatements, InKind
  <2>2. phase = "pass_one"
    <3>1. CASE Top.kind = "top"
      BY <1>9, <3>1 DEF BeginMacro, BeginFcreateRun, BeginDefer, BeginWord, ReadsWords, RunsStatements, InKind
    <3>2. Top.kind \notin {"quiet", "expr_macro"}
      BY <1>9 DEF BeginMacro, BeginFcreateRun, BeginDefer, BeginWord, ReadsWords, RunsStatements, InKind
    <3> QED BY <2>1, <3>1, <3>2, <1>3
  <2>3. PICK kind \in {"macro_args", "fcreate", "defer", "word"} : StartSPASMErrorSession(frames, kind)
    BY <1>9 DEF BeginMacro, BeginFcreateRun, BeginDefer, BeginWord
  <2>4. UNCHANGED <<errs, phase, printed, owed, output>> /\ kind \in Kinds
    BY <1>9 DEF BeginMacro, BeginFcreateRun, BeginDefer, BeginWord, Kinds
  <2> QED BY <2>1, <2>2, <2>3, <2>4, <1>i
<1>10. CASE EndQuiet \/ DeferToPassTwo \/ EndDefineList \/ DefineEmpty
  <2>1. /\ Running /\ Depth > 1 /\ Top.kind \in {"quiet", "defer", "define_list", "word"} /\ frames' = Pop
        /\ EndSPASMErrorSession(errs, Top.id, phase) /\ UNCHANGED <<printed, output>> /\ NothingOwed
    BY <1>10, <1>m, <1>n, <1>o DEF EndQuiet, DeferToPassTwo, EndDefineList, DefineEmpty
  <2> QED BY <2>1, <1>b DEF Carriers
<1>11. CASE RunMacroBody \/ BeginDefineList
  <2>1. Running /\ Depth > 1 /\ Top.kind \in {"word", "macro_args"} /\ UNCHANGED <<errs, phase, printed, owed, output>>
    BY <1>11, <1>m, <1>n DEF RunMacroBody, BeginDefineList
  <2> QED BY <1>11, <2>1, <1>k DEF RunMacroBody, BeginDefineList
<1>12. CASE EndMacro
  <2>1. /\ Running /\ Depth > 1 /\ Top.kind \in {"macro_args", "macro_body"} /\ frames' = Pop /\ UNCHANGED output
        /\ ReplayAndEnd(AddSPASMErrorSessionAnnotation(errs, Top.id), Top.id, TRUE, phase)
        /\ (UNCHANGED owed \/ (Owe(Depth - 1) /\ FatalIn(errs, Depth)))
    BY <1>12, <1>m, <1>n, <1>f DEF EndMacro
  <2> QED BY <2>1, <1>g
<1>13. CASE EndAnnotated
  <2>1. Running /\ Depth > 1 /\ Top.kind \in {"expr_macro", "fcreate"} /\ frames' = Pop /\ UNCHANGED <<owed, output>>
    BY <1>13, <1>m, <1>n DEF EndAnnotated
  <2>2. CASE ReplayAndEnd(AddSPASMErrorSessionAnnotation(errs, Top.id), Top.id, FALSE, phase)
    BY <2>1, <2>2, <1>g
  <2>3. CASE /\ ~(GetSPASMErrorSessionErrorCount(errs, Top.id) > 0)
             /\ EndSPASMErrorSession(errs, Top.id, phase) /\ printed' = printed
    <3>1. ~FatalIn(errs, Depth)
      <4> SUFFICES ASSUME FatalIn(errs, Depth) PROVE FALSE
        OBVIOUS
      <4>1. PICK i \in DOMAIN errs : InHeadRun(errs, i, Depth)
        BY <1>1, <2>1, <1>f DEF IsSPASMErrorSessionFatal
      <4>2. PICK H : H = {j \in DOMAIN errs : InHeadRun(errs, j, Depth)}
        OBVIOUS
      <4>3. IsFiniteSet(H) /\ i \in H
        <5>1. IsFiniteSet(1..Len(errs)) /\ DOMAIN errs = 1..Len(errs)
          BY <1>1, FS_Interval
        <5>2. H \subseteq 1..Len(errs)
          BY <4>2, <5>1
        <5> QED BY <4>1, <4>2, <5>1, <5>2, FS_Subset
      <4>4. Cardinality(H) \in Nat /\ Cardinality(H) # 0
        BY <4>3, FS_CardinalityType, FS_EmptySet
      <4>5. GetSPASMErrorSessionErrorCount(errs, Top.id) = Cardinality(H)
        <5>1. Top.id = Depth
          BY <1>1, <2>1
        <5> QED BY <4>2, <5>1 DEF GetSPASMErrorSessionErrorCount
      <4> QED BY <2>3, <4>4, <4>5
    <3> QED BY <2>1, <2>3, <3>1, <1>b, <1>o
  <2> QED BY <1>13, <2>2, <2>3 DEF EndAnnotated
<1>14. CASE DeferFails \/ WordError
  <2>1. /\ Running /\ Depth > 1 /\ Top.kind \in {"defer", "word"} /\ frames' = Pop /\ UNCHANGED output
        /\ ReplayAndEnd(errs, Top.id, FALSE, phase) /\ Owe(Depth - 1) /\ FatalIn(errs, Depth)
    BY <1>14, <1>m, <1>n, <1>f DEF DeferFails, WordError
  <2> QED BY <2>1, <1>g
<1>15. CASE DeferWrites \/ WordParsed
  BY <1>15, <1>h, <1>m, <1>n DEF DeferWrites, WordParsed
<1>16. CASE WordForward
  <2>1. Depth > 1 /\ Running /\ Top.kind = "word"
    BY <1>16, <1>m, <1>n DEF WordForward
  <2> QED BY <1>16, <2>1, <1>j DEF WordForward, Kinds
<1>17. CASE EndForwardWord
  <2>1. Running /\ Depth > 1 /\ Top.kind = "word_deferred"
    BY <1>17, <1>m, <1>n DEF EndForwardWord
  <2>2. /\ frames' = Pop /\ UNCHANGED <<owed, output>> /\ ReplayAndEnd(errs, Top.id, TRUE, phase)
    BY <1>17 DEF EndForwardWord
  <2> QED BY <2>1, <2>2, <1>g
<1>18. CASE BeginDefineSingle
  <2>1. Depth > 1 /\ Running /\ Top.kind = "word" /\ FatalIn(errs, Depth)
    BY <1>18, <1>m, <1>n, <1>f DEF BeginDefineSingle
  <2> QED BY <1>18, <2>1, <1>j DEF BeginDefineSingle, Kinds
<1>19. CASE EndDefineInner
  <2>1. /\ Running /\ Depth > 1 /\ Top.kind = "define_inner"
        /\ EndSPASMErrorSession(errs, Top.id, phase) /\ UNCHANGED <<printed, owed, output>>
    BY <1>19, <1>m, <1>n DEF EndDefineInner
  <2>2. CASE ~FatalIn(errs, Depth)
    BY <1>1, <1>19, <2>1, <2>2, <1>b, <1>f, <1>o DEF EndDefineInner
  <2>3. CASE FatalIn(errs, Depth)
    <3>1. frames' = [Pop EXCEPT ![Depth - 1].kind = "define_failed"]
      BY <1>1, <1>19, <2>1, <2>3, <1>f DEF EndDefineInner
    <3>2. /\ Pop \in Seq(Frame) /\ Len(Pop) = Depth - 1 /\ "define_failed" \in Kinds /\ Depth - 1 \in Int
          /\ \A i \in 1..(Depth - 1) : Pop[i] = frames[i]
      BY <1>0, <1>1, <2>1, PopSites DEF Kinds
    <3>3. /\ Len(frames') = Depth - 1
          /\ \A i \in 1..(Depth - 1) : frames'[i].kind = IF i = Depth - 1 THEN "define_failed" ELSE Pop[i].kind
      BY <3>1, <3>2, RenameSite, RenameKind
    <3>4. /\ Depth' = Depth - 1 /\ frames'[Depth - 1].kind = "define_failed"
          /\ \A i \in 1..(Depth - 2) : frames'[i].kind = frames[i].kind
      BY <1>1, <2>1, <3>2, <3>3 DEF Depth
    <3>5. phase' = phase /\ \A m \in 1..(Depth - 1) : FatalIn(errs, m) => FatalIn(errs', m)
      BY <1>0, <1>1, <2>1, EndKeeps
    <3> QED BY <1>0, <2>1, <3>4, <3>5, DefineFailsKeepsFatal
  <2> QED BY <2>2, <2>3
<1>20. CASE EndDefineSingle
  <2>1. CASE /\ InKind({"define_failed"}) /\ frames' = Pop /\ UNCHANGED <<owed, output>>
             /\ ReplayAndEnd(AddSPASMErrorSessionAnnotation(errs, Top.id), Top.id, FALSE, phase)
    <3>1. Running /\ Depth > 1 /\ Top.kind = "define_failed"
      BY <2>1, <1>m, <1>n
    <3> QED BY <2>1, <3>1, <1>g
  <2>2. CASE InKind({"define_single"})
    <3>1. Running /\ Depth > 1 /\ Top.kind = "define_single"
      BY <2>2, <1>m, <1>n
    <3>4. ~InKind({"define_failed"})
      BY <3>1 DEF InKind
    <3>2. /\ frames' = Pop /\ UNCHANGED <<printed, output>> /\ NothingOwed
          /\ EndSPASMErrorSession(errs, Top.id, phase)
      BY <1>20, <3>4, <1>o DEF EndDefineSingle
    <3>3. Top.kind \notin Carriers \ {"define_single"}
      BY <3>1
    <3> QED BY <3>1, <3>2, <3>3, <1>b
  <2> QED BY <1>20, <2>1, <2>2 DEF EndDefineSingle
<1>21. CASE StringJunk
  BY <1>21 DEF StringJunk
<1>22. CASE Done
  BY <1>22, <1>l DEF Done
<1> QED
  BY <1>4, <1>5, <1>6, <1>7, <1>8, <1>9, <1>10, <1>11, <1>12, <1>13, <1>14, <1>15, <1>16, <1>17, <1>18,
     <1>19, <1>20, <1>21, <1>22, <1>l
  DEF Next

LEMMA InitFatal == Init => FatalInv
<1> SUFFICES ASSUME Init PROVE FatalInv
  OBVIOUS
<1>1. IInv
  BY InitIInv
<1>2. Depth = 0
  BY DEF Init, Depth
<1>3. Shape
  BY <1>2 DEF Shape, Outermost, DefinesNested, DefinesFailed, LaterQuiet
<1>4. FatalKept /\ NothingLate /\ printed \in Seq(Entry) /\ ExitIsExplained
  BY DEF Init, FatalKept, NothingLate, ExitIsExplained
<1> QED BY <1>1, <1>3, <1>4 DEF FatalInv

\* Of what fails fatally below call sites that all hand errors on, an output
\* file can hide nothing but what parse_emit_string drops with the session of a
\* word that names a define (its own complaint, with contents emitted in its
\* place or none, and those of a list's words): anything else has stopped the
\* assembly, however deep the sites nest and whatever happens between.
THEOREM FatalErrorsStop ==
  ASSUME "string_junk" \notin Clients
  PROVE  Spec => []FatalStopsAssembly
<1>1. Init => FatalInv
  BY InitFatal
<1>2. FatalInv /\ [Next]_vars => FatalInv'
  BY StepKeepsFatal
<1>3. FatalInv => FatalStopsAssembly
  BY DEF FatalInv, IInv, TypeOK, Losses, NothingLate, FatalStopsAssembly
<1> QED BY <1>1, <1>2, <1>3, PTL DEF Spec

\* When the end of a session exits the program, the fatal entry that made it
\* exit has been printed.
THEOREM ExitsExplained ==
  ASSUME "string_junk" \notin Clients
  PROVE  Spec => []ExitIsExplained
<1>1. Init => FatalInv
  BY InitFatal
<1>2. FatalInv /\ [Next]_vars => FatalInv'
  BY StepKeepsFatal
<1>3. FatalInv => ExitIsExplained
  BY DEF FatalInv
<1> QED BY <1>1, <1>2, <1>3, PTL DEF Spec
=============================================================================
