-------------------------- MODULE ErrorStackProofs --------------------------
(***************************************************************************)
(* The one list of errors.cpp implements ErrorStack, a stack with an error *)
(* list for each call site: every step of ErrorSessions is a step of       *)
(* ErrorStack, or none, under the mapping of ErrorSessions.                *)
(***************************************************************************)
EXTENDS ErrorSessionsProofs

Body(e) == [code |-> e.code, note |-> e.note]
Plain == [code : Codes, note : Int]

\* Cut and Level of any list.
CutOf(s, n) == Cardinality({i \in DOMAIN s : s[i].session >= n})
LevelOf(s, n) == SubSeq(s, CutOf(s, n + 1) + 1, CutOf(s, n))
Levels(s, d) == [n \in 1..d |-> Unlabelled(LevelOf(s, n))]

\* A cut is where the sessions from n on end.
LEMMA CutIs ==
  ASSUME NEW s \in Seq(Entry), NEW n \in Nat, NEW k \in 0..Len(s),
         \A i \in 1..Len(s) : i <= k <=> s[i].session >= n
  PROVE  CutOf(s, n) = k
<1>1. {i \in DOMAIN s : s[i].session >= n} = 1..k
  <2>1. DOMAIN s = 1..Len(s)
    OBVIOUS
  <2> QED BY <2>1
<1>2. Cardinality(1..k) = k
  BY FS_Interval
<1> QED BY <1>1, <1>2 DEF CutOf

LEMMA CutSplits ==
  ASSUME NEW s \in Seq(Entry), NEW d \in Nat, Sorted(s, d), NEW n \in Nat
  PROVE  /\ CutOf(s, n) \in 0..Len(s)
         /\ \A i \in 1..Len(s) : i <= CutOf(s, n) <=> s[i].session >= n
<1>1. DOMAIN s = 1..Len(s) /\ Len(s) \in Nat
  OBVIOUS
<1>2. PICK T : T = {i \in 1..(Len(s) + 1) : i <= Len(s) => s[i].session < n}
  OBVIOUS
<1>3. PICK m \in T : \A i \in T : m <= i
  <2>1. T \subseteq Nat /\ Len(s) + 1 \in T
    BY <1>1, <1>2
  <2> QED BY <2>1, LeastNumber
<1>4. m - 1 \in 0..Len(s) /\ m \in Nat
  BY <1>1, <1>2, <1>3
<1>5. \A i \in 1..Len(s) : s[i].session \in Int
  BY <1>1 DEF Sorted
<1>6. ASSUME NEW i \in 1..Len(s) PROVE i <= m - 1 <=> s[i].session >= n
  <2>1. CASE i < m
    <3>1. i \notin T
      BY <1>3, <1>4, <2>1
    <3> QED BY <1>1, <1>2, <1>4, <1>5, <2>1, <3>1
  <2>2. CASE i >= m
    <3>1. m \in 1..Len(s) /\ s[m].session < n
      BY <1>1, <1>2, <1>4, <2>2
    <3>2. s[m].session >= s[i].session
      BY <1>1, <2>2, <3>1 DEF Sorted
    <3> QED BY <1>4, <1>5, <2>2, <3>1, <3>2
  <2> QED BY <1>4, <2>1, <2>2
<1>7. CutOf(s, n) = m - 1
  BY <1>4, <1>6, CutIs
<1> QED BY <1>4, <1>6, <1>7

\* A level of a sorted list, place by place.
Places(s, n) ==
  [j \in 1..(CutOf(s, n) - CutOf(s, n + 1)) |-> Body(s[CutOf(s, n + 1) + j])]

LEMMA LevelIs ==
  ASSUME NEW s \in Seq(Entry), NEW d \in Nat, Sorted(s, d), NEW n \in Nat
  PROVE  /\ CutOf(s, n + 1) \in 0..Len(s) /\ CutOf(s, n) \in 0..Len(s) /\ CutOf(s, n + 1) <= CutOf(s, n)
         /\ Unlabelled(LevelOf(s, n)) = Places(s, n)
         /\ Unlabelled(LevelOf(s, n)) \in Seq(Plain)
         /\ Len(Unlabelled(LevelOf(s, n))) = CutOf(s, n) - CutOf(s, n + 1)
<1>a. PICK a, b : a = CutOf(s, n + 1) /\ b = CutOf(s, n)
  OBVIOUS
<1>1. /\ a \in 0..Len(s) /\ b \in 0..Len(s)
      /\ \A i \in 1..Len(s) : (i <= a <=> s[i].session >= n + 1) /\ (i <= b <=> s[i].session >= n)
  <2>1. n + 1 \in Nat
    OBVIOUS
  <2>2. a \in 0..Len(s) /\ \A i \in 1..Len(s) : i <= a <=> s[i].session >= n + 1
    BY <1>a, <2>1, CutSplits
  <2>3. b \in 0..Len(s) /\ \A i \in 1..Len(s) : i <= b <=> s[i].session >= n
    BY <1>a, CutSplits
  <2> QED BY <2>2, <2>3
<1>2. a <= b
  <2>1. CASE a = 0
    BY <1>1, <2>1
  <2>2. CASE a > 0
    <3>1. a \in 1..Len(s) /\ s[a].session >= n + 1 /\ a \in DOMAIN s
      BY <1>1, <2>2
    <3>2. s[a].session >= n
      BY <3>1 DEF Sorted
    <3> QED BY <1>1, <3>1, <3>2
  <2> QED BY <1>1, <2>1, <2>2
<1>3. PICK t : t = SubSeq(s, a + 1, b)
  OBVIOUS
<1>4. /\ t \in Seq(Entry) /\ DOMAIN t = 1..(b - a) /\ Len(t) = b - a /\ b - a \in Nat
      /\ \A j \in 1..(b - a) : t[j] = s[a + j] /\ a + j \in 1..Len(s)
  BY <1>1, <1>2, <1>3
<1>5. Unlabelled(t) = [j \in 1..(b - a) |-> Body(s[a + j])]
  BY <1>4 DEF Unlabelled, Body
<1>6. \A j \in 1..(b - a) : Body(s[a + j]) \in Plain
  <2> TAKE j \in 1..(b - a)
  <2>1. s[a + j] \in Entry
    BY <1>4
  <2> QED BY <2>1 DEF Entry, Body, Plain
<1>7. Unlabelled(t) \in Seq(Plain) /\ Len(Unlabelled(t)) = b - a
  <2>1. PICK u : u = Unlabelled(t)
    OBVIOUS
  <2>2. u = [j \in 1..(b - a) |-> u[j]] /\ \A j \in 1..(b - a) : u[j] \in Plain
    BY <1>5, <1>6, <2>1
  <2>3. u \in Seq(Plain) /\ Len(u) = b - a
    BY <1>4, <2>2
  <2> QED BY <2>1, <2>3
<1>8. Unlabelled(LevelOf(s, n)) = Unlabelled(t)
  BY <1>a, <1>3 DEF LevelOf
<1>9. Places(s, n) = [j \in 1..(b - a) |-> Body(s[a + j])]
  BY <1>a DEF Places
<1> QED BY <1>a, <1>1, <1>2, <1>5, <1>7, <1>8, <1>9

\* Two lists agree on a level if they agree between its cuts.
LEMMA SameLevel ==
  ASSUME NEW s \in Seq(Entry), NEW d \in Nat, Sorted(s, d), NEW n \in Nat,
         NEW t \in Seq(Entry), NEW e \in Nat, Sorted(t, e), NEW m \in Nat,
         CutOf(s, n) - CutOf(s, n + 1) = CutOf(t, m) - CutOf(t, m + 1),
         \A j \in 1..(CutOf(s, n) - CutOf(s, n + 1)) :
           Body(s[CutOf(s, n + 1) + j]) = Body(t[CutOf(t, m + 1) + j])
  PROVE  Unlabelled(LevelOf(s, n)) = Unlabelled(LevelOf(t, m))
<1>1. Unlabelled(LevelOf(s, n)) = Places(s, n) /\ Unlabelled(LevelOf(t, m)) = Places(t, m)
  BY LevelIs
<1> QED BY <1>1 DEF Places

LEMMA LevelsTyped ==
  ASSUME NEW s \in Seq(Entry), NEW d \in Nat, Sorted(s, d)
  PROVE  /\ Levels(s, d) \in Seq(Seq(Plain)) /\ Len(Levels(s, d)) = d
         /\ \A n \in 1..d : Levels(s, d)[n] = Unlabelled(LevelOf(s, n))
<1>1. \A n \in 1..d : Unlabelled(LevelOf(s, n)) \in Seq(Plain)
  BY LevelIs
<1>2. PICK l : l = Levels(s, d)
  OBVIOUS
<1>3. l = [n \in 1..d |-> l[n]] /\ \A n \in 1..d : l[n] = Unlabelled(LevelOf(s, n))
  BY <1>2 DEF Levels
<1>4. \A n \in 1..d : l[n] \in Seq(Plain)
  BY <1>1, <1>3
<1>5. l \in Seq(Seq(Plain)) /\ Len(l) = d
  <2>1. PICK S : S = Seq(Plain)
    OBVIOUS
  <2>2. l \in Seq(S) /\ Len(l) = d
    BY <1>3, <1>4, <2>1
  <2> QED BY <2>1, <2>2
<1> QED BY <1>2, <1>3, <1>5

\* Nothing lies outside the sessions of a sorted list.
LEMMA CutBeyond ==
  ASSUME NEW s \in Seq(Entry), NEW d \in Nat, Sorted(s, d), NEW n \in Nat, n > d
  PROVE  CutOf(s, n) = 0
<1>1. 0 \in 0..Len(s)
  OBVIOUS
<1>2. \A i \in 1..Len(s) : i <= 0 <=> s[i].session >= n
  <2>1. DOMAIN s = 1..Len(s)
    OBVIOUS
  <2> QED BY <2>1 DEF Sorted
<1> QED BY <1>1, <1>2, CutIs

\* A new site has an empty list, and no other list changes.
LEMMA LevelsEntered ==
  ASSUME NEW s \in Seq(Entry), NEW d \in Nat, Sorted(s, d)
  PROVE  Levels(s, d + 1) = Append(Levels(s, d), <<>>)
<1>1. Sorted(s, d + 1)
  BY DEF Sorted
<1>2. CutOf(s, d + 1) = 0 /\ CutOf(s, (d + 1) + 1) = 0
  BY CutBeyond
<1>3. Unlabelled(LevelOf(s, d + 1)) = <<>>
  <2>1. LevelOf(s, d + 1) = <<>>
    BY <1>2 DEF LevelOf
  <2> QED BY <2>1 DEF Unlabelled
<1>4. PICK l, m : l = Levels(s, d) /\ m = Levels(s, d + 1)
  OBVIOUS
<1>5. /\ l \in Seq(Seq(Plain)) /\ Len(l) = d /\ \A n \in 1..d : l[n] = Unlabelled(LevelOf(s, n))
  BY <1>4, LevelsTyped
<1>6. /\ m \in Seq(Seq(Plain)) /\ Len(m) = d + 1 /\ \A n \in 1..(d + 1) : m[n] = Unlabelled(LevelOf(s, n))
  BY <1>1, <1>4, LevelsTyped
<1>7. m = Append(l, <<>>)
  <2>1. \A n \in 1..(d + 1) : m[n] = Append(l, <<>>)[n]
    BY <1>3, <1>5, <1>6
  <2>2. Append(l, <<>>) \in Seq(Seq(Plain)) /\ Len(Append(l, <<>>)) = d + 1
    <3>1. <<>> \in Seq(Plain)
      OBVIOUS
    <3> QED BY <1>5, <3>1
  <2> QED BY SMTT(20), <1>6, <2>1, <2>2
<1> QED BY <1>4, <1>7

\* Ending the innermost session removes its list and changes no other: t is
\* what is left of s when the first k entries are gone.
LEMMA LevelsCleaned ==
  ASSUME NEW s \in Seq(Entry), NEW d \in Nat \ {0}, Sorted(s, d),
         NEW k \in 0..Len(s), IsHeadRun(s, k, d),
         NEW t \in Seq(Entry), Sorted(t, d - 1), Len(t) = Len(s) - k,
         \A i \in 1..Len(t) : t[i] = s[k + i]
  PROVE  \A n \in 1..(d - 1) : Unlabelled(LevelOf(t, n)) = Unlabelled(LevelOf(s, n))
<1>2. d - 1 \in Nat /\ Len(s) \in Nat /\ DOMAIN s = 1..Len(s) /\ Len(t) \in Nat
  OBVIOUS
<1>3. ASSUME NEW n \in 1..d PROVE CutOf(t, n) = CutOf(s, n) - k /\ CutOf(s, n) \in Nat
  <2>1. PICK c : c = CutOf(s, n)
    OBVIOUS
  <2>2. c \in 0..Len(s) /\ \A i \in 1..Len(s) : i <= c <=> s[i].session >= n
    <3>1. n \in Nat /\ d \in Nat
      OBVIOUS
    <3> QED BY <2>1, <3>1, CutSplits
  <2>3. k <= c
    <3>1. CASE k > 0
      <4>1. k \in 1..Len(s) /\ s[k].session = d
        BY <1>2, <3>1 DEF IsHeadRun
      <4> QED BY <2>2, <4>1
    <3> QED BY <1>2, <2>2, <3>1
  <2>4. c - k \in 0..Len(t)
    BY <1>2, <2>2, <2>3
  <2>5. \A i \in 1..Len(t) : i <= c - k <=> t[i].session >= n
    <3> TAKE i \in 1..Len(t)
    <3>1. k + i \in 1..Len(s) /\ t[i] = s[k + i]
      BY <1>2
    <3>2. k + i <= c <=> t[i].session >= n
      BY <2>2, <3>1
    <3>3. c \in Nat /\ k \in Nat /\ i \in Nat
      BY <1>2, <2>2
    <3>4. i <= c - k <=> k + i <= c
      <4> HIDE <1>2, <2>2, <2>3, <2>4, <3>1, <3>2
      <4> QED BY <3>3
    <3> QED BY <3>2, <3>4
  <2>6. CutOf(t, n) = c - k
    <3>1. n \in Nat
      OBVIOUS
    <3> QED BY <2>4, <2>5, <3>1, CutIs
  <2> QED BY <2>1, <2>2, <2>6
<1>4. ASSUME NEW n \in 1..(d - 1) PROVE Unlabelled(LevelOf(t, n)) = Unlabelled(LevelOf(s, n))
  <2>1. PICK a, b : a = CutOf(s, n + 1) /\ b = CutOf(s, n)
    OBVIOUS
  <2>2. CutOf(t, n) = b - k /\ CutOf(t, n + 1) = a - k /\ a \in Nat /\ b \in Nat
    <3>1. n \in 1..d /\ n + 1 \in 1..d
      OBVIOUS
    <3> QED BY <1>3, <2>1, <3>1
  <2>3. /\ a <= b /\ b <= Len(s) /\ b - k <= Len(t) /\ a - k >= 0
    <3>1. a <= b /\ b <= Len(s)
      <4>1. n \in Nat /\ d \in Nat
        OBVIOUS
      <4> QED BY <2>1, <4>1, LevelIs
    <3>2. CutOf(t, n) \in 0..Len(t) /\ CutOf(t, n + 1) \in 0..Len(t)
      <4>1. n \in Nat /\ n + 1 \in Nat
        OBVIOUS
      <4> QED BY <1>2, <4>1, CutSplits
    <3> QED BY <1>2, <2>2, <3>1, <3>2
  <2>4. \A j \in 1..(b - a) : Body(t[(a - k) + j]) = Body(s[a + j])
    <3> TAKE j \in 1..(b - a)
    <3>1. (a - k) + j \in 1..Len(t) /\ k + ((a - k) + j) = a + j
      BY <1>2, <2>2, <2>3
    <3>2. t[(a - k) + j] = s[a + j]
      BY <1>2, <3>1
    <3> QED BY <3>2
  <2>5. Places(t, n) = Places(s, n)
    <3>1. (b - k) - (a - k) = b - a
      BY <2>2
    <3> QED BY <2>1, <2>2, <2>4, <3>1 DEF Places
  <2>6. n \in Nat /\ d \in Nat
    OBVIOUS
  <2>7. Unlabelled(LevelOf(t, n)) = Places(t, n)
    BY <1>2, <2>6, LevelIs
  <2>8. Unlabelled(LevelOf(s, n)) = Places(s, n)
    BY <2>6, LevelIs
  <2> QED BY <2>5, <2>7, <2>8
<1> QED BY <1>4

\* Ending the innermost session drops the last list and no other.
LEMMA EndDrops ==
  ASSUME NEW s \in Seq(Entry), NEW d \in Nat \ {0}, Sorted(s, d),
         NEW k \in 0..Len(s), IsHeadRun(s, k, d)
  PROVE  Levels(SubSeq(s, k + 1, Len(s)), d - 1) = SubSeq(Levels(s, d), 1, d - 1)
<1>1. PICK t : t = SubSeq(s, k + 1, Len(s))
  OBVIOUS
<1>2. t \in Seq(Entry) /\ Sorted(t, d - 1)
  BY <1>1, CleanupSorted
<1>3. Len(t) = Len(s) - k /\ \A i \in 1..Len(t) : t[i] = s[k + i]
  BY <1>1
<1>4. \A n \in 1..(d - 1) : Unlabelled(LevelOf(t, n)) = Unlabelled(LevelOf(s, n))
  BY <1>2, <1>3, LevelsCleaned
<1>5. PICK l, m : l = Levels(s, d) /\ m = Levels(t, d - 1)
  OBVIOUS
<1>6. l \in Seq(Seq(Plain)) /\ Len(l) = d /\ \A n \in 1..d : l[n] = Unlabelled(LevelOf(s, n))
  BY <1>5, LevelsTyped
<1>7. d - 1 \in Nat
  OBVIOUS
<1>8. m \in Seq(Seq(Plain)) /\ Len(m) = d - 1 /\ \A n \in 1..(d - 1) : m[n] = Unlabelled(LevelOf(t, n))
  BY <1>2, <1>5, <1>7, LevelsTyped
<1>9. \A n \in 1..(d - 1) : m[n] = l[n]
  BY <1>4, <1>6, <1>8
<1>10. m = SubSeq(l, 1, d - 1)
  BY <1>6, <1>8, <1>9
<1> QED BY <1>1, <1>5, <1>10

\* Replaying the innermost of several sessions appends its list to the front
\* of its caller's, and leaves nothing behind.
LEMMA LevelsReplayed ==
  ASSUME NEW s \in Seq(Entry), NEW d \in Nat, d > 1, Sorted(s, d)
  PROVE  /\ \A n \in 1..(d - 2) :
              Unlabelled(LevelOf(ReplaySPASMErrorSession(s, d), n)) = Unlabelled(LevelOf(s, n))
         /\ Unlabelled(LevelOf(ReplaySPASMErrorSession(s, d), d - 1)) =
              Unlabelled(LevelOf(s, d)) \o Unlabelled(LevelOf(s, d - 1))
<1>r. PICK r : r = ReplaySPASMErrorSession(s, d)
  OBVIOUS
<1> USE <1>r
<1>1. r \in Seq(Entry) /\ Sorted(r, d)
  BY ReplaySorted
<1>2. /\ DOMAIN s = 1..Len(s) /\ DOMAIN r = 1..Len(s) /\ Len(r) = Len(s) /\ Len(s) \in Nat
      /\ \A i \in 1..Len(s) : s[i] \in Entry /\ s[i].session \in 1..d
  <2>1. DOMAIN s = 1..Len(s) /\ DOMAIN r = DOMAIN s
    BY DEF ReplaySPASMErrorSession
  <2>2. Len(r) = Len(s)
    BY <1>1, <2>1
  <2> QED BY <2>1, <2>2 DEF Sorted
<1>3. \A i \in 1..Len(s) :
        /\ Body(r[i]) = Body(s[i])
        /\ r[i].session = IF s[i].session = d THEN d - 1 ELSE s[i].session
  <2> TAKE i \in 1..Len(s)
  <2>1. InHeadRun(s, i, d) <=> s[i].session = d
    BY <1>2, HeadRunComplete
  <2>2. r[i] = IF s[i].session = d THEN [s[i] EXCEPT !.session = d - 1] ELSE s[i]
    BY <1>2, <2>1 DEF ReplaySPASMErrorSession
  <2>3. s[i] \in Entry
    BY <1>2
  <2> QED BY <2>2, <2>3 DEF Entry, Body
<1>4. ASSUME NEW n \in 1..(d - 1) PROVE CutOf(r, n) = CutOf(s, n)
  <2>1. PICK c : c = CutOf(s, n)
    OBVIOUS
  <2>2. c \in 0..Len(s) /\ \A i \in 1..Len(s) : i <= c <=> s[i].session >= n
    <3>1. n \in Nat
      OBVIOUS
    <3> QED BY <2>1, <3>1, CutSplits
  <2>3. \A i \in 1..Len(r) : i <= c <=> r[i].session >= n
    <3> TAKE i \in 1..Len(r)
    <3>1. s[i].session \in 1..d /\ i \in 1..Len(s)
      BY <1>2
    <3> QED BY <1>3, <2>2, <3>1
  <2>4. c \in 0..Len(r) /\ n \in Nat
    BY <1>2, <2>2
  <2>5. CutOf(r, n) = c
    BY <1>1, <2>3, <2>4, CutIs
  <2> QED BY <2>1, <2>5
<1>5. CutOf(r, d) = 0
  <2>1. \A i \in 1..Len(r) : i <= 0 <=> r[i].session >= d
    <3> TAKE i \in 1..Len(r)
    <3>1. s[i].session \in 1..d /\ i \in 1..Len(s)
      BY <1>2
    <3> QED BY <1>3, <3>1
  <2>2. 0 \in 0..Len(r)
    BY <1>2
  <2> QED BY <1>1, <2>1, <2>2, CutIs
<1>6. ASSUME NEW n \in 1..(d - 2) PROVE Unlabelled(LevelOf(r, n)) = Unlabelled(LevelOf(s, n))
  <2>1. n \in Nat /\ n \in 1..(d - 1) /\ n + 1 \in 1..(d - 1)
    OBVIOUS
  <2>2. CutOf(r, n) = CutOf(s, n) /\ CutOf(r, n + 1) = CutOf(s, n + 1)
    BY <1>4, <2>1
  <2>3. PICK a, b : a = CutOf(s, n + 1) /\ b = CutOf(s, n)
    OBVIOUS
  <2>4. a \in 0..Len(s) /\ b \in 0..Len(s)
    BY <2>1, <2>3, LevelIs
  <2>5. \A j \in 1..(b - a) : Body(r[a + j]) = Body(s[a + j])
    BY <1>2, <1>3, <2>4
  <2>6. Places(r, n) = Places(s, n)
    BY <2>2, <2>3, <2>5 DEF Places
  <2>7. Unlabelled(LevelOf(r, n)) = Places(r, n)
    BY <1>1, <2>1, LevelIs
  <2>8. Unlabelled(LevelOf(s, n)) = Places(s, n)
    BY <2>1, LevelIs
  <2> QED BY <2>6, <2>7, <2>8
<1>7. Unlabelled(LevelOf(r, d - 1)) = Unlabelled(LevelOf(s, d)) \o Unlabelled(LevelOf(s, d - 1))
  <2>1. d - 1 \in Nat /\ (d - 1) + 1 = d /\ d + 1 > d /\ d - 1 \in 1..(d - 1) /\ d + 1 \in Nat
    OBVIOUS
  <2>2. PICK a, b : a = CutOf(s, d) /\ b = CutOf(s, d - 1)
    OBVIOUS
  <2>3. CutOf(s, d + 1) = 0 /\ CutOf(r, d - 1) = b
    BY <1>4, <2>1, <2>2, CutBeyond
  <2>4. PICK x, y, z : /\ x = Unlabelled(LevelOf(s, d)) /\ y = Unlabelled(LevelOf(s, d - 1))
                       /\ z = Unlabelled(LevelOf(r, d - 1))
    OBVIOUS
  <2>5. x = Places(s, d) /\ x \in Seq(Plain) /\ Len(x) = a - 0
    BY <2>2, <2>3, <2>4, LevelIs
  <2>6. /\ y = Places(s, d - 1) /\ y \in Seq(Plain) /\ Len(y) = b - a
        /\ a \in 0..Len(s) /\ b \in 0..Len(s) /\ a <= b
    <3>1. /\ CutOf(s, (d - 1) + 1) \in 0..Len(s) /\ CutOf(s, d - 1) \in 0..Len(s)
          /\ CutOf(s, (d - 1) + 1) <= CutOf(s, d - 1)
          /\ y = Places(s, d - 1) /\ y \in Seq(Plain)
          /\ Len(y) = CutOf(s, d - 1) - CutOf(s, (d - 1) + 1)
      BY <2>1, <2>4, LevelIs
    <3> QED BY <2>1, <2>2, <3>1
  <2>7. z = Places(r, d - 1) /\ z \in Seq(Plain) /\ Len(z) = b - 0
    <3>1. /\ z = Places(r, d - 1) /\ z \in Seq(Plain)
          /\ Len(z) = CutOf(r, d - 1) - CutOf(r, (d - 1) + 1)
      BY <1>1, <2>1, <2>4, LevelIs
    <3> QED BY <1>5, <2>1, <2>3, <3>1
  <2>8. \A j \in 1..a : x[j] = Body(s[j])
    BY <2>2, <2>3, <2>5, <2>6 DEF Places
  <2>9. \A j \in 1..(b - a) : y[j] = Body(s[a + j])
    BY <2>1, <2>2, <2>6 DEF Places
  <2>10. \A j \in 1..b : z[j] = Body(s[j])
    <3>1. \A j \in 1..b : z[j] = Body(r[j])
      BY <1>5, <2>1, <2>3, <2>6, <2>7 DEF Places
    <3>2. \A j \in 1..b : j \in 1..Len(s)
      BY <1>2, <2>6
    <3> QED BY <1>3, <3>1, <3>2
  <2>11. z = x \o y
    <3>1. x \o y \in Seq(Plain) /\ Len(x \o y) = b
      BY <2>5, <2>6
    <3>2. \A j \in 1..b : (x \o y)[j] = z[j]
      <4> TAKE j \in 1..b
      <4>1. CASE j <= a
        BY <2>5, <2>6, <2>8, <2>10, <4>1
      <4>2. CASE j > a
        <5>1. j - a \in 1..(b - a) /\ a + (j - a) = j /\ a \in Nat /\ b \in Nat
          BY <2>6, <4>2
        <5>2. (x \o y)[j] = y[j - a]
          BY <2>5, <2>6, <4>2, <5>1
        <5> QED BY <2>9, <2>10, <5>1, <5>2
      <4>3. j \in Int /\ a \in Int
        BY <2>6
      <4>4. j <= a \/ j > a
        BY <4>3
      <4> QED BY <4>1, <4>2, <4>4
    <3>3. PICK w : w = x \o y
      OBVIOUS
    <3>4. w \in Seq(Plain) /\ Len(w) = b /\ \A j \in 1..b : w[j] = z[j]
      BY <3>1, <3>2, <3>3
    <3>5. z \in Seq(Plain) /\ Len(z) = b
      BY <1>2, <2>6, <2>7
    <3>6. z = w
      BY <3>4, <3>5
    <3> QED BY <3>3, <3>6
  <2> QED BY <2>4, <2>11
<1> QED BY <1>6, <1>7

Noted(l, d) == [i \in DOMAIN l |-> [l[i] EXCEPT !.note = d]]

\* Annotating marks the innermost list and no other.
LEMMA LevelsAnnotated ==
  ASSUME NEW s \in Seq(Entry), NEW d \in Nat \ {0}, Sorted(s, d),
         NEW t, t = AddSPASMErrorSessionAnnotation(s, d)
  PROVE  /\ \A n \in 1..(d - 1) : Unlabelled(LevelOf(t, n)) = Unlabelled(LevelOf(s, n))
         /\ Unlabelled(LevelOf(t, d)) = Noted(Unlabelled(LevelOf(s, d)), d)
<1>1. t \in Seq(Entry) /\ Sorted(t, d) /\ d \in Nat /\ d \in Int
  BY AnnotationSorted
<1>2. /\ DOMAIN s = 1..Len(s) /\ DOMAIN t = 1..Len(s) /\ Len(t) = Len(s) /\ Len(s) \in Nat
      /\ \A i \in 1..Len(s) : s[i] \in Entry /\ s[i].session \in 1..d
  <2>1. DOMAIN s = 1..Len(s) /\ DOMAIN t = DOMAIN s
    BY DEF AddSPASMErrorSessionAnnotation
  <2>2. Len(t) = Len(s)
    BY <1>1, <2>1
  <2> QED BY <2>1, <2>2 DEF Sorted
<1>3. \A i \in 1..Len(s) :
        /\ t[i].session = s[i].session
        /\ Body(t[i]) = IF s[i].session = d THEN [Body(s[i]) EXCEPT !.note = d] ELSE Body(s[i])
  <2> TAKE i \in 1..Len(s)
  <2>1. t[i] = IF s[i].session = d THEN [s[i] EXCEPT !.note = d] ELSE s[i]
    BY <1>2 DEF AddSPASMErrorSessionAnnotation
  <2>2. s[i] \in Entry
    BY <1>2
  <2> QED BY <2>1, <2>2 DEF Entry, Body
<1>4. ASSUME NEW n \in Nat PROVE CutOf(t, n) = CutOf(s, n)
  <2>1. PICK c : c = CutOf(s, n)
    OBVIOUS
  <2>2. c \in 0..Len(s) /\ \A i \in 1..Len(s) : i <= c <=> s[i].session >= n
    BY <1>1, <2>1, CutSplits
  <2>3. c \in 0..Len(t) /\ \A i \in 1..Len(t) : i <= c <=> t[i].session >= n
    BY <1>2, <1>3, <2>2
  <2>4. CutOf(t, n) = c
    BY <1>1, <2>3, CutIs
  <2> QED BY <2>1, <2>4
<1>5. ASSUME NEW n \in 1..(d - 1) PROVE Unlabelled(LevelOf(t, n)) = Unlabelled(LevelOf(s, n))
  <2>1. n \in Nat /\ n + 1 \in Nat
    OBVIOUS
  <2>2. PICK a, b : a = CutOf(s, n + 1) /\ b = CutOf(s, n)
    OBVIOUS
  <2>3. a \in 0..Len(s) /\ b \in 0..Len(s) /\ \A i \in 1..Len(s) : i <= a <=> s[i].session >= n + 1
    BY <1>1, <2>1, <2>2, CutSplits
  <2>4. CutOf(s, d) \in 0..Len(s) /\ \A i \in 1..Len(s) : i <= CutOf(s, d) <=> s[i].session >= d
    BY <1>1, CutSplits
  <2>5. \A j \in 1..(b - a) : Body(t[a + j]) = Body(s[a + j])
    <3> TAKE j \in 1..(b - a)
    <3>1. a + j \in 1..Len(s) /\ ~(a + j <= a)
      BY <1>2, <2>3
    <3>2. s[a + j].session \in 1..d /\ ~(s[a + j].session >= n + 1)
      BY <1>2, <2>3, <3>1
    <3>3. s[a + j].session # d
      BY <3>2
    <3> QED BY <1>3, <3>1, <3>3
  <2>6. Places(t, n) = Places(s, n)
    BY <1>4, <2>1, <2>2, <2>5 DEF Places
  <2>7. Unlabelled(LevelOf(t, n)) = Places(t, n)
    BY <1>1, <2>1, LevelIs
  <2>8. Unlabelled(LevelOf(s, n)) = Places(s, n)
    BY <1>1, <2>1, LevelIs
  <2> QED BY <2>6, <2>7, <2>8
<1>6. Unlabelled(LevelOf(t, d)) = Noted(Unlabelled(LevelOf(s, d)), d)
  <2>1. d + 1 \in Nat /\ d + 1 > d
    OBVIOUS
  <2>2. CutOf(s, d + 1) = 0 /\ CutOf(t, d + 1) = 0
    BY <1>1, <2>1, CutBeyond
  <2>3. PICK c : c = CutOf(s, d) /\ c = CutOf(t, d)
    BY <1>1, <1>4
  <2>4. c \in 0..Len(s) /\ \A i \in 1..Len(s) : i <= c <=> s[i].session >= d
    BY <1>1, <2>3, CutSplits
  <2>5. c - 0 = c /\ \A j \in 1..c : 0 + j = j /\ j \in 1..Len(s)
    BY <1>2, <2>4
  <2>6. PICK x, y : x = Places(s, d) /\ y = Places(t, d)
    OBVIOUS
  <2>7. x = [j \in 1..c |-> Body(s[j])] /\ y = [j \in 1..c |-> Body(t[j])]
    BY <2>2, <2>3, <2>5, <2>6 DEF Places
  <2>8. \A j \in 1..c : y[j] = [x[j] EXCEPT !.note = d]
    <3> TAKE j \in 1..c
    <3>1. s[j].session = d
      BY <1>2, <2>4, <2>5
    <3> QED BY <1>3, <2>5, <2>7, <3>1
  <2>9. y = Noted(x, d)
    <3>1. DOMAIN x = 1..c /\ y = [j \in 1..c |-> y[j]]
      BY <2>7
    <3> QED BY <2>8, <3>1 DEF Noted
  <2>10. Unlabelled(LevelOf(s, d)) = x
    BY <1>1, <2>6, LevelIs
  <2>11. Unlabelled(LevelOf(t, d)) = y
    BY <1>1, <2>6, LevelIs
  <2> QED BY <2>9, <2>10, <2>11
<1> QED BY <1>5, <1>6

Raised(s, c, d) == <<[code |-> c, session |-> d, note |-> 0]>> \o s

\* A diagnostic goes to the front of the innermost list.
LEMMA LevelsRaised ==
  ASSUME NEW s \in Seq(Entry), NEW d \in Nat \ {0}, Sorted(s, d), NEW c,
         c \in Codes, Raised(s, c, d) \in Seq(Entry), Sorted(Raised(s, c, d), d)
  PROVE  /\ \A n \in 1..(d - 1) :
              Unlabelled(LevelOf(Raised(s, c, d), n)) = Unlabelled(LevelOf(s, n))
         /\ Unlabelled(LevelOf(Raised(s, c, d), d)) =
              <<[code |-> c, note |-> 0]>> \o Unlabelled(LevelOf(s, d))
<1>0. PICK t, e : t = Raised(s, c, d) /\ e = [code |-> c, session |-> d, note |-> 0]
  OBVIOUS
<1>a. t \in Seq(Entry) /\ Sorted(t, d) /\ t = <<e>> \o s /\ e \in Entry
  BY <1>0 DEF Raised, Entry
<1>1. d \in Nat /\ d + 1 \in Nat /\ d + 1 > d
  OBVIOUS
<1>2. /\ DOMAIN s = 1..Len(s) /\ Len(t) = Len(s) + 1 /\ Len(s) \in Nat
      /\ t[1] = e /\ \A i \in 1..Len(s) : t[i + 1] = s[i]
  BY <1>a
<1>3. ASSUME NEW n \in 1..d PROVE CutOf(t, n) = CutOf(s, n) + 1
  <2>1. PICK k : k = CutOf(s, n)
    OBVIOUS
  <2>2. k \in 0..Len(s) /\ \A i \in 1..Len(s) : i <= k <=> s[i].session >= n
    <3>1. n \in Nat
      OBVIOUS
    <3> QED BY <1>1, <2>1, <3>1, CutSplits
  <2>3. k + 1 \in 0..Len(t)
    BY <1>2, <2>2
  <2>4. \A i \in 1..Len(t) : i <= k + 1 <=> t[i].session >= n
    <3> TAKE i \in 1..Len(t)
    <3>1. CASE i = 1
      <4>1. t[i].session = d
        BY <1>0, <1>2, <3>1
      <4> QED BY <2>2, <3>1, <4>1
    <3>2. CASE i # 1
      <4>1. i - 1 \in 1..Len(s) /\ (i - 1) + 1 = i
        BY <1>2, <3>2
      <4>2. t[i] = s[i - 1]
        BY <1>2, <4>1
      <4>3. i - 1 <= k <=> t[i].session >= n
        BY <2>2, <4>1, <4>2
      <4> QED BY <2>2, <4>1, <4>3
    <3> QED BY <3>1, <3>2
  <2>5. n \in Nat
    OBVIOUS
  <2>6. CutOf(t, n) = k + 1
    BY <1>a, <2>3, <2>4, <2>5, CutIs
  <2> QED BY <2>1, <2>6
<1>4. ASSUME NEW n \in 1..(d - 1) PROVE Unlabelled(LevelOf(t, n)) = Unlabelled(LevelOf(s, n))
  <2>1. n \in Nat /\ n \in 1..d /\ n + 1 \in 1..d
    OBVIOUS
  <2>2. PICK a, b : a = CutOf(s, n + 1) /\ b = CutOf(s, n)
    OBVIOUS
  <2>3. a \in 0..Len(s) /\ b \in 0..Len(s)
    BY <1>1, <2>1, <2>2, LevelIs
  <2>4. CutOf(t, n) = b + 1 /\ CutOf(t, n + 1) = a + 1 /\ (b + 1) - (a + 1) = b - a
    <3>1. CutOf(t, n) = b + 1
      BY <1>3, <2>1, <2>2
    <3>2. CutOf(t, n + 1) = a + 1
      BY <1>3, <2>1, <2>2
    <3>3. (b + 1) - (a + 1) = b - a
      BY <1>2, <2>3
    <3> QED BY <3>1, <3>2, <3>3
  <2>5. \A j \in 1..(b - a) : Body(t[(a + 1) + j]) = Body(s[a + j])
    <3> TAKE j \in 1..(b - a)
    <3>1. a + j \in 1..Len(s) /\ (a + j) + 1 = (a + 1) + j
      BY <1>2, <2>3
    <3> QED BY <1>2, <3>1
  <2>6. Places(t, n) = Places(s, n)
    BY <2>2, <2>4, <2>5 DEF Places
  <2>7. Unlabelled(LevelOf(t, n)) = Places(t, n)
    BY <1>1, <1>a, <2>1, LevelIs
  <2>8. Unlabelled(LevelOf(s, n)) = Places(s, n)
    BY <1>1, <2>1, LevelIs
  <2> QED BY <2>6, <2>7, <2>8
<1>5. Unlabelled(LevelOf(t, d)) = <<[code |-> c, note |-> 0]>> \o Unlabelled(LevelOf(s, d))
  <2>1. CutOf(s, d + 1) = 0 /\ CutOf(t, d + 1) = 0
    BY <1>1, <1>a, CutBeyond
  <2>2. PICK k : k = CutOf(s, d)
    OBVIOUS
  <2>3. k \in 0..Len(s) /\ CutOf(t, d) = k + 1 /\ k \in Nat
    <3>1. d \in 1..d
      OBVIOUS
    <3>2. k \in 0..Len(s)
      BY <1>1, <2>2, CutSplits
    <3> QED BY <1>2, <1>3, <2>2, <3>1, <3>2
  <2>4. PICK x, y : x = Places(s, d) /\ y = Places(t, d)
    OBVIOUS
  <2>5. /\ x = [j \in 1..k |-> Body(s[j])] /\ y = [j \in 1..(k + 1) |-> Body(t[j])]
    <3>1. k - 0 = k /\ (k + 1) - 0 = k + 1 /\ \A j \in 1..(k + 1) : 0 + j = j
      BY <2>3
    <3>2. \A j \in 1..k : 0 + j = j
      BY <2>3
    <3> QED BY <2>1, <2>2, <2>3, <2>4, <3>1, <3>2 DEF Places
  <2>6. x \in Seq(Plain) /\ Unlabelled(LevelOf(s, d)) = x
    BY <1>1, <2>4, LevelIs
  <2>7. y \in Seq(Plain) /\ Unlabelled(LevelOf(t, d)) = y
    BY <1>1, <1>a, <2>4, LevelIs
  <2>8. PICK f : f = [code |-> c, note |-> 0]
    OBVIOUS
  <2>9. f = Body(e) /\ f \in Plain
    BY <1>0, <2>8 DEF Body, Plain
  <2>10. Len(x) = k /\ Len(y) = k + 1
    BY <2>3, <2>5
  <2>11. y[1] = f /\ \A j \in 1..k : y[j + 1] = x[j]
    <3>1. y[1] = f
      BY <1>2, <2>3, <2>5, <2>9
    <3>2. ASSUME NEW j \in 1..k PROVE y[j + 1] = x[j]
      <4>1. j \in 1..Len(s) /\ j + 1 \in 1..(k + 1)
        BY <1>2, <2>3
      <4> QED BY <1>2, <2>5, <4>1
    <3> QED BY <3>1, <3>2
  <2>12. y = <<f>> \o x
    <3>1. PICK w : w = <<f>> \o x
      OBVIOUS
    <3>2. w \in Seq(Plain) /\ Len(w) = k + 1 /\ w[1] = f /\ \A j \in 1..k : w[j + 1] = x[j]
      BY <2>3, <2>6, <2>9, <2>10, <3>1
    <3>3. \A i \in 1..(k + 1) : w[i] = y[i]
      <4> TAKE i \in 1..(k + 1)
      <4>1. CASE i = 1
        BY <2>11, <3>2, <4>1
      <4>2. CASE i # 1
        <5>1. i - 1 \in 1..k /\ (i - 1) + 1 = i
          BY <2>3, <4>2
        <5> QED BY <2>11, <3>2, <5>1
      <4> QED BY <4>1, <4>2
    <3>4. w = y
      BY <2>3, <2>7, <2>10, <3>2, <3>3
    <3> QED BY <3>1, <3>4
  <2> QED BY <2>6, <2>7, <2>8, <2>12
<1> QED BY <1>0, <1>4, <1>5

\* The lists of the first d - 1 sites when k entries are gone, and what they
\* are if x is handed up to the last of them.
Rest(s, k, d) == Levels(SubSeq(s, k + 1, Len(s)), d - 1)
HandedUp(l, x, d) == [SubSeq(l, 1, d - 1) EXCEPT ![d - 1] = x \o @]

\* Handing up: s is the list when the replay starts, and only its innermost
\* level may differ from the lists l of the sites.
LEMMA ReplayHands ==
  ASSUME NEW s \in Seq(Entry), NEW d \in Nat, d > 1, Sorted(s, d),
         NEW k, IsHeadRun(ReplaySPASMErrorSession(s, d), k, d),
         k \in 0..Len(ReplaySPASMErrorSession(s, d)),
         NEW l \in Seq(Seq(Plain)), Len(l) = d,
         \A n \in 1..(d - 1) : l[n] = Unlabelled(LevelOf(s, n))
  PROVE  Rest(ReplaySPASMErrorSession(s, d), k, d) = HandedUp(l, Unlabelled(LevelOf(s, d)), d)
<1>0. PICK r : r = ReplaySPASMErrorSession(s, d)
  OBVIOUS
<1> USE DEF Rest, HandedUp
<1>1. r \in Seq(Entry) /\ Sorted(r, d) /\ d \in Nat \ {0}
  BY <1>0, ReplaySorted
<1>2. PICK m, o : m = Levels(r, d) /\ o = Unlabelled(LevelOf(s, d))
  OBVIOUS
<1>3. m \in Seq(Seq(Plain)) /\ Len(m) = d /\ \A n \in 1..d : m[n] = Unlabelled(LevelOf(r, n))
  BY <1>1, <1>2, LevelsTyped
<1>4. Levels(SubSeq(r, k + 1, Len(r)), d - 1) = SubSeq(m, 1, d - 1)
  BY <1>0, <1>1, <1>2, EndDrops
<1>5. /\ \A n \in 1..(d - 2) : Unlabelled(LevelOf(r, n)) = Unlabelled(LevelOf(s, n))
      /\ Unlabelled(LevelOf(r, d - 1)) = o \o Unlabelled(LevelOf(s, d - 1))
  <2>1. /\ \A n \in 1..(d - 2) :
             Unlabelled(LevelOf(ReplaySPASMErrorSession(s, d), n)) = Unlabelled(LevelOf(s, n))
        /\ Unlabelled(LevelOf(ReplaySPASMErrorSession(s, d), d - 1)) =
             Unlabelled(LevelOf(s, d)) \o Unlabelled(LevelOf(s, d - 1))
    BY LevelsReplayed
  <2> QED BY <1>0, <1>2, <2>1
<1>6. \A n \in 1..(d - 1) : m[n] = IF n = d - 1 THEN o \o l[n] ELSE l[n]
  <2> TAKE n \in 1..(d - 1)
  <2>1. n \in 1..d /\ (n # d - 1 => n \in 1..(d - 2))
    OBVIOUS
  <2> QED BY <1>3, <1>5, <2>1
<1>7. PICK b, c : b = SubSeq(m, 1, d - 1) /\ c = SubSeq(l, 1, d - 1)
  OBVIOUS
<1>8. /\ DOMAIN b = 1..(d - 1) /\ DOMAIN c = 1..(d - 1) /\ b = [n \in 1..(d - 1) |-> b[n]]
      /\ \A n \in 1..(d - 1) : b[n] = m[n] /\ c[n] = l[n]
  BY SMTT(20), <1>3, <1>7
<1>9. b = [c EXCEPT ![d - 1] = o \o @]
  <2>1. PICK e : e = [c EXCEPT ![d - 1] = o \o @]
    OBVIOUS
  <2>2. e = [n \in 1..(d - 1) |-> e[n]]
    BY <1>8, <2>1
  <2>3. \A n \in 1..(d - 1) : e[n] = IF n = d - 1 THEN o \o c[n] ELSE c[n]
    BY <1>8, <2>1
  <2>4. \A n \in 1..(d - 1) : e[n] = b[n]
    <3> TAKE n \in 1..(d - 1)
    <3>1. b[n] = m[n] /\ c[n] = l[n]
      BY <1>8
    <3>2. m[n] = IF n = d - 1 THEN o \o l[n] ELSE l[n]
      BY <1>6
    <3>3. e[n] = IF n = d - 1 THEN o \o c[n] ELSE c[n]
      BY <2>3
    <3> QED BY <3>1, <3>2, <3>3, Zenon
  <2> QED BY <1>8, <2>1, <2>2, <2>4
<1> QED BY <1>0, <1>2, <1>4, <1>7, <1>9

----------------------------------------------------------------------------
(***************************************************************************)
(* The steps of ErrorStack.                                                *)
(***************************************************************************)
\* The lists of the sites.
LEMMA ListsAre ==
  /\ ListsOfSites = Levels(errs, session)
  /\ ListsOfSites' = Levels(errs', session')
BY DEF ListsOfSites, Levels, Level, Cut, LevelOf, CutOf

\* What the sessions are before a step.
LEMMA Before ==
  ASSUME IInv
  PROVE  /\ errs \in Seq(Entry) /\ session = Depth /\ Depth \in Nat /\ Sorted(errs, session)
         /\ ListsOfSites \in Seq(Seq(Plain)) /\ Len(ListsOfSites) = session
         /\ \A n \in 1..session : ListsOfSites[n] = Unlabelled(LevelOf(errs, n))
         /\ Depth > 0 => Top.id = session
<1>1. errs \in Seq(Entry) /\ session = Depth /\ Depth \in Nat /\ Sorted(errs, session)
  BY Stack DEF ListSorted
<1>2. Depth > 0 => Top.id = session
  BY Stack
<1>3. session \in Nat
  BY <1>1
<1>4. /\ Levels(errs, session) \in Seq(Seq(Plain)) /\ Len(Levels(errs, session)) = session
      /\ \A n \in 1..session : Levels(errs, session)[n] = Unlabelled(LevelOf(errs, n))
  BY <1>1, <1>3, LevelsTyped
<1> QED BY <1>1, <1>2, <1>4, ListsAre

\* The part of the mapping that only EndPhase changes.
Unshown == ShownToUser' = ShownToUser /\ (phase' = "exited") = (phase = "exited")

LEMMA Opens ==
  ASSUME IInv, phase # "exited", session' = session + 1, errs' = errs, Unshown
  PROVE  Abstract!Open
<1>1. PICK d : d = session
  OBVIOUS
<1>2. d \in Nat /\ Sorted(errs, d) /\ errs \in Seq(Entry)
  BY <1>1, Before
<1>3. Levels(errs, d + 1) = Append(Levels(errs, d), <<>>)
  BY <1>2, LevelsEntered
<1>4. ListsOfSites' = Append(ListsOfSites, <<>>)
  BY <1>1, <1>3, ListsAre
<1> QED BY <1>4 DEF Abstract!Open, Unshown

LEMMA Complains ==
  ASSUME IInv, phase # "exited", Depth > 0, NEW c \in Codes,
         errs' = SetLastSPASMProblem(c), session' = session, Unshown
  PROVE  Abstract!Complain(c)
<1>1. PICK d, s, t : d = session /\ s = errs /\ t = SetLastSPASMProblem(c)
  OBVIOUS
<1>2. d \in Nat \ {0} /\ s \in Seq(Entry) /\ Sorted(s, d)
  BY <1>1, Before
<1>3. t \in Seq(Entry) /\ Sorted(t, d)
  BY <1>1, <1>2, RaiseSorted DEF ListSorted
<1>5. t = Raised(s, c, d)
  BY <1>1 DEF Raised, SetLastSPASMProblem
<1>6. /\ \A n \in 1..(d - 1) : Unlabelled(LevelOf(t, n)) = Unlabelled(LevelOf(s, n))
      /\ Unlabelled(LevelOf(t, d)) = <<[code |-> c, note |-> 0]>> \o Unlabelled(LevelOf(s, d))
  BY <1>2, <1>3, <1>5, LevelsRaised
<1>7. PICK l, m : l = Levels(s, d) /\ m = Levels(t, d)
  OBVIOUS
<1>8. l \in Seq(Seq(Plain)) /\ Len(l) = d /\ \A n \in 1..d : l[n] = Unlabelled(LevelOf(s, n))
  BY <1>2, <1>7, LevelsTyped
<1>9. m \in Seq(Seq(Plain)) /\ Len(m) = d /\ \A n \in 1..d : m[n] = Unlabelled(LevelOf(t, n))
  BY <1>2, <1>3, <1>7, LevelsTyped
<1>10. PICK w : w = [l EXCEPT ![d] = <<[code |-> c, note |-> 0]>> \o @]
  OBVIOUS
<1>11. DOMAIN l = 1..d /\ w = [n \in 1..d |-> w[n]] /\ m = [n \in 1..d |-> m[n]]
  <2>1. DOMAIN l = 1..d
    BY <1>8
  <2>2. DOMAIN m = 1..d /\ m = [n \in DOMAIN m |-> m[n]]
    BY <1>9
  <2>3. DOMAIN w = DOMAIN l /\ w = [n \in DOMAIN w |-> w[n]]
    BY <1>10
  <2> QED BY <2>1, <2>2, <2>3
<1>12. \A n \in 1..d : w[n] = IF n = d THEN <<[code |-> c, note |-> 0]>> \o l[n] ELSE l[n]
  BY <1>8, <1>10, <1>11
<1>13. \A n \in 1..d : w[n] = m[n]
  <2> TAKE n \in 1..d
  <2>1. n # d => n \in 1..(d - 1)
    BY <1>2
  <2> QED BY <1>6, <1>8, <1>9, <1>12, <2>1
<1>14. m = w
  BY <1>11, <1>13
<1>15. ListsOfSites = l /\ ListsOfSites' = m
  BY <1>1, <1>7, ListsAre
<1>16. Abstract!Height = d /\ d > 0
  BY <1>2, <1>8, <1>15 DEF Abstract!Height
<1> QED BY <1>10, <1>14, <1>15, <1>16 DEF Abstract!Complain, Abstract!New, Unshown

LEMMA HandsUp ==
  ASSUME IInv, phase # "exited", Depth > 1, NEW s \in Seq(Entry), Sorted(s, session),
         \A n \in 1..(session - 1) : Unlabelled(LevelOf(s, n)) = Unlabelled(LevelOf(errs, n)),
         Unlabelled(LevelOf(s, session)) \in Abstract!Final,
         NEW fatalOnly, ReplayAndEnd(s, Top.id, fatalOnly, phase), printed \in Seq(Entry)
  PROVE  Abstract!HandUp
<1>1. PICK d, l : d = session /\ l = ListsOfSites
  OBVIOUS
<1>2. /\ d \in Nat /\ d > 1 /\ Top.id = d
      /\ l \in Seq(Seq(Plain)) /\ Len(l) = d /\ \A n \in 1..d : l[n] = Unlabelled(LevelOf(errs, n))
  BY <1>1, Before
<1>3. PICK r : r = ReplaySPASMErrorSession(s, d)
  OBVIOUS
<1>4. EndSPASMErrorSession(r, d, phase) /\ printed' = printed \o Reportable(s, d, fatalOnly)
  BY <1>2, <1>3 DEF ReplayAndEnd
<1>5. PICK k \in 0..Len(r) : IsHeadRun(r, k, d) /\ errs' = SubSeq(r, k + 1, Len(r))
  BY <1>4 DEF EndSPASMErrorSession, CleanupSPASMErrorSession
<1>6. session' = d - 1 /\ phase' = phase
  BY <1>1, <1>2, <1>4 DEF EndSPASMErrorSession, CleanupSPASMErrorSession
<1>7. printed' = printed
  BY <1>2, <1>4, ReportableHolds
<1>8. \A n \in 1..(d - 1) : l[n] = Unlabelled(LevelOf(s, n))
  BY <1>1, <1>2
<1>9. Levels(errs', d - 1) = [SubSeq(l, 1, d - 1) EXCEPT ![d - 1] = Unlabelled(LevelOf(s, d)) \o @]
  <2>1. Sorted(s, d) /\ d \in Nat /\ d > 1 /\ l \in Seq(Seq(Plain)) /\ Len(l) = d
    BY <1>1, <1>2
  <2>2. Rest(r, k, d) = HandedUp(l, Unlabelled(LevelOf(s, d)), d)
    BY <1>3, <1>5, <1>8, <2>1, ReplayHands
  <2> QED BY <1>5, <2>2 DEF Rest, HandedUp
<1>10. ListsOfSites' = [SubSeq(l, 1, d - 1) EXCEPT ![d - 1] = Unlabelled(LevelOf(s, d)) \o @]
  BY <1>6, <1>9, ListsAre
<1>11. Abstract!Height = d /\ Abstract!Below = SubSeq(l, 1, d - 1)
  BY <1>1, <1>2 DEF Abstract!Height, Abstract!Below
<1>12. ShownToUser' = ShownToUser
  BY <1>7 DEF ShownToUser, Unlabelled
<1>13. \E x \in Abstract!Final :
         ListsOfSites' = [Abstract!Below EXCEPT ![Abstract!Height - 1] = x \o @]
  BY <1>1, <1>10, <1>11
<1> QED BY <1>2, <1>6, <1>11, <1>12, <1>13 DEF Abstract!HandUp

LEMMA Discards ==
  ASSUME IInv, phase # "exited", Depth > 1, EndSPASMErrorSession(errs, Top.id, phase),
         printed' = printed
  PROVE  Abstract!Discard
<1>1. PICK d, l : d = session /\ l = ListsOfSites
  OBVIOUS
<1>2. /\ d \in Nat \ {0} /\ d > 1 /\ Top.id = d /\ errs \in Seq(Entry) /\ Sorted(errs, d)
      /\ l \in Seq(Seq(Plain)) /\ Len(l) = d
  BY <1>1, Before
<1>3. PICK k \in 0..Len(errs) : IsHeadRun(errs, k, d) /\ errs' = SubSeq(errs, k + 1, Len(errs))
  BY <1>2 DEF EndSPASMErrorSession, CleanupSPASMErrorSession
<1>4. session' = d - 1 /\ phase' = phase
  BY <1>1, <1>2 DEF EndSPASMErrorSession, CleanupSPASMErrorSession
<1>5. Levels(errs', d - 1) = SubSeq(Levels(errs, d), 1, d - 1)
  BY <1>2, <1>3, EndDrops
<1>6. ListsOfSites' = SubSeq(l, 1, d - 1)
  BY <1>1, <1>4, <1>5, ListsAre
<1>7. Abstract!Height = d /\ Abstract!Below = SubSeq(l, 1, d - 1)
  BY <1>1, <1>2 DEF Abstract!Height, Abstract!Below
<1>8. ShownToUser' = ShownToUser
  BY DEF ShownToUser, Unlabelled
<1> QED BY <1>2, <1>4, <1>6, <1>7, <1>8 DEF Abstract!Discard

----------------------------------------------------------------------------
(***************************************************************************)
(* The end of a top-level session.                                         *)
(***************************************************************************)
\* A list of entries without their sessions.
LEMMA UnlabelledIs ==
  ASSUME NEW s \in Seq(Entry)
  PROVE  /\ Unlabelled(s) \in Seq(Plain) /\ Len(Unlabelled(s)) = Len(s) /\ DOMAIN s = 1..Len(s)
         /\ Len(s) \in Nat /\ Unlabelled(s) = [i \in 1..Len(s) |-> Body(s[i])]
<1>1. DOMAIN s = 1..Len(s) /\ Len(s) \in Nat /\ \A i \in 1..Len(s) : s[i] \in Entry
  OBVIOUS
<1>2. PICK u : u = Unlabelled(s)
  OBVIOUS
<1>3. u = [i \in 1..Len(s) |-> Body(s[i])]
  BY <1>1, <1>2 DEF Unlabelled, Body
<1>4. \A i \in 1..Len(s) : u[i] \in Plain
  BY <1>1, <1>3 DEF Plain, Body, Entry
<1>5. u \in Seq(Plain) /\ Len(u) = Len(s)
  <2>1. u = [i \in 1..Len(s) |-> u[i]]
    BY <1>3
  <2> QED BY <1>1, <1>4, <2>1
<1> QED BY <1>1, <1>2, <1>3, <1>5

LEMMA UnlabelledAppend ==
  ASSUME NEW s \in Seq(Entry), NEW e \in Entry
  PROVE  Unlabelled(Append(s, e)) = Append(Unlabelled(s), Body(e))
<1>1. PICK t, u : t = Append(s, e) /\ u = Append(Unlabelled(s), Body(e))
  OBVIOUS
<1>2. /\ t \in Seq(Entry) /\ Len(t) = Len(s) + 1 /\ t[Len(s) + 1] = e /\ Len(s) \in Nat
      /\ \A i \in 1..Len(s) : t[i] = s[i]
  BY <1>1
<1>3. Unlabelled(t) = [i \in 1..(Len(s) + 1) |-> Body(t[i])]
  BY <1>2, UnlabelledIs
<1>4. PICK v : v = Unlabelled(s)
  OBVIOUS
<1>5. /\ v \in Seq(Plain) /\ Len(v) = Len(s) /\ \A i \in 1..Len(s) : v[i] = Body(s[i])
  <2>1. v \in Seq(Plain) /\ Len(v) = Len(s) /\ v = [i \in 1..Len(s) |-> Body(s[i])]
    BY <1>4, UnlabelledIs
  <2> QED BY <2>1
<1>6. Body(e) \in Plain
  BY DEF Body, Entry, Plain
<1>7. u = [i \in 1..(Len(s) + 1) |-> Body(t[i])]
  <2>1. /\ u \in Seq(Plain) /\ Len(u) = Len(s) + 1 /\ u[Len(s) + 1] = Body(e)
        /\ \A i \in 1..Len(s) : u[i] = v[i]
    BY <1>1, <1>2, <1>4, <1>5, <1>6
  <2>2. u = [i \in 1..(Len(s) + 1) |-> u[i]]
    BY <1>2, <2>1
  <2>3. \A i \in 1..(Len(s) + 1) : u[i] = Body(t[i])
    BY <1>2, <1>5, <2>1
  <2> QED BY <2>2, <2>3
<1> QED BY <1>1, <1>3, <1>7

LEMMA UnlabelledConcat ==
  ASSUME NEW s \in Seq(Entry), NEW t \in Seq(Entry)
  PROVE  Unlabelled(s \o t) = Unlabelled(s) \o Unlabelled(t)
<1>1. PICK w, a, b : w = s \o t /\ a = Unlabelled(s) /\ b = Unlabelled(t)
  OBVIOUS
<1>2. /\ Len(s) \in Nat /\ Len(t) \in Nat
      /\ a \in Seq(Plain) /\ Len(a) = Len(s) /\ a = [i \in 1..Len(s) |-> Body(s[i])]
      /\ b \in Seq(Plain) /\ Len(b) = Len(t) /\ b = [i \in 1..Len(t) |-> Body(t[i])]
  BY <1>1, UnlabelledIs
<1>3. w \in Seq(Entry) /\ Len(w) = Len(s) + Len(t)
  BY <1>1
<1>4. Unlabelled(w) = [i \in 1..(Len(s) + Len(t)) |-> Body(w[i])]
  BY <1>3, UnlabelledIs
<1>5. PICK c : c = a \o b
  OBVIOUS
<1>6. c \in Seq(Plain) /\ Len(c) = Len(s) + Len(t)
  BY <1>2, <1>5
<1>7. \A i \in 1..(Len(s) + Len(t)) : c[i] = Body(w[i])
  <2> TAKE i \in 1..(Len(s) + Len(t))
  <2>1. CASE i <= Len(s)
    <3>1. i \in 1..Len(s)
      BY <1>2, <2>1
    <3>2. w[i] = s[i]
      BY <1>1, <3>1
    <3>3. c[i] = a[i]
      BY <1>2, <1>5, <3>1
    <3> QED BY <1>2, <3>1, <3>2, <3>3
  <2>2. CASE i > Len(s)
    <3>1. i - Len(s) \in 1..Len(t) /\ i \in 1..(Len(s) + Len(t))
      BY <1>2, <2>2
    <3>2. w[i] = t[i - Len(s)]
      BY <1>1, <2>2, <3>1
    <3>3. c[i] = b[i - Len(s)]
      BY <1>2, <1>5, <2>2, <3>1
    <3> QED BY <1>2, <3>1, <3>2, <3>3
  <2> QED BY <1>2, <2>1, <2>2
<1>8. c = [i \in 1..(Len(s) + Len(t)) |-> c[i]]
  BY <1>2, <1>6
<1> QED BY <1>1, <1>4, <1>5, <1>7, <1>8

\* The only list of the outermost site is the whole list.
LEMMA OutermostLevel ==
  ASSUME NEW s \in Seq(Entry), Sorted(s, 1)
  PROVE  Unlabelled(LevelOf(s, 1)) = Unlabelled(s)
<1>1. CutOf(s, 2) = 0
  BY CutBeyond
<1>2. CutOf(s, 1) = Len(s)
  <2>1. Len(s) \in 0..Len(s) /\ \A i \in 1..Len(s) : i <= Len(s) <=> s[i].session >= 1
    <3>1. DOMAIN s = 1..Len(s)
      OBVIOUS
    <3> QED BY <3>1 DEF Sorted
  <2> QED BY <2>1, CutIs
<1>3. LevelOf(s, 1) = s
  <2>1. LevelOf(s, 1) = SubSeq(s, 1, Len(s))
    BY <1>1, <1>2 DEF LevelOf
  <2> QED BY <2>1
<1> QED BY <1>3

\* Two filters that select alike hold the same entries.
LEMMA FiltersAlike ==
  ASSUME NEW N, NEW B, NEW C, NEW x, NEW y, NEW f, NEW g,
         IsFilter(f, N, Entry, B, x), IsFilter(g, N, Plain, C, y),
         \A k \in 1..N : (B[k] <=> C[k]) /\ y[k] = Body(x[k]), NEW k \in 0..N
  PROVE  g[k] = Unlabelled(f[k])
<1>0. N \in Nat /\ x \in [1..N -> Entry]
  BY DEF IsFilter
<1> DEFINE T == {j \in 0..N : g[j] = Unlabelled(f[j])}
<1>1. 0 \in T
  <2>1. f[0] = <<>> /\ g[0] = <<>> /\ 0 \in 0..N
    BY <1>0 DEF IsFilter
  <2>2. Unlabelled(<<>>) = <<>>
    BY DEF Unlabelled
  <2> QED BY <2>1, <2>2
<1>2. ASSUME NEW m \in 0..(N - 1), m \in T PROVE m + 1 \in T
  <2>1. m + 1 \in 0..N /\ m + 1 # 0 /\ (m + 1) - 1 = m /\ m + 1 \in 1..N /\ m \in 0..N
    BY <1>0
  <2>2. f[m + 1] = IF B[m + 1] THEN Append(f[m], x[m + 1]) ELSE f[m]
    BY <2>1 DEF IsFilter
  <2>3. g[m + 1] = IF C[m + 1] THEN Append(g[m], y[m + 1]) ELSE g[m]
    BY <2>1 DEF IsFilter
  <2>4. g[m] = Unlabelled(f[m])
    BY <1>2
  <2>5. f[m] \in Seq(Entry) /\ x[m + 1] \in Entry
    <3>1. Collects(f[m], m, Entry, B, x)
      BY <2>1, FilterHolds
    <3> QED BY <1>0, <2>1, <3>1 DEF Collects
  <2>6. Unlabelled(Append(f[m], x[m + 1])) = Append(Unlabelled(f[m]), Body(x[m + 1]))
    BY <2>5, UnlabelledAppend
  <2>7. (B[m + 1] <=> C[m + 1]) /\ y[m + 1] = Body(x[m + 1])
    BY <2>1
  <2>8. g[m + 1] = Unlabelled(f[m + 1])
    BY <2>2, <2>3, <2>4, <2>6, <2>7, Zenon
  <2> QED BY <2>1, <2>8
<1>3. 0..N \subseteq T
  <2> HIDE DEF T
  <2> QED BY <1>0, <1>1, <1>2, BoundedInduction
<1> QED BY <1>3

FatalAt(l) == [k \in 1..Len(l) |-> Abstract!IsFatal(l[Len(l) + 1 - k])]

LEMMA FatalsFilter ==
  ASSUME NEW l \in Seq(Plain)
  PROVE  \E g : /\ IsFilter(g, Len(l), Plain, FatalAt(l), FromOldest(l))
                /\ Abstract!Fatals(l) = g[Len(l)]
<1> DEFINE Unrolled(g) == [k \in 0..Len(l) |->
             IF k = 0 THEN <<>>
             ELSE IF Abstract!IsFatal(l[Len(l) + 1 - k]) THEN Append(g[k - 1], l[Len(l) + 1 - k])
             ELSE g[k - 1]]
           Oldest == CHOOSE g : g = [k \in 0..Len(l) |->
             IF k = 0 THEN <<>>
             ELSE IF Abstract!IsFatal(l[Len(l) + 1 - k]) THEN Append(g[k - 1], l[Len(l) + 1 - k])
             ELSE g[k - 1]]
           B == FatalAt(l)
           x == FromOldest(l)
<1>1. x \in [1..Len(l) -> Plain] /\ Len(l) \in Nat
  BY DEF FromOldest
<1>2. \A k \in 1..Len(l) : /\ x[k] = l[Len(l) + 1 - k]
                           /\ B[k] <=> Abstract!IsFatal(l[Len(l) + 1 - k])
  BY DEF FromOldest, FatalAt
<1>3. PICK f : IsFilter(f, Len(l), Plain, B, x)
  <2> HIDE DEF B, x
  <2> QED BY <1>1, FilterExists
<1>4. \A g : IsFilter(g, Len(l), Plain, B, x) <=> g = Unrolled(g)
  <2> TAKE g
  <2> DEFINE Left == [k \in 0..Len(l) |-> IF k = 0 THEN <<>> ELSE IF B[k] THEN Append(g[k - 1], x[k]) ELSE g[k - 1]]
  <2>1. \A k \in 0..Len(l) : Left[k] = Unrolled(g)[k]
    <3> HIDE DEF B, x
    <3>1. ASSUME NEW k \in 1..Len(l) PROVE Left[k] = Unrolled(g)[k]
      BY <1>1, <1>2
    <3>2. Left[0] = Unrolled(g)[0]
      BY <1>1
    <3> HIDE DEF Left, Unrolled
    <3> QED BY <1>1, <3>1, <3>2
  <2>2. Left = Unrolled(g)
    <3>1. Left = [k \in 0..Len(l) |-> Left[k]] /\ Unrolled(g) = [k \in 0..Len(l) |-> Unrolled(g)[k]]
      OBVIOUS
    <3> HIDE DEF Left, Unrolled
    <3> QED BY <2>1, <3>1
  <2> QED BY <1>1, <2>2 DEF IsFilter
<1>5. Oldest = Unrolled(Oldest)
  <2>1. \E g : g = Unrolled(g)
    BY <1>3, <1>4
  <2> QED BY <2>1
<1>6. IsFilter(Oldest, Len(l), Plain, B, x)
  BY <1>4, <1>5
<1>7. Abstract!Fatals(l) = Oldest[Len(l)]
  BY DEF Abstract!Fatals
<1> HIDE DEF Oldest, B, x
<1> QED BY <1>6, <1>7 DEF B, x

\* What the driver prints of the outermost session: all of it, oldest first,
\* or its fatal entries.
LEMMA ReportableShows ==
  ASSUME NEW s \in Seq(Entry), Sorted(s, 1)
  PROVE  /\ Unlabelled(Reportable(s, 1, TRUE)) = Abstract!Fatals(Unlabelled(s))
         /\ Unlabelled(Reportable(s, 1, FALSE)) = FromOldest(Unlabelled(s))
<1>1. PICK N, l : N = Len(s) /\ l = Unlabelled(s)
  OBVIOUS
<1>2. /\ l \in Seq(Plain) /\ Len(l) = N /\ l = [i \in 1..N |-> Body(s[i])] /\ N \in Nat
      /\ DOMAIN s = 1..N
  BY <1>1, UnlabelledIs
<1>3. PICK x, y : x = FromOldest(s) /\ y = FromOldest(l)
  OBVIOUS
<1>4. \A k \in 1..N : /\ N + 1 - k \in 1..N /\ x[k] = s[N + 1 - k] /\ y[k] = Body(s[N + 1 - k])
                      /\ s[N + 1 - k].session = 1 /\ s[N + 1 - k] \in Entry
  <2> TAKE k \in 1..N
  <2>1. N + 1 - k \in 1..N
    BY <1>2
  <2>2. x[k] = s[N + 1 - k] /\ y[k] = l[N + 1 - k]
    BY <1>1, <1>2, <1>3 DEF FromOldest
  <2>3. s[N + 1 - k].session \in 1..1 /\ s[N + 1 - k] \in Entry
    BY <1>2, <2>1 DEF Sorted
  <2> QED BY <1>2, <2>1, <2>2, <2>3
<1>5. Unlabelled(Reportable(s, 1, TRUE)) = Abstract!Fatals(l)
  <2>1. PICK B, C : B = ShownIn(s, 1, TRUE) /\ C = FatalAt(l)
    OBVIOUS
  <2>2. PICK f : IsFilter(f, N, Entry, B, x) /\ Reportable(s, 1, TRUE) = f[N]
    BY <1>1, <1>3, <2>1, ReportableFilters
  <2>3. PICK g : IsFilter(g, N, Plain, C, y) /\ Abstract!Fatals(l) = g[N]
    BY <1>2, <1>3, <2>1, FatalsFilter
  <2>4. \A k \in 1..N : (B[k] <=> C[k]) /\ y[k] = Body(x[k])
    <3> TAKE k \in 1..N
    <3>1. B[k] <=> IsSPASMErrorFatal(s[N + 1 - k].code)
      BY <1>1, <1>4, <2>1 DEF ShownIn
    <3>2. C[k] <=> Abstract!IsFatal(l[N + 1 - k])
      BY <1>2, <2>1 DEF FatalAt
    <3>3. l[N + 1 - k] = Body(s[N + 1 - k])
      BY <1>2, <1>4
    <3>4. Abstract!IsFatal(l[N + 1 - k]) <=> IsSPASMErrorFatal(s[N + 1 - k].code)
      BY <3>3 DEF Body, Abstract!IsFatal, IsSPASMErrorFatal
    <3> QED BY <1>4, <3>1, <3>2, <3>4
  <2>5. N \in 0..N
    BY <1>2
  <2>6. g[N] = Unlabelled(f[N])
    BY <2>2, <2>3, <2>4, <2>5, FiltersAlike
  <2> QED BY <2>2, <2>3, <2>6
<1>6. Unlabelled(Reportable(s, 1, FALSE)) = y
  <2>1. PICK B : B = ShownIn(s, 1, FALSE)
    OBVIOUS
  <2>2. PICK f : IsFilter(f, N, Entry, B, x) /\ Reportable(s, 1, FALSE) = f[N]
    BY <1>1, <1>3, <2>1, ReportableFilters
  <2>3. \A k \in 1..N : B[k]
    BY <1>1, <1>4, <2>1 DEF ShownIn
  <2>4. Collects(f[N], N, Entry, B, x)
    <3>1. N \in 0..N
      BY <1>2
    <3> QED BY <2>2, <3>1, FilterHolds
  <2>5. PICK r : r = f[N]
    OBVIOUS
  <2>6. r \in Seq(Entry) /\ Len(r) = N /\ \A j \in 1..N : r[j] = x[j]
    BY <2>3, <2>4, <2>5 DEF Collects
  <2>7. Unlabelled(r) = [i \in 1..N |-> Body(r[i])]
    BY <2>6, UnlabelledIs
  <2>8. y = [i \in 1..N |-> y[i]]
    BY <1>2, <1>3 DEF FromOldest
  <2>9. \A i \in 1..N : y[i] = Body(r[i])
    <3> TAKE i \in 1..N
    <3>1. x[i] = s[N + 1 - i] /\ y[i] = Body(s[N + 1 - i])
      BY <1>4
    <3>2. r[i] = x[i]
      BY <2>6
    <3> QED BY <3>1, <3>2
  <2> QED BY <2>2, <2>5, <2>7, <2>8, <2>9
<1> QED BY <1>1, <1>3, <1>5, <1>6

\* The end of the only session that is open.
LEMMA Concludes ==
  ASSUME IInv, phase # "exited", Depth = 1, NEW fatalOnly \in BOOLEAN,
         NEW next, next # "exited", ReplayAndEnd(errs, Top.id, fatalOnly, next),
         printed \in Seq(Entry)
  PROVE  Abstract!Conclude
<1>1. PICK s, l : s = errs /\ l = Unlabelled(errs)
  OBVIOUS
<1>2. /\ s \in Seq(Entry) /\ session = 1 /\ Sorted(s, 1) /\ Top.id = 1
      /\ ListsOfSites \in Seq(Seq(Plain)) /\ Len(ListsOfSites) = 1
      /\ ListsOfSites[1] = Unlabelled(LevelOf(s, 1))
  BY <1>1, Before
<1>3. ListsOfSites[1] = l /\ Abstract!Height = 1
  BY <1>1, <1>2, OutermostLevel DEF Abstract!Height
<1>4. ReplaySPASMErrorSession(s, 1) = s
  <2>1. s = [i \in DOMAIN s |-> s[i]]
    BY <1>2
  <2> QED BY <2>1 DEF ReplaySPASMErrorSession
<1>5. EndSPASMErrorSession(s, 1, next) /\ printed' = printed \o Reportable(s, 1, fatalOnly)
  BY <1>1, <1>2, <1>4 DEF ReplayAndEnd
<1>6. ListsOfSites' = <<>>
  <2>1. session' = 0
    BY <1>2, <1>5 DEF EndSPASMErrorSession, CleanupSPASMErrorSession
  <2> QED BY <2>1, ListsAre DEF Levels
<1>7. (phase' = "exited") = \E i \in DOMAIN l : Abstract!IsFatal(l[i])
  <2>1. phase' = "exited" <=> FatalIn(s, 1)
    BY <1>2, <1>5, SessionFatal DEF EndSPASMErrorSession
  <2>2. l = [i \in 1..Len(s) |-> Body(s[i])] /\ DOMAIN s = 1..Len(s)
    BY <1>1, <1>2, UnlabelledIs
  <2>3. \A i \in 1..Len(s) : /\ Abstract!IsFatal(l[i]) <=> IsSPASMErrorFatal(s[i].code)
                             /\ s[i].session = 1
    BY <1>2, <2>2 DEF Body, Abstract!IsFatal, IsSPASMErrorFatal, Sorted
  <2>4. FatalIn(s, 1) <=> \E i \in DOMAIN l : Abstract!IsFatal(l[i])
    BY <2>2, <2>3 DEF FatalIn
  <2> QED BY <2>1, <2>4
<1>8. ShownToUser' = ShownToUser \o Unlabelled(Reportable(s, 1, fatalOnly))
  <2>1. Reportable(s, 1, fatalOnly) \in Seq(Entry)
    BY <1>2, ReportableHolds
  <2>2. ShownToUser' = Unlabelled(printed')
    BY DEF ShownToUser, Unlabelled
  <2> QED BY <1>5, <2>1, <2>2, UnlabelledConcat DEF ShownToUser
<1>9. ShownToUser' \in {ShownToUser \o FromOldest(l), ShownToUser \o Abstract!Fatals(l)}
  BY <1>1, <1>2, <1>8, ReportableShows
<1>10. [i \in DOMAIN l |-> l[Len(l) + 1 - i]] = FromOldest(l)
  <2>1. DOMAIN l = 1..Len(l)
    BY <1>1, <1>2, UnlabelledIs
  <2> QED BY <2>1 DEF FromOldest
<1> QED BY <1>3, <1>6, <1>7, <1>9, <1>10 DEF Abstract!Conclude

----------------------------------------------------------------------------
(***************************************************************************)
(* Every step.                                                             *)
(***************************************************************************)
AbstractStep == [Abstract!Next]_(Abstract!stackVars)

LEMMA StepImplements ==
  ASSUME "string_junk" \notin Clients, FatalInv, [Next]_vars
  PROVE  AbstractStep
<1> USE DEF AbstractStep
<1>1. /\ IInv /\ printed \in Seq(Entry) /\ Depth \in Nat /\ session = Depth
      /\ \A K : InKind(K) => Depth > 0 /\ Running /\ Top = frames[Depth] /\ Top.kind \in K
      /\ frames \in Seq(Frame) /\ Len(frames) = Depth
  BY Stack DEF FatalInv, InKind, Top, Depth
<1>2. Running => phase # "exited"
  BY DEF Running
<1>3. \A K : InKind(K) /\ "top" \notin K => Depth > 1
  <2> SUFFICES ASSUME NEW K, InKind(K), "top" \notin K PROVE Depth > 1
    OBVIOUS
  <2>1. frames[Depth].kind # "top" /\ Depth > 0
    BY <1>1
  <2>2. Depth # 1
    BY <1>1, <2>1 DEF FatalInv, Shape, Outermost
  <2> QED BY <1>1, <2>1, <2>2
<1>4. InKind({"top"}) => Depth = 1
  <2> SUFFICES ASSUME InKind({"top"}) PROVE Depth = 1
    OBVIOUS
  <2>1. frames[Depth].kind = "top" /\ Depth \in 1..Depth
    BY <1>1
  <2> QED BY <1>1, <2>1 DEF FatalInv, Shape, Outermost
\* Nothing the stack can see.
<1>a. ASSUME errs' = errs, session' = session, printed' = printed,
             (phase' = "exited") = (phase = "exited")
      PROVE  AbstractStep
  <2>1. ListsOfSites' = ListsOfSites
    BY <1>a, ListsAre
  <2>2. ShownToUser' = ShownToUser
    BY <1>a DEF ShownToUser, Unlabelled
  <2> QED BY <1>a, <2>1, <2>2 DEF Abstract!stackVars
\* A new site.
<1>b. ASSUME Running, NEW fs, NEW kind, StartSPASMErrorSession(fs, kind),
             UNCHANGED <<errs, phase, printed>>
      PROVE  AbstractStep
  <2>1. session' = session + 1 /\ errs' = errs
    BY <1>b DEF StartSPASMErrorSession
  <2>2. Unshown
    BY <1>b DEF Unshown, ShownToUser, Unlabelled
  <2>3. Abstract!Open
    BY <1>1, <1>2, <1>b, <2>1, <2>2, Opens
  <2> QED BY <2>3 DEF Abstract!Next
\* A diagnostic.
<1>c. ASSUME Running, Depth > 0, NEW c \in Codes, errs' = SetLastSPASMProblem(c),
             UNCHANGED <<session, phase, printed>>
      PROVE  AbstractStep
  <2>1. Unshown
    BY <1>c DEF Unshown, ShownToUser, Unlabelled
  <2>2. Abstract!Complain(c)
    BY <1>1, <1>2, <1>c, <2>1, Complains
  <2>3. c \in Errors \cup Warnings \cup Recoverable
    BY <1>c DEF Codes
  <2> QED BY <2>2, <2>3 DEF Abstract!Next
\* A site that discards its list.
<1>d. ASSUME Running, Depth > 1, EndSPASMErrorSession(errs, Top.id, phase), printed' = printed
      PROVE  AbstractStep
  <2>1. Abstract!Discard
    BY <1>1, <1>2, <1>d, Discards
  <2> QED BY <2>1 DEF Abstract!Next
\* A site that hands up its list, marks it first, or adds to it first.
<1>e. ASSUME Running, Depth > 1, NEW b, ReplayAndEnd(errs, Top.id, b, phase)
      PROVE  AbstractStep
  <2>1. errs \in Seq(Entry) /\ Sorted(errs, session) /\ ListsOfSites[session] = Unlabelled(LevelOf(errs, session))
        /\ Len(ListsOfSites) = session
    BY <1>1, <1>e, Before
  <2>2. Unlabelled(LevelOf(errs, session)) \in Abstract!Final
    BY <2>1 DEF Abstract!Final, Abstract!Height
  <2>3. Abstract!HandUp
    BY <1>1, <1>2, <1>e, <2>1, <2>2, HandsUp
  <2> QED BY <2>3 DEF Abstract!Next
<1>f. ASSUME Running, Depth > 1, NEW b,
             ReplayAndEnd(AddSPASMErrorSessionAnnotation(errs, Top.id), Top.id, b, phase)
      PROVE  AbstractStep
  <2>0. session \in Nat \ {0} /\ session \in Int /\ session \in 1..session /\ Depth > 0
    BY <1>1, <1>f
  <2>1. /\ errs \in Seq(Entry) /\ Sorted(errs, session) /\ Len(ListsOfSites) = session
        /\ ListsOfSites[session] = Unlabelled(LevelOf(errs, session))
        /\ session \in Nat \ {0} /\ session \in Int /\ Top.id = session
    BY <1>1, <2>0, Before
  <2>2. PICK t : t = AddSPASMErrorSessionAnnotation(errs, session)
    OBVIOUS
  <2>3. t \in Seq(Entry) /\ Sorted(t, session)
    BY <2>1, <2>2, AnnotationSorted
  <2>4. /\ \A n \in 1..(session - 1) : Unlabelled(LevelOf(t, n)) = Unlabelled(LevelOf(errs, n))
        /\ Unlabelled(LevelOf(t, session)) = Noted(Unlabelled(LevelOf(errs, session)), session)
    BY <2>1, <2>2, LevelsAnnotated
  <2>5. Unlabelled(LevelOf(t, session)) \in Abstract!Final
    BY <2>1, <2>4 DEF Noted, Abstract!Final, Abstract!Marked, Abstract!Height
  <2>6. Abstract!HandUp
    BY <1>1, <1>2, <1>f, <2>1, <2>2, <2>3, <2>4, <2>5, HandsUp
  <2> QED BY <2>6 DEF Abstract!Next
<1>g. ASSUME Running, Depth > 1, NEW b, NEW c \in Errors \cup Warnings,
             ReplayAndEnd(SetLastSPASMProblem(c), Top.id, b, phase)
      PROVE  AbstractStep
  <2>1. /\ errs \in Seq(Entry) /\ Sorted(errs, session) /\ Len(ListsOfSites) = session
        /\ ListsOfSites[session] = Unlabelled(LevelOf(errs, session))
        /\ session \in Nat \ {0} /\ c \in Codes
    BY <1>1, <1>g, Before DEF Codes
  <2>2. PICK t : t = SetLastSPASMProblem(c)
    OBVIOUS
  <2>3. t \in Seq(Entry) /\ Sorted(t, session)
    BY <2>1, <2>2, RaiseSorted DEF ListSorted
  <2>4. t = Raised(errs, c, session)
    BY <2>2 DEF SetLastSPASMProblem, Raised
  <2>5. /\ \A n \in 1..(session - 1) : Unlabelled(LevelOf(t, n)) = Unlabelled(LevelOf(errs, n))
        /\ Unlabelled(LevelOf(t, session)) =
             <<[code |-> c, note |-> 0]>> \o Unlabelled(LevelOf(errs, session))
    BY <2>1, <2>3, <2>4, LevelsRaised
  <2>6. Unlabelled(LevelOf(t, session)) \in Abstract!Final
    BY <1>g, <2>1, <2>5 DEF Abstract!Final, Abstract!New, Abstract!Height
  <2>7. Abstract!HandUp
    BY <1>1, <1>2, <1>g, <2>2, <2>3, <2>5, <2>6, HandsUp
  <2> QED BY <2>7 DEF Abstract!Next
\* The actions.
<1>5. CASE StartPhase
  BY <1>b, <1>5 DEF StartPhase
<1>6. CASE WriteFile
  <2>1. Running /\ Depth > 0 /\ UNCHANGED <<session, phase, printed>>
    BY <1>1, <1>6 DEF WriteFile
  <2>2. CASE errs' = errs
    BY <1>a, <2>1, <2>2
  <2>3. CASE \E c \in Errors \cup Warnings : errs' = SetLastSPASMProblem(c)
    BY <1>c, <2>1, <2>3 DEF Codes
  <2> QED BY <1>6, <2>2, <2>3 DEF WriteFile
<1>7. CASE EndPhase
  <2>1. Depth = 1 /\ Running /\ phase # "exited" /\ phase \in DOMAIN Successor
    BY <1>1, <1>2, <1>4, <1>7 DEF EndPhase, IInv, TypeOK, Running
  <2>2. Successor[phase] # "exited" /\ (phase # "pass_two") \in BOOLEAN
    BY <2>1 DEF Successor
  <2>3. ReplayAndEnd(errs, Top.id, phase # "pass_two", Successor[phase])
    BY <1>7 DEF EndPhase
  <2>4. Abstract!Conclude
    BY <1>1, <2>1, <2>2, <2>3, Concludes
  <2> QED BY <2>4 DEF Abstract!Next
<1>8. ASSUME NEW c \in Codes, Raise(c) PROVE AbstractStep
  <2>1. Running /\ Depth > 0
    BY <1>1, <1>8 DEF Raise, ParsesExpressions, RunsStatements
  <2> QED BY <1>c, <1>8, <2>1 DEF Raise
<1>9. CASE BeginQuiet \/ BeginMacro \/ BeginExprMacro \/ BeginFcreateRun \/ BeginDefer \/ BeginWord
  <2>1. Running
    BY <1>1, <1>9 DEF BeginQuiet, BeginMacro, BeginExprMacro, BeginFcreateRun, BeginDefer, BeginWord,
                      ReadsWords, ParsesExpressions, RunsStatements
  <2>2. /\ \E kind : StartSPASMErrorSession(frames, kind)
        /\ UNCHANGED <<errs, phase, printed>>
    BY <1>9 DEF BeginQuiet, BeginMacro, BeginExprMacro, BeginFcreateRun, BeginDefer, BeginWord
  <2> QED BY <1>b, <2>1, <2>2
<1>10. CASE WordForward
  BY <1>1, <1>b, <1>10 DEF WordForward
<1>11. CASE BeginDefineSingle
  BY <1>1, <1>b, <1>11 DEF BeginDefineSingle
<1>12. CASE RunMacroBody \/ BeginDefineList
  BY <1>a, <1>12 DEF RunMacroBody, BeginDefineList
<1>13. CASE EndQuiet \/ DeferToPassTwo \/ EndDefineInner \/ EndDefineList \/ DefineEmpty
  <2>1. Running /\ Depth > 1
    BY <1>1, <1>3, <1>13 DEF EndQuiet, DeferToPassTwo, EndDefineInner, EndDefineList, DefineEmpty
  <2> QED BY <1>d, <1>13, <2>1 DEF EndQuiet, DeferToPassTwo, EndDefineInner, EndDefineList, DefineEmpty
<1>14. CASE EndMacro
  <2>1. Running /\ Depth > 1
    BY <1>1, <1>3, <1>14 DEF EndMacro
  <2> QED BY <1>f, <1>14, <2>1 DEF EndMacro
<1>15. CASE EndAnnotated
  <2>1. Running /\ Depth > 1
    BY <1>1, <1>3, <1>15 DEF EndAnnotated
  <2> QED BY <1>d, <1>f, <1>15, <2>1 DEF EndAnnotated
<1>16. CASE DeferFails \/ EndForwardWord \/ WordError
  <2>1. Running /\ Depth > 1
    BY <1>1, <1>3, <1>16 DEF DeferFails, EndForwardWord, WordError
  <2> QED BY <1>e, <1>16, <2>1 DEF DeferFails, EndForwardWord, WordError
<1>17. CASE DeferWrites \/ WordParsed
  <2>1. Running /\ Depth > 1 /\ WriteAndReplay
    BY <1>1, <1>3, <1>17 DEF DeferWrites, WordParsed
  <2> QED BY <1>e, <1>g, <2>1 DEF WriteAndReplay
<1>18. CASE EndDefineSingle
  <2>1. Running /\ Depth > 1
    BY <1>1, <1>3, <1>18 DEF EndDefineSingle
  <2> QED BY <1>d, <1>f, <1>18, <2>1 DEF EndDefineSingle
<1>19. CASE StringJunk
  BY <1>19 DEF StringJunk
<1>20. CASE Done \/ UNCHANGED vars
  BY <1>a, <1>20 DEF Done, vars
<1> QED BY <1>5, <1>6, <1>7, <1>8, <1>9, <1>10, <1>11, <1>12, <1>13, <1>14, <1>15, <1>16, <1>17,
           <1>18, <1>19, <1>20 DEF Next

LEMMA InitImplements == Init => Abstract!Init
<1> SUFFICES ASSUME Init PROVE Abstract!Init
  OBVIOUS
<1>1. session = 0 /\ printed = <<>> /\ phase = "pass_one"
  BY DEF Init
<1>2. ListsOfSites = <<>>
  BY <1>1 DEF ListsOfSites
<1>3. ShownToUser = <<>>
  BY <1>1 DEF ShownToUser, Unlabelled
<1> QED BY <1>1, <1>2, <1>3 DEF Abstract!Init

\* In a program without strings that end in junk, errors.cpp behaves as a
\* stack of error lists, one for each call site with a session open: a site
\* sees its own errors only, hands up or discards all of them and no others,
\* and the end of the outermost one shows them and decides whether the program
\* is over.
THEOREM SessionsAreStack ==
  ASSUME "string_junk" \notin Clients
  PROVE  Spec => ImplementsErrorStack
<1>1. Init => Abstract!Init
  BY InitImplements
<1>2. FatalInv /\ [Next]_vars => FatalInv'
  BY StepKeepsFatal
<1>3. FatalInv /\ [Next]_vars => [Abstract!Next]_(Abstract!stackVars)
  BY StepImplements DEF AbstractStep
<1>4. Init => FatalInv
  BY InitFatal
<1> QED BY <1>1, <1>2, <1>3, <1>4, PTL DEF Spec, ImplementsErrorStack, Abstract!Spec
=============================================================================
