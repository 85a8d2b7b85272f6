-------------------------- MODULE ListingProofs --------------------------
(***************************************************************************)
(* The listing stays in its buffer, no prefix is left of a line that was   *)
(* not listed, pass two finds the columns it overwrites, and the lines     *)
(* show the output.                                                        *)
(***************************************************************************)
EXTENDS Listing, NatRecursion, FiniteSetTheorems, SequenceTheorems, TLAPS

CellKinds == {"line", "hex", "newline", "space", "dash", "text", "banner"}
FileNames == (UNION {DOMAIN p : p \in Programs}) \cup {""}
CellSet == [k : CellKinds, file : FileNames, n : Nat, pc : Nat]

LEMMA CellMade ==
  ASSUME NEW k \in CellKinds, NEW file \in FileNames, NEW n \in Nat, NEW pc \in Nat
  PROVE  Cell(k, file, n, pc) \in CellSet /\ Cell(k, file, n, pc).k = k
BY DEF Cell, CellSet

LEMMA CellIs ==
  ASSUME NEW c \in CellSet
  PROVE  c.k \in CellKinds
BY DEF CellSet

(***************************************************************************)
(* The listing as a record.                                                *)
(***************************************************************************)
Listings == {l \in [buf : Seq(CellSet), at : Nat, width : Nat] : l.at <= Len(l.buf)}

\* What has been listed: the cells behind it are written over.
Shown(l) == SubSeq(l.buf, 1, l.at)

LEMMA ListingIs ==
  ASSUME NEW l \in Listings
  PROVE  /\ l = [buf |-> l.buf, at |-> l.at, width |-> l.width]
         /\ l.buf \in Seq(CellSet) /\ l.at \in Nat /\ l.width \in Nat /\ l.at <= Len(l.buf)
BY DEF Listings

LEMMA ListingMade ==
  ASSUME NEW b \in Seq(CellSet), NEW a \in Nat, NEW n \in Nat, a <= Len(b)
  PROVE  [buf |-> b, at |-> a, width |-> n] \in Listings
BY DEF Listings

\* The first cells of a sequence.
LEMMA FirstCells ==
  ASSUME NEW S, NEW b \in Seq(S), NEW a \in Nat, a <= Len(b)
  PROVE  /\ SubSeq(b, 1, a) \in Seq(S) /\ Len(SubSeq(b, 1, a)) = a
         /\ \A i \in 1..a : SubSeq(b, 1, a)[i] = b[i]
<1>1. \A i \in 1..a : b[i] \in S
  OBVIOUS
<1>2. 1 \in Int /\ a \in Int
  OBVIOUS
<1>3. /\ SubSeq(b, 1, a) \in Seq(S)
      /\ Len(SubSeq(b, 1, a)) = IF 1 <= a THEN a - 1 + 1 ELSE 0
      /\ \A i \in 1..(a - 1 + 1) : SubSeq(b, 1, a)[i] = b[1 + i - 1]
  BY <1>1, <1>2, SubSeqProperties
<1>4. PICK s \in Seq(S) : s = SubSeq(b, 1, a)
  BY <1>3
<1>5. Len(s) = a /\ \A i \in 1..a : s[i] = b[i]
  BY <1>3, <1>4
<1> QED BY <1>4, <1>5

LEMMA ShownIs ==
  ASSUME NEW l \in Listings
  PROVE  /\ Shown(l) \in Seq(CellSet) /\ Len(Shown(l)) = l.at
         /\ \A i \in 1..l.at : Shown(l)[i] = l.buf[i]
BY ListingIs, FirstCells DEF Shown

LEMMA InsertIs ==
  ASSUME NEW l \in Listings, NEW cells \in Seq(CellSet)
  PROVE  /\ Insert(l, cells) \in Listings
         /\ Shown(Insert(l, cells)) = Shown(l) \o cells
         /\ Insert(l, cells).at = l.at + Len(cells) /\ Insert(l, cells).width = l.width
<1>1. PICK b \in Seq(CellSet), a \in Nat, n \in Nat : l = [buf |-> b, at |-> a, width |-> n] /\ a <= Len(b)
                                         /\ b = l.buf /\ a = l.at /\ n = l.width
  BY ListingIs
<1>2. PICK first \in Seq(CellSet) : first = SubSeq(b, 1, a) /\ Len(first) = a
  BY <1>1, FirstCells
<1>3. PICK rest \in Seq(CellSet) : rest = SubSeq(b, a + 1, Len(b))
  <2>1. \A i \in a + 1..Len(b) : b[i] \in CellSet
    BY <1>1
  <2>2. a + 1 \in Int /\ Len(b) \in Int
    OBVIOUS
  <2>3. SubSeq(b, a + 1, Len(b)) \in Seq(CellSet)
    BY <2>1, <2>2, SubSeqProperties
  <2> QED BY <2>3
<1>4. PICK head \in Seq(CellSet) : head = first \o cells
  BY ConcatProperties
<1>5. Len(head) = a + Len(cells) /\ Len(cells) \in Nat
  BY <1>2, <1>4, ConcatProperties
<1>6. PICK all \in Seq(CellSet) : all = head \o rest
  BY ConcatProperties
<1>7. Len(all) = Len(head) + Len(rest) /\ Len(rest) \in Nat /\ \A i \in 1..Len(head) : all[i] = head[i]
  <2>1. /\ Len(all) = Len(head) + Len(rest)
        /\ \A i \in 1..(Len(head) + Len(rest)) : all[i] = IF i <= Len(head) THEN head[i] ELSE rest[i - Len(head)]
    BY <1>6, ConcatProperties
  <2> QED BY <2>1
<1>8. PICK e \in Nat : e = a + Len(cells)
  BY <1>5
<1>9. Insert(l, cells) = [buf |-> all, at |-> e, width |-> n]
  <2>1. Insert(l, cells) = [l EXCEPT !.buf = all, !.at = e]
    <3>1. Insert(l, cells) = [l EXCEPT !.buf = SubSeq(b, 1, a) \o cells \o SubSeq(b, a + 1, Len(b)),
                                       !.at = a + Len(cells)]
      BY <1>1, Zenon DEF Insert
    <3>2. SubSeq(b, 1, a) \o cells \o SubSeq(b, a + 1, Len(b)) = all
      BY <1>2, <1>3, <1>4, <1>6, Zenon
    <3> QED BY <3>1, <3>2, <1>8, Zenon
  <2> QED BY <1>1, <2>1
<1>10. PICK m \in Listings : m = Insert(l, cells) /\ m.buf = all /\ m.at = e /\ m.width = n
  <2>1. e <= Len(all)
    BY <1>5, <1>7, <1>8
  <2>2. [buf |-> all, at |-> e, width |-> n] \in Listings
    BY <2>1, ListingMade
  <2> QED BY <1>9, <2>2
<1>11. Shown(m) = head
  <2>1. Shown(m) = SubSeq(all, 1, e)
    BY <1>10, Zenon DEF Shown
  <2>2. e <= Len(all)
    BY <1>5, <1>7, <1>8
  <2>3. SubSeq(all, 1, e) \in Seq(CellSet) /\ Len(SubSeq(all, 1, e)) = e
        /\ \A i \in 1..e : SubSeq(all, 1, e)[i] = all[i]
    BY <2>2, FirstCells, Zenon
  <2>4. PICK s \in Seq(CellSet) : s = SubSeq(all, 1, e)
    BY <2>3
  <2>5. Len(s) = Len(head) /\ \A i \in 1..Len(s) : s[i] = head[i]
    BY <1>5, <1>7, <1>8, <2>3, <2>4
  <2>6. s = head
    BY <2>5, SeqEqual
  <2> QED BY <2>1, <2>4, <2>6
<1>12. Shown(l) = first
  BY <1>1, <1>2 DEF Shown
<1>13. head = Shown(l) \o cells
  BY <1>4, <1>12
<1> QED BY <1>1, <1>8, <1>10, <1>11, <1>13

\* The width may be set to anything.
LEMMA WidthChanged ==
  ASSUME NEW l \in Listings, NEW n \in Nat
  PROVE  /\ [l EXCEPT !.width = n] \in Listings
         /\ Shown([l EXCEPT !.width = n]) = Shown(l)
         /\ [l EXCEPT !.width = n].width = n /\ [l EXCEPT !.width = n].at = l.at
<1>1. [l EXCEPT !.width = n] = [buf |-> l.buf, at |-> l.at, width |-> n]
  BY ListingIs
<1>2. PICK m : m = [buf |-> l.buf, at |-> l.at, width |-> n]
  OBVIOUS
<1>3. m \in Listings
  BY <1>2, ListingIs, ListingMade
<1>4. m.buf = l.buf /\ m.at = l.at /\ m.width = n
  BY <1>2
<1>5. Shown(m) = Shown(l)
  BY <1>4, Zenon DEF Shown
<1> QED BY <1>1, <1>2, <1>3, <1>4, <1>5

----------------------------------------------------------------------------
(***************************************************************************)
(* Columns.  A byte is in the cell after p, or in the first of the next    *)
(* row.                                                                    *)
(***************************************************************************)
Linked(w, p, q) ==
  /\ q \in 1..Len(w) /\ w[q].k = "hex"
  /\ \/ q = p + 1
     \/ q = p + PrefixWidth + 2 /\ w[p + 1].k = "newline" /\ \A i \in p + 2..q - 1 : w[i].k = "space"

\* The columns of n bytes from offset o on are at pos[1], ..., pos[n].
Chain(w, o, n, pos) ==
  /\ o \in 0..Len(w) /\ n \in Nat /\ pos \in [0..n -> Nat]
  /\ pos[0] = o /\ \A i \in 1..n : Linked(w, pos[i - 1], pos[i])

Columned(w, o, n) == \E pos : Chain(w, o, n, pos)

\* What a listing keeps: the columns may get other values.
Like(c, d) == c.k = d.k /\ (c.k # "hex" => c = d)
Keeps(w, x, m) == m <= Len(w) /\ m <= Len(x) /\ \A i \in 1..m : Like(w[i], x[i])

LEMMA LinkedStays ==
  ASSUME NEW w \in Seq(CellSet), NEW x \in Seq(CellSet), Keeps(w, x, Len(w)),
         NEW p \in Nat, NEW q \in Nat, Linked(w, p, q)
  PROVE  Linked(x, p, q)
<1>1. PrefixWidth \in Nat
  BY WidthsAssumption
<1>2. Len(w) <= Len(x) /\ \A i \in 1..Len(w) : w[i].k = x[i].k
  BY DEF Keeps, Like
<1>3. CASE q = p + 1
  BY <1>2, <1>3 DEF Linked
<1>4. CASE q = p + PrefixWidth + 2 /\ w[p + 1].k = "newline" /\ \A i \in p + 2..q - 1 : w[i].k = "space"
  <2>1. q \in 1..Len(w) /\ w[q].k = "hex"
    BY DEF Linked
  <2>2. p + 1 \in 1..Len(w) /\ \A i \in p + 2..q - 1 : i \in 1..Len(w)
    BY <1>1, <1>4, <2>1
  <2>3. q \in 1..Len(x) /\ x[q].k = "hex"
    BY <1>2, <2>1
  <2>4. x[p + 1].k = "newline"
    BY <1>2, <1>4, <2>2
  <2>5. \A i \in p + 2..q - 1 : x[i].k = "space"
    BY <1>2, <1>4, <2>2
  <2> QED BY <1>4, <2>3, <2>4, <2>5 DEF Linked
<1> QED BY <1>3, <1>4 DEF Linked

LEMMA ChainStays ==
  ASSUME NEW w \in Seq(CellSet), NEW x \in Seq(CellSet), Keeps(w, x, Len(w)),
         NEW o, NEW n, NEW pos, Chain(w, o, n, pos)
  PROVE  Chain(x, o, n, pos)
<1>1. o \in 0..Len(w) /\ n \in Nat /\ pos \in [0..n -> Nat] /\ pos[0] = o
      /\ \A i \in 1..n : Linked(w, pos[i - 1], pos[i])
  BY DEF Chain
<1>2. o \in 0..Len(x)
  BY <1>1 DEF Keeps
<1>3. ASSUME NEW i \in 1..n PROVE Linked(x, pos[i - 1], pos[i])
  <2>1. i - 1 \in 0..n /\ i \in 0..n
    BY <1>1
  <2>2. pos[i - 1] \in Nat /\ pos[i] \in Nat
    BY <1>1, <2>1
  <2>3. Linked(w, pos[i - 1], pos[i])
    BY <1>1
  <2> QED BY <2>2, <2>3, LinkedStays
<1> QED BY <1>1, <1>2, <1>3 DEF Chain

\* The chain of one more byte.
LEMMA ChainLonger ==
  ASSUME NEW w \in Seq(CellSet), NEW o, NEW n, NEW pos, Chain(w, o, n, pos),
         NEW q \in Nat, Linked(w, pos[n], q)
  PROVE  \E more : Chain(w, o, n + 1, more) /\ more[n + 1] = q
<1>1. o \in 0..Len(w) /\ n \in Nat /\ pos \in [0..n -> Nat] /\ pos[0] = o
      /\ \A i \in 1..n : Linked(w, pos[i - 1], pos[i])
  BY DEF Chain
<1>2. PICK more : more = [i \in 0..n + 1 |-> IF i = n + 1 THEN q ELSE pos[i]]
  OBVIOUS
<1>3. more \in [0..n + 1 -> Nat] /\ more[0] = o /\ more[n + 1] = q
  BY <1>1, <1>2
<1>4. ASSUME NEW i \in 1..n + 1 PROVE Linked(w, more[i - 1], more[i])
  <2>1. CASE i = n + 1
    <3>1. more[i - 1] = pos[n] /\ more[i] = q
      BY <1>1, <1>2, <2>1
    <3> QED BY <3>1
  <2>2. CASE i # n + 1
    <3>1. i \in 1..n /\ more[i - 1] = pos[i - 1] /\ more[i] = pos[i]
      BY <1>1, <1>2, <2>2
    <3> QED BY <1>1, <3>1
  <2> QED BY <2>1, <2>2
<1>5. Chain(w, o, n + 1, more)
  BY <1>1, <1>3, <1>4 DEF Chain
<1> QED BY <1>3, <1>5

\* What is put behind a sequence.
LEMMA Joined ==
  ASSUME NEW w \in Seq(CellSet), NEW c \in Seq(CellSet)
  PROVE  /\ w \o c \in Seq(CellSet) /\ Len(w \o c) = Len(w) + Len(c)
         /\ \A i \in 1..Len(w) : (w \o c)[i] = w[i]
         /\ \A i \in 1..Len(c) : (w \o c)[Len(w) + i] = c[i]
         /\ Keeps(w, w \o c, Len(w))
<1>1. PICK x \in Seq(CellSet) : x = w \o c
  BY ConcatProperties
<1>2. Len(x) = Len(w) + Len(c) /\ \A i \in 1..Len(w) + Len(c) : x[i] = IF i <= Len(w) THEN w[i] ELSE c[i - Len(w)]
  BY <1>1, ConcatProperties
<1>3. Len(w) \in Nat /\ Len(c) \in Nat
  OBVIOUS
<1>4. \A i \in 1..Len(w) : x[i] = w[i]
  BY <1>2, <1>3
<1>5. ASSUME NEW i \in 1..Len(c) PROVE x[Len(w) + i] = c[i]
  <2>1. PICK j \in 1..Len(w) + Len(c) : j = Len(w) + i
    BY <1>3
  <2>2. ~(j <= Len(w)) /\ j - Len(w) = i
    BY <1>3, <2>1
  <2> QED BY <1>2, <2>1, <2>2
<1>6. Keeps(w, x, Len(w))
  BY <1>2, <1>3, <1>4 DEF Keeps, Like
<1> QED BY <1>1, <1>2, <1>4, <1>5, <1>6

\* Cells that are no prefix of a line.
Spaced(c) == \A i \in 1..Len(c) : c[i].k \in {"hex", "newline", "space", "dash"}

LEMMA SpacedJoined ==
  ASSUME NEW a \in Seq(CellSet), NEW b \in Seq(CellSet), Spaced(a), Spaced(b)
  PROVE  Spaced(a \o b)
<1>1. PICK x \in Seq(CellSet) : x = a \o b
  BY Joined
<1>2. Len(x) = Len(a) + Len(b) /\ \A i \in 1..Len(a) : x[i] = a[i]
  BY <1>1, Joined
<1>3. \A i \in 1..Len(b) : x[Len(a) + i] = b[i]
  BY <1>1, Joined
<1>4. ASSUME NEW i \in 1..Len(x) PROVE x[i].k \in {"hex", "newline", "space", "dash"}
  <2>1. CASE i <= Len(a)
    BY <1>2, <2>1 DEF Spaced
  <2>2. CASE ~(i <= Len(a))
    <3>1. PICK j \in 1..Len(b) : i = Len(a) + j
      <4>1. i - Len(a) \in 1..Len(b) /\ i = Len(a) + (i - Len(a))
        BY <1>2, <2>2
      <4> QED BY <4>1
    <3>2. x[i] = b[j]
      BY <1>3, <3>1
    <3> QED BY <3>2 DEF Spaced
  <2> QED BY <2>1, <2>2
<1> QED BY <1>1, <1>4 DEF Spaced

LEMMA NoName == "" \in FileNames
<1>1. PICK names : names = UNION {DOMAIN p : p \in Programs}
  OBVIOUS
<1>2. PICK none : none = ""
  OBVIOUS
<1>3. FileNames = names \cup {none}
  BY <1>1, <1>2 DEF FileNames
<1> QED BY <1>2, <1>3

\* n cells of one kind.
LEMMA CellsAre ==
  ASSUME NEW k \in CellKinds, NEW n \in Int
  PROVE  /\ Cells(k, n) \in Seq(CellSet) /\ Len(Cells(k, n)) = (IF n >= 0 THEN n ELSE 0)
         /\ \A i \in 1..Len(Cells(k, n)) : Cells(k, n)[i].k = k
<1>1. "" \in FileNames /\ 0 \in Nat
  BY NoName
<1>2. PICK c \in CellSet : c = Cell(k, "", 0, 0) /\ c.k = k
  BY <1>1, CellMade
<1>3. PICK m \in Nat : m = IF n >= 0 THEN n ELSE 0
  OBVIOUS
<1>4. 1..n = 1..m
  BY <1>3
<1>5. PICK s : s = [i \in 1..m |-> c]
  OBVIOUS
<1>6. s \in Seq(CellSet)
  BY <1>5
<1>7. Len(s) = m
  BY <1>5, <1>6
<1>9. \A i \in 1..Len(s) : s[i].k = k
  BY <1>2, <1>5, <1>7
<1>8. Cells(k, n) = s
  BY <1>2, <1>4, <1>5 DEF Cells
<1> QED BY <1>3, <1>6, <1>7, <1>8, <1>9

\* A new row is its end and the place of the prefix.
LEMMA NewRowIs ==
  /\ NewRow \in Seq(CellSet) /\ Len(NewRow) = PrefixWidth + 1 /\ Spaced(NewRow)
  /\ NewRow[1].k = "newline" /\ \A i \in 2..PrefixWidth + 1 : NewRow[i].k = "space"
<1>1. PrefixWidth \in Nat /\ 1 \in Int /\ PrefixWidth \in Int
  BY WidthsAssumption
<1>2. "newline" \in CellKinds /\ "space" \in CellKinds
  BY DEF CellKinds
<1>3. PICK a \in Seq(CellSet) : a = Cells("newline", 1) /\ Len(a) = 1 /\ \A i \in 1..Len(a) : a[i].k = "newline"
  <2>1. 1 >= 0
    OBVIOUS
  <2>2. /\ Cells("newline", 1) \in Seq(CellSet) /\ Len(Cells("newline", 1)) = (IF 1 >= 0 THEN 1 ELSE 0)
        /\ \A i \in 1..Len(Cells("newline", 1)) : Cells("newline", 1)[i].k = "newline"
    BY <1>1, <1>2, CellsAre, Zenon
  <2> QED BY <2>1, <2>2, Zenon
<1>4. PICK b \in Seq(CellSet) : b = Cells("space", PrefixWidth) /\ Len(b) = PrefixWidth
                                /\ \A i \in 1..Len(b) : b[i].k = "space"
  BY <1>1, <1>2, CellsAre
<1>5. PICK r \in Seq(CellSet) : r = a \o b
  BY Joined
<1>6. Len(r) = 1 + PrefixWidth /\ (\A i \in 1..1 : r[i] = a[i]) /\ \A i \in 1..PrefixWidth : r[1 + i] = b[i]
  <2>1. Len(r) = Len(a) + Len(b) /\ (\A i \in 1..Len(a) : r[i] = a[i]) /\ \A i \in 1..Len(b) : r[Len(a) + i] = b[i]
    BY <1>5, Joined
  <2> QED BY <1>3, <1>4, <2>1
<1>7. r[1].k = "newline"
  BY <1>3, <1>6
<1>8. ASSUME NEW i \in 2..PrefixWidth + 1 PROVE r[i].k = "space"
  <2>1. PICK j \in 1..PrefixWidth : i = 1 + j
    <3>1. i - 1 \in 1..PrefixWidth /\ i = 1 + (i - 1)
      BY <1>1
    <3> QED BY <3>1
  <2> QED BY <1>4, <1>6, <2>1, ZenonT(40)
<1>9. Spaced(r)
  <2>1. ASSUME NEW i \in 1..Len(r) PROVE i = 1 \/ i \in 2..PrefixWidth + 1
    BY <1>1, <1>6
  <2> QED BY <1>7, <1>8, <2>1 DEF Spaced
<1>10. NewRow = r
  BY <1>3, <1>4, <1>5 DEF NewRow
<1> QED BY <1>1, <1>6, <1>7, <1>8, <1>9, <1>10

LEMMA HexIs ==
  ASSUME NEW v \in Nat
  PROVE  Hex(v) \in CellSet /\ Hex(v).k = "hex"
<1>1. "" \in FileNames /\ 0 \in Nat /\ "hex" \in CellKinds
  BY NoName DEF CellKinds
<1> QED BY <1>1, CellMade DEF Hex

----------------------------------------------------------------------------
(***************************************************************************)
(* Lines that are finished, and one that is not.                           *)
(***************************************************************************)
\* Of the first m cells, each one of a prefix has the text of its line among them.
CompleteUpTo(w, m) ==
  \A p \in 1..m :
    w[p].k = "line" =>
      \E q \in p + 1..m : w[q].k = "text" /\ \A r \in p..q - 1 : w[r].k = "line" => w[r] = w[p]

Complete(w) == CompleteUpTo(w, Len(w))

\* The line whose prefix begins behind s goes on.
Partial(w, s) ==
  /\ s \in Nat /\ s + PrefixWidth <= Len(w) /\ CompleteUpTo(w, s)
  /\ \A i \in s + 1..s + PrefixWidth : w[i].k = "line" /\ w[i] = w[s + 1]
  /\ \A i \in s + PrefixWidth + 1..Len(w) : w[i].k \in {"hex", "newline", "space", "dash"}

LEMMA UpToKept ==
  ASSUME NEW w, NEW x, NEW m \in Nat, Keeps(w, x, m), CompleteUpTo(w, m)
  PROVE  CompleteUpTo(x, m)
<1> SUFFICES ASSUME NEW p \in 1..m, x[p].k = "line"
             PROVE  \E q \in p + 1..m : x[q].k = "text" /\ \A r \in p..q - 1 : x[r].k = "line" => x[r] = x[p]
  BY DEF CompleteUpTo
<1>1. \A i \in 1..m : w[i].k = x[i].k /\ (w[i].k # "hex" => w[i] = x[i])
  BY DEF Keeps, Like
<1>2. w[p].k = "line" /\ w[p] = x[p]
  BY <1>1
<1>3. PICK q \in p + 1..m : w[q].k = "text" /\ \A r \in p..q - 1 : w[r].k = "line" => w[r] = w[p]
  BY <1>2 DEF CompleteUpTo
<1>4. q \in 1..m
  OBVIOUS
<1>5. x[q].k = "text"
  BY <1>1, <1>3, <1>4
<1>6. ASSUME NEW r \in p..q - 1, x[r].k = "line" PROVE x[r] = x[p]
  <2>1. r \in 1..m
    OBVIOUS
  <2>2. w[r].k = "line" /\ w[r] = x[r]
    BY <1>1, <1>6, <2>1
  <2> QED BY <1>2, <1>3, <2>2
<1> QED BY <1>5, <1>6

LEMMA UpToGrows ==
  ASSUME NEW w, NEW m \in Nat, NEW n \in Nat, m <= n, CompleteUpTo(w, m),
         \A i \in m + 1..n : w[i].k # "line"
  PROVE  CompleteUpTo(w, n)
<1> SUFFICES ASSUME NEW p \in 1..n, w[p].k = "line"
             PROVE  \E q \in p + 1..n : w[q].k = "text" /\ \A r \in p..q - 1 : w[r].k = "line" => w[r] = w[p]
  BY DEF CompleteUpTo
<1>1. p \in 1..m
  <2>1. ~(p \in m + 1..n)
    OBVIOUS
  <2> QED BY <2>1
<1>2. PICK q \in p + 1..m : w[q].k = "text" /\ \A r \in p..q - 1 : w[r].k = "line" => w[r] = w[p]
  BY <1>1 DEF CompleteUpTo
<1>3. q \in p + 1..n
  BY <1>2
<1> QED BY <1>2, <1>3

LEMMA NoLineComplete ==
  ASSUME NEW c \in Seq(CellSet), \A i \in 1..Len(c) : c[i].k # "line"
  PROVE  Complete(c)
BY DEF Complete, CompleteUpTo

LEMMA CompleteJoined ==
  ASSUME NEW w \in Seq(CellSet), NEW c \in Seq(CellSet), Complete(w), Complete(c)
  PROVE  Complete(w \o c)
<1>1. PICK x \in Seq(CellSet) : x = w \o c
  BY Joined
<1>2. PICK m \in Nat, n \in Nat : m = Len(w) /\ n = Len(c)
  OBVIOUS
<1>3. Len(x) = m + n /\ (\A i \in 1..m : x[i] = w[i]) /\ \A i \in 1..n : x[m + i] = c[i]
  <2>1. Len(w \o c) = Len(w) + Len(c) /\ (\A i \in 1..Len(w) : (w \o c)[i] = w[i])
        /\ \A i \in 1..Len(c) : (w \o c)[Len(w) + i] = c[i]
    BY Joined, Zenon
  <2> QED BY <1>1, <1>2, <2>1, Zenon
<1>4. ASSUME NEW p \in 1..m + n, x[p].k = "line"
      PROVE  \E q \in p + 1..m + n : x[q].k = "text" /\ \A r \in p..q - 1 : x[r].k = "line" => x[r] = x[p]
  <2>1. CASE p <= m
    <3>1. p \in 1..m /\ w[p].k = "line" /\ x[p] = w[p]
      BY <1>3, <1>4, <2>1
    <3>2. PICK q \in p + 1..m : w[q].k = "text" /\ \A r \in p..q - 1 : w[r].k = "line" => w[r] = w[p]
      BY <1>2, <3>1 DEF Complete, CompleteUpTo
    <3>3. q \in p + 1..m + n /\ q \in 1..m
      BY <3>1, <3>2
    <3>4. x[q].k = "text"
      BY <1>3, <3>2, <3>3
    <3>5. \A r \in p..q - 1 : x[r] = w[r]
      BY <1>3, <3>1, <3>3
    <3> QED BY <3>1, <3>2, <3>3, <3>4, <3>5
  <2>2. CASE ~(p <= m)
    <3>1. PICK j \in 1..n : p = m + j
      <4>1. p - m \in 1..n /\ p = m + (p - m)
        BY <2>2
      <4> QED BY <4>1
    <3>2. c[j].k = "line" /\ x[p] = c[j]
      BY <1>3, <1>4, <3>1
    <3>3. PICK q \in j + 1..n : c[q].k = "text" /\ \A r \in j..q - 1 : c[r].k = "line" => c[r] = c[j]
      BY <1>2, <3>2 DEF Complete, CompleteUpTo
    <3>4. PICK k \in p + 1..m + n : k = m + q
      BY <3>1, <3>3
    <3>5. x[k].k = "text"
      <4>1. q \in 1..n
        BY <3>3
      <4> QED BY <1>3, <3>3, <3>4, <4>1
    <3>6. ASSUME NEW r \in p..k - 1, x[r].k = "line" PROVE x[r] = x[p]
      <4>1. PICK i \in j..q - 1 : r = m + i
        <5>1. r - m \in j..q - 1 /\ r = m + (r - m)
          BY <3>1, <3>4
        <5> QED BY <5>1
      <4>2. i \in 1..n
        BY <3>3
      <4>3. x[r] = c[i]
        BY <1>3, <4>1, <4>2
      <4> QED BY <3>2, <3>3, <3>6, <4>3
    <3> QED BY <3>4, <3>5, <3>6
  <2> QED BY <2>1, <2>2
<1>5. CompleteUpTo(x, Len(x))
  BY <1>3, <1>4 DEF CompleteUpTo
<1> QED BY <1>1, <1>5 DEF Complete

LEMMA PartialGrows ==
  ASSUME NEW w \in Seq(CellSet), NEW s, Partial(w, s), NEW c \in Seq(CellSet), Spaced(c)
  PROVE  Partial(w \o c, s)
<1>1. PICK x \in Seq(CellSet) : x = w \o c
  BY Joined
<1>2. PICK m \in Nat, n \in Nat, e \in Nat : m = Len(w) /\ n = Len(c) /\ e = PrefixWidth
  BY WidthsAssumption
<1>3. Len(x) = m + n /\ (\A i \in 1..m : x[i] = w[i]) /\ \A i \in 1..n : x[m + i] = c[i]
  <2>1. Len(w \o c) = Len(w) + Len(c) /\ (\A i \in 1..Len(w) : (w \o c)[i] = w[i])
        /\ \A i \in 1..Len(c) : (w \o c)[Len(w) + i] = c[i]
    BY Joined, Zenon
  <2> QED BY <1>1, <1>2, <2>1, Zenon
<1>4. /\ s \in Nat /\ s + e <= m /\ CompleteUpTo(w, s)
      /\ \A i \in s + 1..s + e : w[i].k = "line" /\ w[i] = w[s + 1]
      /\ \A i \in s + e + 1..m : w[i].k \in {"hex", "newline", "space", "dash"}
  BY <1>2 DEF Partial
<1>5. CompleteUpTo(x, s)
  <2>1. Keeps(w, x, s)
    <3>1. s <= Len(w) /\ s <= Len(x)
      BY <1>2, <1>3, <1>4
    <3>2. \A i \in 1..s : x[i] = w[i]
      BY <1>3, <1>4
    <3> QED BY <3>1, <3>2 DEF Keeps, Like
  <2> QED BY <1>4, <2>1, UpToKept
<1>6. \A i \in s + 1..s + e : x[i].k = "line" /\ x[i] = x[s + 1]
  <2> TAKE i \in s + 1..s + e
  <2>1. i \in 1..m /\ s + 1 \in 1..m
    BY <1>4
  <2> QED BY <1>3, <1>4, <2>1
<1>7. ASSUME NEW i \in s + e + 1..m + n PROVE x[i].k \in {"hex", "newline", "space", "dash"}
  <2>1. CASE i <= m
    <3>1. i \in s + e + 1..m /\ i \in 1..m
      BY <1>4, <2>1
    <3>2. x[i] = w[i]
      BY <1>3, <3>1
    <3> QED BY <1>4, <3>1, <3>2
  <2>2. CASE ~(i <= m)
    <3>1. PICK j \in 1..n : i = m + j
      <4>1. i - m \in 1..n /\ i = m + (i - m)
        BY <1>4, <2>2
      <4> QED BY <4>1
    <3>2. x[i] = c[j]
      BY <1>3, <3>1
    <3> QED BY <1>2, <3>2 DEF Spaced
  <2> QED BY <2>1, <2>2
<1>8. s + e <= m + n
  BY <1>4
<1> QED BY <1>1, <1>2, <1>3, <1>4, <1>5, <1>6, <1>7, <1>8 DEF Partial

\* The text of the line finishes it.
LEMMA PartialCloses ==
  ASSUME NEW w \in Seq(CellSet), NEW s, Partial(w, s), NEW t \in CellSet, t.k = "text"
  PROVE  Complete(w \o <<t>>)
<1>1. PICK c \in Seq(CellSet) : c = <<t>> /\ Len(c) = 1 /\ c[1] = t
  <2>1. <<t>> \in Seq(CellSet)
    OBVIOUS
  <2> QED BY <2>1
<1>2. PICK x \in Seq(CellSet) : x = w \o c
  BY Joined
<1>3. PICK m \in Nat, e \in Nat : m = Len(w) /\ e = PrefixWidth
  BY WidthsAssumption
<1>4. Len(x) = m + 1 /\ (\A i \in 1..m : x[i] = w[i]) /\ x[m + 1] = t
  <2>1. Len(x) = Len(w) + Len(c) /\ (\A i \in 1..Len(w) : x[i] = w[i]) /\ \A i \in 1..Len(c) : x[Len(w) + i] = c[i]
    BY <1>2, Joined
  <2>2. 1 \in 1..Len(c)
    BY <1>1
  <2> QED BY <1>1, <1>3, <2>1, <2>2
<1>5. /\ s \in Nat /\ s + e <= m /\ CompleteUpTo(w, s)
      /\ \A i \in s + 1..s + e : w[i].k = "line" /\ w[i] = w[s + 1]
      /\ \A i \in s + e + 1..m : w[i].k \in {"hex", "newline", "space", "dash"}
  BY <1>3 DEF Partial
<1>6. ASSUME NEW p \in 1..m + 1, x[p].k = "line"
      PROVE  \E q \in p + 1..m + 1 : x[q].k = "text" /\ \A r \in p..q - 1 : x[r].k = "line" => x[r] = x[p]
  <2>1. p \in 1..m /\ x[p] = w[p]
    <3>1. p # m + 1
      BY <1>4, <1>6
    <3> QED BY <1>4, <3>1
  <2>2. CASE p <= s
    <3>1. p \in 1..s /\ w[p].k = "line"
      BY <1>6, <2>1, <2>2
    <3>2. PICK q \in p + 1..s : w[q].k = "text" /\ \A r \in p..q - 1 : w[r].k = "line" => w[r] = w[p]
      BY <1>5, <3>1 DEF CompleteUpTo
    <3>3. q \in p + 1..m + 1 /\ q \in 1..m
      BY <1>5, <2>1, <3>2
    <3>4. x[q].k = "text"
      BY <1>4, <3>2, <3>3
    <3>5. \A r \in p..q - 1 : x[r] = w[r]
      BY <1>4, <2>1, <3>3
    <3> QED BY <2>1, <3>2, <3>3, <3>4, <3>5
  <2>3. CASE ~(p <= s)
    <3>1. m + 1 \in p + 1..m + 1 /\ x[m + 1].k = "text"
      BY <1>4, <2>1
    <3>2. ASSUME NEW r \in s + 1..m, x[r].k = "line" PROVE x[r] = w[s + 1]
      <4>1. r \in 1..m /\ x[r] = w[r]
        BY <1>4, <1>5
      <4>2. ~(r \in s + e + 1..m)
        BY <1>5, <3>2, <4>1
      <4>3. r \in s + 1..s + e
        BY <1>5, <4>2
      <4> QED BY <1>5, <4>1, <4>3
    <3>3. x[p] = w[s + 1]
      <4>1. p \in s + 1..m
        BY <1>5, <2>1, <2>3
      <4> QED BY <1>6, <3>2, <4>1
    <3>4. ASSUME NEW r \in p..(m + 1) - 1, x[r].k = "line" PROVE x[r] = x[p]
      <4>1. r \in s + 1..m
        BY <1>5, <2>3
      <4> QED BY <3>2, <3>3, <3>4, <4>1
    <3> QED BY <3>1, <3>4
  <2> QED BY <2>2, <2>3
<1>7. Complete(x)
  BY <1>4, <1>6 DEF Complete, CompleteUpTo
<1> QED BY <1>1, <1>2, <1>7

\* What is listed by writing more of a line.
Follows(w, x) ==
  /\ Keeps(w, x, Len(w))
  /\ \A s : Partial(w, s) => Partial(x, s)
  /\ Complete(w) => Complete(x)

LEMMA KeepsOn ==
  ASSUME NEW w, NEW x, NEW y, NEW m \in Nat, NEW n \in Nat, m <= n, Keeps(w, x, m), Keeps(x, y, n)
  PROVE  Keeps(w, y, m)
BY DEF Keeps, Like

LEMMA FollowsOn ==
  ASSUME NEW w \in Seq(CellSet), NEW x \in Seq(CellSet), NEW y \in Seq(CellSet), Follows(w, x), Follows(x, y)
  PROVE  Follows(w, y)
<1>1. Len(w) \in Nat /\ Len(x) \in Nat /\ Len(w) <= Len(x) /\ Keeps(w, x, Len(w)) /\ Keeps(x, y, Len(x))
  BY DEF Follows, Keeps
<1>2. Keeps(w, y, Len(w))
  BY <1>1, KeepsOn
<1> QED BY <1>2 DEF Follows

LEMMA SpacedFollows ==
  ASSUME NEW w \in Seq(CellSet), NEW c \in Seq(CellSet), Spaced(c)
  PROVE  Follows(w, w \o c)
<1>1. Complete(c)
  <2>1. \A i \in 1..Len(c) : c[i].k # "line"
    BY DEF Spaced
  <2> QED BY <2>1, NoLineComplete
<1>2. Complete(w) => Complete(w \o c)
  BY <1>1, CompleteJoined
<1>3. \A s : Partial(w, s) => Partial(w \o c, s)
  BY PartialGrows
<1>4. Keeps(w, w \o c, Len(w))
  BY Joined
<1> QED BY <1>2, <1>3, <1>4 DEF Follows

\* One byte is written behind what has been listed.
LEMMA ColumnWritten ==
  ASSUME NEW l \in Listings, l.width <= HexColumns, NEW v \in Nat
  PROVE  /\ WriteColumn(l, v) \in Listings /\ WriteColumn(l, v).width <= HexColumns
         /\ Follows(Shown(l), Shown(WriteColumn(l, v)))
         /\ Linked(Shown(WriteColumn(l, v)), l.at, WriteColumn(l, v).at)
         /\ \E c \in Seq(CellSet) : /\ \A i \in 1..Len(c) : c[i].k \in {"newline", "space"}
                                   /\ Shown(WriteColumn(l, v)) = (Shown(l) \o c) \o <<Hex(v)>>
<1>1. PrefixWidth \in Nat /\ HexColumns \in Nat /\ HexColumns >= 1
  BY WidthsAssumption
<1>2. l.at \in Nat /\ l.width \in Nat
  BY ListingIs
<1>3. PICK w \in Seq(CellSet) : w = Shown(l) /\ Len(w) = l.at
  BY ShownIs
<1>4. PICK row : row = IF l.width >= HexColumns THEN [Insert(l, NewRow) EXCEPT !.width = 0] ELSE l
  OBVIOUS
\* c is the new row, if there is one.
<1>5. PICK c \in Seq(CellSet) :
        /\ row \in Listings /\ row.width < HexColumns
        /\ Shown(row) = w \o c /\ Spaced(c) /\ row.at = l.at + Len(c)
        /\ \/ c = <<>>
           \/ Len(c) = PrefixWidth + 1 /\ c[1].k = "newline" /\ \A i \in 2..PrefixWidth + 1 : c[i].k = "space"
  <2>1. CASE l.width >= HexColumns
    <3>1. PICK c \in Seq(CellSet) : c = NewRow
      BY NewRowIs
    <3>2. PICK m \in Listings : m = Insert(l, c) /\ Shown(m) = w \o c /\ m.at = l.at + Len(c)
      BY <1>3, InsertIs
    <3>3. 0 \in Nat
      OBVIOUS
    <3>4. row = [m EXCEPT !.width = 0]
      BY <1>4, <2>1, <3>1, <3>2
    <3>5. row \in Listings /\ Shown(row) = Shown(m) /\ row.width = 0 /\ row.at = m.at
      BY <3>3, <3>4, WidthChanged
    <3>6. Spaced(c) /\ Len(c) = PrefixWidth + 1 /\ c[1].k = "newline"
          /\ \A i \in 2..PrefixWidth + 1 : c[i].k = "space"
      BY <3>1, NewRowIs
    <3>7. row.width < HexColumns /\ Shown(row) = w \o c /\ row.at = l.at + Len(c)
      BY <1>1, <3>2, <3>5
    <3> QED BY <3>5, <3>6, <3>7
  <2>2. CASE ~(l.width >= HexColumns)
    <3>1. row = l
      BY <1>4, <2>2
    <3>2. <<>> \in Seq(CellSet)
      OBVIOUS
    <3>3. PICK c \in Seq(CellSet) : c = <<>>
      BY <3>2
    <3>4. w \o c = w
      BY <3>3, ConcatEmptySeq
    <3>5. Len(c) = 0
      BY <3>3
    <3>6. Spaced(c)
      BY <3>5 DEF Spaced
    <3>7. row.width < HexColumns /\ row.at = l.at + Len(c)
      BY <1>1, <1>2, <2>2, <3>1, <3>5
    <3> QED BY <1>3, <3>1, <3>3, <3>4, <3>6, <3>7
  <2> QED BY <2>1, <2>2
<1>6. PICK h \in Seq(CellSet) : h = <<Hex(v)>> /\ Len(h) = 1 /\ h[1].k = "hex"
  <2>1. PICK x \in CellSet : x = Hex(v) /\ x.k = "hex"
    BY HexIs
  <2>2. <<x>> \in Seq(CellSet)
    OBVIOUS
  <2> QED BY <2>1, <2>2
<1>7. PICK m \in Listings : m = Insert(row, h) /\ Shown(m) = (w \o c) \o h /\ m.at = row.at + 1 /\ m.width = row.width
  <2>1. /\ Insert(row, h) \in Listings /\ Shown(Insert(row, h)) = Shown(row) \o h
        /\ Insert(row, h).at = row.at + Len(h) /\ Insert(row, h).width = row.width
    BY <1>5, <1>6, InsertIs
  <2>2. PICK m \in Listings : m = Insert(row, h)
    BY <2>1
  <2> QED BY <1>5, <1>6, <2>1, <2>2
<1>8. PICK n \in Nat : n = m.width + 1 /\ n <= HexColumns
  <2>1. row.width \in Nat /\ row.width + 1 <= HexColumns
    BY <1>1, <1>5, ListingIs
  <2>2. row.width + 1 \in Nat
    BY <2>1
  <2> QED BY <1>7, <2>1, <2>2
<1>9. WriteColumn(l, v) = [m EXCEPT !.width = n]
  <2>1. WriteColumn(l, v) = [Insert(row, <<Hex(v)>>) EXCEPT !.width = @ + 1]
    BY <1>4, Zenon DEF WriteColumn
  <2> QED BY <1>6, <1>7, <1>8, <2>1
<1>10. PICK z \in Listings : z = WriteColumn(l, v) /\ Shown(z) = Shown(m) /\ z.width = n /\ z.at = m.at
  BY <1>9, WidthChanged
<1>11. PICK y \in Seq(CellSet) : y = w \o c
  BY Joined
<1>12. PICK x \in Seq(CellSet) : x = y \o h /\ x = Shown(z)
  <2>1. y \o h \in Seq(CellSet)
    BY Joined
  <2> QED BY <1>7, <1>10, <1>11, <2>1
<1>13. Follows(w, x)
  <2>1. Spaced(h)
    BY <1>6 DEF Spaced
  <2>2. Follows(w, y) /\ Follows(y, x)
    BY <1>5, <1>11, <1>12, <2>1, SpacedFollows
  <2> QED BY <2>2, FollowsOn
<1>14. Linked(x, l.at, z.at)
  <2>1. PICK a \in Nat, n0 \in Nat, e \in Nat : a = l.at /\ n0 = Len(c) /\ e = z.at
    <3>1. l.at \in Nat /\ z.at \in Nat /\ Len(c) \in Nat
      BY ListingIs
    <3> QED BY <3>1
  <2>2. Len(y) = a + n0 /\ \A i \in 1..n0 : y[a + i] = c[i]
    <3>1. Len(w \o c) = Len(w) + Len(c) /\ \A i \in 1..Len(c) : (w \o c)[Len(w) + i] = c[i]
      BY Joined, Zenon
    <3> QED BY <1>3, <1>11, <2>1, <3>1, Zenon
  <2>3. Len(x) = Len(y) + 1 /\ x[Len(y) + 1] = h[1] /\ \A i \in 1..Len(y) : x[i] = y[i]
    <3>1. Len(y \o h) = Len(y) + Len(h) /\ (\A i \in 1..Len(h) : (y \o h)[Len(y) + i] = h[i])
          /\ \A i \in 1..Len(y) : (y \o h)[i] = y[i]
      BY Joined, Zenon
    <3>2. 1 \in 1..1
      OBVIOUS
    <3> QED BY <1>6, <1>12, <3>1, <3>2, Zenon
  <2>4. e = a + n0 + 1
    BY <1>5, <1>7, <1>10, <2>1
  <2>5. e \in 1..Len(x) /\ x[e].k = "hex"
    BY <1>6, <2>2, <2>3, <2>4
  <2>6. CASE c = <<>>
    <3>1. n0 = 0
      BY <2>1, <2>6
    <3>2. e = a + 1
      BY <2>4, <3>1
    <3> QED BY <2>1, <2>5, <3>2 DEF Linked
  <2>7. CASE Len(c) = PrefixWidth + 1 /\ c[1].k = "newline" /\ \A i \in 2..PrefixWidth + 1 : c[i].k = "space"
    <3>1. PICK p \in Nat : p = PrefixWidth /\ n0 = p + 1
      BY <1>1, <2>1, <2>7
    <3>2. \A i \in 1..n0 : x[a + i] = c[i]
      <4> TAKE i \in 1..n0
      <4>1. a + i \in 1..Len(y)
        BY <2>2
      <4> QED BY <2>2, <2>3, <4>1
    <3>3. x[a + 1].k = "newline"
      <4>1. 1 \in 1..n0
        BY <3>1
      <4> QED BY <2>7, <3>2, <4>1
    <3>4. ASSUME NEW i \in a + 2..e - 1 PROVE x[i].k = "space"
      <4>1. PICK j \in 2..p + 1 : i = a + j
        <5>1. i - a \in 2..p + 1 /\ i = a + (i - a)
          BY <2>4, <3>1
        <5> QED BY <5>1
      <4>2. j \in 1..n0
        BY <3>1, <4>1
      <4>3. x[i] = c[j]
        BY <3>2, <4>1, <4>2
      <4> QED BY <2>7, <3>1, <4>1, <4>3
    <3>5. e = a + p + 2
      BY <2>4, <3>1
    <3> QED BY <2>1, <2>5, <3>1, <3>3, <3>4, <3>5 DEF Linked
  <2> QED BY <1>5, <2>6, <2>7
<1>15. \A i \in 1..Len(c) : c[i].k \in {"newline", "space"}
  <2>1. CASE c = <<>>
    <3>1. Len(c) = 0
      BY <2>1
    <3> QED BY <3>1
  <2>2. CASE Len(c) = PrefixWidth + 1 /\ c[1].k = "newline" /\ \A i \in 2..PrefixWidth + 1 : c[i].k = "space"
    <3>1. \A i \in 1..Len(c) : i = 1 \/ i \in 2..PrefixWidth + 1
      BY <1>1, <2>2
    <3> QED BY <2>2, <3>1
  <2> QED BY <1>5, <2>1, <2>2
<1>16. Shown(z) = (Shown(l) \o c) \o <<Hex(v)>>
  BY <1>3, <1>6, <1>11, <1>12, Zenon
<1> QED BY <1>3, <1>8, <1>10, <1>12, <1>13, <1>14, <1>15, <1>16

\* m is what l becomes when n bytes are written.
Wrote(l, m, n) ==
  /\ m \in Listings /\ m.width <= HexColumns
  /\ Follows(Shown(l), Shown(m))
  /\ \E pos : Chain(Shown(m), l.at, n, pos) /\ pos[n] = m.at

LEMMA NothingWritten ==
  ASSUME NEW l \in Listings, l.width <= HexColumns
  PROVE  Wrote(l, l, 0)
<1>1. PICK w \in Seq(CellSet) : w = Shown(l) /\ Len(w) = l.at /\ l.at \in Nat
  BY ShownIs, ListingIs
<1>2. Follows(w, w)
  BY DEF Follows, Keeps, Like
<1>4. PICK pos : pos = [i \in 0..0 |-> l.at]
  OBVIOUS
<1>5. pos \in [0..0 -> Nat] /\ pos[0] = l.at
  BY <1>1, <1>4
<1>6. Chain(w, l.at, 0, pos)
  BY <1>1, <1>5 DEF Chain
<1> QED BY <1>1, <1>2, <1>5, <1>6 DEF Wrote

LEMMA OneMoreWritten ==
  ASSUME NEW l \in Listings, NEW m, NEW n \in Nat, Wrote(l, m, n), NEW v \in Nat
  PROVE  Wrote(l, WriteColumn(m, v), n + 1)
<1>1. m \in Listings /\ m.width <= HexColumns
  BY DEF Wrote
<1>2. PICK w \in Seq(CellSet) : w = Shown(l) /\ Len(w) = l.at
  BY ShownIs
<1>3. PICK x \in Seq(CellSet) : x = Shown(m) /\ Len(x) = m.at
  BY <1>1, ShownIs
<1>4. PICK pos : Chain(x, l.at, n, pos) /\ pos[n] = m.at
  BY <1>3 DEF Wrote
<1>5. PICK z \in Listings : z = WriteColumn(m, v) /\ z.width <= HexColumns
  BY <1>1, ColumnWritten
<1>6. PICK y \in Seq(CellSet) : y = Shown(z) /\ Len(y) = z.at
  BY ShownIs
<1>7. Follows(w, x) /\ Follows(x, y) /\ Linked(y, m.at, z.at)
  <2>1. Follows(Shown(m), Shown(WriteColumn(m, v)))
        /\ Linked(Shown(WriteColumn(m, v)), m.at, WriteColumn(m, v).at)
    BY <1>1, ColumnWritten
  <2>2. Follows(Shown(l), Shown(m))
    BY DEF Wrote
  <2> QED BY <1>2, <1>3, <1>5, <1>6, <2>1, <2>2, Zenon
<1>8. Chain(y, l.at, n, pos)
  <2>1. Keeps(x, y, Len(x))
    BY <1>7 DEF Follows
  <2> QED BY <1>4, <2>1, ChainStays
<1>9. \E more : Chain(y, l.at, n + 1, more) /\ more[n + 1] = z.at
  <2>1. PICK q \in Nat : q = z.at
    BY ListingIs
  <2>2. Linked(y, pos[n], q)
    BY <1>4, <1>7, <2>1
  <2>3. \E more : Chain(y, l.at, n + 1, more) /\ more[n + 1] = q
    BY <1>8, <2>2, ChainLonger
  <2> QED BY <2>1, <2>3
<1>10. Follows(w, y)
  BY <1>7, FollowsOn
<1>11. Wrote(l, z, n + 1)
  BY <1>2, <1>5, <1>6, <1>9, <1>10 DEF Wrote
<1> QED BY <1>5, <1>11

\* write_out in pass one, byte by byte.
LEMMA ColumnsUnfold ==
  ASSUME NEW l \in Listings, l.width <= HexColumns, NEW bytes \in Seq(Nat)
  PROVE  \E u : /\ u[0] = l /\ Columns(l, bytes) = u[Len(bytes)]
               /\ \A i \in 1..Len(bytes) : u[i] = WriteColumn(u[i - 1], bytes[i])
<1> DEFINE After(f, i) == IF i = 0 THEN l ELSE WriteColumn(f[i - 1], bytes[i])
           S == {m \in Listings : m.width <= HexColumns}
<1>1. PICK N \in Nat : N = Len(bytes) /\ DOMAIN bytes = 1..N
  OBVIOUS
<1>2. ASSUME NEW i \in 1..N, NEW m \in S PROVE WriteColumn(m, bytes[i]) \in S
  <2>1. bytes[i] \in Nat /\ m \in Listings /\ m.width <= HexColumns
    BY <1>1
  <2> QED BY <2>1, ColumnWritten
<1>3. PICK G : G = [i \in 1..N |-> [m \in S |-> WriteColumn(m, bytes[i])]]
  OBVIOUS
<1>4. Steps(N, S, l, G)
  <2>1. ASSUME NEW i \in 1..N PROVE [m \in S |-> WriteColumn(m, bytes[i])] \in [S -> S]
    <3> HIDE DEF S
    <3> QED BY <1>2
  <2>2. G \in [1..N -> [S -> S]]
    BY <1>3, <2>1
  <2> QED BY <2>2 DEF Steps
<1> HIDE DEF S
<1>5. PICK f : Unfolds(f, N, S, l, G)
  BY <1>4, RecursiveFunction
<1>6. f \in [0..N -> S] /\ f[0] = l /\ \A i \in 1..N : f[i] = G[i][f[i - 1]]
  BY <1>5 DEF Unfolds
<1>7. f = [i \in 0..N |-> After(f, i)]
  <2>1. ASSUME NEW i \in 0..N PROVE f[i] = After(f, i)
    <3>1. CASE i = 0
      BY <1>6, <3>1
    <3>2. CASE i # 0
      <4>1. i \in 1..N /\ i - 1 \in 0..N
        BY <3>2
      <4>2. f[i - 1] \in S
        BY <1>6, <4>1
      <4>3. f[i] = WriteColumn(f[i - 1], bytes[i])
        BY <1>3, <1>6, <4>1, <4>2
      <4> QED BY <3>2, <4>3
    <3> QED BY <3>1, <3>2
  <2>2. f = [i \in 0..N |-> f[i]]
    BY <1>6
  <2> HIDE DEF After
  <2> QED BY <2>1, <2>2
<1>8. PICK u : u = CHOOSE g : g = [i \in 0..N |-> After(g, i)]
  OBVIOUS
<1>9. u = [i \in 0..N |-> After(u, i)]
  <2> HIDE DEF After
  <2> QED BY <1>7, <1>8
<1>10. \A i \in 0..N : u[i] = After(u, i)
  <2> HIDE DEF After
  <2> QED BY <1>9
<1>11. u[0] = l
  <2>1. 0 \in 0..N
    OBVIOUS
  <2> QED BY <1>10, <2>1
<1>12. \A i \in 1..N : u[i] = WriteColumn(u[i - 1], bytes[i])
  <2> TAKE i \in 1..N
  <2>1. i \in 0..N /\ i # 0
    OBVIOUS
  <2> QED BY <1>10, <2>1
<1>13. Columns(l, bytes) = u[N]
  BY <1>1, <1>8 DEF Columns
<1> QED BY <1>1, <1>11, <1>12, <1>13

LEMMA ColumnsWritten ==
  ASSUME NEW l \in Listings, l.width <= HexColumns, NEW bytes \in Seq(Nat)
  PROVE  Wrote(l, Columns(l, bytes), Len(bytes))
<1>1. PICK N \in Nat : N = Len(bytes) /\ \A i \in 1..N : bytes[i] \in Nat
  OBVIOUS
<1>2. PICK u : u[0] = l /\ Columns(l, bytes) = u[N] /\ \A i \in 1..N : u[i] = WriteColumn(u[i - 1], bytes[i])
  BY <1>1, ColumnsUnfold
<1> DEFINE T == {i \in 0..N : Wrote(l, u[i], i)}
<1>3. 0 \in T
  <2>1. 0 \in 0..N
    OBVIOUS
  <2> QED BY <1>2, <2>1, NothingWritten
<1>4. ASSUME NEW n \in 0..(N - 1), n \in T PROVE n + 1 \in T
  <2>1. PICK i \in 1..N : i = n + 1 /\ i \in 0..N /\ i - 1 = n
    OBVIOUS
  <2>2. bytes[i] \in Nat /\ n \in Nat /\ Wrote(l, u[n], n)
    BY <1>1, <1>4
  <2>3. u[i] = WriteColumn(u[n], bytes[i])
    BY <1>2, <2>1
  <2>4. Wrote(l, u[i], n + 1)
    BY <2>2, <2>3, OneMoreWritten
  <2> QED BY <2>1, <2>4
<1>5. 0..N \subseteq T
  <2> HIDE DEF T
  <2> QED BY <1>3, <1>4, BoundedInduction
<1>6. N \in 0..N
  OBVIOUS
<1> QED BY <1>1, <1>2, <1>5, <1>6

\* What pass two may make of a listing.
Overlaid(w, x) ==
  /\ Len(x) = Len(w)
  /\ \A i \in 1..Len(w) : x[i] # w[i] => w[i].k = "hex" /\ x[i].k = "hex"

LEMMA OverlaidKeeps ==
  ASSUME NEW w \in Seq(CellSet), NEW x \in Seq(CellSet), Overlaid(w, x), NEW m \in 0..Len(w)
  PROVE  Keeps(w, x, m)
BY DEF Overlaid, Keeps, Like

LEMMA OverlaidLonger ==
  ASSUME NEW w \in Seq(CellSet), NEW x \in Seq(CellSet), Overlaid(w, x),
         NEW i \in 1..Len(w), x[i].k = "hex", NEW c \in CellSet, c.k = "hex"
  PROVE  [x EXCEPT ![i] = c] \in Seq(CellSet) /\ Overlaid(w, [x EXCEPT ![i] = c])
<1>1. Len(x) = Len(w) /\ \A j \in 1..Len(w) : x[j] # w[j] => w[j].k = "hex" /\ x[j].k = "hex"
  BY DEF Overlaid
<1>2. PICK y : y = [x EXCEPT ![i] = c]
  OBVIOUS
<1>3. y \in Seq(CellSet)
  <2>1. PICK n \in Nat : n = Len(x) /\ x \in [1..n -> CellSet]
    OBVIOUS
  <2>2. y \in [1..n -> CellSet]
    BY <1>2, <2>1
  <2> QED BY <2>2
<1>4. Len(y) = Len(w) /\ \A j \in 1..Len(w) : y[j] = IF j = i THEN c ELSE x[j]
  BY <1>1, <1>2
<1>5. ASSUME NEW j \in 1..Len(w), y[j] # w[j] PROVE w[j].k = "hex" /\ y[j].k = "hex"
  <2>1. CASE j = i
    <3>1. w[i].k = "hex"
      BY <1>1
    <3> QED BY <1>4, <2>1, <3>1
  <2>2. CASE j # i
    BY <1>1, <1>4, <1>5, <2>2
  <2> QED BY <2>1, <2>2
<1> QED BY <1>2, <1>3, <1>4, <1>5 DEF Overlaid

\* Pass two finds the next column.
LEMMA ColumnFound ==
  ASSUME NEW m \in Listings, NEW q \in Nat, Linked(m.buf, m.at, q), NEW v \in Nat
  PROVE  /\ OverwriteColumn(m, v) = [buf |-> [m.buf EXCEPT ![q] = Hex(v)], at |-> q, width |-> m.width + 1]
         /\ q \in 1..Len(m.buf) /\ m.buf[q].k = "hex"
<1>1. PICK b \in Seq(CellSet), a \in Nat, n \in Nat :
        m = [buf |-> b, at |-> a, width |-> n] /\ b = m.buf /\ a = m.at /\ n = m.width
  BY ListingIs
<1>2. q \in 1..Len(b) /\ b[q].k = "hex" /\ PrefixWidth \in Nat
  BY <1>1, WidthsAssumption DEF Linked
<1> DEFINE ahead == {i \in a + 1..Len(b) : b[i].k \notin {"newline", "space"}}
<1>3. PICK to : to = IF b[a + 1].k = "newline" THEN CHOOSE i \in ahead : \A j \in ahead : i <= j ELSE a + 1
  OBVIOUS
<1>4. to = q
  <2>1. CASE q = a + 1
    BY <1>2, <1>3, <2>1
  <2>2. CASE q = a + PrefixWidth + 2 /\ b[a + 1].k = "newline" /\ \A i \in a + 2..q - 1 : b[i].k = "space"
    <3>1. q \in ahead
      BY <1>2, <2>2
    <3>2. ASSUME NEW j \in ahead PROVE q <= j
      <4>1. j \in a + 1..Len(b) /\ b[j].k # "newline" /\ b[j].k # "space"
        OBVIOUS
      <4>2. j # a + 1
        BY <2>2, <4>1
      <4>3. ~(j \in a + 2..q - 1)
        BY <2>2, <4>1
      <4> QED BY <1>2, <4>1, <4>2, <4>3
    <3>3. ASSUME NEW i \in ahead, \A j \in ahead : i <= j PROVE i = q
      <4>1. i <= q /\ q <= i /\ i \in Int
        BY <3>1, <3>2, <3>3
      <4> QED BY <4>1
    <3>4. (CHOOSE i \in ahead : \A j \in ahead : i <= j) = q
      <4>1. \E i \in ahead : \A j \in ahead : i <= j
        BY <3>1, <3>2
      <4> HIDE DEF ahead
      <4> QED BY <3>3, <4>1
    <3> QED BY <1>3, <2>2, <3>4
  <2> QED BY <1>1, <2>1, <2>2 DEF Linked
<1>5. OverwriteColumn(m, v) = [m EXCEPT !.buf[to] = Hex(v), !.at = to, !.width = @ + 1]
  BY <1>1, <1>3 DEF OverwriteColumn
<1>6. PICK z : z = [m EXCEPT !.buf[to] = Hex(v), !.at = to, !.width = @ + 1]
  OBVIOUS
<1>7. z = [buf |-> [b EXCEPT ![q] = Hex(v)], at |-> q, width |-> n + 1]
  BY <1>1, <1>4, <1>6
<1> QED BY <1>1, <1>2, <1>5, <1>6, <1>7

\* Pass two has written the first bytes of those at pos over the cells b.
Overwriting(b, pos, bytes, i, m) ==
  /\ m \in Listings /\ m.at = pos[i] /\ Overlaid(b, m.buf)
  /\ \A q \in 1..Len(b) : (\A j \in 1..i : pos[j] # q) => m.buf[q] = b[q]
  /\ \A j \in 1..i : m.buf[pos[j]] = Hex(bytes[j])

\* Columns follow each other.
LEMMA ChainRises ==
  ASSUME NEW b, NEW o, NEW n, NEW pos, Chain(b, o, n, pos)
  PROVE  /\ \A i \in 1..n : pos[i] \in 1..Len(b) /\ b[pos[i]].k = "hex"
         /\ \A i \in 0..n : \A j \in 0..n : j < i => pos[j] < pos[i]
<1>1. n \in Nat /\ pos \in [0..n -> Nat] /\ \A i \in 1..n : Linked(b, pos[i - 1], pos[i])
  BY DEF Chain
<1>2. \A i \in 1..n : pos[i - 1] < pos[i]
  <2> TAKE i \in 1..n
  <2>1. i - 1 \in 0..n /\ i \in 0..n
    BY <1>1
  <2>2. PICK p \in Nat, q \in Nat : p = pos[i - 1] /\ q = pos[i]
    BY <1>1, <2>1
  <2>3. q = p + 1 \/ q = p + PrefixWidth + 2
    BY <1>1, <2>2 DEF Linked
  <2>4. p < q
    BY <2>3, WidthsAssumption
  <2> QED BY <2>2, <2>4
<1> DEFINE T == {i \in 0..n : \A j \in 0..n : j < i => pos[j] < pos[i]}
<1>3. 0 \in T
  BY <1>1
<1>4. ASSUME NEW m \in 0..(n - 1), m \in T PROVE m + 1 \in T
  <2>1. PICK i \in 1..n : i = m + 1 /\ i - 1 = m /\ i \in 0..n /\ m \in 0..n
    BY <1>1
  <2>2. ASSUME NEW j \in 0..n, j < i PROVE pos[j] < pos[i]
    <3>1. pos[j] \in Nat /\ pos[m] \in Nat /\ pos[i] \in Nat /\ pos[m] < pos[i]
      BY <1>1, <1>2, <2>1
    <3>2. j = m \/ j < m
      BY <2>1, <2>2
    <3>3. pos[j] <= pos[m]
      BY <1>4, <3>1, <3>2
    <3> QED BY <3>1, <3>3
  <2> QED BY <2>1, <2>2
<1>5. 0..n \subseteq T
  <2> HIDE DEF T
  <2> QED BY <1>1, <1>3, <1>4, BoundedInduction
<1>6. \A i \in 1..n : pos[i] \in 1..Len(b) /\ b[pos[i]].k = "hex"
  BY <1>1 DEF Linked
<1> QED BY <1>5, <1>6

LEMMA OneMoreOverwritten ==
  ASSUME NEW b \in Seq(CellSet), NEW o, NEW n, NEW pos, Chain(b, o, n, pos),
         NEW bytes, NEW i \in 1..n, NEW m, Overwriting(b, pos, bytes, i - 1, m), NEW v \in Nat, v = bytes[i]
  PROVE  Overwriting(b, pos, bytes, i, OverwriteColumn(m, v))
<1>1. m \in Listings /\ m.at = pos[i - 1] /\ Overlaid(b, m.buf)
  BY DEF Overwriting
<1>2. PICK x \in Seq(CellSet) : x = m.buf
  BY <1>1, ListingIs
<1>3. Chain(x, o, n, pos)
  <2>1. Len(b) \in 0..Len(b)
    OBVIOUS
  <2>2. Keeps(b, x, Len(b))
    BY <1>1, <1>2, <2>1, OverlaidKeeps
  <2> QED BY <2>2, ChainStays
<1>4. PICK q \in Nat : q = pos[i] /\ Linked(x, m.at, q)
  <2>1. pos \in [0..n -> Nat] /\ n \in Nat /\ Linked(x, pos[i - 1], pos[i])
    BY <1>3 DEF Chain
  <2>2. pos[i] \in Nat
    BY <2>1
  <2> QED BY <1>1, <2>1, <2>2
<1>5. OverwriteColumn(m, v) = [buf |-> [x EXCEPT ![q] = Hex(v)], at |-> q, width |-> m.width + 1]
      /\ q \in 1..Len(x) /\ x[q].k = "hex"
  BY <1>1, <1>2, <1>4, ColumnFound
<1>6. PICK c \in CellSet : c = Hex(v) /\ c.k = "hex"
  BY HexIs
<1>7. PICK y : y = [x EXCEPT ![q] = c]
  OBVIOUS
<1>8. q \in 1..Len(b) /\ Len(x) = Len(b)
  BY <1>1, <1>2, <1>5 DEF Overlaid
<1>9. y \in Seq(CellSet) /\ Overlaid(b, y)
  BY <1>1, <1>2, <1>5, <1>6, <1>7, <1>8, OverlaidLonger
<1>10. PICK w \in Nat : w = m.width + 1
  <2>1. m.width \in Nat
    BY <1>1, ListingIs
  <2> QED BY <2>1
<1>11. PICK z : z = [buf |-> y, at |-> q, width |-> w]
  OBVIOUS
<1>12. q <= Len(y)
  BY <1>8, <1>9 DEF Overlaid
<1>13. z \in Listings
  BY <1>9, <1>11, <1>12, ListingMade
<1>14. z.at = q /\ z.buf = y
  BY <1>11
<1>15. OverwriteColumn(m, v) = z
  BY <1>5, <1>6, <1>7, <1>10, <1>11
<1>16. n \in Nat /\ i - 1 \in 0..n /\ \A j \in 1..i : j \in 1..n /\ j \in 0..n /\ (j \in 1..i - 1 \/ j = i)
  BY DEF Chain
<1>17. \A r \in 1..Len(b) : (\A j \in 1..i : pos[j] # r) => y[r] = b[r]
  <2> SUFFICES ASSUME NEW r \in 1..Len(b), \A j \in 1..i : pos[j] # r PROVE y[r] = b[r]
    OBVIOUS
  <2>1. r # q
    BY <1>4
  <2>2. \A j \in 1..i - 1 : pos[j] # r
    <3>1. \A j \in 1..i - 1 : j \in 1..i
      BY <1>16
    <3> QED BY <3>1
  <2>3. x[r] = b[r]
    BY <1>2, <2>2 DEF Overwriting
  <2> QED BY <1>7, <1>8, <2>1, <2>3
<1>18. \A j \in 1..i : y[pos[j]] = Hex(bytes[j])
  <2> TAKE j \in 1..i
  <2>1. CASE j = i
    BY <1>4, <1>6, <1>7, <1>8, <2>1
  <2>2. CASE j # i
    <3>1. j \in 1..i - 1 /\ j \in 1..n /\ j \in 0..n /\ i \in 0..n /\ j < i
      BY <1>16, <2>2
    <3>2. pos[j] < q /\ pos[j] \in 1..Len(b) /\ pos[j] # q
      BY <1>4, <3>1, ChainRises
    <3>3. x[pos[j]] = Hex(bytes[j])
      BY <1>2, <3>1 DEF Overwriting
    <3> QED BY <1>7, <1>8, <3>2, <3>3
  <2> QED BY <2>1, <2>2
<1> QED BY <1>4, <1>9, <1>13, <1>14, <1>15, <1>17, <1>18 DEF Overwriting

\* write_out in pass two, byte by byte.
LEMMA ColumnsOverwritten ==
  ASSUME NEW l \in Listings, NEW bytes \in Seq(Nat), NEW pos, Chain(l.buf, l.at, Len(bytes), pos)
  PROVE  Overwriting(l.buf, pos, bytes, Len(bytes), Overwritten(l, bytes))
<1>1. PICK N \in Nat : N = Len(bytes) /\ DOMAIN bytes = 1..N
  OBVIOUS
<1>2. PICK b \in Seq(CellSet), o \in Nat : b = l.buf /\ o = l.at
  BY ListingIs
<1>3. Chain(b, o, N, pos)
  BY <1>1, <1>2
<1> DEFINE After(f, i) == IF i = 0 THEN l ELSE OverwriteColumn(f[i - 1], bytes[i])
           Next0(i, m) == IF OverwriteColumn(m, bytes[i]) \in Listings THEN OverwriteColumn(m, bytes[i]) ELSE m
<1>4. Overwriting(b, pos, bytes, 0, l)
  <2>1. pos[0] = l.at
    BY <1>2, <1>3 DEF Chain
  <2>2. \A j \in 1..0 : FALSE
    OBVIOUS
  <2> QED BY <1>2, <2>1, <2>2 DEF Overwriting, Overlaid
<1>5. ASSUME NEW i \in 1..N, NEW m, Overwriting(b, pos, bytes, i - 1, m)
      PROVE  Overwriting(b, pos, bytes, i, OverwriteColumn(m, bytes[i]))
  <2>1. bytes[i] \in Nat
    BY <1>1
  <2> QED BY <1>3, <1>5, <2>1, OneMoreOverwritten
\* Whatever starts with l and goes on by OverwriteColumn overwrites the columns.
<1>6. ASSUME NEW f, f[0] = l,
             \A i \in 1..N : Overwriting(b, pos, bytes, i - 1, f[i - 1]) => f[i] = OverwriteColumn(f[i - 1], bytes[i])
      PROVE  \A i \in 0..N : Overwriting(b, pos, bytes, i, f[i])
  <2> DEFINE T == {i \in 0..N : Overwriting(b, pos, bytes, i, f[i])}
  <2>1. 0 \in T
    <3>1. 0 \in 0..N
      OBVIOUS
    <3> QED BY <1>4, <1>6, <3>1
  <2>2. ASSUME NEW n \in 0..(N - 1), n \in T PROVE n + 1 \in T
    <3>1. PICK i \in 1..N : i = n + 1 /\ i \in 0..N /\ i - 1 = n
      OBVIOUS
    <3>2. Overwriting(b, pos, bytes, i - 1, f[i - 1])
      BY <2>2, <3>1
    <3>3. Overwriting(b, pos, bytes, i, f[i])
      BY <1>5, <1>6, <3>2
    <3> QED BY <3>1, <3>3
  <2>3. 0..N \subseteq T
    <3> HIDE DEF T
    <3> QED BY <2>1, <2>2, BoundedInduction
  <2> QED BY <2>3
<1>7. PICK f : f[0] = l /\ \A i \in 1..N : f[i] = Next0(i, f[i - 1])
  <2>1. PICK G : G = [i \in 1..N |-> [m \in Listings |-> Next0(i, m)]]
    OBVIOUS
  <2>2. Steps(N, Listings, l, G)
    <3>1. ASSUME NEW i \in 1..N PROVE [m \in Listings |-> Next0(i, m)] \in [Listings -> Listings]
      OBVIOUS
    <3>2. G \in [1..N -> [Listings -> Listings]]
      <4> HIDE DEF Next0
      <4> QED BY <2>1, <3>1
    <3> QED BY <3>2 DEF Steps
  <2>3. PICK f : Unfolds(f, N, Listings, l, G)
    BY <2>2, RecursiveFunction
  <2>4. f \in [0..N -> Listings] /\ f[0] = l /\ \A i \in 1..N : f[i] = G[i][f[i - 1]]
    BY <2>3 DEF Unfolds
  <2>5. ASSUME NEW i \in 1..N PROVE f[i] = Next0(i, f[i - 1])
    <3>1. i - 1 \in 0..N
      OBVIOUS
    <3>2. f[i - 1] \in Listings
      BY <2>4, <3>1
    <3> HIDE DEF Next0
    <3> QED BY <2>1, <2>4, <3>2
  <2> HIDE DEF Next0
  <2> QED BY <2>4, <2>5
<1>8. \A i \in 1..N : Overwriting(b, pos, bytes, i - 1, f[i - 1]) => f[i] = OverwriteColumn(f[i - 1], bytes[i])
  <2> TAKE i \in 1..N
  <2> HAVE Overwriting(b, pos, bytes, i - 1, f[i - 1])
  <2>1. OverwriteColumn(f[i - 1], bytes[i]) \in Listings
    BY <1>5 DEF Overwriting
  <2> QED BY <1>7, <2>1
<1>9. \A i \in 0..N : Overwriting(b, pos, bytes, i, f[i])
  BY <1>6, <1>7, <1>8
<1>10. [i \in 0..N |-> f[i]] = [i \in 0..N |-> After(f, i)]
  <2>1. ASSUME NEW i \in 0..N PROVE f[i] = After(f, i)
    <3>1. CASE i = 0
      BY <1>7, <3>1
    <3>2. CASE i # 0
      <4>1. i \in 1..N /\ i - 1 \in 0..N
        BY <3>2
      <4>2. f[i] = OverwriteColumn(f[i - 1], bytes[i])
        BY <1>8, <1>9, <4>1
      <4> QED BY <3>2, <4>2
    <3> QED BY <3>1, <3>2
  <2> HIDE DEF After
  <2> QED BY <2>1
<1>11. PICK h : h = [i \in 0..N |-> f[i]]
  OBVIOUS
<1>12. h = [i \in 0..N |-> After(h, i)]
  <2>1. ASSUME NEW i \in 0..N PROVE After(h, i) = After(f, i)
    <3>1. CASE i = 0
      BY <3>1
    <3>2. CASE i # 0
      <4>1. i - 1 \in 0..N
        BY <3>2
      <4>2. h[i - 1] = f[i - 1]
        BY <1>11, <4>1
      <4> QED BY <3>2, <4>2
    <3> QED BY <3>1, <3>2
  <2>2. [i \in 0..N |-> After(h, i)] = [i \in 0..N |-> After(f, i)]
    <3> HIDE DEF After
    <3> QED BY <2>1
  <2> HIDE DEF After
  <2> QED BY <1>10, <1>11, <2>2
<1>13. PICK u : u = CHOOSE g : g = [i \in 0..N |-> After(g, i)]
  OBVIOUS
<1>14. u = [i \in 0..N |-> After(u, i)]
  <2> HIDE DEF After
  <2> QED BY <1>12, <1>13
<1>15. \A i \in 0..N : u[i] = After(u, i)
  <2> HIDE DEF After
  <2> QED BY <1>14
<1>16. u[0] = l
  <2>1. 0 \in 0..N
    OBVIOUS
  <2> QED BY <1>15, <2>1
<1>17. \A i \in 1..N : u[i] = OverwriteColumn(u[i - 1], bytes[i])
  <2> TAKE i \in 1..N
  <2>1. i \in 0..N /\ i # 0
    OBVIOUS
  <2> QED BY <1>15, <2>1
<1>18. Overwriting(b, pos, bytes, N, u[N])
  <2>1. N \in 0..N
    OBVIOUS
  <2>2. \A i \in 0..N : Overwriting(b, pos, bytes, i, u[i])
    BY <1>6, <1>16, <1>17
  <2> QED BY <2>1, <2>2
<1>19. Overwritten(l, bytes) = u[N]
  BY <1>1, <1>13 DEF Overwritten
<1> QED BY <1>1, <1>2, <1>18, <1>19

LEMMA NewPrefix ==
  ASSUME NEW w \in Seq(CellSet), Complete(w),
         NEW c \in Seq(CellSet), Len(c) = PrefixWidth,
         \A i \in 1..PrefixWidth : c[i].k = "line" /\ c[i] = c[1]
  PROVE  Partial(w \o c, Len(w)) /\ Len(w \o c) = Len(w) + PrefixWidth
<1>1. PICK x \in Seq(CellSet) : x = w \o c
  BY Joined
<1>2. PICK m \in Nat, e \in Nat : m = Len(w) /\ e = PrefixWidth /\ e >= 1
  BY WidthsAssumption
<1>3. Len(x) = m + e /\ (\A i \in 1..m : x[i] = w[i]) /\ \A i \in 1..e : x[m + i] = c[i]
  <2>1. Len(w \o c) = Len(w) + Len(c) /\ (\A i \in 1..Len(w) : (w \o c)[i] = w[i])
        /\ \A i \in 1..Len(c) : (w \o c)[Len(w) + i] = c[i]
    BY Joined, Zenon
  <2> QED BY <1>1, <1>2, <2>1, Zenon
<1>4. CompleteUpTo(x, m)
  <2>1. Keeps(w, x, m)
    <3>1. m <= Len(w) /\ m <= Len(x)
      BY <1>2, <1>3
    <3> QED BY <1>3, <3>1 DEF Keeps, Like
  <2> QED BY <1>2, <2>1, UpToKept DEF Complete
<1>5. ASSUME NEW i \in m + 1..m + e PROVE x[i].k = "line" /\ x[i] = x[m + 1]
  <2>1. PICK j \in 1..e : i = m + j
    <3>1. i - m \in 1..e /\ i = m + (i - m)
      OBVIOUS
    <3> QED BY <3>1
  <2>2. 1 \in 1..e
    BY <1>2
  <2>3. x[i] = c[j] /\ x[m + 1] = c[1]
    BY <1>3, <2>1, <2>2
  <2> QED BY <1>2, <2>3
<1>6. \A i \in m + e + 1..Len(x) : FALSE
  BY <1>3
<1>7. Partial(x, m)
  BY <1>2, <1>3, <1>4, <1>5, <1>6 DEF Partial
<1> QED BY <1>1, <1>2, <1>3, <1>7

LEMMA PrefixIs ==
  ASSUME contents \in Seq(Nat), NEW n \in Nat
  PROVE  /\ Prefix(n) \in Seq(CellSet) /\ Len(Prefix(n)) = PrefixWidth
         /\ \A i \in 1..PrefixWidth : Prefix(n)[i].k = "line" /\ Prefix(n)[i] = Prefix(n)[1]
<1>1. PICK e \in Nat : e = PrefixWidth
  BY WidthsAssumption
<1>2. "line" \in CellKinds /\ "" \in FileNames /\ program_counter \in Nat
  <2>1. "line" \in CellKinds
    BY DEF CellKinds
  <2>2. program_counter \in Nat
    BY DEF program_counter
  <2> QED BY <2>1, <2>2, NoName
<1>3. PICK c \in CellSet : c = Cell("line", "", n, program_counter) /\ c.k = "line"
  BY <1>2, CellMade
<1>4. PICK p : p = [i \in 1..e |-> c]
  OBVIOUS
<1>5. p \in Seq(CellSet)
  BY <1>4
<1>6. Len(p) = e
  BY <1>4, <1>5
<1>7. \A i \in 1..e : p[i] = c
  BY <1>4
<1>8. Prefix(n) = p
  BY <1>1, <1>3, <1>4 DEF Prefix
<1>9. \A i \in 1..PrefixWidth : p[i].k = "line" /\ p[i] = p[1]
  <2> TAKE i \in 1..PrefixWidth
  <2>1. i \in 1..e /\ 1 \in 1..e
    BY <1>1
  <2> QED BY <1>3, <1>7, <2>1
<1> QED BY <1>1, <1>5, <1>6, <1>8, <1>9

LEMMA TextIs ==
  ASSUME NEW file \in FileNames, NEW n \in Nat
  PROVE  Text(file, n) \in CellSet /\ Text(file, n).k = "text"
<1>1. 0 \in Nat /\ "text" \in CellKinds
  BY DEF CellKinds
<1> QED BY <1>1, CellMade DEF Text

LEMMA BannerIs ==
  ASSUME NEW file \in FileNames
  PROVE  Banner(file) \in Seq(CellSet) /\ Complete(Banner(file))
<1>1. 0 \in Nat /\ "banner" \in CellKinds
  BY DEF CellKinds
<1>2. PICK c \in CellSet : c = Cell("banner", file, 0, 0) /\ c.k = "banner"
  BY <1>1, CellMade
<1>3. <<c>> \in Seq(CellSet)
  OBVIOUS
<1>4. PICK b \in Seq(CellSet) : b = <<c>>
  BY <1>3
<1>5. \A i \in 1..Len(b) : b[i].k # "line"
  BY <1>2, <1>4
<1>6. Banner(file) = b
  BY <1>2, <1>4 DEF Banner
<1> QED BY <1>5, <1>6, NoLineComplete

\* Cells that are neither of a prefix nor text.
LEMMA SpacesAre ==
  ASSUME NEW k \in {"dash", "space"}, NEW n \in Int
  PROVE  Cells(k, n) \in Seq(CellSet) /\ Spaced(Cells(k, n))
<1>1. k \in CellKinds
  BY DEF CellKinds
<1>2. Cells(k, n) \in Seq(CellSet) /\ \A i \in 1..Len(Cells(k, n)) : Cells(k, n)[i].k = k
  BY <1>1, CellsAre
<1> QED BY <1>2 DEF Spaced

\* A row of do_listing_for_line for a line that goes on.
Row(i) == Prefix(old_line_num + i) \o Cells("space", HexColumns) \o <<Text(curr_input_file, line_start + i)>>

LEMMA RowComplete ==
  ASSUME contents \in Seq(Nat), old_line_num \in Nat, line_start \in Nat, curr_input_file \in FileNames,
         NEW i \in Nat
  PROVE  Row(i) \in Seq(CellSet) /\ Complete(Row(i))
<1>1. PICK none \in Seq(CellSet) : none = <<>>
  <2>1. <<>> \in Seq(CellSet)
    OBVIOUS
  <2> QED BY <2>1
<1>2. PICK n \in Nat, l \in Nat : n = old_line_num + i /\ l = line_start + i
  OBVIOUS
<1>3. PICK p \in Seq(CellSet) : p = Prefix(n) /\ Len(p) = PrefixWidth
                                /\ \A j \in 1..PrefixWidth : p[j].k = "line" /\ p[j] = p[1]
  BY PrefixIs
<1>4. Complete(none)
  <2>1. \A j \in 1..Len(none) : none[j].k # "line"
    BY <1>1
  <2> QED BY <2>1, NoLineComplete
<1>5. Partial(none \o p, Len(none))
  BY <1>3, <1>4, NewPrefix
<1>6. none \o p = p
  BY <1>1, ConcatEmptySeq
<1>7. "space" \in {"dash", "space"} /\ HexColumns \in Int
  BY WidthsAssumption
<1>8. PICK s \in Seq(CellSet) : s = Cells("space", HexColumns) /\ Spaced(s)
  BY <1>7, SpacesAre
<1>9. PICK a \in Seq(CellSet) : a = p \o s
  BY Joined
<1>10. Partial(a, Len(none))
  BY <1>5, <1>6, <1>8, <1>9, PartialGrows
<1>11. PICK t \in CellSet : t = Text(curr_input_file, l) /\ t.k = "text"
  BY TextIs
<1>12. Complete(a \o <<t>>)
  BY <1>10, <1>11, PartialCloses
<1>13. a \o <<t>> \in Seq(CellSet)
  <2>1. <<t>> \in Seq(CellSet)
    OBVIOUS
  <2> QED BY <2>1, Joined
<1>14. Row(i) = a \o <<t>>
  BY <1>2, <1>3, <1>8, <1>9, <1>11, Zenon DEF Row
<1> QED BY <1>12, <1>13, <1>14

\* The text of a line finishes it; more lines that are complete may follow.
LEMMA LineFinished ==
  ASSUME NEW a \in Seq(CellSet), NEW s, Partial(a, s), NEW t \in CellSet, t.k = "text",
         NEW c \in Seq(CellSet), c = <<t>>, NEW r \in Seq(CellSet), Complete(r)
  PROVE  Complete(a \o (c \o r))
<1>1. (a \o c) \o r = a \o (c \o r)
  BY ConcatAssociative
<1>2. PICK b \in Seq(CellSet) : b = a \o c
  BY Joined
<1>3. Complete(b)
  BY <1>2, PartialCloses
<1>4. Complete(b \o r)
  BY <1>3, CompleteJoined
<1> QED BY <1>1, <1>2, <1>4

\* do_listing_for_line fills up the row, puts the text of the line behind it
\* and then the n rows of those it goes on in.
ListsAs(l, n, end, d, tt, more, z) ==
  /\ 1..n = 1..end - line_start - 1
  /\ \A i \in 1..Len(d) : d[i].k = "dash"
  /\ tt = <<Text(curr_input_file, line_start)>>
  /\ more = [i \in 1..n |-> Row(i)] /\ FlattenSeq(more) \in Seq(CellSet)
  /\ z = Listed(l, end) /\ z.width = HexColumns
  /\ Shown(z) = (Shown(l) \o d) \o (tt \o FlattenSeq(more))

LEMMA ListedAs ==
  ASSUME contents \in Seq(Nat), old_line_num \in Nat, line_start \in Nat, curr_input_file \in FileNames,
         NEW l \in Listings, l.width <= HexColumns, NEW end \in Int
  PROVE  \E n \in Nat, d \in Seq(CellSet), tt \in Seq(CellSet), z \in Listings : \E more :
           ListsAs(l, n, end, d, tt, more, z)
<1>1. PICK w \in Seq(CellSet) : w = Shown(l)
  BY ShownIs
<1>2. PICK gap \in Int : gap = HexColumns - l.width /\ HexColumns \in Nat
  <2>1. HexColumns \in Nat /\ l.width \in Nat
    BY WidthsAssumption, ListingIs
  <2> QED BY <2>1
<1>3. PICK d \in Seq(CellSet) : d = Cells("dash", gap) /\ \A i \in 1..Len(d) : d[i].k = "dash"
  <2>1. "dash" \in CellKinds
    BY DEF CellKinds
  <2> QED BY <2>1, CellsAre
<1>4. PICK m \in Listings : m = Insert(l, d) /\ Shown(m) = w \o d
  BY <1>1, InsertIs
<1>5. PICK filled \in Listings : filled = [m EXCEPT !.width = HexColumns] /\ Shown(filled) = w \o d
                                 /\ filled.width = HexColumns
  <2>1. [m EXCEPT !.width = HexColumns] \in Listings
        /\ Shown([m EXCEPT !.width = HexColumns]) = Shown(m)
        /\ [m EXCEPT !.width = HexColumns].width = HexColumns
    BY <1>2, WidthChanged, Zenon
  <2>2. PICK filled \in Listings : filled = [m EXCEPT !.width = HexColumns]
    BY <2>1
  <2> QED BY <1>4, <2>1, <2>2
<1>6. PICK n \in Nat, k \in Int : k = end - line_start - 1 /\ 1..k = 1..n
  <2>1. PICK k \in Int : k = end - line_start - 1
    OBVIOUS
  <2>2. CASE k >= 0
    <3>1. k \in Nat /\ 1..k = 1..k
      BY <2>2
    <3> QED BY <2>1, <3>1
  <2>3. CASE ~(k >= 0)
    <3>1. 0 \in Nat /\ 1..k = 1..0
      BY <2>3
    <3> QED BY <2>1, <3>1
  <2> QED BY <2>2, <2>3
<1>7. PICK more : more = [i \in 1..n |-> Row(i)]
  OBVIOUS
<1>8. more \in Seq(Seq(CellSet))
  <2>1. ASSUME NEW i \in 1..n PROVE Row(i) \in Seq(CellSet)
    <3>1. i \in Nat
      OBVIOUS
    <3> QED BY <3>1, RowComplete
  <2> QED BY <1>7, <2>1
<1>9. PICK r \in Seq(CellSet) : r = FlattenSeq(more)
  <2>1. <<>> \in Seq(CellSet)
    OBVIOUS
  <2>2. \A a, b \in Seq(CellSet) : a \o b \in Seq(CellSet)
    BY Joined
  <2>3. PICK S : S = Seq(CellSet)
    OBVIOUS
  <2>4. FlattenSeq(more) \in S
    BY <1>8, <2>1, <2>2, <2>3, FlattenStays
  <2> QED BY <2>3, <2>4
<1>10. PICK t \in CellSet : t = Text(curr_input_file, line_start) /\ t.k = "text"
  BY TextIs
<1>11. PICK tt \in Seq(CellSet) : tt = <<t>>
  <2>1. <<t>> \in Seq(CellSet)
    OBVIOUS
  <2> QED BY <2>1
<1>12. PICK e \in Seq(CellSet) : e = tt \o r
  BY Joined
<1>13. PICK z \in Listings : z = Insert(filled, e) /\ Shown(z) = (w \o d) \o e /\ z.width = HexColumns
  <2>1. Insert(filled, e) \in Listings /\ Shown(Insert(filled, e)) = Shown(filled) \o e
        /\ Insert(filled, e).width = filled.width
    BY InsertIs, Zenon
  <2>2. PICK z \in Listings : z = Insert(filled, e)
    BY <2>1
  <2> QED BY <1>5, <2>1, <2>2
<1>14. Listed(l, end) = z
  <2>1. Insert(l, Cells("dash", HexColumns - l.width)) = m
    BY <1>2, <1>3, <1>4, Zenon
  <2>2. [i \in 1..end - line_start - 1 |-> Row(i)] = more
    BY <1>6, <1>7, Zenon
  <2>3. Listed(l, end) = Insert([Insert(l, Cells("dash", HexColumns - l.width)) EXCEPT !.width = HexColumns],
                                <<Text(curr_input_file, line_start)>>
                                  \o FlattenSeq([i \in 1..end - line_start - 1 |-> Row(i)]))
    BY Zenon DEF Listed, Row
  <2> QED BY <1>5, <1>9, <1>10, <1>11, <1>12, <1>13, <2>1, <2>2, <2>3, Zenon
<1>15. Shown(z) = (Shown(l) \o d) \o (tt \o FlattenSeq(more))
  BY <1>1, <1>9, <1>12, <1>13, Zenon
<1>16. FlattenSeq(more) \in Seq(CellSet)
  BY <1>9
<1>17. ListsAs(l, n, end, d, tt, more, z)
  BY <1>3, <1>6, <1>7, <1>10, <1>11, <1>13, <1>14, <1>15, <1>16 DEF ListsAs
<1> QED BY <1>17

\* Only whole lines are listed by it.
LEMMA ListedIs ==
  ASSUME contents \in Seq(Nat), old_line_num \in Nat, line_start \in Nat, curr_input_file \in FileNames,
         NEW l \in Listings, l.width <= HexColumns, NEW end \in Int
  PROVE  /\ Listed(l, end) \in Listings /\ Listed(l, end).width = HexColumns
         /\ Keeps(Shown(l), Shown(Listed(l, end)), Len(Shown(l)))
         /\ \A s : Partial(Shown(l), s) => Complete(Shown(Listed(l, end)))
<1>0. PICK n \in Nat, d \in Seq(CellSet), tt \in Seq(CellSet), z \in Listings :
        \E more : ListsAs(l, n, end, d, tt, more, z)
  BY ListedAs
<1>1. PICK w \in Seq(CellSet) : w = Shown(l)
  BY ShownIs
<1>2. PICK more : ListsAs(l, n, end, d, tt, more, z)
  BY <1>0
<1>3. z = Listed(l, end) /\ z.width = HexColumns
  BY <1>2 DEF ListsAs
<1>4. Spaced(d)
  BY <1>2 DEF Spaced, ListsAs
<1>5. PICK r \in Seq(CellSet) : r = FlattenSeq(more) /\ Complete(r)
  <2> DEFINE C == {c \in Seq(CellSet) : Complete(c)}
  <2>1. <<>> \in C
    <3>1. <<>> \in Seq(CellSet) /\ \A i \in 1..Len(<<>>) : <<>>[i].k # "line"
      OBVIOUS
    <3> QED BY <3>1, NoLineComplete
  <2>2. \A a, b \in C : a \o b \in C
    BY CompleteJoined, Joined
  <2>3. more \in Seq(C)
    <3>1. ASSUME NEW i \in 1..n PROVE Row(i) \in C
      <4>1. i \in Nat
        OBVIOUS
      <4> QED BY <4>1, RowComplete
    <3>2. more = [i \in 1..n |-> Row(i)]
      BY <1>2 DEF ListsAs
    <3> HIDE DEF C
    <3> QED BY <3>1, <3>2
  <2>4. FlattenSeq(more) \in C
    <3> HIDE DEF C
    <3> QED BY <2>1, <2>2, <2>3, FlattenStays
  <2> QED BY <2>4
<1>6. PICK t \in CellSet : t = Text(curr_input_file, line_start) /\ t.k = "text"
  BY TextIs
<1>7. tt = <<t>>
  BY <1>2, <1>6 DEF ListsAs
<1>8. PICK a \in Seq(CellSet) : a = w \o d
  BY Joined
<1>9. PICK e \in Seq(CellSet) : e = tt \o r
  BY Joined
<1>10. PICK b \in Seq(CellSet) : b = a \o e
  BY Joined
<1>11. Keeps(w, b, Len(w))
  <2>1. Keeps(w, a, Len(w)) /\ Keeps(a, b, Len(a)) /\ Len(a) = Len(w) + Len(d)
    BY <1>8, <1>10, Joined
  <2>2. Len(w) \in Nat /\ Len(a) \in Nat /\ Len(w) <= Len(a)
    BY <2>1
  <2> QED BY <2>1, <2>2, KeepsOn
<1>12. ASSUME NEW s, Partial(w, s) PROVE Complete(b)
  <2>1. Partial(a, s)
    BY <1>4, <1>8, <1>12, PartialGrows
  <2>2. Complete(a \o (tt \o r))
    BY <1>5, <1>6, <1>7, <2>1, LineFinished
  <2> QED BY <1>9, <1>10, <2>2
<1>13. Shown(z) = b
  <2>1. Shown(z) = (Shown(l) \o d) \o (tt \o FlattenSeq(more))
    BY <1>2 DEF ListsAs
  <2> QED BY <1>1, <1>5, <1>8, <1>9, <1>10, <2>1, Zenon
<1> QED BY <1>1, <1>3, <1>11, <1>12, <1>13

----------------------------------------------------------------------------
(***************************************************************************)
(* The invariant.                                                          *)
(***************************************************************************)
Readable(D) == {s \in Statements(D) : s.k = "include" => s.f \in D}
Frames(D) == [file : D, line : Nat, todo : Seq(Readable(D)), open : BOOLEAN, old : (D \cup {""}) \X Nat \X Nat]
Slots(D) == [out : Nat, offset : Nat, on : BOOLEAN, n : Nat, file : D, line : Nat]

Typed ==
  /\ program \in Programs /\ files \in Seq(Frames(DOMAIN program)) /\ files # <<>>
  /\ curr_input_file \in DOMAIN program /\ line_num \in Nat /\ old_line_num \in Nat /\ line_start \in Nat
  /\ contents \in Seq(Nat) /\ expr_list \in Seq(Slots(DOMAIN program))
  /\ phase \in {"pass_one", "pass_two", "done"}
  /\ listing_on \in BOOLEAN /\ listing_for_line_done \in BOOLEAN
  /\ Current \in Listings /\ (phase = "pass_one" => listing_width <= HexColumns)
  /\ saved_listing_offset \in 0..Len(listing_buf) /\ (phase = "pass_one" => saved_listing_offset = 0)

\* Where the files fs of the program p are read: an #include goes back to a
\* line behind the one its listing goes on from, and .nolist is the first
\* statement of a line.
Reading(p, fs, start) ==
  /\ \A i \in 1..Len(fs) : fs[i].line >= 1
  /\ \A j \in 2..Len(fs[1].todo) : fs[1].todo[j].k # "nolist"
  /\ \A i \in 2..Len(fs) : \A j \in 1..Len(fs[i].todo) : fs[i].todo[j].k # "nolist"
  /\ \A i \in 1..Len(fs) - 1 : fs[i].old[1] \in DOMAIN p /\ fs[i].old[3] <= fs[i + 1].line
  /\ fs[1].open => start <= fs[1].line

\* The columns of the arguments left to pass two are in w.
Blocks(w, list) ==
  \A i \in 1..Len(list) :
    list[i].offset <= Len(w) /\ (list[i].on => Columned(w, list[i].offset, list[i].n))

\* A line of the file f is listed up to here; nothing of it but the prefix is.
Opened(f, on, done) == f.open /\ on /\ ~done
Fresh(f, on) == f.open /\ on /\ f.todo # <<>> /\ Head(f.todo).k = "nolist"

\* What is listed while pass one reads.
Whole(w, list, f, on, done) ==
  /\ Blocks(w, list)
  /\ IF Opened(f, on, done) THEN \E s : Partial(w, s) ELSE Complete(w)
  /\ Fresh(f, on) => \E s : Partial(w, s) /\ Len(w) = s + PrefixWidth /\ Blocks(SubSeq(w, 1, s), list)

\* What it has listed in the end.
Ended(buf, saved, list) == Complete(SubSeq(buf, 1, saved)) /\ Blocks(SubSeq(buf, 1, saved), list)

IInv ==
  /\ Typed
  /\ Reading(program, files, line_start)
  /\ phase = "pass_one" =>
       Whole(Shown(Current), expr_list, files[1], listing_on, listing_for_line_done)
  /\ phase # "pass_one" => Ended(listing_buf, saved_listing_offset, expr_list)
  /\ phase = "done" => listing_offset = saved_listing_offset

LEMMA CurrentIs ==
  ASSUME Current \in Listings
  PROVE  /\ listing_buf \in Seq(CellSet) /\ listing_offset \in Nat /\ listing_width \in Nat
         /\ listing_offset <= Len(listing_buf)
         /\ Current.buf = listing_buf /\ Current.at = listing_offset /\ Current.width = listing_width
<1>1. Current.buf = listing_buf /\ Current.at = listing_offset /\ Current.width = listing_width
  BY DEF Current
<1> QED BY <1>1, ListingIs

LEMMA CurrentMade ==
  ASSUME NEW b \in Seq(CellSet), NEW a \in Nat, NEW n \in Nat, a <= Len(b),
         listing_buf = b, listing_offset = a, listing_width = n
  PROVE  Current \in Listings
BY ListingMade DEF Current

LEMMA BecomesIs ==
  ASSUME NEW l \in Listings, Becomes(l)
  PROVE  Current' = l
<1>1. l = [buf |-> l.buf, at |-> l.at, width |-> l.width]
  BY ListingIs
<1> QED BY <1>1 DEF Becomes, Current

LEMMA FrameIs ==
  ASSUME NEW D, NEW f \in Frames(D)
  PROVE  /\ f = [file |-> f.file, line |-> f.line, todo |-> f.todo, open |-> f.open, old |-> f.old]
         /\ f.file \in D /\ f.line \in Nat /\ f.todo \in Seq(Readable(D)) /\ f.open \in BOOLEAN
         /\ f.old \in (D \cup {""}) \X Nat \X Nat
BY DEF Frames

LEMMA FrameMade ==
  ASSUME NEW D, NEW file \in D, NEW line \in Nat, NEW todo \in Seq(Readable(D)), NEW open \in BOOLEAN,
         NEW old \in (D \cup {""}) \X Nat \X Nat
  PROVE  [file |-> file, line |-> line, todo |-> todo, open |-> open, old |-> old] \in Frames(D)
BY DEF Frames

\* f is a later place in the file read in fs, and its listing goes on from `from`.
Later(fs, f, from) ==
  /\ f.line >= 1 /\ f.old = fs[1].old
  /\ \A j \in 2..Len(f.todo) : f.todo[j].k # "nolist"
  /\ f.open => from <= f.line

\* Only the file that is read changes.
LEMMA HeadChanged ==
  ASSUME NEW p, NEW fs \in Seq(Frames(DOMAIN p)), fs # <<>>, NEW start, Reading(p, fs, start),
         NEW f \in Frames(DOMAIN p), NEW from, Later(fs, f, from)
  PROVE  /\ [fs EXCEPT ![1] = f] \in Seq(Frames(DOMAIN p)) /\ [fs EXCEPT ![1] = f] # <<>>
         /\ Len([fs EXCEPT ![1] = f]) = Len(fs)
         /\ [fs EXCEPT ![1] = f][1] = f
         /\ Reading(p, [fs EXCEPT ![1] = f], from)
<1>0. /\ f.line >= 1 /\ f.old = fs[1].old
      /\ \A j \in 2..Len(f.todo) : f.todo[j].k # "nolist"
      /\ f.open => from <= f.line
  BY DEF Later
<1>1. PICK n \in Nat : n = Len(fs) /\ n >= 1 /\ fs \in [1..n -> Frames(DOMAIN p)]
  OBVIOUS
<1>2. PICK gs : gs = [fs EXCEPT ![1] = f]
  OBVIOUS
<1>3. gs \in [1..n -> Frames(DOMAIN p)]
  BY <1>1, <1>2
<1>4. gs \in Seq(Frames(DOMAIN p)) /\ Len(gs) = n
  BY <1>3
<1>5. gs[1] = f /\ \A i \in 2..n : gs[i] = fs[i]
  BY <1>1, <1>2
<1>6. gs # <<>>
  BY <1>1, <1>4
<1>7. /\ \A i \in 1..n : fs[i].line >= 1
      /\ \A i \in 2..n : \A j \in 1..Len(fs[i].todo) : fs[i].todo[j].k # "nolist"
      /\ \A i \in 1..n - 1 : fs[i].old[1] \in DOMAIN p /\ fs[i].old[3] <= fs[i + 1].line
  BY <1>1, Zenon DEF Reading
<1>8. \A i \in 1..n : gs[i].line >= 1
  <2> TAKE i \in 1..n
  <2>1. i = 1 \/ i \in 2..n
    OBVIOUS
  <2> QED BY <1>0, <1>5, <1>7, <2>1
<1>9. \A i \in 2..n : \A j \in 1..Len(gs[i].todo) : gs[i].todo[j].k # "nolist"
  BY <1>5, <1>7
<1>10. \A i \in 1..n - 1 : gs[i].old[1] \in DOMAIN p /\ gs[i].old[3] <= gs[i + 1].line
  <2> TAKE i \in 1..n - 1
  <2>1. i + 1 \in 2..n /\ (i = 1 \/ i \in 2..n)
    OBVIOUS
  <2>2. gs[i].old = fs[i].old /\ gs[i + 1] = fs[i + 1]
    BY <1>0, <1>5, <2>1
  <2> QED BY <1>7, <2>2
<1>11. Reading(p, gs, from)
  BY <1>0, <1>4, <1>5, <1>8, <1>9, <1>10, Zenon DEF Reading
<1> QED BY <1>1, <1>2, <1>4, <1>5, <1>6, <1>11

\* A line of a program.
LEMMA LineTyped ==
  ASSUME NEW p \in Programs, NEW f \in DOMAIN p, NEW i \in 1..Len(p[f])
  PROVE  /\ p[f][i] \in Seq(Readable(DOMAIN p))
         /\ \A j \in 2..Len(p[f][i]) : p[f][i][j].k # "nolist"
<1>1. p[f] \in Seq(Seq(Statements(DOMAIN p)))
  BY ProgramsAssumption
<1>2. PICK line \in Seq(Statements(DOMAIN p)) : line = p[f][i] /\ i \in DOMAIN p[f]
  BY <1>1
<1>3. \A j \in DOMAIN line : (line[j].k \in {"list", "nolist"} => j = 1) /\ (line[j].k = "include" => line[j].f \in DOMAIN p)
  BY <1>2, ProgramsAssumption
<1>4. PICK n \in Nat : n = Len(line) /\ DOMAIN line = 1..n /\ line \in [1..n -> Statements(DOMAIN p)]
  OBVIOUS
<1>5. line \in [1..n -> Readable(DOMAIN p)]
  <2>1. \A j \in 1..n : line[j] \in Readable(DOMAIN p)
    BY <1>3, <1>4 DEF Readable
  <2> QED BY <1>4, <2>1
<1>6. line \in Seq(Readable(DOMAIN p))
  BY <1>5
<1>7. \A j \in 2..n : line[j].k # "nolist"
  BY <1>3, <1>4
<1> QED BY <1>2, <1>4, <1>6, <1>7

LEMMA BlocksKept ==
  ASSUME NEW w \in Seq(CellSet), NEW x \in Seq(CellSet), Keeps(w, x, Len(w)),
         NEW D, NEW list \in Seq(Slots(D)), Blocks(w, list)
  PROVE  Blocks(x, list)
<1>1. Len(w) <= Len(x)
  BY DEF Keeps
<1>2. ASSUME NEW i \in 1..Len(list)
      PROVE  list[i].offset <= Len(x) /\ (list[i].on => Columned(x, list[i].offset, list[i].n))
  <2>1. list[i] \in Slots(D)
    OBVIOUS
  <2>2. list[i].offset <= Len(w) /\ (list[i].on => Columned(w, list[i].offset, list[i].n))
    BY DEF Blocks
  <2>3. list[i].offset \in Nat
    BY <2>1 DEF Slots
  <2>4. list[i].offset <= Len(x)
    BY <1>1, <2>2, <2>3
  <2> QED BY <2>2, <2>4, ChainStays DEF Columned
<1> QED BY <1>2 DEF Blocks

LEMMA BlocksAppended ==
  ASSUME NEW x, NEW S, NEW list \in Seq(S), Blocks(x, list), NEW e \in S,
         e.offset <= Len(x), e.on => Columned(x, e.offset, e.n)
  PROVE  Blocks(x, Append(list, e))
<1>1. PICK more \in Seq(S) : more = Append(list, e)
  <2>1. Append(list, e) \in Seq(S)
    OBVIOUS
  <2> QED BY <2>1
<1>2. Len(more) = Len(list) + 1 /\ more[Len(list) + 1] = e /\ \A i \in 1..Len(list) : more[i] = list[i]
  BY <1>1
<1>3. ASSUME NEW i \in 1..Len(more)
      PROVE  more[i].offset <= Len(x) /\ (more[i].on => Columned(x, more[i].offset, more[i].n))
  <2>1. CASE i = Len(list) + 1
    BY <1>2, <1>3, <2>1
  <2>2. CASE i # Len(list) + 1
    <3>1. i \in 1..Len(list) /\ more[i] = list[i]
      BY <1>2, <2>2
    <3> QED BY <1>3, <3>1 DEF Blocks
  <2> QED BY <2>1, <2>2
<1> QED BY <1>1, <1>3 DEF Blocks

LEMMA BlocksTail ==
  ASSUME NEW x, NEW S, NEW list \in Seq(S), list # <<>>, Blocks(x, list)
  PROVE  Blocks(x, Tail(list))
<1>1. PICK less \in Seq(S) : less = Tail(list)
  BY HeadTailProperties
<1>2. Len(less) = Len(list) - 1 /\ \A i \in 1..Len(less) : less[i] = list[i + 1]
  BY <1>1, HeadTailProperties
<1>3. ASSUME NEW i \in 1..Len(less)
      PROVE  less[i].offset <= Len(x) /\ (less[i].on => Columned(x, less[i].offset, less[i].n))
  <2>1. PICK j \in 1..Len(list) : j = i + 1 /\ less[i] = list[j]
    BY <1>2
  <2> QED BY <1>3, <2>1 DEF Blocks
<1> QED BY <1>1, <1>3 DEF Blocks

----------------------------------------------------------------------------
(***************************************************************************)
(* Pass one keeps it.                                                      *)
(***************************************************************************)
LEMMA InitHolds == Init => IInv
<1> SUFFICES ASSUME Init PROVE IInv
  OBVIOUS
<1>1. program \in Programs /\ "main" \in DOMAIN program
  BY ProgramsAssumption DEF Init
<1>2. PICK D : D = DOMAIN program
  OBVIOUS
<1>3. PICK f : f = [file |-> "main", line |-> 1, todo |-> <<>>, open |-> FALSE, old |-> <<"", 0, 0>>]
  OBVIOUS
<1>4. f \in Frames(D)
  <2>1. <<>> \in Seq(Readable(D)) /\ FALSE \in BOOLEAN /\ 1 \in Nat
    OBVIOUS
  <2>2. <<"", 0, 0>> \in (D \cup {""}) \X Nat \X Nat
    OBVIOUS
  <2> QED BY <1>1, <1>2, <1>3, <2>1, <2>2, FrameMade
<1>5. <<f>> \in Seq(Frames(D)) /\ <<f>> # <<>>
  BY <1>4
<1>6. PICK fs \in Seq(Frames(D)) : fs = <<f>> /\ fs # <<>> /\ fs[1] = f /\ Len(fs) = 1
  BY <1>5
<1>7. files = fs
  BY <1>3, <1>6 DEF Init
<1>8. PICK none \in Seq(CellSet) : none = <<>> /\ Len(none) = 0
  <2>1. <<>> \in Seq(CellSet)
    OBVIOUS
  <2> QED BY <2>1
<1>9. Current \in Listings /\ listing_buf = none /\ listing_offset = 0 /\ listing_width = 0
  <2>1. listing_buf = none /\ listing_offset = 0 /\ listing_width = 0
    BY <1>8 DEF Init
  <2>2. 0 \in Nat /\ 0 <= Len(none)
    BY <1>8
  <2> QED BY <2>1, <2>2, CurrentMade
<1>10. HexColumns \in Nat /\ 0 <= HexColumns
  BY WidthsAssumption
<1>11. phase = "pass_one" /\ saved_listing_offset = 0 /\ expr_list = <<>> /\ line_num = 1 /\ old_line_num = 0 /\ line_start = 0
       /\ contents = <<>> /\ listing_on = TRUE /\ listing_for_line_done = FALSE /\ curr_input_file = "main"
  BY DEF Init
<1>12. <<>> \in Seq(Nat) /\ <<>> \in Seq(Slots(D))
  OBVIOUS
<1>13. Typed
  <2>1. 1 \in Nat /\ 0 \in Nat /\ 0 \in 0..Len(none)
    BY <1>8
  <2> QED BY <1>1, <1>2, <1>6, <1>7, <1>9, <1>10, <1>11, <1>12, <2>1 DEF Typed
<1>14. Reading(program, fs, line_start)
  <2>1. f.line = 1 /\ f.open = FALSE /\ Len(f.todo) = 0
    BY <1>3
  <2> QED BY <1>6, <2>1 DEF Reading
<1>15. Shown(Current) \in Seq(CellSet) /\ Len(Shown(Current)) = 0
  BY <1>9, ShownIs DEF Current
<1>16. Complete(Shown(Current))
  <2>1. PICK w \in Seq(CellSet) : w = Shown(Current) /\ Len(w) = 0
    BY <1>15
  <2>2. \A i \in 1..Len(w) : w[i].k # "line"
    BY <2>1
  <2> QED BY <2>1, <2>2, NoLineComplete
<1>17. Blocks(Shown(Current), expr_list)
  BY <1>11 DEF Blocks
<1>18. ~f.open
  BY <1>3
<1>19. Whole(Shown(Current), expr_list, f, listing_on, listing_for_line_done)
  BY <1>16, <1>17, <1>18 DEF Whole, Opened, Fresh
<1> QED BY <1>6, <1>7, <1>11, <1>13, <1>14, <1>19 DEF IInv

\* What a step of pass one has to show.
LEMMA PassOneKeeps ==
  ASSUME IInv, phase = "pass_one", UNCHANGED <<program, phase, saved_listing_offset>>,
         NEW fs \in Seq(Frames(DOMAIN program)), fs # <<>>, files' = fs, Reading(program, fs, line_start'),
         curr_input_file' \in DOMAIN program, line_num' \in Nat, old_line_num' \in Nat, line_start' \in Nat,
         contents' \in Seq(Nat), NEW list \in Seq(Slots(DOMAIN program)), expr_list' = list,
         listing_on' \in BOOLEAN, listing_for_line_done' \in BOOLEAN,
         NEW l \in Listings, Becomes(l), l.width <= HexColumns,
         Whole(Shown(l), list, fs[1], listing_on', listing_for_line_done')
  PROVE  IInv'
<1>1. Current' = l
  BY BecomesIs
<1>2. listing_buf' = l.buf /\ listing_width' = l.width /\ listing_offset' = l.at
  BY DEF Becomes
<1>3. program' = program /\ phase' = "pass_one" /\ saved_listing_offset' = 0 /\ program \in Programs
  BY DEF IInv, Typed
<1>4. 0 \in 0..Len(l.buf)
  BY ListingIs
<1>5. DOMAIN program' = DOMAIN program
  BY <1>3
<1>6. Typed'
  BY <1>1, <1>2, <1>3, <1>4, <1>5 DEF Typed
<1>7. Reading(program', files', line_start')
  BY <1>3
<1>8. Shown(Current') = Shown(l)
  BY <1>1
<1>9. Whole(Shown(Current'), expr_list', files'[1], listing_on', listing_for_line_done')
  BY <1>8
<1> QED BY <1>3, <1>6, <1>7, <1>9 DEF IInv

LEMMA WholeFollows ==
  ASSUME NEW w \in Seq(CellSet), NEW x \in Seq(CellSet), Follows(w, x),
         NEW list, NEW more, NEW f, NEW g, NEW on, NEW done, NEW on2, NEW done2,
         Whole(w, list, f, on, done), Blocks(x, more),
         Opened(g, on2, done2) <=> Opened(f, on, done), ~Fresh(g, on2)
  PROVE  Whole(x, more, g, on2, done2)
<1>1. IF Opened(f, on, done) THEN \E s : Partial(w, s) ELSE Complete(w)
  BY DEF Whole
<1>2. Opened(f, on, done) => \E s : Partial(x, s)
  BY <1>1 DEF Follows
<1>3. ~Opened(f, on, done) => Complete(x)
  BY <1>1 DEF Follows
<1> QED BY <1>2, <1>3 DEF Whole

\* Nothing of it is .nolist.
Past(f) == \A j \in 1..Len(f.todo) : f.todo[j].k # "nolist"

LEMMA PastNotFresh ==
  ASSUME NEW D, NEW f \in Frames(D), Past(f), NEW on
  PROVE  ~Fresh(f, on)
<1>1. PICK todo \in Seq(Readable(D)) : todo = f.todo
  BY FrameIs
<1>2. todo # <<>> => 1 \in 1..Len(todo) /\ Head(todo) = todo[1]
  OBVIOUS
<1> QED BY <1>1, <1>2 DEF Fresh, Past

\* The next statement is taken.
LEMMA RestIs ==
  ASSUME IInv, NEW s, Reads(s)
  PROVE  /\ s \in Readable(DOMAIN program)
         /\ \E f \in Frames(DOMAIN program) :
              /\ Rest = [files EXCEPT ![1] = f] /\ f = [files[1] EXCEPT !.todo = Tail(@)]
              /\ f.file = files[1].file /\ f.line = files[1].line /\ f.open = files[1].open /\ f.old = files[1].old
              /\ Past(f) /\ f.line >= 1 /\ f.open /\ line_start <= f.line
<1>1. files \in Seq(Frames(DOMAIN program)) /\ files # <<>> /\ Reading(program, files, line_start)
  BY DEF IInv, Typed
<1>2. PICK h \in Frames(DOMAIN program) : h = files[1] /\ File = h /\ 1 \in 1..Len(files)
  BY <1>1 DEF File
<1>3. PICK todo \in Seq(Readable(DOMAIN program)) : todo = h.todo /\ todo # <<>> /\ s = Head(todo) /\ h.open
  BY <1>2, FrameIs DEF Reads
<1>4. PICK rest \in Seq(Readable(DOMAIN program)) : rest = Tail(todo) /\ Len(rest) = Len(todo) - 1
                                                    /\ \A i \in 1..Len(rest) : rest[i] = todo[i + 1]
  <2>1. Tail(todo) \in Seq(Readable(DOMAIN program)) /\ Len(Tail(todo)) = Len(todo) - 1
        /\ \A i \in 1..Len(Tail(todo)) : Tail(todo)[i] = todo[i + 1]
    BY <1>3, HeadTailProperties, Zenon
  <2> QED BY <2>1
<1>5. h = [file |-> h.file, line |-> h.line, todo |-> h.todo, open |-> h.open, old |-> h.old]
  BY FrameIs
<1>6. PICK f : f = [file |-> h.file, line |-> h.line, todo |-> rest, open |-> h.open, old |-> h.old]
  OBVIOUS
<1>7. f \in Frames(DOMAIN program)
  BY <1>6, FrameIs, FrameMade
<1>8. f = [files[1] EXCEPT !.todo = Tail(@)]
  <2>1. [h EXCEPT !.todo = rest] = f
    BY <1>5, <1>6
  <2> QED BY <1>2, <1>3, <1>4, <2>1
<1>9. Rest = [files EXCEPT ![1] = f]
  BY <1>8 DEF Rest
<1>10. f.file = h.file /\ f.line = h.line /\ f.todo = rest /\ f.open = h.open /\ f.old = h.old
  BY <1>6
<1>11. Past(f)
  <2>1. \A j \in 2..Len(todo) : todo[j].k # "nolist"
    BY <1>1, <1>2, <1>3 DEF Reading
  <2>2. ASSUME NEW j \in 1..Len(rest) PROVE rest[j].k # "nolist"
    <3>1. j + 1 \in 2..Len(todo)
      BY <1>4
    <3> QED BY <1>4, <2>1, <3>1
  <2> QED BY <1>10, <2>2 DEF Past
<1>12. f.line >= 1 /\ line_start <= f.line
  BY <1>1, <1>2, <1>3, <1>10 DEF Reading
<1>13. s \in Readable(DOMAIN program)
  BY <1>3, HeadTailProperties
<1> QED BY <1>2, <1>3, <1>7, <1>8, <1>9, <1>10, <1>11, <1>12, <1>13

\* The listing while pass one reads.
LEMMA PassOneIs ==
  ASSUME IInv, phase = "pass_one"
  PROVE  /\ Current \in Listings /\ Current.width <= HexColumns /\ Current.at = listing_offset
         /\ Shown(Current) \in Seq(CellSet) /\ Len(Shown(Current)) = listing_offset
         /\ Whole(Shown(Current), expr_list, files[1], listing_on, listing_for_line_done)
         /\ contents \in Seq(Nat) /\ expr_list \in Seq(Slots(DOMAIN program))
         /\ curr_input_file \in FileNames
<1>1. Typed /\ Whole(Shown(Current), expr_list, files[1], listing_on, listing_for_line_done)
  BY DEF IInv
<1>2. Current \in Listings /\ listing_width <= HexColumns
  BY <1>1 DEF Typed
<1>3. Current.width = listing_width /\ Current.at = listing_offset
  BY <1>2, CurrentIs
<1>4. curr_input_file \in FileNames
  <2>1. curr_input_file \in DOMAIN program /\ program \in Programs
    BY <1>1 DEF Typed
  <2>2. PICK names : names = UNION {DOMAIN p : p \in Programs}
    OBVIOUS
  <2>3. curr_input_file \in names
    BY <2>1, <2>2
  <2> QED BY <2>2, <2>3, Zenon DEF FileNames
<1> QED BY <1>1, <1>2, <1>3, <1>4, ShownIs DEF Typed

LEMMA FirstOfJoined ==
  ASSUME NEW w \in Seq(CellSet), NEW c \in Seq(CellSet)
  PROVE  SubSeq(w \o c, 1, Len(w)) = w
<1>1. PICK x \in Seq(CellSet) : x = w \o c /\ Len(w) <= Len(x) /\ \A i \in 1..Len(w) : x[i] = w[i]
  <2>1. Len(w) <= Len(w) + Len(c)
    OBVIOUS
  <2>2. w \o c \in Seq(CellSet) /\ Len(w \o c) = Len(w) + Len(c) /\ \A i \in 1..Len(w) : (w \o c)[i] = w[i]
    BY Joined
  <2> QED BY <2>1, <2>2, Zenon
<1>2. Len(w) \in Nat
  OBVIOUS
<1>3. PICK y \in Seq(CellSet) : y = SubSeq(x, 1, Len(w)) /\ Len(y) = Len(w) /\ \A i \in 1..Len(w) : y[i] = x[i]
  <2>1. SubSeq(x, 1, Len(w)) \in Seq(CellSet) /\ Len(SubSeq(x, 1, Len(w))) = Len(w)
        /\ \A i \in 1..Len(w) : SubSeq(x, 1, Len(w))[i] = x[i]
    BY <1>1, <1>2, FirstCells, Zenon
  <2> QED BY <2>1
<1>4. y = w
  BY <1>1, <1>3, SeqEqual
<1> QED BY <1>1, <1>3, <1>4

LEMMA BeginLineKeeps ==
  ASSUME IInv, BeginLine
  PROVE  IInv'
<1>1. Typed /\ files \in Seq(Frames(DOMAIN program)) /\ files # <<>> /\ Reading(program, files, line_start) /\ program \in Programs
  BY DEF IInv, Typed
<1>2. PICK h \in Frames(DOMAIN program) : h = files[1] /\ File = h
  BY <1>1 DEF File
<1>3. phase = "pass_one" /\ ~h.open /\ h.line <= Len(program[h.file])
  BY <1>2 DEF BeginLine
<1>4. h.file \in DOMAIN program /\ h.line \in 1..Len(program[h.file]) /\ h.line \in Nat
  <2>1. h.line >= 1 /\ h.line \in Nat /\ h.file \in DOMAIN program
    <3>1. 1 \in 1..Len(files)
      BY <1>1
    <3> QED BY <1>1, <1>2, <3>1, FrameIs DEF Reading
  <2>2. program[h.file] \in Seq(Seq(Statements(DOMAIN program)))
    BY <1>1, <2>1, ProgramsAssumption
  <2> QED BY <1>3, <2>1, <2>2
<1>5. PICK line \in Seq(Readable(DOMAIN program)) : line = program[h.file][h.line] /\ \A j \in 2..Len(line) : line[j].k # "nolist"
  <2>1. program[h.file][h.line] \in Seq(Readable(DOMAIN program))
        /\ \A j \in 2..Len(program[h.file][h.line]) : program[h.file][h.line][j].k # "nolist"
    BY <1>1, <1>4, LineTyped, Zenon
  <2> QED BY <2>1
<1>6. PICK f : f = [h EXCEPT !.open = TRUE, !.todo = line]
  OBVIOUS
<1>7. f \in Frames(DOMAIN program)
  <2>1. TRUE \in BOOLEAN
    OBVIOUS
  <2> QED BY <1>6, <2>1 DEF Frames
<1>8. f.line = h.line /\ f.todo = line /\ f.open = TRUE /\ f.old = h.old
  <2>1. h = [file |-> h.file, line |-> h.line, todo |-> h.todo, open |-> h.open, old |-> h.old]
    BY FrameIs
  <2> QED BY <1>6, <2>1
<1>9. PICK fs \in Seq(Frames(DOMAIN program)) : fs = [files EXCEPT ![1] = f] /\ fs # <<>> /\ fs[1] = f
                                                /\ Reading(program, fs, h.line)
  <2>1. Later(files, f, h.line)
    BY <1>2, <1>4, <1>5, <1>8 DEF Later
  <2>3. [files EXCEPT ![1] = f] \in Seq(Frames(DOMAIN program)) /\ [files EXCEPT ![1] = f] # <<>>
        /\ [files EXCEPT ![1] = f][1] = f /\ Reading(program, [files EXCEPT ![1] = f], h.line)
    BY <1>1, <1>7, <2>1, HeadChanged
  <2> QED BY <2>3
<1>10. files' = fs
  <2>1. files' = [files EXCEPT ![1].open = TRUE, ![1].todo = line]
    BY <1>2, <1>5 DEF BeginLine
  <2>2. [files EXCEPT ![1].open = TRUE, ![1].todo = line] = [files EXCEPT ![1] = [h EXCEPT !.open = TRUE, !.todo = line]]
    BY <1>1, <1>2
  <2> QED BY <1>6, <1>9, <2>1, <2>2
<1>11. PICK w \in Seq(CellSet) : w = Shown(Current) /\ Complete(w) /\ Blocks(w, expr_list)
  BY <1>2, <1>3, PassOneIs DEF Whole, Opened
<1>12. Current \in Listings /\ contents \in Seq(Nat) /\ line_num \in Nat
  BY <1>1 DEF Typed
<1>13. PICK pre \in Seq(CellSet) : pre = Prefix(line_num) /\ Len(pre) = PrefixWidth
                                   /\ \A i \in 1..PrefixWidth : pre[i].k = "line" /\ pre[i] = pre[1]
  BY <1>12, PrefixIs
<1>14. PICK m \in Listings : m = IF listing_on THEN Insert(Current, pre) ELSE Current
  BY <1>12, InsertIs
<1>15. PICK l \in Listings : l = [m EXCEPT !.width = 0] /\ Shown(l) = Shown(m) /\ l.width = 0
  <2>1. 0 \in Nat
    OBVIOUS
  <2> QED BY <2>1, WidthChanged
<1>16. Becomes(l)
  BY <1>13, <1>14, <1>15 DEF BeginLine
<1>17. l.width <= HexColumns
  BY <1>15, WidthsAssumption
<1>18. Whole(Shown(l), expr_list, f, listing_on, FALSE)
  <2>1. CASE listing_on
    <3>1. PICK x \in Seq(CellSet) : x = Shown(l) /\ x = w \o pre
      <4>1. Shown(Insert(Current, pre)) = w \o pre /\ w \o pre \in Seq(CellSet)
        BY <1>11, <1>12, InsertIs, Joined
      <4> QED BY <1>14, <1>15, <2>1, <4>1
    <3>2. Partial(x, Len(w)) /\ Len(x) = Len(w) + PrefixWidth
      BY <1>11, <1>13, <3>1, NewPrefix
    <3>3. Blocks(x, expr_list)
      <4>1. Keeps(w, x, Len(w)) /\ expr_list \in Seq(Slots(DOMAIN program))
        BY <1>1, <3>1, Joined DEF Typed
      <4> QED BY <1>11, <4>1, BlocksKept
    <3>4. SubSeq(x, 1, Len(w)) = w
      BY <3>1, FirstOfJoined
    <3>5. Opened(f, listing_on, FALSE)
      BY <1>8, <2>1 DEF Opened
    <3> QED BY <1>11, <3>1, <3>2, <3>3, <3>4, <3>5 DEF Whole
  <2>2. CASE ~listing_on
    <3>1. Shown(l) = w
      BY <1>11, <1>14, <1>15, <2>2
    <3> QED BY <1>11, <2>2, <3>1 DEF Whole, Opened, Fresh
  <2> QED BY <2>1, <2>2
<1>19. /\ program' = program /\ phase' = phase /\ saved_listing_offset' = saved_listing_offset
       /\ curr_input_file' = curr_input_file /\ line_num' = line_num /\ contents' = contents
       /\ expr_list' = expr_list /\ listing_on' = listing_on /\ listing_for_line_done' = FALSE
       /\ line_start' = h.line /\ old_line_num' = line_num
  BY <1>2 DEF BeginLine
<1>20. curr_input_file \in DOMAIN program /\ expr_list \in Seq(Slots(DOMAIN program)) /\ listing_on \in BOOLEAN
  BY <1>1 DEF Typed
<1>21. FALSE \in BOOLEAN
  OBVIOUS
<1> QED BY <1>3, <1>4, <1>9, <1>10, <1>12, <1>16, <1>17, <1>18, <1>19, <1>20, <1>21, PassOneKeeps

\* Bytes that are written.
LEMMA BytesAre ==
  ASSUME NEW a \in Nat, NEW n \in Nat
  PROVE  /\ Bytes(a, n) \in Seq(Nat) /\ Len(Bytes(a, n)) = n
         /\ [i \in 1..n |-> 0] \in Seq(Nat) /\ Len([i \in 1..n |-> 0]) = n
<1>1. PICK b : b = [i \in 1..n |-> a + i - 1 + 1]
  OBVIOUS
<1>2. b \in Seq(Nat)
  BY <1>1
<1>3. Len(b) = n
  BY <1>1, <1>2
<1>4. Bytes(a, n) = b
  BY <1>1 DEF Bytes, Value
<1>5. PICK z : z = [i \in 1..n |-> 0]
  OBVIOUS
<1>6. z \in Seq(Nat)
  BY <1>5
<1>7. Len(z) = n
  BY <1>5, <1>6
<1> QED BY <1>2, <1>3, <1>4, <1>5, <1>6, <1>7

\* The files once the statement is taken.
LEMMA RestReads ==
  ASSUME IInv, NEW s, Reads(s)
  PROVE  \E f \in Frames(DOMAIN program) :
           /\ Rest \in Seq(Frames(DOMAIN program)) /\ Rest # <<>> /\ Rest[1] = f
           /\ Len(Rest) = Len(files) /\ Rest = [files EXCEPT ![1] = f]
           /\ Reading(program, Rest, line_start) /\ Past(f)
           /\ f.file = files[1].file /\ f.line = files[1].line /\ f.open = files[1].open /\ f.old = files[1].old
           /\ f.line >= 1 /\ f.open /\ line_start <= f.line
<1>1. files \in Seq(Frames(DOMAIN program)) /\ files # <<>> /\ Reading(program, files, line_start)
  BY DEF IInv, Typed
<1>2. PICK f \in Frames(DOMAIN program) :
        /\ Rest = [files EXCEPT ![1] = f] /\ f = [files[1] EXCEPT !.todo = Tail(@)]
        /\ f.file = files[1].file /\ f.line = files[1].line /\ f.open = files[1].open /\ f.old = files[1].old
        /\ Past(f) /\ f.line >= 1 /\ f.open /\ line_start <= f.line
  BY RestIs
<1>3. Later(files, f, line_start)
  <2>1. \A j \in 2..Len(f.todo) : f.todo[j].k # "nolist"
    BY <1>2 DEF Past
  <2> QED BY <1>2, <2>1 DEF Later
<1>4. /\ [files EXCEPT ![1] = f] \in Seq(Frames(DOMAIN program)) /\ [files EXCEPT ![1] = f] # <<>>
      /\ Len([files EXCEPT ![1] = f]) = Len(files)
      /\ [files EXCEPT ![1] = f][1] = f
      /\ Reading(program, [files EXCEPT ![1] = f], line_start)
  BY <1>1, <1>3, HeadChanged
<1> QED BY <1>2, <1>4, Zenon

LEMMA StatementIs ==
  ASSUME NEW D, NEW s \in Readable(D)
  PROVE  s.n \in Nat /\ (s.k = "include" => s.f \in D)
BY DEF Readable, Statements

\* What bytes do to the listing.
LEMMA ColumnsCase ==
  ASSUME IInv, phase = "pass_one", NEW bytes \in Seq(Nat), NEW l,
         l = IF listing_on THEN Columns(Current, bytes) ELSE Current
  PROVE  /\ l \in Listings /\ l.width <= HexColumns /\ Follows(Shown(Current), Shown(l))
         /\ Blocks(Shown(l), expr_list)
         /\ listing_on => Columned(Shown(l), listing_offset, Len(bytes))
<1>1. Current \in Listings /\ Current.width <= HexColumns /\ Current.at = listing_offset
      /\ Whole(Shown(Current), expr_list, files[1], listing_on, listing_for_line_done)
  BY PassOneIs
<1>2. l \in Listings /\ l.width <= HexColumns /\ Follows(Shown(Current), Shown(l))
  <2>1. CASE listing_on
    <3>1. Wrote(Current, l, Len(bytes))
      BY <1>1, <2>1, ColumnsWritten
    <3> QED BY <3>1 DEF Wrote
  <2>2. CASE ~listing_on
    <3>1. l = Current
      BY <2>2
    <3>2. Shown(Current) \in Seq(CellSet)
      BY <1>1, ShownIs
    <3>3. Follows(Shown(Current), Shown(Current))
      BY <3>2 DEF Follows, Keeps, Like
    <3> QED BY <1>1, <3>1, <3>3
  <2> QED BY <2>1, <2>2
<1>3. Blocks(Shown(l), expr_list)
  <2>1. PICK w \in Seq(CellSet), x \in Seq(CellSet) : w = Shown(Current) /\ x = Shown(l)
    BY <1>1, <1>2, ShownIs
  <2>2. Keeps(w, x, Len(w)) /\ Blocks(w, expr_list) /\ expr_list \in Seq(Slots(DOMAIN program))
    BY <1>1, <1>2, <2>1, PassOneIs DEF Follows, Whole
  <2> QED BY <2>1, <2>2, BlocksKept
<1>4. ASSUME listing_on PROVE Columned(Shown(l), listing_offset, Len(bytes))
  <2>1. Wrote(Current, l, Len(bytes))
    BY <1>1, <1>4, ColumnsWritten
  <2> QED BY <1>1, <2>1 DEF Wrote, Columned
<1> QED BY <1>2, <1>3, <1>4

LEMMA DataKeeps ==
  ASSUME IInv, NEW s, Data(s)
  PROVE  IInv'
<1>1. Typed /\ phase = "pass_one" /\ Reads(s)
  BY DEF IInv, Data, Reads
<1>2. PICK f \in Frames(DOMAIN program) :
        /\ Rest \in Seq(Frames(DOMAIN program)) /\ Rest # <<>> /\ Rest[1] = f
        /\ Reading(program, Rest, line_start) /\ Past(f) /\ f.open = files[1].open
  BY <1>1, RestReads
<1>3. PICK n \in Nat : n = s.n
  <2>1. s \in Readable(DOMAIN program)
    BY <1>1, RestIs
  <2> QED BY <2>1, StatementIs
<1>4. PICK bytes \in Seq(Nat) : bytes = Bytes(program_counter, n)
  <2>1. program_counter \in Nat
    BY <1>1 DEF Typed, program_counter
  <2> QED BY <2>1, BytesAre
<1>5. PICK l : l = IF listing_on THEN Columns(Current, bytes) ELSE Current
  OBVIOUS
<1>6. l \in Listings /\ l.width <= HexColumns /\ Follows(Shown(Current), Shown(l)) /\ Blocks(Shown(l), expr_list)
  BY <1>1, <1>5, ColumnsCase
<1>7. Becomes(l)
  BY <1>3, <1>4, <1>5 DEF Data
<1>8. Whole(Shown(l), expr_list, f, listing_on, listing_for_line_done)
  <2>1. PICK w \in Seq(CellSet), x \in Seq(CellSet) : w = Shown(Current) /\ x = Shown(l)
    BY <1>1, <1>6, ShownIs DEF Typed
  <2>2. Whole(w, expr_list, files[1], listing_on, listing_for_line_done)
    BY <1>1, <2>1, PassOneIs
  <2>3. ~Fresh(f, listing_on)
    BY <1>2, PastNotFresh
  <2>4. Opened(f, listing_on, listing_for_line_done) <=> Opened(files[1], listing_on, listing_for_line_done)
    BY <1>2 DEF Opened
  <2> QED BY <1>6, <2>1, <2>2, <2>3, <2>4, WholeFollows
<1>9. contents' \in Seq(Nat)
  <2>1. contents' = contents \o bytes /\ contents \in Seq(Nat)
    BY <1>1, <1>3, <1>4 DEF Data, Typed
  <2> QED BY <2>1, ConcatProperties
<1>10. /\ program' = program /\ phase' = phase /\ saved_listing_offset' = saved_listing_offset
       /\ files' = Rest /\ curr_input_file' = curr_input_file /\ line_num' = line_num /\ old_line_num' = old_line_num
       /\ line_start' = line_start /\ expr_list' = expr_list /\ listing_on' = listing_on
       /\ listing_for_line_done' = listing_for_line_done
  BY DEF Data, Reads
<1>11. /\ curr_input_file \in DOMAIN program /\ line_num \in Nat /\ old_line_num \in Nat /\ line_start \in Nat
       /\ expr_list \in Seq(Slots(DOMAIN program)) /\ listing_on \in BOOLEAN /\ listing_for_line_done \in BOOLEAN
  BY <1>1 DEF Typed
<1> QED BY <1>1, <1>2, <1>6, <1>7, <1>8, <1>9, <1>10, <1>11, PassOneKeeps

LEMMA DeferredKeeps ==
  ASSUME IInv, NEW s, Deferred(s)
  PROVE  IInv'
<1>1. Typed /\ phase = "pass_one" /\ Reads(s)
  BY DEF IInv, Deferred, Reads
<1>2. PICK f \in Frames(DOMAIN program) :
        /\ Rest \in Seq(Frames(DOMAIN program)) /\ Rest # <<>> /\ Rest[1] = f
        /\ Reading(program, Rest, line_start) /\ Past(f) /\ f.open = files[1].open
  BY <1>1, RestReads
<1>3. PICK n \in Nat : n = s.n
  <2>1. s \in Readable(DOMAIN program)
    BY <1>1, RestIs
  <2> QED BY <2>1, StatementIs
<1>4. PICK bytes \in Seq(Nat) : bytes = [i \in 1..n |-> 0] /\ Len(bytes) = n
  <2>1. 0 \in Nat
    OBVIOUS
  <2> QED BY <2>1, BytesAre
<1>5. PICK l : l = IF listing_on THEN Columns(Current, bytes) ELSE Current
  OBVIOUS
<1>6. l \in Listings /\ l.width <= HexColumns /\ Follows(Shown(Current), Shown(l)) /\ Blocks(Shown(l), expr_list)
      /\ (listing_on => Columned(Shown(l), listing_offset, n))
  BY <1>1, <1>4, <1>5, ColumnsCase
<1>7. Becomes(l)
  BY <1>3, <1>4, <1>5 DEF Deferred
<1>8. PICK e \in Slots(DOMAIN program) :
        /\ e = [out |-> program_counter, offset |-> listing_offset, on |-> listing_on, n |-> n,
                file |-> curr_input_file, line |-> line_num]
        /\ e.on = listing_on /\ e.offset = listing_offset /\ e.n = n
  <2>1. program_counter \in Nat
    BY <1>1 DEF Typed, program_counter
  <2>2. listing_offset \in Nat /\ listing_on \in BOOLEAN /\ curr_input_file \in DOMAIN program /\ line_num \in Nat
    BY <1>1, CurrentIs DEF Typed
  <2>3. PICK e : e = [out |-> program_counter, offset |-> listing_offset, on |-> listing_on, n |-> n,
                      file |-> curr_input_file, line |-> line_num]
    OBVIOUS
  <2>4. e \in Slots(DOMAIN program)
    BY <2>1, <2>2, <2>3 DEF Slots
  <2> QED BY <2>3, <2>4
<1>9. PICK list \in Seq(Slots(DOMAIN program)) : list = Append(expr_list, e)
  <2>1. expr_list \in Seq(Slots(DOMAIN program))
    BY <1>1 DEF Typed
  <2>2. Append(expr_list, e) \in Seq(Slots(DOMAIN program))
    BY <2>1
  <2> QED BY <2>2
<1>10. Blocks(Shown(l), list)
  <2>1. expr_list \in Seq(Slots(DOMAIN program))
    BY <1>1 DEF Typed
  <2>2. e.on => Columned(Shown(l), e.offset, e.n)
    BY <1>6, <1>8
  <2>3. e.offset <= Len(Shown(l))
    <3>1. Len(Shown(Current)) = listing_offset /\ Shown(Current) \in Seq(CellSet)
      BY <1>1, PassOneIs
    <3>2. Len(Shown(Current)) <= Len(Shown(l))
      BY <1>6 DEF Follows, Keeps
    <3> QED BY <1>8, <3>1, <3>2
  <2> QED BY <1>6, <1>9, <2>1, <2>2, <2>3, BlocksAppended
<1>11. Whole(Shown(l), list, f, listing_on, listing_for_line_done)
  <2>1. PICK w \in Seq(CellSet), x \in Seq(CellSet) : w = Shown(Current) /\ x = Shown(l)
    BY <1>1, <1>6, ShownIs DEF Typed
  <2>2. Whole(w, expr_list, files[1], listing_on, listing_for_line_done)
    BY <1>1, <2>1, PassOneIs
  <2>3. ~Fresh(f, listing_on)
    BY <1>2, PastNotFresh
  <2>4. Opened(f, listing_on, listing_for_line_done) <=> Opened(files[1], listing_on, listing_for_line_done)
    BY <1>2 DEF Opened
  <2> QED BY <1>6, <1>10, <2>1, <2>2, <2>3, <2>4, WholeFollows
<1>12. contents' \in Seq(Nat)
  <2>1. contents' = contents \o bytes /\ contents \in Seq(Nat)
    BY <1>1, <1>3, <1>4 DEF Deferred, Typed
  <2> QED BY <2>1, ConcatProperties
<1>13. /\ program' = program /\ phase' = phase /\ saved_listing_offset' = saved_listing_offset
       /\ files' = Rest /\ curr_input_file' = curr_input_file /\ line_num' = line_num /\ old_line_num' = old_line_num
       /\ line_start' = line_start /\ listing_on' = listing_on /\ listing_for_line_done' = listing_for_line_done
  BY DEF Deferred, Reads
<1>14. expr_list' = list
  BY <1>3, <1>8, <1>9 DEF Deferred
<1>15. /\ curr_input_file \in DOMAIN program /\ line_num \in Nat /\ old_line_num \in Nat /\ line_start \in Nat
       /\ listing_on \in BOOLEAN /\ listing_for_line_done \in BOOLEAN
  BY <1>1 DEF Typed
<1> QED BY <1>1, <1>2, <1>6, <1>7, <1>11, <1>12, <1>13, <1>14, <1>15, PassOneKeeps

LEMMA ListOnKeeps ==
  ASSUME IInv, NEW s, ListOn(s)
  PROVE  IInv'
<1>1. Typed /\ phase = "pass_one" /\ Reads(s)
  BY DEF IInv, ListOn, Reads
<1>2. PICK f \in Frames(DOMAIN program) :
        /\ Rest \in Seq(Frames(DOMAIN program)) /\ Rest # <<>> /\ Rest[1] = f
        /\ Reading(program, Rest, line_start) /\ Past(f) /\ f.open = files[1].open
  BY <1>1, RestReads
<1>3. PICK l \in Listings : l = Current /\ l.width <= HexColumns
  BY <1>1, PassOneIs
<1>4. /\ program' = program /\ phase' = phase /\ saved_listing_offset' = saved_listing_offset
      /\ files' = Rest /\ curr_input_file' = curr_input_file /\ line_num' = line_num /\ old_line_num' = old_line_num
      /\ line_start' = line_start /\ expr_list' = expr_list /\ contents' = contents
      /\ listing_on' = TRUE /\ listing_for_line_done' = (listing_for_line_done \/ ~listing_on)
      /\ listing_buf' = listing_buf /\ listing_offset' = listing_offset /\ listing_width' = listing_width
  BY DEF ListOn, Reads
<1>5. /\ curr_input_file \in DOMAIN program /\ line_num \in Nat /\ old_line_num \in Nat /\ line_start \in Nat
      /\ contents \in Seq(Nat) /\ expr_list \in Seq(Slots(DOMAIN program))
      /\ listing_on \in BOOLEAN /\ listing_for_line_done \in BOOLEAN
  BY <1>1 DEF Typed
<1>6. Becomes(l)
  BY <1>3, <1>4 DEF Becomes, Current
<1>7. PICK done \in BOOLEAN : done = (listing_for_line_done \/ ~listing_on)
  OBVIOUS
<1>8. Whole(Shown(l), expr_list, f, TRUE, done)
  <2>1. PICK w \in Seq(CellSet) : w = Shown(l)
    BY <1>3, ShownIs
  <2>2. Whole(w, expr_list, files[1], listing_on, listing_for_line_done)
    BY <1>1, <1>3, <2>1, PassOneIs
  <2>3. ~Fresh(f, TRUE)
    BY <1>2, PastNotFresh
  <2>4. Opened(f, TRUE, done) <=> Opened(files[1], listing_on, listing_for_line_done)
    BY <1>2, <1>5, <1>7 DEF Opened
  <2>5. Follows(w, w)
    BY DEF Follows, Keeps, Like
  <2>6. Blocks(w, expr_list)
    BY <2>2 DEF Whole
  <2> QED BY <2>1, <2>2, <2>3, <2>4, <2>5, <2>6, WholeFollows
<1>9. TRUE \in BOOLEAN
  OBVIOUS
<1> QED BY <1>1, <1>2, <1>3, <1>4, <1>5, <1>6, <1>7, <1>8, <1>9, PassOneKeeps

\* .nolist takes back the prefix of its own line, which is all there is of it.
LEMMA ListOffKeeps ==
  ASSUME IInv, NEW s, ListOff(s)
  PROVE  IInv'
<1>1. Typed /\ phase = "pass_one" /\ Reads(s) /\ s.k = "nolist"
  BY DEF IInv, ListOff, Reads
<1>2. PICK f \in Frames(DOMAIN program) :
        /\ Rest \in Seq(Frames(DOMAIN program)) /\ Rest # <<>> /\ Rest[1] = f
        /\ Reading(program, Rest, line_start) /\ Past(f) /\ f.open = files[1].open
  BY <1>1, RestReads
<1>3. PICK w \in Seq(CellSet) : w = Shown(Current) /\ Len(w) = listing_offset
  BY <1>1, PassOneIs
<1>4. Whole(w, expr_list, files[1], listing_on, listing_for_line_done)
  BY <1>1, <1>3, PassOneIs
<1>5. Fresh(files[1], listing_on) <=> listing_on
  BY <1>1 DEF Fresh, Reads, File, Typed
<1>6. Current \in Listings /\ listing_width \in Nat /\ listing_width <= HexColumns /\ listing_buf \in Seq(CellSet)
      /\ listing_offset \in Nat /\ listing_offset <= Len(listing_buf)
  <2>1. Current \in Listings /\ listing_width <= HexColumns
    BY <1>1 DEF Typed
  <2> QED BY <2>1, CurrentIs
<1>7. PICK a \in Nat : /\ a = IF listing_on THEN listing_offset - PrefixWidth ELSE listing_offset
                       /\ a <= listing_offset
                       /\ Complete(SubSeq(w, 1, a)) /\ Blocks(SubSeq(w, 1, a), expr_list)
  <2>1. CASE listing_on
    <3>1. PICK n : Partial(w, n) /\ Len(w) = n + PrefixWidth /\ Blocks(SubSeq(w, 1, n), expr_list)
      BY <1>4, <1>5, <2>1 DEF Whole
    <3>2. n \in Nat /\ CompleteUpTo(w, n) /\ PrefixWidth \in Nat
      BY <3>1, WidthsAssumption DEF Partial
    <3>3. n <= Len(w) /\ n = listing_offset - PrefixWidth
      BY <1>3, <3>1, <3>2
    <3>4. PICK x \in Seq(CellSet) : x = SubSeq(w, 1, n) /\ Len(x) = n /\ \A i \in 1..n : x[i] = w[i]
      <4>1. SubSeq(w, 1, n) \in Seq(CellSet) /\ Len(SubSeq(w, 1, n)) = n
            /\ \A i \in 1..n : SubSeq(w, 1, n)[i] = w[i]
        BY <3>2, <3>3, FirstCells, Zenon
      <4> QED BY <4>1
    <3>5. Keeps(w, x, n)
      BY <3>2, <3>3, <3>4 DEF Keeps, Like
    <3>6. CompleteUpTo(x, n)
      BY <3>2, <3>5, UpToKept
    <3>7. Complete(x)
      BY <3>4, <3>6 DEF Complete
    <3>8. Complete(SubSeq(w, 1, n)) /\ Blocks(SubSeq(w, 1, n), expr_list)
      BY <3>1, <3>4, <3>7
    <3>9. n <= listing_offset
      BY <1>3, <3>3
    <3>10. n = IF listing_on THEN listing_offset - PrefixWidth ELSE listing_offset
      BY <2>1, <3>3
    <3> QED BY <3>2, <3>8, <3>9, <3>10
  <2>2. CASE ~listing_on
    <3>1. Complete(w) /\ Blocks(w, expr_list)
      BY <1>4, <2>2 DEF Whole, Opened
    <3>2. SubSeq(w, 1, listing_offset) = w
      BY <1>3, SubSeqFull
    <3>3. Complete(SubSeq(w, 1, listing_offset)) /\ Blocks(SubSeq(w, 1, listing_offset), expr_list)
      BY <3>1, <3>2
    <3>4. listing_offset <= listing_offset
          /\ listing_offset = IF listing_on THEN listing_offset - PrefixWidth ELSE listing_offset
      BY <1>6, <2>2
    <3> QED BY <1>6, <3>3, <3>4
  <2> QED BY <2>1, <2>2
<1>8. PICK l \in Listings : l = [buf |-> listing_buf, at |-> a, width |-> listing_width]
                            /\ l.buf = listing_buf /\ l.at = a /\ l.width = listing_width
  <2>1. a <= Len(listing_buf)
    BY <1>6, <1>7
  <2>2. PICK l : l = [buf |-> listing_buf, at |-> a, width |-> listing_width]
    OBVIOUS
  <2>3. l \in Listings
    BY <1>6, <2>1, <2>2, ListingMade
  <2> QED BY <2>2, <2>3
<1>9. /\ program' = program /\ phase' = phase /\ saved_listing_offset' = saved_listing_offset
      /\ files' = Rest /\ curr_input_file' = curr_input_file /\ line_num' = line_num /\ old_line_num' = old_line_num
      /\ line_start' = line_start /\ expr_list' = expr_list /\ contents' = contents
      /\ listing_on' = FALSE /\ listing_for_line_done' = listing_for_line_done
      /\ listing_buf' = listing_buf /\ listing_offset' = a /\ listing_width' = listing_width
  BY <1>7 DEF ListOff, Reads
<1>10. Becomes(l)
  BY <1>8, <1>9 DEF Becomes
<1>11. Shown(l) = SubSeq(w, 1, a)
  <2>1. PICK b \in Seq(CellSet), o \in Nat : b = listing_buf /\ o = listing_offset /\ o <= Len(b)
    BY <1>6
  <2>2. w = SubSeq(b, 1, o) /\ Len(w) = o /\ \A i \in 1..o : w[i] = b[i]
    <3>1. Len(SubSeq(b, 1, o)) = o /\ \A i \in 1..o : SubSeq(b, 1, o)[i] = b[i]
      BY <2>1, FirstCells, Zenon
    <3>2. w = SubSeq(b, 1, o)
      BY <1>3, <1>6, <2>1, CurrentIs DEF Shown
    <3> QED BY <3>1, <3>2
  <2>3. a <= Len(b) /\ a <= Len(w)
    BY <1>7, <2>1, <2>2
  <2>4. PICK x \in Seq(CellSet) : x = SubSeq(b, 1, a) /\ Len(x) = a /\ \A i \in 1..a : x[i] = b[i]
    <3>1. SubSeq(b, 1, a) \in Seq(CellSet) /\ Len(SubSeq(b, 1, a)) = a /\ \A i \in 1..a : SubSeq(b, 1, a)[i] = b[i]
      BY <2>3, FirstCells, Zenon
    <3> QED BY <3>1
  <2>5. PICK y \in Seq(CellSet) : y = SubSeq(w, 1, a) /\ Len(y) = a /\ \A i \in 1..a : y[i] = w[i]
    <3>1. SubSeq(w, 1, a) \in Seq(CellSet) /\ Len(SubSeq(w, 1, a)) = a /\ \A i \in 1..a : SubSeq(w, 1, a)[i] = w[i]
      BY <2>3, FirstCells, Zenon
    <3> QED BY <3>1
  <2>6. \A i \in 1..a : i \in 1..o
    BY <1>7, <2>1
  <2>7. \A i \in 1..Len(x) : x[i] = y[i]
    BY <2>2, <2>4, <2>5, <2>6
  <2>8. x = y
    BY <2>4, <2>5, <2>7, SeqEqual
  <2>9. Shown(l) = SubSeq(b, 1, a)
    BY <1>8, <2>1, Zenon DEF Shown
  <2> QED BY <2>4, <2>5, <2>8, <2>9
<1>12. Whole(Shown(l), expr_list, f, FALSE, listing_for_line_done)
  BY <1>7, <1>11 DEF Whole, Opened, Fresh
<1>13. /\ curr_input_file \in DOMAIN program /\ line_num \in Nat /\ old_line_num \in Nat /\ line_start \in Nat
       /\ contents \in Seq(Nat) /\ expr_list \in Seq(Slots(DOMAIN program)) /\ listing_for_line_done \in BOOLEAN
  BY <1>1 DEF Typed
<1>14. FALSE \in BOOLEAN /\ l.width <= HexColumns
  BY <1>6, <1>8
<1> QED BY <1>1, <1>2, <1>9, <1>10, <1>12, <1>13, <1>14, PassOneKeeps

LEMMA SkipKeeps ==
  ASSUME IInv, NEW s, Skip(s)
  PROVE  IInv'
<1>1. Typed /\ phase = "pass_one" /\ Reads(s)
  BY DEF IInv, Skip, Reads
<1>2. PICK g \in Frames(DOMAIN program) :
        /\ Rest \in Seq(Frames(DOMAIN program)) /\ Rest # <<>> /\ Rest[1] = g
        /\ Reading(program, Rest, line_start) /\ Past(g) /\ g.open = files[1].open
        /\ g.line >= 1 /\ g.open /\ line_start <= g.line
  BY <1>1, RestReads
<1>3. PICK n \in Nat : n = s.n
  <2>1. s \in Readable(DOMAIN program)
    BY <1>1, RestIs
  <2> QED BY <2>1, StatementIs
<1>4. PICK rest \in Seq(Frames(DOMAIN program)) : rest = Rest
  BY <1>2
<1>5. PICK line \in Nat : line = g.line + n
  <2>1. g.line \in Nat
    BY FrameIs
  <2> QED BY <2>1
<1>6. PICK f : f = [g EXCEPT !.line = line]
  OBVIOUS
<1>7. f \in Frames(DOMAIN program) /\ f.line = line /\ f.todo = g.todo /\ f.open = g.open /\ f.old = g.old
  <2>1. f \in Frames(DOMAIN program)
    BY <1>6 DEF Frames
  <2>2. g = [file |-> g.file, line |-> g.line, todo |-> g.todo, open |-> g.open, old |-> g.old]
    BY FrameIs
  <2>3. f.line = line /\ f.todo = g.todo /\ f.open = g.open /\ f.old = g.old
    BY <1>6, <2>2
  <2> QED BY <2>1, <2>3
<1>8. Later(rest, f, line_start)
  <2>1. f.line >= 1 /\ line_start <= f.line
    <3>1. g.line \in Nat /\ line_start \in Nat
      BY <1>1, FrameIs DEF Typed
    <3> QED BY <1>2, <1>5, <1>7, <3>1
  <2>2. \A j \in 2..Len(f.todo) : f.todo[j].k # "nolist"
    BY <1>2, <1>7 DEF Past
  <2>3. f.old = rest[1].old
    BY <1>2, <1>4, <1>7
  <2> QED BY <2>1, <2>2, <2>3 DEF Later
<1>9. PICK fs \in Seq(Frames(DOMAIN program)) : fs = [rest EXCEPT ![1] = f] /\ fs # <<>> /\ fs[1] = f
                                                /\ Reading(program, fs, line_start)
  <2>1. /\ [rest EXCEPT ![1] = f] \in Seq(Frames(DOMAIN program)) /\ [rest EXCEPT ![1] = f] # <<>>
        /\ [rest EXCEPT ![1] = f][1] = f
        /\ Reading(program, [rest EXCEPT ![1] = f], line_start)
    BY <1>2, <1>4, <1>7, <1>8, HeadChanged
  <2> QED BY <2>1
<1>10. files' = fs
  <2>1. files' = [rest EXCEPT ![1].line = @ + n]
    BY <1>3, <1>4 DEF Skip
  <2>2. [rest EXCEPT ![1].line = @ + n] = [rest EXCEPT ![1] = f]
    BY <1>2, <1>4, <1>5, <1>6
  <2> QED BY <1>9, <2>1, <2>2
<1>11. PICK l \in Listings : l = Current /\ l.width <= HexColumns
  BY <1>1, PassOneIs
<1>12. /\ program' = program /\ phase' = phase /\ saved_listing_offset' = saved_listing_offset
       /\ curr_input_file' = curr_input_file /\ line_num' = line_num + n /\ old_line_num' = old_line_num
       /\ line_start' = line_start /\ expr_list' = expr_list /\ contents' = contents
       /\ listing_on' = listing_on /\ listing_for_line_done' = listing_for_line_done
       /\ listing_buf' = listing_buf /\ listing_offset' = listing_offset /\ listing_width' = listing_width
  BY <1>3 DEF Skip, Reads
<1>13. /\ curr_input_file \in DOMAIN program /\ line_num \in Nat /\ old_line_num \in Nat /\ line_start \in Nat
       /\ contents \in Seq(Nat) /\ expr_list \in Seq(Slots(DOMAIN program))
       /\ listing_on \in BOOLEAN /\ listing_for_line_done \in BOOLEAN
  BY <1>1 DEF Typed
<1>14. Becomes(l)
  BY <1>11, <1>12 DEF Becomes, Current
<1>15. Whole(Shown(l), expr_list, f, listing_on, listing_for_line_done)
  <2>1. PICK w \in Seq(CellSet) : w = Shown(l)
    BY ShownIs
  <2>2. Whole(w, expr_list, files[1], listing_on, listing_for_line_done)
    BY <1>1, <1>11, <2>1, PassOneIs
  <2>3. ~Fresh(f, listing_on)
    <3>1. Past(f)
      BY <1>2, <1>7 DEF Past
    <3> QED BY <1>7, <3>1, PastNotFresh
  <2>4. Opened(f, listing_on, listing_for_line_done) <=> Opened(files[1], listing_on, listing_for_line_done)
    BY <1>2, <1>7 DEF Opened
  <2>5. Follows(w, w)
    BY DEF Follows, Keeps, Like
  <2>6. Blocks(w, expr_list)
    BY <2>2 DEF Whole
  <2> QED BY <2>1, <2>2, <2>3, <2>4, <2>5, <2>6, WholeFollows
<1>16. line_num' \in Nat
  BY <1>12, <1>13
<1> QED BY <1>1, <1>9, <1>10, <1>11, <1>12, <1>13, <1>14, <1>15, <1>16, PassOneKeeps


\* The line is finished, if it is listed.
LEMMA LineEnds ==
  ASSUME IInv, phase = "pass_one", files[1].open, NEW end \in Int, NEW l,
         l = IF listing_on /\ ~listing_for_line_done THEN Listed(Current, end) ELSE Current
  PROVE  l \in Listings /\ l.width <= HexColumns /\ Complete(Shown(l)) /\ Blocks(Shown(l), expr_list)
<1>1. Typed
  BY DEF IInv
<1>2. Current \in Listings /\ Current.width <= HexColumns /\ contents \in Seq(Nat) /\ curr_input_file \in FileNames
      /\ Whole(Shown(Current), expr_list, files[1], listing_on, listing_for_line_done)
  BY PassOneIs
<1>3. old_line_num \in Nat /\ line_start \in Nat /\ expr_list \in Seq(Slots(DOMAIN program))
  BY <1>1 DEF Typed
<1>4. PICK w \in Seq(CellSet) : w = Shown(Current) /\ Blocks(w, expr_list)
  BY <1>2, ShownIs DEF Whole
<1>5. CASE listing_on /\ ~listing_for_line_done
  <2>1. PICK s : Partial(w, s)
    BY <1>2, <1>4, <1>5 DEF Whole, Opened
  <2>2. /\ Listed(Current, end) \in Listings /\ Listed(Current, end).width = HexColumns
        /\ Keeps(w, Shown(Listed(Current, end)), Len(w))
        /\ (Partial(w, s) => Complete(Shown(Listed(Current, end))))
    BY <1>2, <1>3, <1>4, ListedIs
  <2>3. l \in Listings /\ l.width = HexColumns /\ Keeps(w, Shown(l), Len(w)) /\ Complete(Shown(l))
    BY <1>5, <2>1, <2>2
  <2>4. PICK x \in Seq(CellSet) : x = Shown(l)
    BY <2>3, ShownIs
  <2>5. Blocks(x, expr_list)
    BY <1>3, <1>4, <2>3, <2>4, BlocksKept
  <2>6. HexColumns <= HexColumns
    BY WidthsAssumption
  <2> QED BY <2>3, <2>4, <2>5, <2>6
<1>6. CASE ~(listing_on /\ ~listing_for_line_done)
  <2>1. Complete(w)
    BY <1>2, <1>4, <1>6 DEF Whole, Opened
  <2>2. l = Current
    BY <1>6
  <2> QED BY <1>2, <1>4, <2>1, <2>2
<1> QED BY <1>5, <1>6

\* A banner may follow what is finished.
LEMMA BannerFollows ==
  ASSUME NEW l \in Listings, Complete(Shown(l)), NEW D, NEW list \in Seq(Slots(D)), Blocks(Shown(l), list),
         NEW file \in FileNames
  PROVE  /\ Insert(l, Banner(file)) \in Listings /\ Insert(l, Banner(file)).width = l.width
         /\ Complete(Shown(Insert(l, Banner(file)))) /\ Blocks(Shown(Insert(l, Banner(file))), list)
<1>1. PICK c \in Seq(CellSet) : c = Banner(file) /\ Complete(c)
  BY BannerIs
<1>2. PICK w \in Seq(CellSet) : w = Shown(l)
  BY ShownIs
<1>3. PICK m \in Listings : m = Insert(l, c) /\ Shown(m) = w \o c /\ m.width = l.width
  BY <1>2, InsertIs
<1>4. PICK x \in Seq(CellSet) : x = w \o c /\ Keeps(w, x, Len(w))
  BY Joined
<1>5. Complete(x)
  BY <1>1, <1>2, <1>4, CompleteJoined
<1>6. Blocks(x, list)
  BY <1>2, <1>4, BlocksKept
<1> QED BY <1>1, <1>3, <1>4, <1>5, <1>6

LEMMA NameIs ==
  ASSUME program \in Programs, NEW file \in DOMAIN program
  PROVE  file \in FileNames
<1>1. PICK names : names = UNION {DOMAIN p : p \in Programs}
  OBVIOUS
<1>2. file \in names
  BY <1>1
<1> QED BY <1>1, <1>2, Zenon DEF FileNames

\* A file is included by the one that is read.
LEMMA Nested ==
  ASSUME NEW p, NEW fs \in Seq(Frames(DOMAIN p)), fs # <<>>, NEW start, Reading(p, fs, start), Past(fs[1]),
         NEW g \in Frames(DOMAIN p), g.line >= 1, ~g.open, g.todo = <<>>,
         g.old[1] \in DOMAIN p, g.old[3] <= fs[1].line
  PROVE  /\ <<g>> \o fs \in Seq(Frames(DOMAIN p)) /\ <<g>> \o fs # <<>> /\ (<<g>> \o fs)[1] = g
         /\ Reading(p, <<g>> \o fs, start)
<1>1. PICK one \in Seq(Frames(DOMAIN p)) : one = <<g>> /\ Len(one) = 1 /\ one[1] = g
  <2>1. <<g>> \in Seq(Frames(DOMAIN p)) /\ Len(<<g>>) = 1 /\ <<g>>[1] = g
    OBVIOUS
  <2> QED BY <2>1
<1>2. PICK n \in Nat : n = Len(fs) /\ n >= 1
  OBVIOUS
<1>3. PICK gs \in Seq(Frames(DOMAIN p)) : gs = one \o fs /\ Len(gs) = n + 1
                                          /\ \A i \in 1..n + 1 : gs[i] = IF i <= 1 THEN one[i] ELSE fs[i - 1]
  <2>1. one \o fs \in Seq(Frames(DOMAIN p)) /\ Len(one \o fs) = Len(one) + Len(fs)
    BY ConcatProperties
  <2>2. \A i \in 1..Len(one) + Len(fs) : (one \o fs)[i] = IF i <= Len(one) THEN one[i] ELSE fs[i - Len(one)]
    BY ConcatProperties
  <2>3. Len(one) + Len(fs) = n + 1
    BY <1>1, <1>2
  <2> QED BY <1>1, <2>1, <2>2, <2>3
<1>4. gs[1] = g /\ \A i \in 1..n : gs[i + 1] = fs[i]
  BY <1>1, <1>2, <1>3
<1>5. /\ \A i \in 1..n : fs[i].line >= 1
      /\ \A i \in 2..n : \A j \in 1..Len(fs[i].todo) : fs[i].todo[j].k # "nolist"
      /\ \A i \in 1..n - 1 : fs[i].old[1] \in DOMAIN p /\ fs[i].old[3] <= fs[i + 1].line
  BY <1>2, Zenon DEF Reading
<1>6. ASSUME NEW i \in 1..n + 1 PROVE gs[i].line >= 1
  <2>1. CASE i = 1
    BY <1>4, <2>1
  <2>2. CASE i # 1
    <3>1. PICK j \in 1..n : i = j + 1
      <4>1. i - 1 \in 1..n /\ i = (i - 1) + 1
        BY <2>2
      <4> QED BY <4>1
    <3> QED BY <1>4, <1>5, <3>1
  <2> QED BY <2>1, <2>2
<1>7. ASSUME NEW i \in 2..n + 1, NEW j \in 1..Len(gs[i].todo) PROVE gs[i].todo[j].k # "nolist"
  <2>1. PICK m \in 1..n : i = m + 1 /\ gs[i] = fs[m]
    <3>1. i - 1 \in 1..n /\ i = (i - 1) + 1
      OBVIOUS
    <3> QED BY <1>4, <3>1
  <2>2. CASE m = 1
    BY <1>7, <2>1, <2>2 DEF Past
  <2>3. CASE m # 1
    <3>1. m \in 2..n
      BY <2>3
    <3> QED BY <1>5, <1>7, <2>1, <3>1
  <2> QED BY <2>2, <2>3
<1>8. ASSUME NEW i \in 1..n PROVE gs[i].old[1] \in DOMAIN p /\ gs[i].old[3] <= gs[i + 1].line
  <2>1. gs[i + 1] = fs[i]
    BY <1>4
  <2>2. CASE i = 1
    BY <1>4, <2>1, <2>2
  <2>3. CASE i # 1
    <3>1. PICK m \in 1..n - 1 : i = m + 1 /\ gs[i] = fs[m]
      <4>1. i - 1 \in 1..n - 1 /\ i - 1 \in 1..n /\ i = (i - 1) + 1
        BY <2>3
      <4> QED BY <1>4, <4>1
    <3> QED BY <1>5, <2>1, <3>1
  <2> QED BY <2>2, <2>3
<1>9. \A j \in 2..Len(gs[1].todo) : gs[1].todo[j].k # "nolist"
  <2>1. Len(g.todo) = 0
    OBVIOUS
  <2> QED BY <1>4, <2>1
<1>10. Len(gs) = n + 1 /\ (n + 1) - 1 = n
  BY <1>3
<1>11. Reading(p, gs, start)
  BY <1>4, <1>6, <1>7, <1>8, <1>9, <1>10 DEF Reading
<1>12. gs # <<>>
  BY <1>10
<1> QED BY <1>1, <1>3, <1>4, <1>11, <1>12

\* The file that is read ends.
LEMMA Unnested ==
  ASSUME NEW p, NEW fs \in Seq(Frames(DOMAIN p)), Len(fs) > 1, NEW start, Reading(p, fs, start)
  PROVE  /\ Tail(fs) \in Seq(Frames(DOMAIN p)) /\ Tail(fs) # <<>> /\ Past(Tail(fs)[1])
         /\ Reading(p, Tail(fs), fs[1].old[3])
         /\ fs[1].old[1] \in DOMAIN p /\ fs[1].old[2] \in Nat /\ fs[1].old[3] \in Nat
<1>1. PICK n \in Nat : n = Len(fs) - 1 /\ n >= 1 /\ Len(fs) = n + 1
  <2>1. Len(fs) \in Nat
    OBVIOUS
  <2> QED BY <2>1
<1>2. PICK gs \in Seq(Frames(DOMAIN p)) : gs = Tail(fs) /\ Len(gs) = n /\ \A i \in 1..n : gs[i] = fs[i + 1]
  <2>1. fs # <<>>
    BY <1>1
  <2>2. Tail(fs) \in Seq(Frames(DOMAIN p)) /\ Len(Tail(fs)) = Len(fs) - 1
        /\ \A i \in 1..Len(Tail(fs)) : Tail(fs)[i] = fs[i + 1]
    BY <2>1, HeadTailProperties, Zenon
  <2> QED BY <1>1, <2>2
<1>3. /\ \A i \in 1..n + 1 : fs[i].line >= 1
      /\ \A i \in 2..n + 1 : \A j \in 1..Len(fs[i].todo) : fs[i].todo[j].k # "nolist"
      /\ \A i \in 1..n : fs[i].old[1] \in DOMAIN p /\ fs[i].old[3] <= fs[i + 1].line
  BY <1>1 DEF Reading
<1>4. \A i \in 1..n : gs[i].line >= 1
  BY <1>1, <1>2, <1>3
<1>5. \A i \in 1..n : \A j \in 1..Len(gs[i].todo) : gs[i].todo[j].k # "nolist"
  BY <1>1, <1>2, <1>3
<1>6. ASSUME NEW i \in 1..n - 1 PROVE gs[i].old[1] \in DOMAIN p /\ gs[i].old[3] <= gs[i + 1].line
  <2>1. i \in 1..n /\ i + 1 \in 1..n
    OBVIOUS
  <2>2. gs[i] = fs[i + 1] /\ gs[i + 1] = fs[(i + 1) + 1]
    BY <1>2, <2>1
  <2> QED BY <1>3, <2>1, <2>2
<1>7. 1 \in 1..n /\ gs[1] = fs[2] /\ fs[1].old[3] <= fs[2].line /\ fs[1].old[1] \in DOMAIN p
  <2>1. 1 \in 1..n /\ 1 + 1 = 2
    BY <1>1
  <2> QED BY <1>2, <1>3, <2>1
<1>8. Past(gs[1])
  BY <1>5, <1>7 DEF Past
<1>9. \A j \in 2..Len(gs[1].todo) : gs[1].todo[j].k # "nolist"
  <2>1. PICK t \in Seq(Readable(DOMAIN p)) : t = gs[1].todo
    <3>1. gs[1] \in Frames(DOMAIN p)
      BY <1>2, <1>7
    <3> QED BY <3>1, FrameIs
  <2>2. \A j \in 2..Len(t) : j \in 1..Len(t)
    OBVIOUS
  <2> QED BY <1>5, <1>7, <2>1, <2>2
<1>10. Reading(p, gs, fs[1].old[3])
  <2>1. \A i \in 2..n : i \in 1..n
    OBVIOUS
  <2> QED BY <1>2, <1>4, <1>5, <1>6, <1>7, <1>9, <2>1 DEF Reading
<1>11. fs[1].old[2] \in Nat /\ fs[1].old[3] \in Nat
  <2>1. fs[1] \in Frames(DOMAIN p)
    BY <1>1
  <2>2. fs[1].old \in (DOMAIN p \cup {""}) \X Nat \X Nat
    BY <2>1, FrameIs
  <2> QED BY <2>2
<1>12. gs # <<>>
  <2>1. Len(gs) # 0
    BY <1>1, <1>2
  <2>2. Len(<<>>) = 0
    OBVIOUS
  <2> QED BY <2>1, <2>2
<1> QED BY <1>2, <1>7, <1>8, <1>10, <1>11, <1>12

LEMMA IncludeKeeps ==
  ASSUME IInv, NEW s, Include(s)
  PROVE  IInv'
<1>1. Typed /\ phase = "pass_one" /\ Reads(s) /\ s.k = "include" /\ files[1].open /\ program \in Programs
  BY DEF IInv, Include, Reads, File, Typed
<1>2. PICK rest \in Seq(Frames(DOMAIN program)), f \in Frames(DOMAIN program) :
        rest = Rest /\ rest # <<>> /\ rest[1] = f /\ Reading(program, rest, line_start) /\ Past(f) /\ line_start <= f.line
  BY <1>1, RestReads
<1>3. s.f \in DOMAIN program /\ s.f \in FileNames
  <2>1. s \in Readable(DOMAIN program)
    BY <1>1, RestIs
  <2> QED BY <1>1, <2>1, StatementIs, NameIs
<1>4. /\ curr_input_file \in DOMAIN program /\ line_num \in Nat /\ old_line_num \in Nat /\ line_start \in Nat
      /\ contents \in Seq(Nat) /\ expr_list \in Seq(Slots(DOMAIN program))
      /\ listing_on \in BOOLEAN /\ listing_for_line_done \in BOOLEAN
  BY <1>1 DEF Typed
<1>5. PICK g : g = [file |-> s.f, line |-> 1, todo |-> <<>>, open |-> FALSE,
                    old |-> <<curr_input_file, line_num, line_start>>]
  OBVIOUS
<1>6. g \in Frames(DOMAIN program)
  <2>1. <<>> \in Seq(Readable(DOMAIN program)) /\ FALSE \in BOOLEAN /\ 1 \in Nat
    OBVIOUS
  <2>2. <<curr_input_file, line_num, line_start>> \in (DOMAIN program \cup {""}) \X Nat \X Nat
    BY <1>4
  <2> QED BY <1>3, <1>5, <2>1, <2>2, FrameMade
<1>7. g.line >= 1 /\ ~g.open /\ g.todo = <<>> /\ g.old[1] \in DOMAIN program /\ g.old[3] <= rest[1].line
  <2>1. g.line = 1 /\ g.open = FALSE /\ g.todo = <<>> /\ g.old = <<curr_input_file, line_num, line_start>>
    BY <1>5
  <2>2. g.old[1] = curr_input_file /\ g.old[3] = line_start
    BY <2>1
  <2> QED BY <1>2, <1>4, <2>1, <2>2
<1>8. PICK fs \in Seq(Frames(DOMAIN program)) : fs = <<g>> \o rest /\ fs # <<>> /\ fs[1] = g /\ Reading(program, fs, line_start)
  <2>1. /\ <<g>> \o rest \in Seq(Frames(DOMAIN program)) /\ <<g>> \o rest # <<>> /\ (<<g>> \o rest)[1] = g
        /\ Reading(program, <<g>> \o rest, line_start)
    BY <1>2, <1>6, <1>7, Nested
  <2> QED BY <2>1
<1>9. files' = fs
  BY <1>2, <1>5, <1>8 DEF Include
<1>10. PICK line : line = IF listing_on /\ ~listing_for_line_done THEN Listed(Current, line_start + 1) ELSE Current
  OBVIOUS
<1>11. line \in Listings /\ line.width <= HexColumns /\ Complete(Shown(line)) /\ Blocks(Shown(line), expr_list)
  <2>1. line_start + 1 \in Int
    BY <1>4
  <2> QED BY <1>1, <1>10, <2>1, LineEnds
<1>12. PICK l : l = IF listing_on THEN Insert(line, Banner(s.f)) ELSE line
  OBVIOUS
<1>13. l \in Listings /\ l.width <= HexColumns /\ Complete(Shown(l)) /\ Blocks(Shown(l), expr_list)
  BY <1>3, <1>4, <1>11, <1>12, BannerFollows
<1>14. Becomes(l)
  BY <1>10, <1>12 DEF Include
<1>15. Whole(Shown(l), expr_list, g, listing_on, listing_for_line_done)
  BY <1>7, <1>13 DEF Whole, Opened, Fresh
<1>16. /\ program' = program /\ phase' = phase /\ saved_listing_offset' = saved_listing_offset
       /\ curr_input_file' = s.f /\ line_num' = 1 /\ old_line_num' = old_line_num
       /\ line_start' = line_start /\ expr_list' = expr_list /\ contents' = contents
       /\ listing_on' = listing_on /\ listing_for_line_done' = listing_for_line_done
  BY DEF Include, Reads
<1>17. 1 \in Nat
  OBVIOUS
<1> QED BY <1>1, <1>3, <1>4, <1>8, <1>9, <1>13, <1>14, <1>15, <1>16, <1>17, PassOneKeeps

LEMMA EndIncludeKeeps ==
  ASSUME IInv, EndInclude
  PROVE  IInv'
<1>1. /\ Typed /\ phase = "pass_one" /\ program \in Programs /\ Reading(program, files, line_start)
      /\ files \in Seq(Frames(DOMAIN program)) /\ Len(files) > 1 /\ File = files[1] /\ ~files[1].open
  BY DEF IInv, EndInclude, File, Typed
<1>2. PICK fs \in Seq(Frames(DOMAIN program)) :
        fs = Tail(files) /\ fs # <<>> /\ Past(fs[1]) /\ Reading(program, fs, files[1].old[3])
  <2>1. /\ Tail(files) \in Seq(Frames(DOMAIN program)) /\ Tail(files) # <<>> /\ Past(Tail(files)[1])
        /\ Reading(program, Tail(files), files[1].old[3])
    BY <1>1, Unnested
  <2> QED BY <2>1
<1>3. files[1].old[1] \in DOMAIN program /\ files[1].old[2] \in Nat /\ files[1].old[3] \in Nat
      /\ files[1].old[1] \in FileNames
  <2>1. files[1].old[1] \in DOMAIN program /\ files[1].old[2] \in Nat /\ files[1].old[3] \in Nat
    BY <1>1, Unnested
  <2> QED BY <1>1, <2>1, NameIs
<1>4. PICK f \in Frames(DOMAIN program) : f = fs[1] /\ Past(f)
  BY <1>2
<1>5. /\ old_line_num \in Nat
      /\ contents \in Seq(Nat) /\ expr_list \in Seq(Slots(DOMAIN program))
      /\ listing_on \in BOOLEAN /\ listing_for_line_done \in BOOLEAN
  BY <1>1 DEF Typed
<1>6. Current \in Listings /\ Current.width <= HexColumns /\ Complete(Shown(Current)) /\ Blocks(Shown(Current), expr_list)
  BY <1>1, PassOneIs DEF Whole, Opened
<1>7. PICK l : l = IF listing_on THEN Insert(Current, Banner(files[1].old[1])) ELSE Current
  OBVIOUS
<1>8. l \in Listings /\ l.width <= HexColumns /\ Complete(Shown(l)) /\ Blocks(Shown(l), expr_list)
  BY <1>3, <1>5, <1>6, <1>7, BannerFollows
<1>9. Becomes(l)
  BY <1>1, <1>7 DEF EndInclude
<1>10. PICK done \in BOOLEAN : done = (listing_for_line_done \/ listing_on)
  OBVIOUS
<1>11. Whole(Shown(l), expr_list, f, listing_on, done)
  <2>1. ~Fresh(f, listing_on)
    BY <1>4, PastNotFresh
  <2>2. ~Opened(f, listing_on, done)
    BY <1>10 DEF Opened
  <2> QED BY <1>8, <2>1, <2>2 DEF Whole
<1>12. /\ program' = program /\ phase' = phase /\ saved_listing_offset' = saved_listing_offset /\ files' = fs
       /\ curr_input_file' = files[1].old[1] /\ line_num' = files[1].old[2] /\ line_start' = files[1].old[3]
       /\ old_line_num' = old_line_num /\ expr_list' = expr_list /\ contents' = contents
       /\ listing_on' = listing_on /\ listing_for_line_done' = done
  BY <1>1, <1>2, <1>10 DEF EndInclude
<1> QED BY <1>1, <1>2, <1>3, <1>4, <1>5, <1>8, <1>9, <1>11, <1>12, PassOneKeeps

LEMMA EndLineKeeps ==
  ASSUME IInv, EndLine
  PROVE  IInv'
<1>1. /\ Typed /\ phase = "pass_one" /\ program \in Programs /\ Reading(program, files, line_start)
      /\ files \in Seq(Frames(DOMAIN program)) /\ files # <<>>
  BY DEF IInv, EndLine, Typed
<1>2. PICK h \in Frames(DOMAIN program) : h = files[1] /\ File = h /\ 1 \in 1..Len(files)
  BY <1>1 DEF File
<1>3. h.open /\ h.todo = <<>> /\ h.line >= 1 /\ h.line \in Nat /\ line_start <= h.line
  <2>1. h.open /\ h.todo = <<>>
    BY <1>2 DEF EndLine
  <2> QED BY <1>1, <1>2, <2>1, FrameIs DEF Reading
<1>4. PICK line \in Nat : line = h.line + 1
  BY <1>3
<1>5. PICK f : f = [h EXCEPT !.open = FALSE, !.line = line]
  OBVIOUS
<1>6. f \in Frames(DOMAIN program)
  <2>1. FALSE \in BOOLEAN
    OBVIOUS
  <2> QED BY <1>5, <2>1 DEF Frames
<1>7. f.line = line /\ f.todo = <<>> /\ f.open = FALSE /\ f.old = h.old
  <2>1. h = [file |-> h.file, line |-> h.line, todo |-> h.todo, open |-> h.open, old |-> h.old]
    BY FrameIs
  <2> QED BY <1>3, <1>5, <2>1
<1>8. PICK lines \in Nat : lines = h.line - line_start
  <2>1. line_start \in Nat
    BY <1>1 DEF Typed
  <2> QED BY <1>3, <2>1
<1>9. PICK start : start = line_start'
  OBVIOUS
<1>10. PICK fs \in Seq(Frames(DOMAIN program)) : fs = [files EXCEPT ![1] = f] /\ fs # <<>> /\ fs[1] = f
                                                 /\ Reading(program, fs, start)
  <2>1. Later(files, f, start)
    <3>1. f.line >= 1
      BY <1>3, <1>4, <1>7
    <3>2. Len(f.todo) = 0
      BY <1>7
    <3>3. \A j \in 2..Len(f.todo) : f.todo[j].k # "nolist"
      BY <3>2
    <3> QED BY <1>2, <1>7, <3>1, <3>3 DEF Later
  <2>2. /\ [files EXCEPT ![1] = f] \in Seq(Frames(DOMAIN program)) /\ [files EXCEPT ![1] = f] # <<>>
        /\ [files EXCEPT ![1] = f][1] = f
        /\ Reading(program, [files EXCEPT ![1] = f], start)
    BY <1>1, <1>6, <2>1, HeadChanged
  <2> QED BY <2>2
<1>11. files' = fs
  <2>1. files' = [files EXCEPT ![1].open = FALSE, ![1].line = @ + 1]
    BY DEF EndLine
  <2>2. [files EXCEPT ![1].open = FALSE, ![1].line = @ + 1] = [files EXCEPT ![1] = f]
    <3>1. h = [file |-> h.file, line |-> h.line, todo |-> h.todo, open |-> h.open, old |-> h.old]
      BY FrameIs
    <3> QED BY <1>1, <1>2, <1>4, <1>5, <3>1
  <2> QED BY <1>10, <2>1, <2>2
<1>12. /\ curr_input_file \in DOMAIN program /\ line_num \in Nat /\ old_line_num \in Nat /\ line_start \in Nat
       /\ contents \in Seq(Nat) /\ expr_list \in Seq(Slots(DOMAIN program))
       /\ listing_on \in BOOLEAN /\ listing_for_line_done \in BOOLEAN
  BY <1>1 DEF Typed
<1>13. PICK l : l = IF listing_on /\ ~listing_for_line_done THEN Listed(Current, line) ELSE Current
  OBVIOUS
<1>14. l \in Listings /\ l.width <= HexColumns /\ Complete(Shown(l)) /\ Blocks(Shown(l), expr_list)
  <2>1. line \in Int
    OBVIOUS
  <2> QED BY <1>1, <1>2, <1>3, <1>13, <2>1, LineEnds
<1>15. Becomes(l)
  BY <1>2, <1>4, <1>13 DEF EndLine
<1>16. Whole(Shown(l), expr_list, f, listing_on, listing_for_line_done)
  BY <1>7, <1>14 DEF Whole, Opened, Fresh
<1>17. /\ program' = program /\ phase' = phase /\ saved_listing_offset' = saved_listing_offset
       /\ curr_input_file' = curr_input_file /\ line_num' = line_num + 1
       /\ expr_list' = expr_list /\ contents' = contents
       /\ listing_on' = listing_on /\ listing_for_line_done' = listing_for_line_done
       /\ (old_line_num' = old_line_num + lines \/ old_line_num' = old_line_num)
       /\ (line_start' = line_start + lines \/ line_start' = line_start)
  BY <1>2, <1>8 DEF EndLine
<1>18. line_num' \in Nat /\ old_line_num' \in Nat /\ line_start' \in Nat
  <2>1. PICK a \in Nat, b \in Nat, c \in Nat : a = line_num /\ b = old_line_num /\ c = line_start
    BY <1>12
  <2>2. a + 1 \in Nat /\ b + lines \in Nat /\ c + lines \in Nat
    OBVIOUS
  <2> QED BY <1>17, <2>1, <2>2, Zenon
<1> QED BY <1>1, <1>9, <1>10, <1>11, <1>12, <1>14, <1>15, <1>16, <1>17, <1>18, PassOneKeeps

----------------------------------------------------------------------------
(***************************************************************************)
(* Pass two keeps it.                                                      *)
(***************************************************************************)
LEMMA EndPassOneKeeps ==
  ASSUME IInv, EndPassOne
  PROVE  IInv'
<1>1. /\ Typed /\ phase = "pass_one" /\ Reading(program, files, line_start)
      /\ File = files[1] /\ ~files[1].open
  BY DEF IInv, EndPassOne, File, Typed
<1>2. /\ program' = program /\ files' = files /\ curr_input_file' = curr_input_file /\ line_num' = line_num
      /\ old_line_num' = old_line_num /\ line_start' = line_start /\ contents' = contents /\ expr_list' = expr_list
      /\ phase' = "pass_two" /\ listing_on' = listing_on /\ listing_for_line_done' = listing_for_line_done
      /\ listing_width' = listing_width /\ listing_buf' = listing_buf /\ listing_offset' = listing_offset
      /\ saved_listing_offset' = listing_offset
  BY DEF EndPassOne, reading
<1>3. Complete(Shown(Current)) /\ Blocks(Shown(Current), expr_list) /\ Current \in Listings
  BY <1>1, PassOneIs DEF Whole, Opened
<1>4. listing_offset \in 0..Len(listing_buf) /\ Shown(Current) = SubSeq(listing_buf, 1, listing_offset)
  <2>1. listing_buf \in Seq(CellSet) /\ listing_offset \in Nat /\ listing_offset <= Len(listing_buf)
        /\ Current.buf = listing_buf /\ Current.at = listing_offset
    BY <1>3, CurrentIs
  <2> QED BY <2>1 DEF Shown
<1>5. Ended(listing_buf, listing_offset, expr_list)
  BY <1>3, <1>4 DEF Ended
<1>6. Current' = Current
  BY <1>2 DEF Current
<1>7. Typed'
  BY <1>1, <1>2, <1>4, <1>6 DEF Typed
<1>8. Reading(program', files', line_start')
  BY <1>1, <1>2
<1>9. Ended(listing_buf', saved_listing_offset', expr_list')
  BY <1>2, <1>5
<1> QED BY <1>2, <1>7, <1>8, <1>9 DEF IInv

\* The placeholder that is next.
LEMMA NextSlot ==
  ASSUME IInv, SecondPassStep
  PROVE  \E x \in Slots(DOMAIN program) :
           /\ x = Head(expr_list) /\ expr_list # <<>> /\ expr_list \in Seq(Slots(DOMAIN program))
           /\ x.out \in Nat /\ x.offset \in Nat /\ x.on \in BOOLEAN /\ x.n \in Nat
           /\ x.file \in DOMAIN program /\ x.line \in Nat
           /\ x.offset <= saved_listing_offset
           /\ x.on => Columned(listing_buf, x.offset, x.n)
<1>1. Typed /\ phase = "pass_two" /\ expr_list # <<>> /\ expr_list \in Seq(Slots(DOMAIN program))
  BY DEF IInv, Typed, SecondPassStep
<1>2. Ended(listing_buf, saved_listing_offset, expr_list)
  BY <1>1 DEF IInv
<1>3. PICK list \in Seq(Slots(DOMAIN program)) : list = expr_list /\ list # <<>>
  BY <1>1
<1>4. 1 \in 1..Len(list) /\ Head(list) = list[1] /\ list[1] \in Slots(DOMAIN program)
  BY <1>3
<1>5. PICK x \in Slots(DOMAIN program) : x = Head(list) /\ x = list[1]
  BY <1>4
<1>6. x.out \in Nat /\ x.offset \in Nat /\ x.on \in BOOLEAN /\ x.n \in Nat /\ x.file \in DOMAIN program /\ x.line \in Nat
  BY DEF Slots
<1>7. PICK b \in Seq(CellSet), s \in Nat : b = listing_buf /\ s = saved_listing_offset /\ s <= Len(b)
  <2>1. listing_buf \in Seq(CellSet)
    BY <1>1, CurrentIs DEF Typed
  <2> QED BY <1>1, <2>1 DEF Typed
<1>8. PICK w \in Seq(CellSet) : w = SubSeq(b, 1, s) /\ Len(w) = s /\ \A i \in 1..s : w[i] = b[i]
  <2>1. SubSeq(b, 1, s) \in Seq(CellSet) /\ Len(SubSeq(b, 1, s)) = s /\ \A i \in 1..s : SubSeq(b, 1, s)[i] = b[i]
    BY <1>7, FirstCells, Zenon
  <2> QED BY <2>1
<1>9. Keeps(w, b, Len(w))
  BY <1>7, <1>8 DEF Keeps, Like
<1>10. x.offset <= s /\ (x.on => Columned(w, x.offset, x.n))
  <2>1. Blocks(w, list)
    BY <1>2, <1>3, <1>7, <1>8 DEF Ended
  <2> QED BY <1>4, <1>5, <1>8, <2>1 DEF Blocks
<1>11. x.on => Columned(b, x.offset, x.n)
  BY <1>9, <1>10, ChainStays DEF Columned
<1> QED BY <1>1, <1>3, <1>5, <1>6, <1>7, <1>10, <1>11

\* What filling in a placeholder makes of the listing.
FillsIn(x, l) ==
  /\ x.on => \A pos : Chain(listing_buf, x.offset, x.n, pos) =>
                        Overwriting(listing_buf, pos, Bytes(x.out, x.n), x.n, l)
  /\ ~x.on => l.buf = listing_buf

LEMMA SecondPassIs ==
  ASSUME IInv, SecondPassStep
  PROVE  \E l \in Listings : Becomes(l) /\ Overlaid(listing_buf, l.buf) /\ FillsIn(Head(expr_list), l)
<1>1. Typed
  BY DEF IInv
<1>2. PICK x \in Slots(DOMAIN program) :
           /\ x = Head(expr_list)
           /\ x.out \in Nat /\ x.offset \in Nat /\ x.on \in BOOLEAN /\ x.n \in Nat
           /\ x.offset <= saved_listing_offset
           /\ x.on => Columned(listing_buf, x.offset, x.n)
  BY NextSlot
<1>3. PICK bytes \in Seq(Nat) : bytes = Bytes(x.out, x.n) /\ Len(bytes) = x.n
  BY <1>2, BytesAre
<1>4. listing_buf \in Seq(CellSet) /\ listing_width \in Nat /\ x.offset <= Len(listing_buf)
  <2>1. listing_buf \in Seq(CellSet) /\ listing_width \in Nat
    BY <1>1, CurrentIs DEF Typed
  <2>2. saved_listing_offset \in 0..Len(listing_buf) /\ Len(listing_buf) \in Nat
    BY <1>1, <2>1 DEF Typed
  <2> QED BY <1>2, <2>1, <2>2
<1>5. PICK start \in Listings : /\ start = [Current EXCEPT !.at = x.offset]
                                /\ start.buf = listing_buf /\ start.at = x.offset
  <2>1. PICK start : start = [buf |-> listing_buf, at |-> x.offset, width |-> listing_width]
    OBVIOUS
  <2>2. start \in Listings
    BY <1>2, <1>4, <2>1, ListingMade
  <2>3. [Current EXCEPT !.at = x.offset] = start
    BY <2>1 DEF Current
  <2> QED BY <2>1, <2>2, <2>3
<1>6. PICK l : l = IF x.on THEN Overwritten(start, bytes) ELSE start
  OBVIOUS
<1>7. l \in Listings /\ Overlaid(listing_buf, l.buf) /\ FillsIn(x, l)
  <2>1. CASE x.on
    <3>1. ASSUME NEW pos, Chain(listing_buf, x.offset, x.n, pos)
          PROVE  Overwriting(listing_buf, pos, Bytes(x.out, x.n), x.n, l)
      <4>1. Chain(start.buf, start.at, Len(bytes), pos)
        BY <1>3, <1>5, <3>1
      <4>2. Overwriting(start.buf, pos, bytes, Len(bytes), Overwritten(start, bytes))
        BY <4>1, ColumnsOverwritten
      <4> QED BY <1>3, <1>5, <1>6, <2>1, <4>2
    <3>2. PICK pos : Chain(listing_buf, x.offset, x.n, pos)
      BY <1>2, <2>1 DEF Columned
    <3>3. Overwriting(listing_buf, pos, Bytes(x.out, x.n), x.n, l)
      BY <3>1, <3>2
    <3> QED BY <2>1, <3>1, <3>3 DEF FillsIn, Overwriting
  <2>2. CASE ~x.on
    <3>1. l = start
      BY <1>6, <2>2
    <3> QED BY <1>5, <2>2, <3>1 DEF Overlaid, FillsIn
  <2> QED BY <2>1, <2>2
<1>8. Becomes(l)
  BY <1>2, <1>3, <1>5, <1>6 DEF SecondPassStep
<1> QED BY <1>2, <1>7, <1>8

\* The columns that are overwritten finish no line and start none.
LEMMA EndedStays ==
  ASSUME NEW b \in Seq(CellSet), NEW x \in Seq(CellSet), Overlaid(b, x), NEW s \in 0..Len(b),
         NEW D, NEW list \in Seq(Slots(D)), Ended(b, s, list), list # <<>>
  PROVE  Ended(x, s, Tail(list))
<1>1. s \in Nat /\ s <= Len(b) /\ s <= Len(x)
  BY DEF Overlaid
<1>2. PICK w \in Seq(CellSet) : w = SubSeq(b, 1, s) /\ Len(w) = s /\ \A i \in 1..s : w[i] = b[i]
  <2>1. SubSeq(b, 1, s) \in Seq(CellSet) /\ Len(SubSeq(b, 1, s)) = s /\ \A i \in 1..s : SubSeq(b, 1, s)[i] = b[i]
    BY <1>1, FirstCells, Zenon
  <2> QED BY <2>1
<1>3. PICK y \in Seq(CellSet) : y = SubSeq(x, 1, s) /\ Len(y) = s /\ \A i \in 1..s : y[i] = x[i]
  <2>1. SubSeq(x, 1, s) \in Seq(CellSet) /\ Len(SubSeq(x, 1, s)) = s /\ \A i \in 1..s : SubSeq(x, 1, s)[i] = x[i]
    BY <1>1, FirstCells, Zenon
  <2> QED BY <2>1
<1>4. Keeps(b, x, s)
  BY OverlaidKeeps
<1>5. Keeps(w, y, s)
  BY <1>1, <1>2, <1>3, <1>4 DEF Keeps
<1>6. Complete(w) /\ Blocks(w, list)
  BY <1>2 DEF Ended
<1>7. Complete(y)
  BY <1>1, <1>2, <1>3, <1>5, <1>6, UpToKept DEF Complete
<1>8. Blocks(y, list)
  BY <1>2, <1>5, <1>6, BlocksKept
<1>9. Blocks(y, Tail(list))
  BY <1>8, BlocksTail
<1> QED BY <1>3, <1>7, <1>9 DEF Ended

\* The output with n bytes of another sequence behind o.
LEMMA BytesPut ==
  ASSUME NEW c \in Seq(Nat), NEW o \in Nat, NEW n \in Nat, NEW b \in Seq(Nat), Len(b) = n
  PROVE  [a \in DOMAIN c |-> IF a > o /\ a <= o + n THEN b[a - o] ELSE c[a]] \in Seq(Nat)
<1>1. PICK m \in Nat : m = Len(c) /\ DOMAIN c = 1..m
  OBVIOUS
<1>2. PICK d : d = [a \in DOMAIN c |-> IF a > o /\ a <= o + n THEN b[a - o] ELSE c[a]]
  OBVIOUS
<1>3. ASSUME NEW a \in 1..m PROVE d[a] \in Nat
  <2>1. CASE a > o /\ a <= o + n
    <3>1. a - o \in 1..Len(b)
      BY <2>1
    <3>2. d[a] = b[a - o]
      BY <1>1, <1>2, <2>1
    <3> QED BY <3>1, <3>2
  <2>2. CASE ~(a > o /\ a <= o + n)
    <3>1. d[a] = c[a] /\ a \in 1..Len(c)
      BY <1>1, <1>2, <2>2
    <3> QED BY <3>1
  <2> QED BY <2>1, <2>2
<1>4. d \in [1..m -> Nat]
  BY <1>1, <1>2, <1>3
<1> QED BY <1>2, <1>4

LEMMA SecondPassStepKeeps ==
  ASSUME IInv, SecondPassStep
  PROVE  IInv'
<1>1. Typed /\ phase = "pass_two" /\ Reading(program, files, line_start)
  BY DEF IInv, SecondPassStep
<1>2. PICK x \in Slots(DOMAIN program) :
           /\ x = Head(expr_list) /\ expr_list # <<>> /\ expr_list \in Seq(Slots(DOMAIN program))
           /\ x.out \in Nat /\ x.on \in BOOLEAN /\ x.n \in Nat
           /\ x.file \in DOMAIN program /\ x.line \in Nat
  BY NextSlot
<1>3. PICK l \in Listings : Becomes(l) /\ Overlaid(listing_buf, l.buf)
  BY SecondPassIs
<1>4. PICK bytes \in Seq(Nat) : bytes = Bytes(x.out, x.n) /\ Len(bytes) = x.n
  BY <1>2, BytesAre
<1>5. /\ program' = program /\ files' = files /\ curr_input_file' = x.file /\ line_num' = x.line
      /\ old_line_num' = old_line_num /\ line_start' = line_start /\ expr_list' = Tail(expr_list)
      /\ phase' = "pass_two" /\ listing_on' = x.on /\ listing_for_line_done' = listing_for_line_done
      /\ saved_listing_offset' = saved_listing_offset
      /\ contents' = [a \in DOMAIN contents |->
                       IF a > x.out /\ a <= x.out + x.n THEN bytes[a - x.out] ELSE contents[a]]
  BY <1>1, <1>2, <1>4 DEF SecondPassStep
<1>6. Current' = l /\ listing_buf' = l.buf
  BY <1>3, BecomesIs DEF Becomes
<1>7. listing_buf \in Seq(CellSet) /\ l.buf \in Seq(CellSet) /\ Len(l.buf) = Len(listing_buf)
  BY <1>1, <1>3, CurrentIs, ListingIs DEF Typed, Overlaid
<1>8. contents' \in Seq(Nat)
  <2>1. contents \in Seq(Nat)
    BY <1>1 DEF Typed
  <2>2. PICK o \in Nat, n \in Nat : o = x.out /\ n = x.n
    BY <1>2
  <2>3. [a \in DOMAIN contents |-> IF a > o /\ a <= o + n THEN bytes[a - o] ELSE contents[a]] \in Seq(Nat)
    BY <1>4, <2>1, <2>2, BytesPut
  <2> QED BY <1>5, <2>2, <2>3
<1>9. expr_list' \in Seq(Slots(DOMAIN program))
  BY <1>2, <1>5, HeadTailProperties
<1>10. DOMAIN program' = DOMAIN program
  BY <1>5
<1>11. saved_listing_offset' \in 0..Len(listing_buf')
  BY <1>1, <1>5, <1>6, <1>7 DEF Typed
<1>12. Typed'
  BY <1>1, <1>2, <1>5, <1>6, <1>8, <1>9, <1>10, <1>11 DEF Typed
<1>13. Ended(l.buf, saved_listing_offset, Tail(expr_list))
  <2>1. Ended(listing_buf, saved_listing_offset, expr_list)
    BY <1>1 DEF IInv
  <2>2. saved_listing_offset \in 0..Len(listing_buf)
    BY <1>1 DEF Typed
  <2> QED BY <1>2, <1>3, <1>7, <2>1, <2>2, EndedStays
<1>14. Reading(program', files', line_start')
  BY <1>1, <1>5
<1>15. Ended(listing_buf', saved_listing_offset', expr_list')
  BY <1>5, <1>6, <1>13
<1> QED BY <1>5, <1>12, <1>14, <1>15 DEF IInv

LEMMA EndPassTwoKeeps ==
  ASSUME IInv, EndPassTwo
  PROVE  IInv'
<1>1. Typed /\ phase = "pass_two" /\ Reading(program, files, line_start)
      /\ Ended(listing_buf, saved_listing_offset, expr_list)
  BY DEF IInv, EndPassTwo
<1>2. /\ program' = program /\ files' = files /\ curr_input_file' = files[1].file /\ line_num' = line_num
      /\ old_line_num' = old_line_num /\ line_start' = line_start /\ contents' = contents /\ expr_list' = expr_list
      /\ phase' = "done" /\ listing_on' = listing_on /\ listing_for_line_done' = listing_for_line_done
      /\ listing_width' = listing_width /\ listing_buf' = listing_buf /\ listing_offset' = saved_listing_offset
      /\ saved_listing_offset' = saved_listing_offset
  BY <1>1 DEF EndPassTwo, File, Typed
<1>3. files[1].file \in DOMAIN program
  <2>1. files[1] \in Frames(DOMAIN program)
    BY <1>1 DEF Typed
  <2> QED BY <2>1, FrameIs
<1>4. Current' \in Listings
  <2>1. listing_buf \in Seq(CellSet) /\ listing_width \in Nat
    BY <1>1, CurrentIs DEF Typed
  <2>2. saved_listing_offset \in Nat /\ saved_listing_offset <= Len(listing_buf)
    BY <1>1, <2>1 DEF Typed
  <2>3. [buf |-> listing_buf, at |-> saved_listing_offset, width |-> listing_width] \in Listings
    BY <2>1, <2>2, ListingMade
  <2>4. Current' = [buf |-> listing_buf, at |-> saved_listing_offset, width |-> listing_width]
    BY <1>2 DEF Current
  <2> QED BY <2>3, <2>4
<1>5. Typed'
  BY <1>1, <1>2, <1>3, <1>4 DEF Typed
<1>6. Reading(program', files', line_start') /\ Ended(listing_buf', saved_listing_offset', expr_list')
      /\ listing_offset' = saved_listing_offset' /\ phase' # "pass_one"
  BY <1>1, <1>2
<1> QED BY <1>5, <1>6 DEF IInv

----------------------------------------------------------------------------
(***************************************************************************)
(* What the listing tells of the output c of the program p.  addr gives    *)
(* the address of the byte in each column: it is not in the code, which    *)
(* only has the columns and the bytes.                                     *)
(***************************************************************************)
Addressed(w, c, addr) ==
  /\ addr \in [1..Len(w) -> Nat]
  /\ \A q \in 1..Len(w) : w[q].k = "hex" => addr[q] >= 1 /\ addr[q] <= Len(c) /\ w[q].n = c[addr[q]]
  /\ \A q \in 1..Len(w) : \A r \in 1..Len(w) : w[q].k = "hex" /\ w[r].k = "hex" /\ q < r => addr[q] < addr[r]

\* The columns up to o are those of the bytes up to a.
Cut(w, addr, o, a) == \A q \in 1..Len(w) : w[q].k = "hex" => (q <= o <=> addr[q] <= a)

\* Each byte behind a, up to b, has its column.
Filled(w, addr, a, b) == \A i \in a + 1..b : \E q \in 1..Len(w) : w[q].k = "hex" /\ addr[q] = i

\* An argument left to pass two has its columns behind its offset, or none.
Placed(w, c, addr, x) ==
  /\ x.offset <= Len(w) /\ x.out + x.n <= Len(c)
  /\ x.on => Cut(w, addr, x.offset, x.out) /\ Filled(w, addr, x.out, x.out + x.n)
  /\ ~x.on => \A q \in 1..Len(w) : w[q].k = "hex" => addr[q] <= x.out \/ addr[q] > x.out + x.n

Taken(p, f, n) ==
  \E i \in 1..n - 1 :
    LET line == p[f][i]
    IN line # <<>> /\ line[Len(line)].k = "skip" /\ n <= i + line[Len(line)].n

\* The number of bytes the line n of the file f shows.
Sized(p, f, n, size) == size = Size(p[f][n]) \/ (size = 0 /\ Taken(p, f, n))

\* The line whose text is at t begins behind s and shows `size` bytes.
From(p, w, c, addr, t, s, size) ==
  /\ w[s].k = "line" /\ w[s].n = w[t].n
  /\ \A q \in s + 1..t - 1 : w[q].k \in {"hex", "newline", "space", "dash"}
  /\ w[s].pc + size <= Len(c)
  /\ Cut(w, addr, s, w[s].pc) /\ Cut(w, addr, t, w[s].pc + size) /\ Filled(w, addr, w[s].pc, w[s].pc + size)
  /\ Sized(p, w[t].file, w[t].n, size)

LineShown(p, w, c, addr, t) == \E s \in 1..t - 1 : \E size \in Nat : From(p, w, c, addr, t, s, size)

Told(p, w, c, list, addr) ==
  /\ Addressed(w, c, addr)
  /\ \A i \in 1..Len(list) : Placed(w, c, addr, list[i])
  /\ \A t \in 1..Len(w) : w[t].k = "text" => LineShown(p, w, c, addr, t)

\* Later, x and d are listed and written.
Extends(w, c, addr, x, d, more) ==
  /\ Len(w) <= Len(x) /\ \A q \in 1..Len(w) : x[q] = w[q] /\ more[q] = addr[q]
  /\ Len(c) <= Len(d) /\ \A i \in 1..Len(c) : d[i] = c[i]
  /\ Addressed(x, d, more)
  /\ \A q \in 1..Len(x) : q > Len(w) /\ x[q].k = "hex" => more[q] > Len(c)

LEMMA CellFields ==
  ASSUME NEW w \in Seq(CellSet), NEW q \in 1..Len(w)
  PROVE  w[q].n \in Nat /\ w[q].pc \in Nat
<1>1. w[q] \in CellSet
  OBVIOUS
<1> QED BY <1>1 DEF CellSet

LEMMA CutExtends ==
  ASSUME NEW w \in Seq(CellSet), NEW x \in Seq(CellSet), NEW c \in Seq(Nat), NEW d \in Seq(Nat),
         NEW addr, NEW more, Extends(w, c, addr, x, d, more),
         NEW o \in Nat, NEW a \in Nat, o <= Len(w), a <= Len(c), Cut(w, addr, o, a)
  PROVE  Cut(x, more, o, a)
<1> SUFFICES ASSUME NEW q \in 1..Len(x), x[q].k = "hex" PROVE q <= o <=> more[q] <= a
  BY DEF Cut
<1>1. more \in [1..Len(x) -> Nat] /\ more[q] \in Nat
  BY DEF Extends, Addressed
<1>2. CASE q <= Len(w)
  <2>1. q \in 1..Len(w)
    BY <1>2
  <2>2. x[q] = w[q] /\ more[q] = addr[q]
    BY <2>1 DEF Extends
  <2> QED BY <2>1, <2>2 DEF Cut
<1>3. CASE q > Len(w)
  <2>1. more[q] > Len(c)
    BY <1>3 DEF Extends
  <2> QED BY <1>1, <1>3, <2>1
<1> QED BY <1>2, <1>3

LEMMA FilledExtends ==
  ASSUME NEW w \in Seq(CellSet), NEW x \in Seq(CellSet), NEW c, NEW d,
         NEW addr, NEW more, Extends(w, c, addr, x, d, more),
         NEW a \in Nat, NEW b \in Nat, Filled(w, addr, a, b)
  PROVE  Filled(x, more, a, b)
<1> SUFFICES ASSUME NEW i \in a + 1..b PROVE \E q \in 1..Len(x) : x[q].k = "hex" /\ more[q] = i
  BY DEF Filled
<1>1. PICK q \in 1..Len(w) : w[q].k = "hex" /\ addr[q] = i
  BY DEF Filled
<1>2. q \in 1..Len(x) /\ x[q] = w[q] /\ more[q] = addr[q]
  BY DEF Extends
<1> QED BY <1>1, <1>2

LEMMA SlotIs ==
  ASSUME NEW D, NEW e \in Slots(D)
  PROVE  e.out \in Nat /\ e.offset \in Nat /\ e.on \in BOOLEAN /\ e.n \in Nat
BY DEF Slots

LEMMA PlacedExtends ==
  ASSUME NEW w \in Seq(CellSet), NEW x \in Seq(CellSet), NEW c \in Seq(Nat), NEW d \in Seq(Nat),
         NEW addr, NEW more, Addressed(w, c, addr), Extends(w, c, addr, x, d, more),
         NEW D, NEW e \in Slots(D), Placed(w, c, addr, e)
  PROVE  Placed(x, d, more, e)
<1>1. PICK o \in Nat, n \in Nat, a \in Nat : o = e.out /\ n = e.n /\ a = e.offset
  BY SlotIs
<1>2. e.on \in BOOLEAN
  BY SlotIs
<1>3. a <= Len(w) /\ o + n <= Len(c) /\ Len(w) <= Len(x) /\ Len(c) <= Len(d)
  BY <1>1 DEF Placed, Extends
<1>4. a <= Len(x) /\ o + n <= Len(d) /\ o <= Len(c) /\ o + n \in Nat
  BY <1>3
<1>5. ASSUME e.on PROVE Cut(x, more, a, o) /\ Filled(x, more, o, o + n)
  <2>1. Cut(w, addr, a, o) /\ Filled(w, addr, o, o + n)
    BY <1>1, <1>5 DEF Placed
  <2> QED BY <1>3, <1>4, <2>1, CutExtends, FilledExtends
<1>6. ASSUME ~e.on, NEW q \in 1..Len(x), x[q].k = "hex" PROVE more[q] <= o \/ more[q] > o + n
  <2>1. CASE q <= Len(w)
    <3>1. q \in 1..Len(w)
      BY <2>1
    <3>2. x[q] = w[q] /\ more[q] = addr[q]
      BY <3>1 DEF Extends
    <3>3. addr[q] <= o \/ addr[q] > o + n
      BY <1>1, <1>6, <3>1, <3>2 DEF Placed
    <3> QED BY <3>2, <3>3
  <2>2. CASE q > Len(w)
    <3>1. more[q] > Len(c) /\ more[q] \in Nat
      BY <1>6, <2>2 DEF Extends, Addressed
    <3> QED BY <1>3, <3>1
  <2> QED BY <2>1, <2>2
<1> QED BY <1>1, <1>4, <1>5, <1>6 DEF Placed

LEMMA FromExtends ==
  ASSUME NEW p, NEW w \in Seq(CellSet), NEW x \in Seq(CellSet), NEW c \in Seq(Nat), NEW d \in Seq(Nat),
         NEW addr, NEW more, Extends(w, c, addr, x, d, more),
         NEW t \in 1..Len(w), NEW s \in 1..t - 1, NEW size \in Nat, From(p, w, c, addr, t, s, size)
  PROVE  From(p, x, d, more, t, s, size)
<1>1. s \in 1..Len(w) /\ s \in Nat /\ s <= Len(w) /\ t \in Nat /\ t <= Len(w)
  OBVIOUS
<1>2. x[s] = w[s] /\ x[t] = w[t] /\ \A q \in s + 1..t - 1 : x[q] = w[q]
  <2>1. \A q \in s + 1..t - 1 : q \in 1..Len(w)
    BY <1>1
  <2> QED BY <1>1, <2>1 DEF Extends
<1>3. PICK a \in Nat : a = w[s].pc
  BY <1>1, CellFields
<1>4. /\ w[s].k = "line" /\ w[s].n = w[t].n
      /\ \A q \in s + 1..t - 1 : w[q].k \in {"hex", "newline", "space", "dash"}
      /\ a + size <= Len(c)
      /\ Cut(w, addr, s, a) /\ Cut(w, addr, t, a + size) /\ Filled(w, addr, a, a + size)
      /\ Sized(p, w[t].file, w[t].n, size)
  BY <1>3 DEF From
<1>5. a <= Len(c) /\ a + size \in Nat /\ a + size <= Len(d)
  <2>1. PICK m \in Nat, n \in Nat : m = Len(c) /\ n = Len(d)
    OBVIOUS
  <2>2. m <= n
    BY <2>1 DEF Extends
  <2>3. a + size <= m
    BY <1>4, <2>1
  <2>4. a <= m /\ a + size \in Nat /\ a + size <= n
    BY <2>2, <2>3
  <2> QED BY <2>1, <2>4
<1>6. Cut(x, more, s, a) /\ Cut(x, more, t, a + size)
  BY <1>1, <1>4, <1>5, CutExtends
<1>7. Filled(x, more, a, a + size)
  BY <1>4, <1>5, FilledExtends
<1>8. \A q \in s + 1..t - 1 : x[q].k \in {"hex", "newline", "space", "dash"}
  BY <1>2, <1>4
<1>9. x[s].k = "line" /\ x[s].n = x[t].n /\ x[s].pc = a /\ Sized(p, x[t].file, x[t].n, size)
  BY <1>2, <1>3, <1>4
<1> QED BY <1>5, <1>6, <1>7, <1>8, <1>9 DEF From

\* What the listing told, it still tells.
LEMMA ToldExtends ==
  ASSUME NEW p, NEW w \in Seq(CellSet), NEW x \in Seq(CellSet), NEW c \in Seq(Nat), NEW d \in Seq(Nat),
         NEW D, NEW list \in Seq(Slots(D)), NEW addr, NEW more,
         Told(p, w, c, list, addr), Extends(w, c, addr, x, d, more),
         \A t \in 1..Len(x) : t > Len(w) /\ x[t].k = "text" => LineShown(p, x, d, more, t)
  PROVE  Told(p, x, d, list, more)
<1>1. Addressed(w, c, addr) /\ Addressed(x, d, more)
  BY DEF Told, Extends
<1>2. ASSUME NEW i \in 1..Len(list) PROVE Placed(x, d, more, list[i])
  <2>1. list[i] \in Slots(D)
    OBVIOUS
  <2>2. Placed(w, c, addr, list[i])
    BY DEF Told
  <2> QED BY <1>1, <2>1, <2>2, PlacedExtends
<1>3. ASSUME NEW t \in 1..Len(x), x[t].k = "text" PROVE LineShown(p, x, d, more, t)
  <2>1. CASE t > Len(w)
    BY <1>3, <2>1
  <2>2. CASE t <= Len(w)
    <3>1. t \in 1..Len(w)
      BY <2>2
    <3>2. x[t] = w[t]
      BY <3>1 DEF Extends
    <3>3. PICK s \in 1..t - 1, size \in Nat : From(p, w, c, addr, t, s, size)
      BY <1>3, <3>1, <3>2 DEF Told, LineShown
    <3>4. From(p, x, d, more, t, s, size)
      BY <3>1, <3>3, FromExtends
    <3> QED BY <3>4 DEF LineShown
  <2> QED BY <2>1, <2>2
<1> QED BY <1>1, <1>2, <1>3 DEF Told

\* Cells that are no columns.
LEMMA NoColumns ==
  ASSUME NEW w \in Seq(CellSet), NEW c \in Seq(Nat), NEW addr, Addressed(w, c, addr),
         NEW e \in Seq(CellSet), \A i \in 1..Len(e) : e[i].k # "hex"
  PROVE  \E more : Extends(w, c, addr, w \o e, c, more)
<1>1. PICK x \in Seq(CellSet) : /\ x = w \o e /\ Len(x) = Len(w) + Len(e)
                                /\ \A i \in 1..Len(w) : x[i] = w[i]
                                /\ \A i \in 1..Len(e) : x[Len(w) + i] = e[i]
  <2>1. /\ w \o e \in Seq(CellSet) /\ Len(w \o e) = Len(w) + Len(e)
        /\ \A i \in 1..Len(w) : (w \o e)[i] = w[i]
        /\ \A i \in 1..Len(e) : (w \o e)[Len(w) + i] = e[i]
    BY Joined
  <2> QED BY <2>1
<1>2. PICK more : more = [q \in 1..Len(x) |-> IF q <= Len(w) THEN addr[q] ELSE 0]
  OBVIOUS
<1>3. \A q \in 1..Len(x) : x[q].k = "hex" => q \in 1..Len(w)
  <2> SUFFICES ASSUME NEW q \in 1..Len(x), q \notin 1..Len(w) PROVE x[q].k # "hex"
    OBVIOUS
  <2>1. PICK i \in 1..Len(e) : q = Len(w) + i
    <3>1. q - Len(w) \in 1..Len(e) /\ q = Len(w) + (q - Len(w))
      BY <1>1
    <3> QED BY <3>1
  <2> QED BY <1>1, <2>1
<1>4. \A q \in 1..Len(w) : q \in 1..Len(x) /\ more[q] = addr[q]
  BY <1>1, <1>2
<1>5. more \in [1..Len(x) -> Nat]
  <2>1. addr \in [1..Len(w) -> Nat]
    BY DEF Addressed
  <2> QED BY <1>2, <2>1
<1>6. Addressed(x, c, more)
  <2>1. \A q \in 1..Len(x) : x[q].k = "hex" => more[q] >= 1 /\ more[q] <= Len(c) /\ x[q].n = c[more[q]]
    BY <1>1, <1>3, <1>4 DEF Addressed
  <2>2. \A q \in 1..Len(x) : \A r \in 1..Len(x) : x[q].k = "hex" /\ x[r].k = "hex" /\ q < r => more[q] < more[r]
    BY <1>1, <1>3, <1>4 DEF Addressed
  <2> QED BY <1>5, <2>1, <2>2 DEF Addressed
<1>7. Extends(w, c, addr, x, c, more)
  BY <1>1, <1>3, <1>4, <1>6 DEF Extends
<1> QED BY <1>1, <1>7

\* Columns are listed for the bytes d goes on with.
Added(w, c, addr, x, d, more) ==
  /\ Extends(w, c, addr, x, d, more)
  /\ Filled(x, more, Len(c), Len(d))
  /\ \A t \in 1..Len(x) : t > Len(w) => x[t].k \in {"hex", "newline", "space", "dash"}

LEMMA OneColumn ==
  ASSUME NEW w \in Seq(CellSet), NEW c \in Seq(Nat), NEW addr, Addressed(w, c, addr),
         NEW e \in Seq(CellSet), \A i \in 1..Len(e) : e[i].k \in {"newline", "space"},
         NEW v \in Nat, NEW d \in Seq(Nat), Len(d) = Len(c) + 1, \A i \in 1..Len(c) : d[i] = c[i], d[Len(c) + 1] = v
  PROVE  \E more : Added(w, c, addr, (w \o e) \o <<Hex(v)>>, d, more)
<1>1. PICK k \in Nat, m \in Nat, n \in Nat : k = Len(w) /\ m = Len(e) /\ n = Len(c)
  OBVIOUS
<1>2. PICK y \in Seq(CellSet) : y = w \o e /\ Len(y) = k + m
                                /\ (\A i \in 1..k : y[i] = w[i]) /\ \A i \in 1..m : y[k + i] = e[i]
  <2>1. /\ w \o e \in Seq(CellSet) /\ Len(w \o e) = Len(w) + Len(e)
        /\ \A i \in 1..Len(w) : (w \o e)[i] = w[i]
        /\ \A i \in 1..Len(e) : (w \o e)[Len(w) + i] = e[i]
    BY Joined
  <2> QED BY <1>1, <2>1
<1>3. PICK h \in Seq(CellSet) : h = <<Hex(v)>> /\ Len(h) = 1 /\ h[1].k = "hex" /\ h[1].n = v
  <2>1. PICK a \in CellSet : a = Hex(v) /\ a.k = "hex"
    BY HexIs
  <2>2. a.n = v
    BY <2>1 DEF Hex, Cell
  <2>3. <<a>> \in Seq(CellSet) /\ Len(<<a>>) = 1 /\ <<a>>[1] = a
    OBVIOUS
  <2> QED BY <2>1, <2>2, <2>3
<1>4. PICK x \in Seq(CellSet) : x = y \o h /\ Len(x) = k + m + 1
                                /\ (\A i \in 1..k + m : x[i] = y[i]) /\ x[k + m + 1] = h[1]
  <2>1. /\ y \o h \in Seq(CellSet) /\ Len(y \o h) = Len(y) + Len(h)
        /\ \A i \in 1..Len(y) : (y \o h)[i] = y[i]
        /\ \A i \in 1..Len(h) : (y \o h)[Len(y) + i] = h[i]
    BY Joined
  <2>2. PICK z \in Seq(CellSet) : z = y \o h
    BY <2>1
  <2>3. Len(z) = k + m + 1 /\ (\A i \in 1..k + m : z[i] = y[i]) /\ \A i \in 1..1 : z[k + m + i] = h[i]
    BY <1>2, <1>3, <2>1, <2>2, ZenonT(40)
  <2>4. 1 \in 1..1
    OBVIOUS
  <2>5. z[k + m + 1] = h[1]
    BY <2>3, <2>4
  <2> QED BY <2>2, <2>3, <2>5
<1>5. PICK last \in Nat : last = k + m + 1
  OBVIOUS
<1>6. PICK more : more = [q \in 1..Len(x) |-> IF q <= k THEN addr[q] ELSE n + 1]
  OBVIOUS
<1>7. \A q \in 1..k : x[q] = w[q]
  <2>1. \A q \in 1..k : q \in 1..k + m
    OBVIOUS
  <2> QED BY <1>2, <1>4, <2>1
<1>8. ASSUME NEW q \in 1..Len(x), q > k PROVE q = last \/ x[q].k \in {"newline", "space"}
  <2> SUFFICES ASSUME q # last PROVE x[q].k \in {"newline", "space"}
    OBVIOUS
  <2>1. PICK i \in 1..m : q = k + i
    <3>1. q - k \in 1..m /\ q = k + (q - k)
      BY <1>4, <1>5, <1>8
    <3> QED BY <3>1
  <2>2. x[q] = e[i]
    <3>1. q \in 1..k + m
      BY <2>1
    <3> QED BY <1>2, <1>4, <2>1, <3>1
  <2> QED BY <1>1, <2>1, <2>2
<1>9. x[last].k = "hex" /\ x[last].n = v /\ last \in 1..Len(x) /\ last > k
  <2>3. last \in 1..last /\ last > k
    BY <1>5
  <2>1. Len(x) = last /\ last \in 1..last /\ last > k
    BY <1>4, <1>5, <2>3, Zenon
  <2>2. x[last] = h[1]
    BY <1>4, <1>5
  <2> QED BY <1>3, <2>1, <2>2
<1>10. (\A q \in 1..k : q \in 1..Len(x) /\ more[q] = addr[q]) /\ more[last] = n + 1
  <2>1. \A q \in 1..k : q \in 1..Len(x) /\ q <= k
    BY <1>4
  <2>2. ~(last <= k)
    BY <1>9
  <2> QED BY <1>6, <1>9, <2>1, <2>2
<1>11. addr \in [1..k -> Nat]
       /\ (\A q \in 1..k : w[q].k = "hex" => addr[q] >= 1 /\ addr[q] <= n /\ w[q].n = c[addr[q]])
       /\ \A q \in 1..k : \A r \in 1..k : w[q].k = "hex" /\ w[r].k = "hex" /\ q < r => addr[q] < addr[r]
  BY <1>1 DEF Addressed
<1>12. \A q \in 1..Len(x) : x[q].k = "hex" => q \in 1..k \/ q = last
  <2>1. \A q \in 1..Len(x) : ~(q > k) => q \in 1..k
    BY <1>1
  <2> QED BY <1>8, <2>1
<1>13. Addressed(x, d, more)
  <2>1. more \in [1..Len(x) -> Nat]
    <3>1. \A q \in 1..Len(x) : (IF q <= k THEN addr[q] ELSE n + 1) \in Nat
      BY <1>11
    <3> QED BY <1>6, <3>1
  <2>2. ASSUME NEW q \in 1..Len(x), x[q].k = "hex" PROVE more[q] >= 1 /\ more[q] <= Len(d) /\ x[q].n = d[more[q]]
    <3>1. CASE q \in 1..k
      <4>1. PICK a \in Nat : a = addr[q]
        BY <1>11, <3>1
      <4>2. a >= 1 /\ a <= n /\ w[q].n = c[a]
        BY <1>7, <1>11, <2>2, <3>1, <4>1
      <4>3. a \in 1..Len(c) /\ a <= Len(d)
        BY <1>1, <4>2
      <4>4. d[a] = c[a]
        BY <4>3
      <4> QED BY <1>7, <1>10, <3>1, <4>1, <4>2, <4>3, <4>4
    <3>2. CASE q = last
      <4>1. n + 1 >= 1 /\ n + 1 <= Len(d) /\ d[n + 1] = v
        BY <1>1
      <4> QED BY <1>9, <1>10, <3>2, <4>1
    <3> QED BY <1>12, <2>2, <3>1, <3>2
  <2>3. ASSUME NEW q \in 1..Len(x), NEW r \in 1..Len(x), x[q].k = "hex", x[r].k = "hex", q < r
        PROVE  more[q] < more[r]
    <3>1. CASE r \in 1..k
      <4>1. q \in 1..k
        BY <2>3, <3>1
      <4> QED BY <1>7, <1>10, <1>11, <2>3, <3>1, <4>1
    <3>2. CASE r = last
      <4>1. q \in 1..k
        BY <1>12, <2>3, <3>2
      <4>2. addr[q] <= n /\ addr[q] \in Nat
        BY <1>7, <1>11, <2>3, <4>1
      <4> QED BY <1>10, <3>2, <4>1, <4>2, SMTT(30)
    <3> QED BY <1>12, <2>3, <3>1, <3>2
  <2> QED BY <2>1, <2>2, <2>3 DEF Addressed
<1>14. Extends(w, c, addr, x, d, more)
  <2>1. Len(w) <= Len(x) /\ Len(c) <= Len(d)
    <3>1. k <= k + m + 1 /\ n <= n + 1
      OBVIOUS
    <3> QED BY <1>1, <1>4, <3>1
  <2>2. \A q \in 1..Len(x) : q > Len(w) /\ x[q].k = "hex" => more[q] > Len(c)
    <3> TAKE q \in 1..Len(x)
    <3> HAVE q > Len(w) /\ x[q].k = "hex"
    <3>1. q \notin 1..k
      BY <1>1
    <3>2. q = last
      BY <1>12, <3>1
    <3>3. n + 1 > Len(c)
      BY <1>1
    <3> QED BY <1>10, <3>2, <3>3
  <2> QED BY <1>1, <1>7, <1>10, <1>13, <2>1, <2>2 DEF Extends
<1>15. Filled(x, more, Len(c), Len(d))
  <2>1. \A i \in Len(c) + 1..Len(d) : i = n + 1
    BY <1>1
  <2> QED BY <1>9, <1>10, <2>1 DEF Filled
<1>16. \A t \in 1..Len(x) : t > Len(w) => x[t].k \in {"hex", "newline", "space", "dash"}
  BY <1>1, <1>8, <1>9
<1>17. Added(w, c, addr, x, d, more)
  BY <1>14, <1>15, <1>16 DEF Added
<1>18. x = (w \o e) \o <<Hex(v)>>
  BY <1>2, <1>3, <1>4, Zenon
<1> QED BY <1>17, <1>18

LEMMA ExtendsOn ==
  ASSUME NEW w \in Seq(CellSet), NEW x \in Seq(CellSet), NEW y \in Seq(CellSet),
         NEW c \in Seq(Nat), NEW d \in Seq(Nat), NEW e \in Seq(Nat), NEW addr, NEW more, NEW most,
         Extends(w, c, addr, x, d, more), Extends(x, d, more, y, e, most)
  PROVE  Extends(w, c, addr, y, e, most)
<1>1. PICK i1 \in Nat, i2 \in Nat, i3 \in Nat, j1 \in Nat, j2 \in Nat, j3 \in Nat :
        i1 = Len(w) /\ i2 = Len(x) /\ i3 = Len(y) /\ j1 = Len(c) /\ j2 = Len(d) /\ j3 = Len(e)
  OBVIOUS
<1>2. i1 <= i2 /\ i2 <= i3 /\ j1 <= j2 /\ j2 <= j3
  BY <1>1 DEF Extends
<1>3. i1 <= i3 /\ j1 <= j3
  BY <1>2
<1>4. ASSUME NEW q \in 1..i1 PROVE y[q] = w[q] /\ most[q] = addr[q]
  <2>1. q \in 1..i2
    BY <1>2
  <2>2. x[q] = w[q] /\ more[q] = addr[q]
    BY <1>1 DEF Extends
  <2>3. y[q] = x[q] /\ most[q] = more[q]
    BY <1>1, <2>1 DEF Extends
  <2> QED BY <2>2, <2>3
<1>5. ASSUME NEW i \in 1..j1 PROVE e[i] = c[i]
  <2>1. i \in 1..j2
    BY <1>2
  <2>2. d[i] = c[i]
    BY <1>1 DEF Extends
  <2>3. e[i] = d[i]
    BY <1>1, <2>1 DEF Extends
  <2> QED BY <2>2, <2>3
<1>6. Addressed(y, e, most)
  BY DEF Extends
<1>7. ASSUME NEW q \in 1..i3, q > i1, y[q].k = "hex" PROVE most[q] > j1
  <2>1. CASE q <= i2
    <3>1. q \in 1..i2
      BY <2>1
    <3>2. y[q] = x[q] /\ most[q] = more[q]
      BY <1>1, <3>1 DEF Extends
    <3>3. more[q] > j1
      BY <1>1, <1>7, <3>1, <3>2 DEF Extends
    <3> QED BY <3>2, <3>3
  <2>2. CASE q > i2
    <3>1. most[q] > j2
      BY <1>1, <1>7, <2>2 DEF Extends
    <3>2. most[q] \in Nat
      BY <1>1, <1>6 DEF Addressed
    <3> QED BY <1>2, <3>1, <3>2
  <2> QED BY <1>2, <2>1, <2>2
<1> QED BY <1>1, <1>3, <1>4, <1>5, <1>6, <1>7 DEF Extends

LEMMA AddedOn ==
  ASSUME NEW w \in Seq(CellSet), NEW x \in Seq(CellSet), NEW y \in Seq(CellSet),
         NEW c \in Seq(Nat), NEW d \in Seq(Nat), NEW e \in Seq(Nat), NEW addr, NEW more, NEW most,
         Added(w, c, addr, x, d, more), Added(x, d, more, y, e, most)
  PROVE  Added(w, c, addr, y, e, most)
<1>1. Extends(w, c, addr, x, d, more) /\ Extends(x, d, more, y, e, most)
  BY DEF Added
<1>2. Extends(w, c, addr, y, e, most)
  BY <1>1, ExtendsOn
<1>3. Filled(y, most, Len(c), Len(d))
  <2>1. Len(c) \in Nat /\ Len(d) \in Nat /\ Filled(x, more, Len(c), Len(d))
    BY DEF Added
  <2> QED BY <1>1, <2>1, FilledExtends
<1>4. Filled(y, most, Len(c), Len(e))
  <2> SUFFICES ASSUME NEW i \in Len(c) + 1..Len(e) PROVE \E q \in 1..Len(y) : y[q].k = "hex" /\ most[q] = i
    BY DEF Filled
  <2>1. i \in Len(c) + 1..Len(d) \/ i \in Len(d) + 1..Len(e)
    OBVIOUS
  <2>2. Filled(y, most, Len(d), Len(e))
    BY DEF Added
  <2> QED BY <1>3, <2>1, <2>2 DEF Filled
<1>5. ASSUME NEW t \in 1..Len(y), t > Len(w) PROVE y[t].k \in {"hex", "newline", "space", "dash"}
  <2>1. CASE t <= Len(x)
    <3>1. t \in 1..Len(x)
      BY <2>1
    <3>2. y[t] = x[t]
      BY <1>1, <3>1 DEF Extends
    <3> QED BY <1>5, <3>1, <3>2 DEF Added
  <2>2. CASE t > Len(x)
    BY <2>2 DEF Added
  <2> QED BY <2>1, <2>2
<1> QED BY <1>2, <1>4, <1>5 DEF Added

\* d is c and the first bytes of others.
Grown(c, bytes, i, d) ==
  /\ d \in Seq(Nat) /\ Len(d) = Len(c) + i
  /\ \A j \in 1..Len(c) : d[j] = c[j]
  /\ \A j \in 1..i : d[Len(c) + j] = bytes[j]

LEMMA GrownByOne ==
  ASSUME NEW c \in Seq(Nat), NEW bytes, NEW i \in Nat, NEW d, Grown(c, bytes, i, d), bytes[i + 1] \in Nat
  PROVE  \E e \in Seq(Nat) : /\ Grown(c, bytes, i + 1, e) /\ Len(e) = Len(d) + 1
                             /\ (\A j \in 1..Len(d) : e[j] = d[j]) /\ e[Len(d) + 1] = bytes[i + 1]
<1>1. PICK v \in Nat, n \in Nat : v = bytes[i + 1] /\ n = Len(c)
  OBVIOUS
<1>2. PICK f \in Seq(Nat) : f = d /\ Len(f) = n + i
  BY <1>1 DEF Grown
<1>3. PICK e \in Seq(Nat) : e = Append(f, v)
  BY AppendProperties
<1>4. Len(e) = n + i + 1 /\ (\A j \in 1..n + i : e[j] = f[j]) /\ e[n + i + 1] = v
  BY <1>2, <1>3, SMTT(30)
<1>5. \A j \in 1..n : e[j] = c[j]
  <2> TAKE j \in 1..n
  <2>1. j \in 1..n + i
    OBVIOUS
  <2>2. f[j] = c[j]
    BY <1>1, <1>2 DEF Grown
  <2> QED BY <1>4, <2>1, <2>2
<1>6. \A j \in 1..i + 1 : e[n + j] = bytes[j]
  <2> TAKE j \in 1..i + 1
  <2>1. CASE j = i + 1
    <3>1. n + j = n + i + 1
      BY <2>1
    <3> QED BY <1>1, <1>4, <2>1, <3>1
  <2>2. CASE j # i + 1
    <3>1. j \in 1..i /\ n + j \in 1..n + i
      BY <2>2
    <3>2. f[n + j] = bytes[j]
      BY <1>1, <1>2, <3>1 DEF Grown
    <3> QED BY <1>4, <3>1, <3>2
  <2> QED BY <2>1, <2>2
<1>7. Grown(c, bytes, i + 1, e)
  <2>1. Len(e) = Len(c) + (i + 1)
    BY <1>1, <1>4
  <2> QED BY <1>1, <1>5, <1>6, <2>1 DEF Grown
<1> QED BY <1>1, <1>2, <1>4, <1>7

\* What do_listing writes for bytes.
LEMMA ColumnsAdded ==
  ASSUME NEW l \in Listings, l.width <= HexColumns, NEW c \in Seq(Nat), NEW addr, Addressed(Shown(l), c, addr),
         NEW bytes \in Seq(Nat)
  PROVE  \E more : Added(Shown(l), c, addr, Shown(Columns(l, bytes)), c \o bytes, more)
<1>1. PICK N \in Nat : N = Len(bytes) /\ \A i \in 1..N : bytes[i] \in Nat
  OBVIOUS
<1>2. PICK u : u[0] = l /\ Columns(l, bytes) = u[N] /\ \A i \in 1..N : u[i] = WriteColumn(u[i - 1], bytes[i])
  <2>1. \E u : /\ u[0] = l /\ Columns(l, bytes) = u[Len(bytes)]
               /\ \A i \in 1..Len(bytes) : u[i] = WriteColumn(u[i - 1], bytes[i])
    BY ColumnsUnfold
  <2> QED BY <1>1, <2>1, Zenon
<1>3. PICK w \in Seq(CellSet) : w = Shown(l)
  BY ShownIs
<1> DEFINE Has(i, m) == /\ m \in Listings /\ m.width <= HexColumns
                        /\ \E d \in Seq(Nat) : \E more : Grown(c, bytes, i, d) /\ Added(w, c, addr, Shown(m), d, more)
<1>4. Has(0, l)
  <2>1. Grown(c, bytes, 0, c)
    BY DEF Grown
  <2>2. Extends(w, c, addr, w, c, addr)
    BY <1>3 DEF Extends
  <2>3. Added(w, c, addr, w, c, addr)
    <3>1. Filled(w, addr, Len(c), Len(c))
      BY DEF Filled
    <3>2. \A t \in 1..Len(w) : ~(t > Len(w))
      OBVIOUS
    <3> QED BY <2>2, <3>1, <3>2 DEF Added
  <2> QED BY <1>3, <2>1, <2>3
<1>5. ASSUME NEW i \in Nat, NEW m, NEW v \in Nat, Has(i, m), v = bytes[i + 1]
      PROVE  Has(i + 1, WriteColumn(m, v))
  <2>0. PICK d \in Seq(Nat) : Grown(c, bytes, i, d) /\ \E more : Added(w, c, addr, Shown(m), d, more)
    BY <1>5
  <2>1. m \in Listings /\ m.width <= HexColumns
    BY <1>5
  <2>2. PICK more : Grown(c, bytes, i, d) /\ Added(w, c, addr, Shown(m), d, more)
    BY <2>0
  <2>3. PICK x \in Seq(CellSet) : x = Shown(m)
    BY <2>1, ShownIs
  <2>4. WriteColumn(m, v) \in Listings /\ WriteColumn(m, v).width <= HexColumns
    BY <2>1, ColumnWritten
  <2>5. PICK e \in Seq(CellSet) : /\ \A j \in 1..Len(e) : e[j].k \in {"newline", "space"}
                                  /\ Shown(WriteColumn(m, v)) = (x \o e) \o <<Hex(v)>>
    <3>1. \E e \in Seq(CellSet) : /\ \A j \in 1..Len(e) : e[j].k \in {"newline", "space"}
                                  /\ Shown(WriteColumn(m, v)) = (Shown(m) \o e) \o <<Hex(v)>>
      BY <2>1, ColumnWritten
    <3> QED BY <2>3, <3>1
  <2>6. PICK f \in Seq(Nat) : /\ Grown(c, bytes, i + 1, f) /\ Len(f) = Len(d) + 1
                              /\ (\A j \in 1..Len(d) : f[j] = d[j]) /\ f[Len(d) + 1] = v
    BY <1>5, <2>2, GrownByOne
  <2>7. Addressed(x, d, more)
    BY <2>2, <2>3 DEF Added, Extends
  <2>8. PICK most : Added(x, d, more, (x \o e) \o <<Hex(v)>>, f, most)
    BY <2>5, <2>6, <2>7, OneColumn
  <2>9. PICK y \in Seq(CellSet) : y = Shown(WriteColumn(m, v))
    BY <2>4, ShownIs
  <2>10. Added(x, d, more, y, f, most) /\ Added(w, c, addr, x, d, more)
    BY <2>2, <2>3, <2>5, <2>8, <2>9
  <2>11. Added(w, c, addr, y, f, most)
    BY <2>10, AddedOn
  <2> QED BY <2>4, <2>6, <2>9, <2>11
<1> DEFINE T == {i \in 0..N : Has(i, u[i])}
<1>6. 0 \in T
  <2>1. 0 \in 0..N
    OBVIOUS
  <2> HIDE DEF Has
  <2> QED BY <1>2, <1>4, <2>1
<1>7. ASSUME NEW n \in 0..(N - 1), n \in T PROVE n + 1 \in T
  <2>1. PICK i \in 1..N : i = n + 1 /\ i \in 0..N /\ i - 1 = n
    OBVIOUS
  <2>2. PICK v \in Nat : v = bytes[n + 1]
    BY <1>1, <2>1
  <2>3. u[i] = WriteColumn(u[n], v)
    BY <1>2, <2>1, <2>2
  <2> HIDE DEF Has
  <2>4. n \in Nat /\ Has(n, u[n])
    BY <1>7
  <2>5. Has(n + 1, WriteColumn(u[n], v))
    BY <1>5, <2>2, <2>4
  <2> QED BY <2>1, <2>3, <2>5
<1>8. 0..N \subseteq T
  <2> HIDE DEF T
  <2> QED BY <1>6, <1>7, BoundedInduction
<1>9. Has(N, u[N])
  <2>1. N \in 0..N
    OBVIOUS
  <2> HIDE DEF Has
  <2> QED BY <1>8, <2>1
<1>10. PICK d \in Seq(Nat) : Grown(c, bytes, N, d) /\ \E more : Added(w, c, addr, Shown(Columns(l, bytes)), d, more)
  BY <1>2, <1>9
<1>11. PICK more : Grown(c, bytes, N, d) /\ Added(w, c, addr, Shown(Columns(l, bytes)), d, more)
  BY <1>10
<1>12. d = c \o bytes
  <2>1. PICK e \in Seq(Nat) : e = c \o bytes
    BY ConcatProperties
  <2>2. PICK k \in Nat : k = Len(c)
    OBVIOUS
  <2>3. Len(e) = k + N /\ \A j \in 1..k + N : e[j] = IF j <= k THEN c[j] ELSE bytes[j - k]
    BY <1>1, <2>1, <2>2, ConcatProperties
  <2>4. Len(d) = k + N /\ (\A j \in 1..k : d[j] = c[j]) /\ \A j \in 1..N : d[k + j] = bytes[j]
    BY <1>11, <2>2 DEF Grown
  <2>5. ASSUME NEW j \in 1..k + N PROVE d[j] = e[j]
    <3>1. CASE j <= k
      <4>1. j \in 1..k
        BY <3>1
      <4> QED BY <2>3, <2>4, <3>1, <4>1
    <3>2. CASE ~(j <= k)
      <4>1. PICK i \in 1..N : j = k + i /\ j - k = i
        <5>1. j - k \in 1..N /\ j = k + (j - k)
          BY <3>2
        <5> QED BY <5>1
      <4>2. e[j] = bytes[i]
        BY <2>3, <3>2, <4>1
      <4>3. d[j] = bytes[i]
        BY <2>4, <4>1
      <4> QED BY <4>2, <4>3
    <3> QED BY <3>1, <3>2
  <2>6. d = e
    BY <2>3, <2>4, <2>5, SeqEqual
  <2> QED BY <2>1, <2>6
<1> QED BY <1>3, <1>11, <1>12

\* Bytes that are not listed.
LEMMA SilentExtends ==
  ASSUME NEW w \in Seq(CellSet), NEW c \in Seq(Nat), NEW addr, Addressed(w, c, addr), NEW bytes \in Seq(Nat)
  PROVE  Extends(w, c, addr, w, c \o bytes, addr)
<1>1. PICK d \in Seq(Nat) : d = c \o bytes
  BY ConcatProperties
<1>2. PICK k \in Nat, n \in Nat : k = Len(c) /\ n = Len(bytes)
  OBVIOUS
<1>3. Len(d) = k + n /\ \A j \in 1..k : d[j] = c[j]
  <2>1. Len(d) = k + n /\ \A j \in 1..k + n : d[j] = IF j <= k THEN c[j] ELSE bytes[j - k]
    BY <1>1, <1>2, ConcatProperties
  <2>2. \A j \in 1..k : j \in 1..k + n /\ j <= k
    OBVIOUS
  <2> QED BY <2>1, <2>2
<1>4. k <= Len(d)
  <2>1. k <= k + n
    OBVIOUS
  <2> QED BY <1>3, <2>1
<1>5. Addressed(w, d, addr)
  <2>1. addr \in [1..Len(w) -> Nat]
        /\ \A q \in 1..Len(w) : \A r \in 1..Len(w) : w[q].k = "hex" /\ w[r].k = "hex" /\ q < r => addr[q] < addr[r]
    BY DEF Addressed
  <2>2. ASSUME NEW q \in 1..Len(w), w[q].k = "hex" PROVE addr[q] >= 1 /\ addr[q] <= Len(d) /\ w[q].n = d[addr[q]]
    <3>1. PICK a \in Nat : a = addr[q]
      BY <2>1
    <3>2. a >= 1 /\ a <= k /\ w[q].n = c[a]
      BY <1>2, <2>2, <3>1 DEF Addressed
    <3>3. a \in 1..k /\ a <= Len(d)
      <4>1. a <= k + n
        BY <3>2
      <4> QED BY <1>3, <3>2, <4>1
    <3> QED BY <1>3, <3>1, <3>2, <3>3
  <2> QED BY <2>1, <2>2 DEF Addressed
<1>6. \A q \in 1..Len(w) : ~(q > Len(w))
  OBVIOUS
<1> QED BY <1>1, <1>2, <1>3, <1>4, <1>5, <1>6 DEF Extends

----------------------------------------------------------------------------
(***************************************************************************)
(* The line that is read.                                                  *)
(***************************************************************************)
\* Bytes the first statements of a line write.
Sizes(line) ==
  CHOOSE g : g = [i \in 0..Len(line) |->
                    IF i = 0 THEN 0 ELSE g[i - 1] + (IF line[i].k \in {"data", "deferred"} THEN line[i].n ELSE 0)]

LEMMA SizesAre ==
  ASSUME NEW D, NEW line \in Seq(Readable(D))
  PROVE  /\ Sizes(line) \in [0..Len(line) -> Nat] /\ Sizes(line)[0] = 0
         /\ \A i \in 1..Len(line) : Sizes(line)[i] = Sizes(line)[i - 1]
                                      + (IF line[i].k \in {"data", "deferred"} THEN line[i].n ELSE 0)
         /\ Size(line) = Sizes(line)[Len(line)]
<1>1. PICK N \in Nat : N = Len(line)
  OBVIOUS
<1>2. \A i \in 1..N : line[i].n \in Nat
  <2> TAKE i \in 1..N
  <2>1. line[i] \in Readable(D)
    BY <1>1
  <2> QED BY <2>1, StatementIs
<1> DEFINE Bytes0(i) == IF line[i].k \in {"data", "deferred"} THEN line[i].n ELSE 0
           Sum(f, i) == IF i = 0 THEN 0 ELSE f[i - 1] + Bytes0(i)
<1>3. \A i \in 1..N : Bytes0(i) \in Nat
  BY <1>2
<1> HIDE DEF Bytes0
<1>4. PICK G : G = [i \in 1..N |-> [n \in Nat |-> n + Bytes0(i)]]
  OBVIOUS
<1>5. Steps(N, Nat, 0, G)
  <2>1. \A i \in 1..N : [n \in Nat |-> n + Bytes0(i)] \in [Nat -> Nat]
    BY <1>3
  <2>2. G \in [1..N -> [Nat -> Nat]]
    BY <1>4, <2>1
  <2> QED BY <2>2 DEF Steps
<1>6. PICK f : Unfolds(f, N, Nat, 0, G)
  BY <1>5, RecursiveFunction
<1>7. f \in [0..N -> Nat] /\ f[0] = 0 /\ \A i \in 1..N : f[i] = G[i][f[i - 1]]
  BY <1>6 DEF Unfolds
<1>8. f = [i \in 0..N |-> Sum(f, i)]
  <2>1. ASSUME NEW i \in 0..N PROVE f[i] = Sum(f, i)
    <3>1. CASE i = 0
      BY <1>7, <3>1
    <3>2. CASE i # 0
      <4>1. i \in 1..N /\ i - 1 \in 0..N
        BY <3>2
      <4>2. f[i - 1] \in Nat
        BY <1>7, <4>1
      <4>3. f[i] = f[i - 1] + Bytes0(i)
        BY <1>4, <1>7, <4>1, <4>2
      <4> QED BY <3>2, <4>3
    <3> QED BY <3>1, <3>2
  <2>2. f = [i \in 0..N |-> f[i]]
    BY <1>7
  <2> HIDE DEF Sum
  <2> QED BY <2>1, <2>2
<1>9. PICK u : u = CHOOSE g : g = [i \in 0..N |-> Sum(g, i)]
  OBVIOUS
<1>10. u = [i \in 0..N |-> Sum(u, i)]
  <2> HIDE DEF Sum
  <2> QED BY <1>8, <1>9
<1>11. \A i \in 0..N : u[i] = Sum(u, i)
  <2> HIDE DEF Sum
  <2> QED BY <1>10
<1>12. u[0] = 0
  <2>1. 0 \in 0..N
    OBVIOUS
  <2> QED BY <1>11, <2>1
<1>13. \A i \in 1..N : u[i] = u[i - 1] + Bytes0(i)
  <2> TAKE i \in 1..N
  <2>1. i \in 0..N /\ i # 0
    OBVIOUS
  <2> QED BY <1>11, <2>1
<1>14. \A i \in 0..N : u[i] \in Nat
  <2>1. ASSUME NEW i \in 1..N, u[i - 1] \in Nat PROVE u[i] = G[i][u[i - 1]]
    BY <1>4, <1>13, <2>1
  <2> QED BY <1>5, <1>12, <2>1, StepsStay, SMTT(30)
<1>15. u \in [0..N -> Nat]
  <2>1. u = [i \in 0..N |-> u[i]]
    BY <1>10
  <2> HIDE DEF Sum
  <2> QED BY <1>14, <2>1
<1>16. u = Sizes(line)
  BY <1>1, <1>9 DEF Sizes, Bytes0
<1>17. Size(line) = u[N]
  BY <1>1, <1>9 DEF Size, Bytes0
<1>18. \A i \in 1..N : u[i] = u[i - 1] + (IF line[i].k \in {"data", "deferred"} THEN line[i].n ELSE 0)
  BY <1>13 DEF Bytes0
<1> QED BY <1>1, <1>12, <1>15, <1>16, <1>17, <1>18

\* m statements of the line `start` of the file f are read, or what it skips too.
Begun(p, f, start, m) ==
  /\ f.file \in DOMAIN p /\ start \in 1..Len(p[f.file]) /\ m \in 0..Len(p[f.file][start])
  /\ Len(f.todo) = Len(p[f.file][start]) - m
  /\ \A j \in 1..Len(f.todo) : f.todo[j] = p[f.file][start][m + j]
  /\ \/ f.line = start
     \/ /\ m = Len(p[f.file][start]) /\ m > 0 /\ p[f.file][start][m].k = "skip"
        /\ f.line = start + p[f.file][start][m].n

\* The line n is listed behind s, with `size` bytes and no text yet.
Prefixed(w, c, addr, n, s, size) ==
  /\ s \in Nat /\ s + PrefixWidth <= Len(w)
  /\ \A i \in s + 1..s + PrefixWidth : w[i].k = "line" /\ w[i] = w[s + 1]
  /\ \A i \in s + PrefixWidth + 1..Len(w) : w[i].k \in {"hex", "newline", "space", "dash"}
  /\ w[s + 1].n = n /\ w[s + 1].pc + size = Len(c) /\ size \in Nat
  /\ Cut(w, addr, s, w[s + 1].pc) /\ Filled(w, addr, w[s + 1].pc, Len(c))

OpenLine(p, w, c, addr, f, start, old) ==
  /\ old = start
  /\ \E m \in Nat : /\ Begun(p, f, start, m)
                    /\ \E s \in Nat : Prefixed(w, c, addr, start, s, Sizes(p[f.file][start])[m])

\* g is f behind its next statement s.
Steps1(f, g, s) ==
  /\ f.todo # <<>> /\ s = Head(f.todo) /\ g.todo = Tail(f.todo) /\ g.file = f.file
  /\ g.line = (IF s.k = "skip" THEN f.line + s.n ELSE f.line)

LEMMA LastOfLine ==
  ASSUME NEW p \in Programs, NEW f \in DOMAIN p, NEW i \in 1..Len(p[f]), NEW j \in 1..Len(p[f][i])
  PROVE  /\ p[f][i][j].k \notin {"data", "deferred"} => j = Len(p[f][i])
         /\ p[f][i][j].k = "skip" => i + p[f][i][j].n <= Len(p[f])
<1>1. p[f] \in Seq(Seq(Statements(DOMAIN p)))
  BY ProgramsAssumption
<1>2. PICK line \in Seq(Statements(DOMAIN p)) : line = p[f][i] /\ i \in DOMAIN p[f]
  BY <1>1
<1>3. \A m \in DOMAIN line : /\ line[m].k \notin {"data", "deferred"} => m = Len(line)
                             /\ line[m].k = "skip" => i + line[m].n <= Len(p[f])
  BY <1>2, ProgramsAssumption
<1>4. j \in DOMAIN line
  BY <1>2
<1> QED BY <1>2, <1>3, <1>4

LEMMA BegunSteps ==
  ASSUME NEW p \in Programs, NEW f \in Frames(DOMAIN p), NEW g, NEW s, Steps1(f, g, s),
         NEW start, NEW m \in Nat, Begun(p, f, start, m)
  PROVE  Begun(p, g, start, m + 1) /\ m + 1 \in 1..Len(p[f.file][start]) /\ p[f.file][start][m + 1] = s
         /\ f.line = start
<1>1. f.file \in DOMAIN p /\ start \in 1..Len(p[f.file]) /\ m \in 0..Len(p[f.file][start]) /\ g.file = f.file
  BY DEF Begun, Steps1
<1>2. PICK line \in Seq(Readable(DOMAIN p)) : line = p[f.file][start]
  BY <1>1, LineTyped
<1>3. PICK todo \in Seq(Readable(DOMAIN p)) : todo = f.todo /\ todo # <<>>
  BY FrameIs DEF Steps1
<1>4. PICK N \in Nat, k \in Nat : N = Len(line) /\ k = Len(todo)
  OBVIOUS
<1>5. k = N - m /\ \A j \in 1..k : todo[j] = line[m + j]
  BY <1>2, <1>3, <1>4 DEF Begun
<1>6. k >= 1 /\ s = todo[1]
  BY <1>3, <1>4 DEF Steps1
<1>7. m + 1 \in 1..N /\ s = line[m + 1] /\ m # N
  BY <1>5, <1>6
<1>8. f.line = start
  BY <1>2, <1>4, <1>7 DEF Begun
<1>9. PICK rest \in Seq(Readable(DOMAIN p)) : rest = Tail(todo) /\ Len(rest) = k - 1 /\ \A j \in 1..k - 1 : rest[j] = todo[j + 1]
  <2>1. Tail(todo) \in Seq(Readable(DOMAIN p)) /\ Len(Tail(todo)) = Len(todo) - 1
        /\ \A j \in 1..Len(Tail(todo)) : Tail(todo)[j] = todo[j + 1]
    BY <1>3, HeadTailProperties
  <2> QED BY <1>4, <2>1
<1>10. \A j \in 1..k - 1 : rest[j] = line[(m + 1) + j]
  <2> TAKE j \in 1..k - 1
  <2>1. j + 1 \in 1..k /\ m + (j + 1) = (m + 1) + j
    BY <1>4
  <2> QED BY <1>5, <1>9, <2>1
<1>11. g.todo = rest
  BY <1>3, <1>9 DEF Steps1
<1>12. g.line = start \/ (m + 1 = N /\ line[m + 1].k = "skip" /\ g.line = start + line[m + 1].n)
  <2>1. CASE s.k = "skip"
    <3>1. m + 1 = N
      <4>1. PICK j \in 1..Len(p[f.file][start]) : j = m + 1 /\ p[f.file][start][j].k = "skip"
        BY <1>2, <1>4, <1>7, <2>1
      <4>2. PICK name \in DOMAIN p : name = f.file
        BY <1>1
      <4>3. start \in 1..Len(p[name]) /\ j \in 1..Len(p[name][start]) /\ p[name][start][j].k \notin {"data", "deferred"}
        BY <1>1, <4>1, <4>2
      <4>4. j = Len(p[name][start])
        BY <4>3, LastOfLine
      <4> QED BY <1>2, <1>4, <4>1, <4>2, <4>4
    <3> QED BY <1>7, <1>8, <2>1, <3>1 DEF Steps1
  <2>2. CASE s.k # "skip"
    BY <1>8, <2>2 DEF Steps1
  <2> QED BY <2>1, <2>2
<1>13. m + 1 \in 0..N /\ k - 1 = N - (m + 1) /\ m + 1 > 0
  BY <1>4, <1>5, <1>7
<1>14. Begun(p, g, start, m + 1)
  BY <1>1, <1>2, <1>4, <1>9, <1>10, <1>11, <1>12, <1>13 DEF Begun
<1> QED BY <1>1, <1>2, <1>4, <1>7, <1>8, <1>14

\* More of the line is listed, for all that is written.
LEMMA PrefixedOn ==
  ASSUME NEW w \in Seq(CellSet), NEW x \in Seq(CellSet), NEW c \in Seq(Nat), NEW d \in Seq(Nat),
         NEW addr, NEW more, Extends(w, c, addr, x, d, more), Filled(x, more, Len(c), Len(d)),
         \A t \in 1..Len(x) : t > Len(w) => x[t].k \in {"hex", "newline", "space", "dash"},
         NEW n, NEW s, NEW size \in Nat, Prefixed(w, c, addr, n, s, size),
         NEW all \in Nat, all + Len(c) = size + Len(d)
  PROVE  Prefixed(x, d, more, n, s, all)
<1>1. s \in Nat /\ s + PrefixWidth <= Len(w) /\ PrefixWidth \in Nat /\ PrefixWidth >= 1 /\ size \in Nat
  BY WidthsAssumption DEF Prefixed
<1>2. PICK i1 \in Nat, i2 \in Nat, j1 \in Nat, j2 \in Nat, e \in Nat :
        i1 = Len(w) /\ i2 = Len(x) /\ j1 = Len(c) /\ j2 = Len(d) /\ e = s + PrefixWidth
  BY <1>1
<1>3. i1 <= i2 /\ j1 <= j2 /\ e <= i1
  BY <1>1, <1>2 DEF Extends
<1>4. \A q \in 1..i1 : x[q] = w[q]
  BY <1>2 DEF Extends
<1>5. e <= i2 /\ s + 1 \in 1..i1 /\ s + 1 \in 1..Len(w)
  BY <1>1, <1>2, <1>3
<1>6. PICK a \in Nat : a = w[s + 1].pc
  BY <1>5, CellFields
<1>7. a + size = j1 /\ a <= j1
  <2>1. a + size = j1
    BY <1>2, <1>6 DEF Prefixed
  <2> QED BY <1>1, <2>1
<1>8. \A i \in s + 1..e : w[i].k = "line" /\ w[i] = w[s + 1]
  BY <1>2 DEF Prefixed
<1>9. \A i \in e + 1..i1 : w[i].k \in {"hex", "newline", "space", "dash"}
  BY <1>2 DEF Prefixed
<1>10. x[s + 1] = w[s + 1] /\ \A i \in s + 1..e : x[i].k = "line" /\ x[i] = x[s + 1]
  <2>1. \A i \in s + 1..e : i \in 1..i1
    BY <1>3, <1>1
  <2> QED BY <1>4, <1>5, <1>8, <2>1
<1>11. \A i \in e + 1..i2 : x[i].k \in {"hex", "newline", "space", "dash"}
  <2> TAKE i \in e + 1..i2
  <2>1. CASE i <= i1
    <3>1. i \in e + 1..i1 /\ i \in 1..i1
      BY <2>1
    <3> QED BY <1>4, <1>9, <3>1
  <2>2. CASE i > i1
    <3>1. i \in 1..Len(x) /\ i > Len(w)
      BY <1>2, <2>2
    <3> QED BY <3>1
  <2> QED BY <2>1, <2>2
<1>12. a + all = j2
  <2>1. all + j1 = size + j2 /\ a + size = j1
    BY <1>2, <1>7
  <2> QED BY <2>1
<1>13. Cut(w, addr, s, a) /\ Filled(w, addr, a, j1)
  BY <1>2, <1>6 DEF Prefixed
<1>14. Cut(x, more, s, a)
  <2>1. s <= Len(w) /\ a <= Len(c)
    BY <1>1, <1>2, <1>3, <1>7
  <2> QED BY <1>1, <1>13, <2>1, CutExtends
<1>15. Filled(x, more, a, j2)
  <2>1. Filled(x, more, a, j1)
    BY <1>13, FilledExtends
  <2>2. Filled(x, more, j1, j2)
    BY <1>2
  <2> SUFFICES ASSUME NEW i \in a + 1..j2 PROVE \E q \in 1..Len(x) : x[q].k = "hex" /\ more[q] = i
    BY DEF Filled
  <2>3. i \in a + 1..j1 \/ i \in j1 + 1..j2
    OBVIOUS
  <2> QED BY <2>1, <2>2, <2>3 DEF Filled
<1>16. x[s + 1].n = n
  BY <1>10 DEF Prefixed
<1>17. x[s + 1].pc = a
  BY <1>6, <1>10
<1> QED BY <1>1, <1>2, <1>5, <1>10, <1>11, <1>12, <1>14, <1>15, <1>16, <1>17 DEF Prefixed

\* A line begins.
LEMMA PrefixBegins ==
  ASSUME NEW w \in Seq(CellSet), NEW c \in Seq(Nat), NEW addr, Addressed(w, c, addr),
         NEW e \in Seq(CellSet), Len(e) = PrefixWidth,
         \A i \in 1..PrefixWidth : e[i].k = "line" /\ e[i] = e[1],
         NEW n, e[1].n = n, e[1].pc = Len(c), NEW more, Extends(w, c, addr, w \o e, c, more)
  PROVE  Prefixed(w \o e, c, more, n, Len(w), 0)
<1>1. PICK k \in Nat, m \in Nat, j \in Nat : k = Len(w) /\ m = PrefixWidth /\ j = Len(c) /\ m >= 1
  <2>1. PrefixWidth \in Nat /\ PrefixWidth >= 1
    BY WidthsAssumption
  <2>2. Len(w) \in Nat /\ Len(c) \in Nat
    OBVIOUS
  <2> QED BY <2>1, <2>2
<1>2. PICK x \in Seq(CellSet) : x = w \o e /\ Len(x) = k + m
                                /\ (\A i \in 1..k : x[i] = w[i]) /\ \A i \in 1..m : x[k + i] = e[i]
  <2>1. /\ w \o e \in Seq(CellSet) /\ Len(w \o e) = Len(w) + Len(e)
        /\ \A i \in 1..Len(w) : (w \o e)[i] = w[i]
        /\ \A i \in 1..Len(e) : (w \o e)[Len(w) + i] = e[i]
    BY Joined
  <2> QED BY <1>1, <2>1, ZenonT(40)
<1>3. \A i \in k + 1..k + m : x[i].k = "line" /\ x[i] = x[k + 1]
  <2>1. x[k + 1] = e[1]
    BY <1>1, <1>2
  <2> TAKE i \in k + 1..k + m
  <2>2. PICK h \in 1..m : i = k + h
    <3>1. i - k \in 1..m /\ i = k + (i - k)
      BY <1>1
    <3> QED BY <3>1
  <2>3. x[i] = e[h]
    BY <1>2, <2>2
  <2> QED BY <1>1, <2>1, <2>3
<1>4. x[k + 1].n = n /\ x[k + 1].pc = j
  <2>1. x[k + 1] = e[1]
    BY <1>1, <1>2
  <2> QED BY <1>1, <2>1
<1>5. Cut(x, more, k, j)
  <2>1. Cut(w, addr, k, j)
    BY <1>1 DEF Cut, Addressed
  <2>2. Extends(w, c, addr, x, c, more) /\ k <= Len(w) /\ j <= Len(c)
    BY <1>1, <1>2
  <2> QED BY <2>1, <2>2, CutExtends
<1>6. Filled(x, more, j, j)
  <2>1. \A i \in j + 1..j : FALSE
    OBVIOUS
  <2> QED BY <2>1 DEF Filled
<1>7. \A i \in k + m + 1..Len(x) : FALSE
  BY <1>2
<1>8. k + m <= Len(x) /\ j + 0 = j
  BY <1>2
<1>9. Prefixed(x, c, more, n, k, 0)
  BY <1>1, <1>3, <1>4, <1>5, <1>6, <1>7, <1>8 DEF Prefixed
<1> QED BY <1>1, <1>2, <1>9

\* Cells that are neither columns nor text.
LEMMA BlanksTold ==
  ASSUME NEW p, NEW w \in Seq(CellSet), NEW c \in Seq(Nat), NEW D, NEW list \in Seq(Slots(D)), NEW addr,
         Told(p, w, c, list, addr),
         NEW e \in Seq(CellSet), \A i \in 1..Len(e) : e[i].k \notin {"hex", "text"}
  PROVE  \E more : Told(p, w \o e, c, list, more) /\ Extends(w, c, addr, w \o e, c, more)
<1>1. Addressed(w, c, addr)
  BY DEF Told
<1>2. PICK more : Extends(w, c, addr, w \o e, c, more)
  BY <1>1, NoColumns
<1>3. PICK x \in Seq(CellSet) : x = w \o e /\ Len(x) = Len(w) + Len(e) /\ \A i \in 1..Len(e) : x[Len(w) + i] = e[i]
  <2>1. /\ w \o e \in Seq(CellSet) /\ Len(w \o e) = Len(w) + Len(e)
        /\ \A i \in 1..Len(e) : (w \o e)[Len(w) + i] = e[i]
    BY Joined
  <2> QED BY <2>1
<1>4. ASSUME NEW t \in 1..Len(x), t > Len(w) PROVE x[t].k # "text"
  <2>1. PICK i \in 1..Len(e) : t = Len(w) + i
    <3>1. t - Len(w) \in 1..Len(e) /\ t = Len(w) + (t - Len(w))
      BY <1>3, <1>4
    <3> QED BY <3>1
  <2> QED BY <1>3, <2>1
<1>5. Told(p, x, c, list, more)
  BY <1>2, <1>3, <1>4, ToldExtends
<1> QED BY <1>2, <1>3, <1>5

\* The text of a line is put behind its columns.
LEMMA TextTold ==
  ASSUME NEW p, NEW w \in Seq(CellSet), NEW c \in Seq(Nat), NEW D, NEW list \in Seq(Slots(D)), NEW addr,
         Told(p, w, c, list, addr), NEW n, NEW s, NEW size, Prefixed(w, c, addr, n, s, size),
         NEW e \in Seq(CellSet), Len(e) = 1, e[1].k = "text", e[1].n = n, Sized(p, e[1].file, n, size)
  PROVE  \E more : Told(p, w \o e, c, list, more)
<1>1. Addressed(w, c, addr)
  BY DEF Told
<1>2. \A i \in 1..Len(e) : e[i].k # "hex"
  <2>1. \A i \in 1..Len(e) : i = 1
    OBVIOUS
  <2> QED BY <2>1
<1>3. PICK more : Extends(w, c, addr, w \o e, c, more)
  BY <1>1, <1>2, NoColumns
<1>4. PICK k \in Nat, a \in Nat, j \in Nat, m \in Nat : k = Len(w) /\ a = w[s + 1].pc /\ j = Len(c) /\ m = PrefixWidth
  <2>1. s + 1 \in 1..Len(w)
    BY WidthsAssumption DEF Prefixed
  <2>2. w[s + 1].pc \in Nat
    BY <2>1, CellFields
  <2> QED BY <2>2, WidthsAssumption
<1>5. PICK x \in Seq(CellSet) : x = w \o e /\ Len(x) = k + 1 /\ x[k + 1] = e[1] /\ \A i \in 1..k : x[i] = w[i]
  <2>1. /\ w \o e \in Seq(CellSet) /\ Len(w \o e) = Len(w) + Len(e)
        /\ \A i \in 1..Len(w) : (w \o e)[i] = w[i]
        /\ \A i \in 1..Len(e) : (w \o e)[Len(w) + i] = e[i]
    BY Joined
  <2>2. 1 \in 1..1
    OBVIOUS
  <2> QED BY <1>4, <2>1, <2>2
<1>6. s \in Nat /\ size \in Nat /\ m >= 1 /\ s + m <= k /\ a + size = j
      /\ (\A i \in s + 1..s + m : w[i].k = "line" /\ w[i] = w[s + 1])
      /\ (\A i \in s + m + 1..k : w[i].k \in {"hex", "newline", "space", "dash"})
      /\ w[s + 1].n = n /\ Cut(w, addr, s, a) /\ Filled(w, addr, a, j)
  BY <1>4, WidthsAssumption DEF Prefixed
<1>7. PICK t \in 1..Len(x), b \in 1..k : t = k + 1 /\ b = s + m /\ b \in 1..t - 1
  <2>1. s \in Nat /\ m \in Nat /\ k \in Nat /\ m >= 1 /\ s + m <= k
    BY <1>4, <1>6
  <2>2. s + m \in 1..k /\ s + m \in 1..(k + 1) - 1 /\ k + 1 \in 1..k + 1
    BY <2>1
  <2> QED BY <1>5, <2>2
<1>8. w[b] = w[s + 1] /\ w[b].k = "line" /\ x[b] = w[b] /\ x[t] = e[1]
  <2>1. b \in s + 1..s + m
    <3>1. s \in Nat /\ m \in Nat /\ m >= 1 /\ b = s + m
      BY <1>4, <1>6, <1>7
    <3> QED BY <3>1
  <2> QED BY <1>5, <1>6, <1>7, <2>1
<1>9. x[b].k = "line" /\ x[b].n = x[t].n /\ x[b].pc = a
  BY <1>4, <1>6, <1>8
<1>10. \A q \in b + 1..t - 1 : x[q].k \in {"hex", "newline", "space", "dash"}
  <2> TAKE q \in b + 1..t - 1
  <2>1. q \in s + m + 1..k /\ q \in 1..k
    <3>1. s \in Nat /\ m \in Nat /\ k \in Nat /\ b = s + m /\ t - 1 = k
      BY <1>4, <1>6, <1>7
    <3> QED BY <3>1
  <2> QED BY <1>5, <1>6, <2>1
<1>11. Cut(w, addr, b, a)
  <2> SUFFICES ASSUME NEW q \in 1..Len(w), w[q].k = "hex" PROVE q <= b <=> addr[q] <= a
    BY DEF Cut
  <2>1. q <= s <=> addr[q] <= a
    BY <1>6 DEF Cut
  <2>2. q \notin s + 1..s + m
    BY <1>6
  <2>3. q <= b <=> q <= s
    BY <1>6, <1>7, <2>2
  <2> QED BY <2>1, <2>3
<1>12. Cut(x, more, b, a)
  <2>1. b \in Nat /\ b <= Len(w) /\ a <= Len(c)
    BY <1>4, <1>6, <1>7, SMTT(30)
  <2> QED BY <1>3, <1>5, <1>11, <2>1, CutExtends
<1>13. Addressed(x, c, more)
  BY <1>3, <1>5 DEF Extends
<1>14. Cut(x, more, t, a + size)
  <2> SUFFICES ASSUME NEW q \in 1..Len(x), x[q].k = "hex" PROVE q <= t <=> more[q] <= a + size
    BY DEF Cut
  <2>1. q <= t
    BY <1>5, <1>7
  <2>2. more[q] <= a + size
    BY <1>4, <1>6, <1>13 DEF Addressed
  <2> QED BY <2>1, <2>2
<1>15. Filled(x, more, a, a + size)
  BY <1>3, <1>5, <1>6, FilledExtends
<1>16. a + size <= Len(c) /\ Sized(p, x[t].file, x[t].n, size)
  BY <1>4, <1>6, <1>8, SMTT(30)
<1>17. From(p, x, c, more, t, b, size)
  BY <1>9, <1>10, <1>12, <1>14, <1>15, <1>16 DEF From
<1>18. LineShown(p, x, c, more, t)
  BY <1>6, <1>7, <1>17 DEF LineShown
<1>19. \A q \in 1..Len(x) : q > Len(w) /\ x[q].k = "text" => LineShown(p, x, c, more, q)
  <2>1. \A q \in 1..Len(x) : q > Len(w) => q = t
    BY <1>4, <1>5, <1>7
  <2> QED BY <1>18, <2>1
<1>20. Told(p, x, c, list, more)
  BY <1>3, <1>5, <1>19, ToldExtends
<1> QED BY <1>5, <1>20

LEMMA PrefixFields ==
  ASSUME NEW n
  PROVE  Prefix(n)[1].n = n /\ Prefix(n)[1].pc = Len(contents)
<1>1. 1 \in 1..PrefixWidth
  BY WidthsAssumption
<1>2. Prefix(n)[1] = Cell("line", "", n, program_counter)
  BY <1>1 DEF Prefix
<1>3. Cell("line", "", n, program_counter).n = n /\ Cell("line", "", n, program_counter).pc = program_counter
  BY DEF Cell
<1>4. program_counter = Len(contents)
  BY DEF program_counter
<1> QED BY <1>2, <1>3, <1>4, Zenon

Associative(a, b, c) == (a \o b) \o c = a \o (b \o c)

LEMMA CellsAssociative ==
  ASSUME NEW a \in Seq(CellSet), NEW b \in Seq(CellSet), NEW c \in Seq(CellSet)
  PROVE  Associative(a, b, c)
BY ConcatAssociative DEF Associative

\* The row of a line that a false #if takes with it.
LEMMA RowTold ==
  ASSUME contents \in Seq(Nat), line_start \in Nat, old_line_num = line_start, curr_input_file \in FileNames,
         NEW p, NEW w \in Seq(CellSet), NEW D, NEW list \in Seq(Slots(D)), NEW addr,
         Told(p, w, contents, list, addr),
         NEW i \in Nat, Taken(p, curr_input_file, line_start + i)
  PROVE  \E more : Told(p, w \o Row(i), contents, list, more)
<1>1. PICK c \in Seq(Nat), n \in Nat : c = contents /\ n = line_start + i
  OBVIOUS
<1>2. PICK e \in Seq(CellSet) : /\ e = Prefix(n) /\ Len(e) = PrefixWidth /\ e[1].n = n /\ e[1].pc = Len(c)
                                /\ \A j \in 1..PrefixWidth : e[j].k = "line" /\ e[j] = e[1]
  BY <1>1, PrefixIs, PrefixFields
<1>3. PICK s \in Seq(CellSet) : s = Cells("space", HexColumns) /\ \A j \in 1..Len(s) : s[j].k = "space"
  <2>1. "space" \in CellKinds /\ HexColumns \in Int
    BY WidthsAssumption DEF CellKinds
  <2> QED BY <2>1, CellsAre
<1>4. PICK t \in CellSet : t = Text(curr_input_file, n) /\ t.k = "text"
  BY TextIs
<1>5. t.n = n /\ t.file = curr_input_file
  BY <1>4 DEF Text, Cell
<1>6. PICK tt \in Seq(CellSet) : tt = <<t>> /\ Len(tt) = 1 /\ tt[1] = t
  <2>1. <<t>> \in Seq(CellSet) /\ Len(<<t>>) = 1 /\ <<t>>[1] = t
    OBVIOUS
  <2> QED BY <2>1
<1>7. Told(p, w, c, list, addr)
  BY <1>1
<1>8. PICK x \in Seq(CellSet) : x = w \o e
  BY Joined
<1>9. PICK one : Told(p, x, c, list, one) /\ Extends(w, c, addr, x, c, one)
  <2>1. \A j \in 1..Len(e) : e[j].k \notin {"hex", "text"}
    BY <1>2
  <2> QED BY <1>7, <1>8, <2>1, BlanksTold
<1>10. Prefixed(x, c, one, n, Len(w), 0)
  <2>1. Addressed(w, c, addr)
    BY <1>7 DEF Told
  <2> QED BY <1>2, <1>8, <1>9, <2>1, PrefixBegins
<1>11. PICK y \in Seq(CellSet) : y = x \o s /\ \A j \in 1..Len(y) : j > Len(x) => y[j].k = "space"
  <2>1. PICK y \in Seq(CellSet) : y = x \o s /\ Len(y) = Len(x) + Len(s) /\ \A j \in 1..Len(s) : y[Len(x) + j] = s[j]
    <3>1. x \o s \in Seq(CellSet) /\ Len(x \o s) = Len(x) + Len(s) /\ \A j \in 1..Len(s) : (x \o s)[Len(x) + j] = s[j]
      BY Joined
    <3> QED BY <3>1
  <2>2. ASSUME NEW j \in 1..Len(y), j > Len(x) PROVE y[j].k = "space"
    <3>1. PICK h \in 1..Len(s) : j = Len(x) + h
      <4>1. j - Len(x) \in 1..Len(s) /\ j = Len(x) + (j - Len(x))
        BY <2>1, <2>2
      <4> QED BY <4>1
    <3> QED BY <1>3, <2>1, <3>1
  <2> QED BY <2>1, <2>2
<1>12. PICK two : Told(p, y, c, list, two) /\ Extends(x, c, one, y, c, two)
  <2>1. \A j \in 1..Len(s) : s[j].k \notin {"hex", "text"}
    BY <1>3
  <2> QED BY <1>9, <1>11, <2>1, BlanksTold
<1>13. Prefixed(y, c, two, n, Len(w), 0)
  <2>1. Filled(y, two, Len(c), Len(c))
    <3>1. \A j \in Len(c) + 1..Len(c) : FALSE
      OBVIOUS
    <3> QED BY <3>1 DEF Filled
  <2>2. \A j \in 1..Len(y) : j > Len(x) => y[j].k \in {"hex", "newline", "space", "dash"}
    BY <1>11
  <2>3. 0 \in Nat /\ 0 + Len(c) = 0 + Len(c)
    OBVIOUS
  <2> QED BY <1>10, <1>12, <2>1, <2>2, <2>3, PrefixedOn
<1>14. Sized(p, tt[1].file, n, 0)
  BY <1>1, <1>5, <1>6 DEF Sized
<1>15. PICK most : Told(p, y \o tt, c, list, most)
  BY <1>4, <1>5, <1>6, <1>12, <1>13, <1>14, TextTold
<1>16. y \o tt = w \o Row(i)
  <2>1. PICK es \in Seq(CellSet) : es = e \o s
    BY Joined
  <2>2. y = w \o es
    <3>1. Associative(w, e, s)
      BY CellsAssociative
    <3>2. (w \o e) \o s = w \o (e \o s)
      BY <3>1, Zenon DEF Associative
    <3> QED BY <1>8, <1>11, <2>1, <3>2, Zenon
  <2>3. (w \o es) \o tt = w \o (es \o tt)
    <3>1. Associative(w, es, tt)
      BY CellsAssociative
    <3> QED BY <3>1, Zenon DEF Associative
  <2>4. Row(i) = es \o tt
    BY <1>1, <1>2, <1>3, <1>4, <1>6, <2>1, Zenon DEF Row
  <2> QED BY <2>2, <2>3, <2>4
<1> QED BY <1>1, <1>15, <1>16

\* do_listing_for_line: the line shows what its statements write.
LEMMA ListedTold ==
  ASSUME contents \in Seq(Nat), line_start \in Nat, old_line_num = line_start, curr_input_file \in FileNames,
         NEW l \in Listings, l.width <= HexColumns, NEW end \in Int,
         NEW p, NEW D, NEW list \in Seq(Slots(D)), NEW addr, Told(p, Shown(l), contents, list, addr),
         NEW s, NEW size \in Nat, Prefixed(Shown(l), contents, addr, line_start, s, size),
         Sized(p, curr_input_file, line_start, size),
         \A i \in 1..end - line_start - 1 : Taken(p, curr_input_file, line_start + i)
  PROVE  \E more : Told(p, Shown(Listed(l, end)), contents, list, more)
<1>0. PICK n \in Nat, d \in Seq(CellSet), tt \in Seq(CellSet), z \in Listings :
        \E rows : ListsAs(l, n, end, d, tt, rows, z)
  BY ListedAs
<1>1. PICK c \in Seq(Nat), w \in Seq(CellSet) : c = contents /\ w = Shown(l)
  BY ShownIs
<1>2. PICK rows : ListsAs(l, n, end, d, tt, rows, z)
  BY <1>0
<1>3. Told(p, w, c, list, addr) /\ Prefixed(w, c, addr, line_start, s, size)
  BY <1>1
<1>4. PICK x \in Seq(CellSet) : x = w \o d /\ \A j \in 1..Len(x) : j > Len(w) => x[j].k = "dash"
  <2>1. PICK x \in Seq(CellSet) : x = w \o d /\ Len(x) = Len(w) + Len(d) /\ \A j \in 1..Len(d) : x[Len(w) + j] = d[j]
    <3>1. w \o d \in Seq(CellSet) /\ Len(w \o d) = Len(w) + Len(d) /\ \A j \in 1..Len(d) : (w \o d)[Len(w) + j] = d[j]
      BY Joined
    <3> QED BY <3>1
  <2>2. ASSUME NEW j \in 1..Len(x), j > Len(w) PROVE x[j].k = "dash"
    <3>1. PICK h \in 1..Len(d) : j = Len(w) + h
      <4>1. j - Len(w) \in 1..Len(d) /\ j = Len(w) + (j - Len(w))
        BY <2>1, <2>2
      <4> QED BY <4>1
    <3> QED BY <1>2, <2>1, <3>1 DEF ListsAs
  <2> QED BY <2>1, <2>2
<1>5. PICK one : Told(p, x, c, list, one) /\ Extends(w, c, addr, x, c, one)
  <2>1. \A j \in 1..Len(d) : d[j].k \notin {"hex", "text"}
    BY <1>2 DEF ListsAs
  <2> QED BY <1>3, <1>4, <2>1, BlanksTold
<1>6. Prefixed(x, c, one, line_start, s, size)
  <2>1. Filled(x, one, Len(c), Len(c))
    <3>1. \A j \in Len(c) + 1..Len(c) : FALSE
      OBVIOUS
    <3> QED BY <3>1 DEF Filled
  <2>2. \A j \in 1..Len(x) : j > Len(w) => x[j].k \in {"hex", "newline", "space", "dash"}
    BY <1>4
  <2>3. size + Len(c) = size + Len(c)
    OBVIOUS
  <2> QED BY <1>3, <1>5, <2>1, <2>2, <2>3, PrefixedOn
<1>7. PICK t \in CellSet : t = Text(curr_input_file, line_start) /\ t.k = "text"
  BY TextIs
<1>8. t.n = line_start /\ t.file = curr_input_file
  BY <1>7 DEF Text, Cell
<1>9. tt = <<t>> /\ Len(tt) = 1 /\ tt[1] = t
  <2>1. Len(<<t>>) = 1 /\ <<t>>[1] = t
    OBVIOUS
  <2> QED BY <1>2, <1>7, <2>1 DEF ListsAs
<1>10. PICK two : Told(p, x \o tt, c, list, two)
  BY <1>5, <1>6, <1>7, <1>8, <1>9, TextTold, ZenonT(40)
<1>11. PICK y \in Seq(CellSet) : y = x \o tt
  BY Joined
<1> DEFINE C == {r \in Seq(CellSet) :
                   \A v \in Seq(CellSet) : \A a :
                     Told(p, v, c, list, a) => \E b : Told(p, v \o r, c, list, b)}
<1>12. <<>> \in C
  <2>1. <<>> \in Seq(CellSet)
    OBVIOUS
  <2>2. \A v \in Seq(CellSet) : v \o <<>> = v
    BY ConcatEmptySeq
  <2> QED BY <2>1, <2>2
<1>13. \A a, b \in C : a \o b \in C
  <2> SUFFICES ASSUME NEW a \in C, NEW b \in C PROVE a \o b \in C
    OBVIOUS
  <2>1. a \in Seq(CellSet) /\ b \in Seq(CellSet) /\ a \o b \in Seq(CellSet)
    BY Joined
  <2>2. ASSUME NEW v \in Seq(CellSet), NEW q, Told(p, v, c, list, q) PROVE \E r : Told(p, v \o (a \o b), c, list, r)
    <3>1. PICK u \in Seq(CellSet) : u = v \o a
      BY <2>1, Joined
    <3>2. PICK q1 : Told(p, u, c, list, q1)
      BY <2>2, <3>1
    <3>3. PICK q2 : Told(p, u \o b, c, list, q2)
      BY <3>2
    <3>4. (v \o a) \o b = v \o (a \o b)
      <4>1. Associative(v, a, b)
        BY <2>1, CellsAssociative
      <4> QED BY <4>1, Zenon DEF Associative
    <3> QED BY <3>1, <3>3, <3>4
  <2> QED BY <2>1, <2>2
<1>14. rows \in Seq(C)
  <2>1. ASSUME NEW i \in 1..n PROVE Row(i) \in C
    <3>1. i \in Nat /\ Taken(p, curr_input_file, line_start + i)
      BY <1>2 DEF ListsAs
    <3>2. Row(i) \in Seq(CellSet)
      BY <3>1, RowComplete
    <3>3. ASSUME NEW v \in Seq(CellSet), NEW a, Told(p, v, c, list, a) PROVE \E b : Told(p, v \o Row(i), c, list, b)
      <4>1. Told(p, v, contents, list, a)
        BY <1>1, <3>3
      <4>2. \E b : Told(p, v \o Row(i), contents, list, b)
        BY <3>1, <4>1, RowTold
      <4> QED BY <1>1, <4>2
    <3> QED BY <3>2, <3>3
  <2>2. rows = [i \in 1..n |-> Row(i)]
    BY <1>2 DEF ListsAs
  <2> HIDE DEF C
  <2> QED BY <2>1, <2>2
<1>15. PICK r \in Seq(CellSet) : r = FlattenSeq(rows) /\ r \in C
  <2>1. FlattenSeq(rows) \in C
    <3> HIDE DEF C
    <3> QED BY <1>12, <1>13, <1>14, FlattenStays
  <2> QED BY <2>1
<1>16. PICK three : Told(p, y \o r, c, list, three)
  BY <1>10, <1>11, <1>15
<1>17. Shown(Listed(l, end)) = y \o r
  <2>1. Shown(Listed(l, end)) = (w \o d) \o (tt \o r)
    BY <1>1, <1>2, <1>15 DEF ListsAs
  <2>2. (x \o tt) \o r = x \o (tt \o r)
    <3>1. Associative(x, tt, r)
      BY CellsAssociative
    <3> QED BY <3>1, Zenon DEF Associative
  <2> QED BY <1>4, <1>11, <2>1, <2>2, Zenon
<1> QED BY <1>1, <1>16, <1>17

----------------------------------------------------------------------------
(***************************************************************************)
(* What the listing tells, at every step.                                  *)
(***************************************************************************)
\* The line and the file that are read, and those an #include goes back to.
At(fs, file, line) ==
  /\ file = fs[1].file /\ line = fs[1].line
  /\ \A i \in 1..Len(fs) - 1 : fs[i].old[1] = fs[i + 1].file /\ fs[i].old[2] = fs[i + 1].line

Tells(p, w, c, list, f, on, done, start, old) ==
  \E addr : /\ Told(p, w, c, list, addr)
            /\ Opened(f, on, done) => OpenLine(p, w, c, addr, f, start, old)

TInv ==
  /\ phase = "pass_one" =>
       /\ At(files, curr_input_file, line_num)
       /\ Tells(program, Shown(Current), contents, expr_list, files[1],
                listing_on, listing_for_line_done, line_start, old_line_num)
  /\ phase # "pass_one" =>
       \E addr : Told(program, SubSeq(listing_buf, 1, saved_listing_offset), contents, expr_list, addr)

\* What a step of pass one has to show.
LEMMA PassOneTells ==
  ASSUME phase = "pass_one", UNCHANGED <<program, phase>>,
         NEW fs, files' = fs, NEW file, curr_input_file' = file, NEW line, line_num' = line, At(fs, file, line),
         NEW c, contents' = c, NEW list, expr_list' = list, NEW on, listing_on' = on,
         NEW done, listing_for_line_done' = done, NEW start, line_start' = start, NEW old, old_line_num' = old,
         NEW l \in Listings, Becomes(l),
         Tells(program, Shown(l), c, list, fs[1], on, done, start, old)
  PROVE  TInv'
<1>1. Current' = l
  BY BecomesIs
<1>2. Shown(Current') = Shown(l)
  BY <1>1
<1>3. phase' = "pass_one" /\ program' = program
  OBVIOUS
<1>4. At(files', curr_input_file', line_num')
  OBVIOUS
<1>5. Tells(program', Shown(Current'), contents', expr_list', files'[1],
            listing_on', listing_for_line_done', line_start', old_line_num')
  BY <1>2, <1>3
<1> QED BY <1>3, <1>4, <1>5 DEF TInv

LEMMA NothingAdded ==
  ASSUME NEW w \in Seq(CellSet), NEW c \in Seq(Nat), NEW addr, Addressed(w, c, addr)
  PROVE  Added(w, c, addr, w, c, addr)
<1>1. Filled(w, addr, Len(c), Len(c))
  <2>1. \A i \in Len(c) + 1..Len(c) : FALSE
    OBVIOUS
  <2> QED BY <2>1 DEF Filled
<1>2. \A q \in 1..Len(w) : ~(q > Len(w))
  OBVIOUS
<1>3. Extends(w, c, addr, w, c, addr)
  BY <1>2 DEF Extends
<1> QED BY <1>1, <1>2, <1>3 DEF Added

\* A statement of a line that is listed.
LEMMA OpenSteps ==
  ASSUME NEW p \in Programs, NEW w \in Seq(CellSet), NEW x \in Seq(CellSet), NEW c \in Seq(Nat), NEW d \in Seq(Nat),
         NEW addr, NEW more, Added(w, c, addr, x, d, more),
         NEW f \in Frames(DOMAIN p), NEW g, NEW s, Steps1(f, g, s),
         Len(d) = Len(c) + (IF s.k \in {"data", "deferred"} THEN s.n ELSE 0),
         NEW start, NEW old, OpenLine(p, w, c, addr, f, start, old)
  PROVE  OpenLine(p, x, d, more, g, start, old)
<1>1. PICK m \in Nat : Begun(p, f, start, m) /\ \E o \in Nat : Prefixed(w, c, addr, start, o, Sizes(p[f.file][start])[m])
  BY DEF OpenLine
<1>2. PICK o \in Nat : Prefixed(w, c, addr, start, o, Sizes(p[f.file][start])[m])
  BY <1>1
<1>3. /\ Begun(p, g, start, m + 1) /\ m + 1 \in 1..Len(p[f.file][start]) /\ p[f.file][start][m + 1] = s
      /\ g.file = f.file
  BY <1>1, BegunSteps DEF Steps1
<1>4. f.file \in DOMAIN p /\ start \in 1..Len(p[f.file])
  BY <1>1 DEF Begun
<1>5. PICK line \in Seq(Readable(DOMAIN p)) : line = p[f.file][start]
  BY <1>4, LineTyped
<1>6. PICK u : u = Sizes(line)
  OBVIOUS
<1>7. /\ u \in [0..Len(line) -> Nat]
      /\ \A i \in 1..Len(line) : u[i] = u[i - 1] + (IF line[i].k \in {"data", "deferred"} THEN line[i].n ELSE 0)
  BY <1>6, SizesAre
<1>8. PICK k \in 1..Len(line) : k = m + 1 /\ line[k] = s
  BY <1>3, <1>5
<1>9. PICK size \in Nat, all \in Nat : size = u[m] /\ all = u[m + 1]
  <2>1. m \in 0..Len(line) /\ m + 1 \in 0..Len(line)
    BY <1>8
  <2> QED BY <1>7, <2>1
<1>10. PICK b \in Nat : b = (IF s.k \in {"data", "deferred"} THEN s.n ELSE 0)
  <2>1. s \in Readable(DOMAIN p)
    BY <1>8
  <2> QED BY <2>1, StatementIs
<1>11. all = size + b
  <2>1. u[k] = u[k - 1] + b
    BY <1>7, <1>8, <1>10
  <2>2. k - 1 = m
    BY <1>8
  <2> QED BY <1>8, <1>9, <2>1, <2>2
<1>12. all + Len(c) = size + Len(d)
  BY <1>10, <1>11
<1>13. Prefixed(w, c, addr, start, o, size)
  BY <1>2, <1>5, <1>6, <1>9
<1>14. Prefixed(x, d, more, start, o, all)
  <2>1. /\ Extends(w, c, addr, x, d, more) /\ Filled(x, more, Len(c), Len(d))
        /\ \A t \in 1..Len(x) : t > Len(w) => x[t].k \in {"hex", "newline", "space", "dash"}
    BY DEF Added
  <2> QED BY <1>12, <1>13, <2>1, PrefixedOn
<1>15. Prefixed(x, d, more, start, o, Sizes(p[g.file][start])[m + 1])
  BY <1>3, <1>5, <1>6, <1>9, <1>14
<1>16. m + 1 \in Nat /\ old = start
  BY DEF OpenLine
<1> QED BY <1>3, <1>15, <1>16 DEF OpenLine

\* The file that is read changes its place.
LEMMA AtChanged ==
  ASSUME NEW D, NEW fs \in Seq(Frames(D)), fs # <<>>, NEW file, NEW line, At(fs, file, line),
         NEW f, f.file = fs[1].file, f.old = fs[1].old
  PROVE  At([fs EXCEPT ![1] = f], file, f.line)
<1>1. PICK n \in Nat : n = Len(fs) /\ n >= 1
  <2>1. Len(fs) \in Nat /\ Len(fs) >= 1
    OBVIOUS
  <2> QED BY <2>1
<1> DEFINE gs == [fs EXCEPT ![1] = f]
<1>2. Len(gs) = n /\ gs[1] = f /\ \A i \in 2..n : gs[i] = fs[i]
  BY <1>1
<1> HIDE DEF gs
<1>3. ASSUME NEW i \in 1..n - 1 PROVE gs[i].old[1] = gs[i + 1].file /\ gs[i].old[2] = gs[i + 1].line
  <2>1. gs[i + 1] = fs[i + 1]
    <3>1. i + 1 \in 2..n
      BY <1>1
    <3> QED BY <1>2, <3>1
  <2>2. gs[i].old = fs[i].old
    <3>1. i = 1 \/ i \in 2..n
      BY <1>1
    <3> QED BY <1>2, <3>1
  <2>3. fs[i].old[1] = fs[i + 1].file /\ fs[i].old[2] = fs[i + 1].line
    BY <1>1 DEF At
  <2> QED BY <2>1, <2>2, <2>3
<1>4. At(gs, file, f.line)
  BY <1>2, <1>3 DEF At
<1> QED BY <1>4 DEF gs

\* The next statement of the file that is read.
LEMMA RestSteps ==
  ASSUME IInv, NEW s, Reads(s), At(files, curr_input_file, line_num)
  PROVE  \E f \in Frames(DOMAIN program) :
           /\ Rest = [files EXCEPT ![1] = f] /\ Rest[1] = f /\ Rest \in Seq(Frames(DOMAIN program)) /\ Rest # <<>>
           /\ f.file = files[1].file /\ f.line = files[1].line /\ f.open /\ files[1].open /\ f.old = files[1].old
           /\ f.todo = Tail(files[1].todo) /\ files[1].todo # <<>> /\ s = Head(files[1].todo)
           /\ files[1] \in Frames(DOMAIN program)
           /\ At(Rest, curr_input_file, line_num)
           /\ s.k # "skip" => Steps1(files[1], f, s)
           /\ s \in Readable(DOMAIN program)
<1>1. PICK f \in Frames(DOMAIN program) :
        /\ Rest = [files EXCEPT ![1] = f] /\ f = [files[1] EXCEPT !.todo = Tail(@)]
        /\ f.file = files[1].file /\ f.line = files[1].line /\ f.open = files[1].open /\ f.old = files[1].old
        /\ f.open /\ s \in Readable(DOMAIN program)
  BY RestIs
<1>2. files \in Seq(Frames(DOMAIN program)) /\ files # <<>>
  BY DEF IInv, Typed
<1>3. Rest \in Seq(Frames(DOMAIN program)) /\ Rest # <<>> /\ Rest[1] = f
  <2>1. Rest \in Seq(Frames(DOMAIN program)) /\ Rest # <<>>
    BY RestReads
  <2>2. 1 \in DOMAIN files
    BY <1>2
  <2> QED BY <1>1, <2>1, <2>2
<1>4. files[1] \in Frames(DOMAIN program)
  BY <1>2
<1>5. f.todo = Tail(files[1].todo)
  <2>1. files[1].todo = files[1].todo /\ files[1] = [file |-> files[1].file, line |-> files[1].line, todo |-> files[1].todo, open |-> files[1].open, old |-> files[1].old]
    BY <1>4, FrameIs
  <2> QED BY <1>1, <2>1
<1>6. files[1].todo # <<>> /\ s = Head(files[1].todo)
  BY <1>2 DEF Reads, File
<1>7. At(Rest, curr_input_file, line_num)
  <2>1. At([files EXCEPT ![1] = f], curr_input_file, f.line)
    BY <1>1, <1>2, AtChanged
  <2>2. f.line = line_num
    BY <1>1 DEF At
  <2> QED BY <1>1, <2>1, <2>2
<1>8. s.k # "skip" => Steps1(files[1], f, s)
  BY <1>1, <1>5, <1>6 DEF Steps1
<1> QED BY <1>1, <1>3, <1>4, <1>5, <1>6, <1>7, <1>8

\* What the listing tells while pass one reads.
TellsNow(addr) ==
  /\ Told(program, Shown(Current), contents, expr_list, addr)
  /\ Opened(files[1], listing_on, listing_for_line_done) =>
       OpenLine(program, Shown(Current), contents, addr, files[1], line_start, old_line_num)

LEMMA PassOneTold ==
  ASSUME IInv, TInv, phase = "pass_one"
  PROVE  /\ At(files, curr_input_file, line_num) /\ program \in Programs
         /\ \E addr : TellsNow(addr) /\ Addressed(Shown(Current), contents, addr)
         /\ Current \in Listings /\ Shown(Current) \in Seq(CellSet) /\ contents \in Seq(Nat)
         /\ expr_list \in Seq(Slots(DOMAIN program)) /\ Len(Shown(Current)) = listing_offset
<1>1. At(files, curr_input_file, line_num) /\ \E addr : TellsNow(addr)
  BY DEF TInv, Tells, TellsNow
<1>2. PICK addr : TellsNow(addr)
  BY <1>1
<1>3. Addressed(Shown(Current), contents, addr)
  BY <1>2 DEF TellsNow, Told
<1>4. program \in Programs
  BY DEF IInv, Typed
<1> QED BY <1>1, <1>2, <1>3, <1>4, PassOneIs

LEMMA InitTells == Init => TInv
<1> SUFFICES ASSUME Init PROVE TInv
  OBVIOUS
<1>1. IInv /\ phase = "pass_one"
  BY InitHolds DEF Init
<1>2. PICK w \in Seq(CellSet) : w = Shown(Current) /\ Len(w) = 0
  <2>1. listing_offset = 0
    BY DEF Init
  <2> QED BY <1>1, <2>1, PassOneIs
<1>3. \A q \in 1..Len(w) : FALSE
  BY <1>2
<1>4. PICK addr : addr = [q \in 1..Len(w) |-> 0]
  OBVIOUS
<1>5. addr \in [1..Len(w) -> Nat]
  BY <1>4
<1>6. Addressed(w, contents, addr)
  BY <1>3, <1>5 DEF Addressed
<1>7. PICK f : f = [file |-> "main", line |-> 1, todo |-> <<>>, open |-> FALSE, old |-> <<"", 0, 0>>]
  OBVIOUS
<1>8. files = <<f>> /\ expr_list = <<>> /\ curr_input_file = "main" /\ line_num = 1
  BY <1>7 DEF Init
<1>9. PICK fs \in Seq({f}) : fs = <<f>> /\ fs[1] = f /\ Len(fs) = 1
  <2>1. <<f>> \in Seq({f})
    OBVIOUS
  <2> QED BY <2>1
<1>10. f.file = "main" /\ f.line = 1 /\ ~f.open
  BY <1>7
<1>11. At(fs, curr_input_file, line_num)
  <2>1. \A i \in 1..Len(fs) - 1 : FALSE
    BY <1>9
  <2> QED BY <1>8, <1>9, <1>10, <2>1 DEF At
<1>12. Told(program, w, contents, expr_list, addr)
  <2>1. \A i \in 1..Len(expr_list) : FALSE
    <3>1. Len(expr_list) = 0
      BY <1>8
    <3> QED BY <3>1
  <2> QED BY <1>3, <1>6, <2>1 DEF Told
<1>13. Tells(program, w, contents, expr_list, f, listing_on, listing_for_line_done, line_start, old_line_num)
  BY <1>10, <1>12 DEF Tells, Opened
<1> QED BY <1>1, <1>2, <1>8, <1>9, <1>11, <1>13 DEF TInv

\* Bytes are written, and listed if the listing is on.
BytesTold(bytes, l, addr, more) ==
  LET w == Shown(Current)
      c == contents
  IN /\ TellsNow(addr)
     /\ Told(program, Shown(l), c \o bytes, expr_list, more)
     /\ Extends(w, c, addr, Shown(l), c \o bytes, more)
     /\ listing_on => Added(w, c, addr, Shown(l), c \o bytes, more)
     /\ ~listing_on => Shown(l) = w /\ more = addr

LEMMA BytesTell ==
  ASSUME IInv, TInv, phase = "pass_one", NEW bytes \in Seq(Nat), NEW l,
         l = IF listing_on THEN Columns(Current, bytes) ELSE Current
  PROVE  \E addr, more : BytesTold(bytes, l, addr, more)
<1>1. PICK addr : TellsNow(addr) /\ Addressed(Shown(Current), contents, addr)
  BY PassOneTold
<1>2. Current \in Listings /\ Current.width <= HexColumns /\ l \in Listings
  BY ColumnsCase, PassOneIs
<1>3. PICK w \in Seq(CellSet), x \in Seq(CellSet), c \in Seq(Nat), d \in Seq(Nat) :
        w = Shown(Current) /\ x = Shown(l) /\ c = contents /\ d = c \o bytes
  <2>1. Shown(Current) \in Seq(CellSet) /\ Shown(l) \in Seq(CellSet) /\ contents \in Seq(Nat)
    BY <1>2, ShownIs, PassOneIs
  <2>2. contents \o bytes \in Seq(Nat)
    BY <2>1, ConcatProperties
  <2> QED BY <2>1, <2>2
<1>4. PICK list \in Seq(Slots(DOMAIN program)) : list = expr_list
  BY PassOneIs
<1>5. Told(program, w, c, list, addr)
  BY <1>1, <1>3, <1>4 DEF TellsNow
<1>6. CASE listing_on
  <2>1. PICK more : Added(w, c, addr, x, d, more)
    <3>1. \E more : Added(Shown(Current), contents, addr, Shown(Columns(Current, bytes)), contents \o bytes, more)
      <4>1. contents \in Seq(Nat)
        BY PassOneIs
      <4> QED BY <1>1, <1>2, <4>1, ColumnsAdded
    <3>2. l = Columns(Current, bytes)
      BY <1>6
    <3> QED BY <1>3, <3>1, <3>2
  <2>2. /\ Extends(w, c, addr, x, d, more)
        /\ \A t \in 1..Len(x) : t > Len(w) => x[t].k \in {"hex", "newline", "space", "dash"}
    BY <2>1 DEF Added
  <2>3. \A t \in 1..Len(x) : t > Len(w) /\ x[t].k = "text" => LineShown(program, x, d, more, t)
    BY <2>2
  <2>4. Told(program, x, d, list, more)
    BY <1>5, <2>2, <2>3, ToldExtends
  <2> QED BY <1>1, <1>3, <1>4, <1>6, <2>1, <2>2, <2>4 DEF BytesTold
<1>7. CASE ~listing_on
  <2>1. x = w
    BY <1>3, <1>7
  <2>2. Extends(w, c, addr, x, d, addr)
    <3>1. Addressed(w, c, addr)
      BY <1>1, <1>3
    <3> QED BY <1>3, <2>1, <3>1, SilentExtends
  <2>3. \A t \in 1..Len(x) : t > Len(w) /\ x[t].k = "text" => LineShown(program, x, d, addr, t)
    BY <2>1
  <2>4. Told(program, x, d, list, addr)
    BY <1>5, <2>2, <2>3, ToldExtends
  <2> QED BY <1>1, <1>3, <1>4, <1>7, <2>1, <2>2, <2>4 DEF BytesTold
<1> QED BY <1>6, <1>7

\* The line goes on behind the bytes.
LEMMA BytesOpen ==
  ASSUME IInv, TInv, NEW s, Reads(s), s.k \in {"data", "deferred"},
         NEW bytes \in Seq(Nat), Len(bytes) = s.n, NEW l,
         l = IF listing_on THEN Columns(Current, bytes) ELSE Current,
         NEW addr, NEW more, BytesTold(bytes, l, addr, more)
  PROVE  Opened(Rest[1], listing_on, listing_for_line_done) =>
           OpenLine(program, Shown(l), contents \o bytes, more, Rest[1], line_start, old_line_num)
<1> SUFFICES ASSUME Opened(Rest[1], listing_on, listing_for_line_done)
             PROVE  OpenLine(program, Shown(l), contents \o bytes, more, Rest[1], line_start, old_line_num)
  OBVIOUS
<1>1. phase = "pass_one"
  BY DEF Reads
<1>2. PICK f \in Frames(DOMAIN program) :
        f = Rest[1] /\ files[1].open /\ files[1] \in Frames(DOMAIN program) /\ Steps1(files[1], f, s)
  <2>1. s.k # "skip"
    OBVIOUS
  <2> QED BY <1>1, <2>1, PassOneTold, RestSteps
<1>3. listing_on /\ Opened(files[1], listing_on, listing_for_line_done)
  BY <1>2 DEF Opened
<1>4. l \in Listings
  BY <1>1, ColumnsCase
<1>5. PICK w \in Seq(CellSet), x \in Seq(CellSet), c \in Seq(Nat), d \in Seq(Nat) :
        w = Shown(Current) /\ x = Shown(l) /\ c = contents /\ d = c \o bytes /\ Len(d) = Len(c) + Len(bytes)
  <2>1. Shown(Current) \in Seq(CellSet) /\ Shown(l) \in Seq(CellSet) /\ contents \in Seq(Nat)
    BY <1>1, <1>4, ShownIs, PassOneIs
  <2>2. contents \o bytes \in Seq(Nat) /\ Len(contents \o bytes) = Len(contents) + Len(bytes)
    BY <2>1, ConcatProperties
  <2> QED BY <2>1, <2>2
<1>6. Added(w, c, addr, x, d, more)
  BY <1>3, <1>5 DEF BytesTold
<1>7. OpenLine(program, w, c, addr, files[1], line_start, old_line_num)
  BY <1>3, <1>5 DEF BytesTold, TellsNow
<1>8. Len(d) = Len(c) + (IF s.k \in {"data", "deferred"} THEN s.n ELSE 0)
  BY <1>5
<1>9. program \in Programs
  BY DEF IInv, Typed
<1>10. OpenLine(program, x, d, more, f, line_start, old_line_num)
  BY <1>2, <1>6, <1>7, <1>8, <1>9, OpenSteps
<1> QED BY <1>2, <1>5, <1>10

LEMMA DataTells ==
  ASSUME IInv, TInv, NEW s, Data(s)
  PROVE  TInv'
<1>1. phase = "pass_one" /\ Reads(s) /\ s.k = "data"
  BY DEF Data, Reads
<1>2. At(files, curr_input_file, line_num) /\ contents \in Seq(Nat)
  BY <1>1, PassOneTold
<1>3. PICK n \in Nat : n = s.n /\ At(Rest, curr_input_file, line_num)
  <2>1. s \in Readable(DOMAIN program) /\ At(Rest, curr_input_file, line_num)
    BY <1>1, <1>2, RestSteps
  <2> QED BY <2>1, StatementIs
<1>4. PICK bytes \in Seq(Nat) : bytes = Bytes(program_counter, n) /\ Len(bytes) = n
  <2>1. program_counter \in Nat
    BY <1>2 DEF program_counter
  <2> QED BY <2>1, BytesAre
<1>5. PICK l : l = IF listing_on THEN Columns(Current, bytes) ELSE Current
  OBVIOUS
<1>6. l \in Listings
  BY <1>1, <1>5, ColumnsCase
<1>7. Becomes(l)
  BY <1>3, <1>4, <1>5 DEF Data
<1>8. PICK addr, more : BytesTold(bytes, l, addr, more)
  BY <1>1, <1>5, BytesTell
<1>9. Opened(Rest[1], listing_on, listing_for_line_done) =>
        OpenLine(program, Shown(l), contents \o bytes, more, Rest[1], line_start, old_line_num)
  BY <1>1, <1>3, <1>4, <1>5, <1>8, BytesOpen
<1>10. Tells(program, Shown(l), contents \o bytes, expr_list, Rest[1],
             listing_on, listing_for_line_done, line_start, old_line_num)
  BY <1>8, <1>9 DEF BytesTold, Tells
<1>11. /\ program' = program /\ phase' = phase /\ contents' = contents \o bytes
       /\ files' = Rest /\ curr_input_file' = curr_input_file /\ line_num' = line_num /\ old_line_num' = old_line_num
       /\ line_start' = line_start /\ expr_list' = expr_list /\ listing_on' = listing_on
       /\ listing_for_line_done' = listing_for_line_done
  BY <1>3, <1>4 DEF Data, Reads
<1> QED BY <1>1, <1>3, <1>6, <1>7, <1>10, <1>11, PassOneTells

\* An argument that is left to pass two is behind all that is listed.
LEMMA SlotPlaced ==
  ASSUME NEW w \in Seq(CellSet), NEW x \in Seq(CellSet), NEW c \in Seq(Nat), NEW d \in Seq(Nat),
         NEW addr, NEW more, Addressed(w, c, addr), Extends(w, c, addr, x, d, more),
         NEW D, NEW e \in Slots(D), e.offset = Len(w), e.out = Len(c), e.out + e.n <= Len(d),
         e.on => Filled(x, more, e.out, e.out + e.n), ~e.on => x = w /\ more = addr
  PROVE  Placed(x, d, more, e)
<1>1. PICK i \in Nat, j \in Nat, k \in Nat : i = Len(w) /\ j = Len(c) /\ k = Len(x) /\ i <= k
  BY DEF Extends
<1>2. e.offset <= Len(x)
  BY <1>1
<1>3. Cut(x, more, i, j)
  <2> SUFFICES ASSUME NEW q \in 1..Len(x), x[q].k = "hex" PROVE q <= i <=> more[q] <= j
    BY DEF Cut
  <2>1. more[q] \in Nat
    BY DEF Extends, Addressed
  <2>2. CASE q <= i
    <3>1. q \in 1..Len(w) /\ x[q] = w[q] /\ more[q] = addr[q]
      BY <1>1, <2>2 DEF Extends
    <3>2. addr[q] <= Len(c)
      BY <3>1 DEF Addressed
    <3> QED BY <1>1, <2>2, <3>1, <3>2
  <2>3. CASE q > i
    <3>1. more[q] > Len(c)
      BY <1>1, <2>3 DEF Extends
    <3> QED BY <1>1, <2>1, <2>3, <3>1
  <2> QED BY <1>1, <2>2, <2>3
<1>4. e.on => Cut(x, more, e.offset, e.out)
  BY <1>1, <1>3
<1>5. ~e.on => \A q \in 1..Len(x) : x[q].k = "hex" => more[q] <= e.out \/ more[q] > e.out + e.n
  BY DEF Addressed
<1> QED BY <1>2, <1>4, <1>5 DEF Placed

LEMMA ToldAppended ==
  ASSUME NEW p, NEW w, NEW c, NEW addr, NEW S, NEW list \in Seq(S), Told(p, w, c, list, addr),
         NEW e \in S, Placed(w, c, addr, e)
  PROVE  Told(p, w, c, Append(list, e), addr)
<1>1. /\ Append(list, e) \in Seq(S) /\ Len(Append(list, e)) = Len(list) + 1
      /\ Append(list, e)[Len(list) + 1] = e /\ \A i \in 1..Len(list) : Append(list, e)[i] = list[i]
  BY AppendProperties
<1>2. ASSUME NEW i \in 1..Len(Append(list, e)) PROVE Placed(w, c, addr, Append(list, e)[i])
  <2>1. i \in 1..Len(list) \/ i = Len(list) + 1
    BY <1>1
  <2> QED BY <1>1, <2>1 DEF Told
<1> QED BY <1>2 DEF Told

LEMMA DeferredTells ==
  ASSUME IInv, TInv, NEW s, Deferred(s)
  PROVE  TInv'
<1>1. phase = "pass_one" /\ Reads(s) /\ s.k = "deferred"
  BY DEF Deferred, Reads
<1>2. /\ At(files, curr_input_file, line_num) /\ contents \in Seq(Nat) /\ Current \in Listings
      /\ expr_list \in Seq(Slots(DOMAIN program)) /\ Len(Shown(Current)) = listing_offset
  BY <1>1, PassOneTold
<1>3. PICK n \in Nat : n = s.n /\ At(Rest, curr_input_file, line_num)
  <2>1. s \in Readable(DOMAIN program) /\ At(Rest, curr_input_file, line_num)
    BY <1>1, <1>2, RestSteps
  <2> QED BY <2>1, StatementIs
<1>4. PICK bytes \in Seq(Nat) : bytes = [i \in 1..n |-> 0] /\ Len(bytes) = n
  <2>1. 0 \in Nat
    OBVIOUS
  <2> QED BY <2>1, BytesAre
<1>5. PICK l : l = IF listing_on THEN Columns(Current, bytes) ELSE Current
  OBVIOUS
<1>6. l \in Listings
  BY <1>1, <1>5, ColumnsCase
<1>7. Becomes(l)
  BY <1>3, <1>4, <1>5 DEF Deferred
<1>8. PICK addr, more : BytesTold(bytes, l, addr, more)
  BY <1>1, <1>5, BytesTell
<1>9. PICK e \in Slots(DOMAIN program) :
        /\ e = [out |-> program_counter, offset |-> listing_offset, on |-> listing_on, n |-> n,
                file |-> curr_input_file, line |-> line_num]
        /\ e.on = listing_on /\ e.offset = listing_offset /\ e.n = n /\ e.out = program_counter
  <2>1. program_counter \in Nat
    BY <1>2 DEF program_counter
  <2>2. listing_offset \in Nat /\ listing_on \in BOOLEAN /\ curr_input_file \in DOMAIN program /\ line_num \in Nat
    BY CurrentIs DEF IInv, Typed
  <2>3. PICK e : e = [out |-> program_counter, offset |-> listing_offset, on |-> listing_on, n |-> n,
                      file |-> curr_input_file, line |-> line_num]
    OBVIOUS
  <2>4. e \in Slots(DOMAIN program)
    BY <2>1, <2>2, <2>3 DEF Slots
  <2> QED BY <2>3, <2>4
<1>10. PICK w \in Seq(CellSet), x \in Seq(CellSet), c \in Seq(Nat), d \in Seq(Nat) :
         w = Shown(Current) /\ x = Shown(l) /\ c = contents /\ d = c \o bytes /\ Len(d) = Len(c) + n
  <2>1. Shown(Current) \in Seq(CellSet) /\ Shown(l) \in Seq(CellSet)
    BY <1>2, <1>6, ShownIs
  <2>2. contents \o bytes \in Seq(Nat) /\ Len(contents \o bytes) = Len(contents) + Len(bytes)
    BY <1>2, ConcatProperties
  <2> QED BY <1>2, <1>4, <2>1, <2>2
<1>11. /\ Told(program, x, d, expr_list, more) /\ Extends(w, c, addr, x, d, more) /\ Addressed(w, c, addr)
       /\ listing_on => Filled(x, more, Len(c), Len(d))
       /\ ~listing_on => x = w /\ more = addr
  <2>1. Addressed(w, c, addr)
    BY <1>8, <1>10 DEF BytesTold, TellsNow, Told
  <2> QED BY <1>8, <1>10, <2>1 DEF BytesTold, Added
<1>12. Placed(x, d, more, e)
  <2>1. e.offset = Len(w) /\ e.out = Len(c)
    BY <1>2, <1>9, <1>10 DEF program_counter
  <2>2. e.out + e.n = Len(d)
    BY <1>9, <1>10, <2>1
  <2>3. e.on => Filled(x, more, e.out, e.out + e.n)
    BY <1>9, <1>11, <2>1, <2>2
  <2>4. Len(d) \in Nat
    OBVIOUS
  <2>5. e.out + e.n <= Len(d)
    BY <2>2, <2>4
  <2> QED BY <1>9, <1>11, <2>1, <2>3, <2>5, SlotPlaced
<1>13. PICK list : list = Append(expr_list, e)
  OBVIOUS
<1>14. Told(program, x, d, list, more)
  BY <1>2, <1>11, <1>12, <1>13, ToldAppended
<1>15. Opened(Rest[1], listing_on, listing_for_line_done) =>
         OpenLine(program, x, d, more, Rest[1], line_start, old_line_num)
  BY <1>1, <1>3, <1>4, <1>5, <1>8, <1>10, BytesOpen
<1>16. Tells(program, Shown(l), d, list, Rest[1], listing_on, listing_for_line_done, line_start, old_line_num)
  BY <1>10, <1>14, <1>15 DEF Tells
<1>17. /\ program' = program /\ phase' = phase /\ contents' = d
       /\ files' = Rest /\ curr_input_file' = curr_input_file /\ line_num' = line_num /\ old_line_num' = old_line_num
       /\ line_start' = line_start /\ listing_on' = listing_on
       /\ listing_for_line_done' = listing_for_line_done
  BY <1>3, <1>4, <1>10 DEF Deferred, Reads
<1>18. expr_list' = list
  BY <1>3, <1>9, <1>13 DEF Deferred
<1> QED BY <1>1, <1>3, <1>6, <1>7, <1>16, <1>17, <1>18, PassOneTells

\* A statement that writes nothing.
LEMMA SilentOpen ==
  ASSUME IInv, TInv, phase = "pass_one", NEW s, NEW g, Steps1(files[1], g, s), s.k \notin {"data", "deferred"},
         NEW addr, TellsNow(addr), Opened(files[1], listing_on, listing_for_line_done)
  PROVE  OpenLine(program, Shown(Current), contents, addr, g, line_start, old_line_num)
<1>1. PICK w \in Seq(CellSet), c \in Seq(Nat) : w = Shown(Current) /\ c = contents
  BY PassOneIs
<1>2. Addressed(w, c, addr) /\ OpenLine(program, w, c, addr, files[1], line_start, old_line_num)
  BY <1>1 DEF TellsNow, Told
<1>3. Added(w, c, addr, w, c, addr)
  BY <1>2, NothingAdded
<1>4. Len(c) = Len(c) + (IF s.k \in {"data", "deferred"} THEN s.n ELSE 0)
  <2>1. Len(c) \in Nat
    OBVIOUS
  <2> QED BY <2>1
<1>5. program \in Programs /\ files[1] \in Frames(DOMAIN program)
  BY DEF IInv, Typed
<1>6. OpenLine(program, w, c, addr, g, line_start, old_line_num)
  BY <1>2, <1>3, <1>4, <1>5, OpenSteps
<1> QED BY <1>1, <1>6

LEMMA ListOnTells ==
  ASSUME IInv, TInv, NEW s, ListOn(s)
  PROVE  TInv'
<1>1. phase = "pass_one" /\ Reads(s) /\ s.k = "list"
  BY DEF ListOn, Reads
<1>2. At(files, curr_input_file, line_num)
  BY <1>1, PassOneTold
<1>3. PICK f : f = Rest[1] /\ At(Rest, curr_input_file, line_num) /\ Steps1(files[1], f, s) /\ f.open /\ files[1].open
  <2>1. s.k # "skip"
    BY <1>1
  <2> QED BY <1>1, <1>2, <2>1, RestSteps
<1>4. PICK addr : TellsNow(addr)
  BY <1>1, PassOneTold
<1>5. PICK l \in Listings : l = Current
  BY <1>1, PassOneIs
<1>6. PICK done : done = (listing_for_line_done \/ ~listing_on)
  OBVIOUS
<1>7. Opened(f, TRUE, done) => OpenLine(program, Shown(Current), contents, addr, f, line_start, old_line_num)
  <2>1. Opened(f, TRUE, done) => Opened(files[1], listing_on, listing_for_line_done)
    BY <1>3, <1>6 DEF Opened
  <2>2. s.k \notin {"data", "deferred"}
    BY <1>1
  <2> QED BY <1>1, <1>3, <1>4, <2>1, <2>2, SilentOpen
<1>8. Told(program, Shown(Current), contents, expr_list, addr)
  BY <1>4 DEF TellsNow
<1>9. Tells(program, Shown(l), contents, expr_list, Rest[1], TRUE, done, line_start, old_line_num)
  BY <1>3, <1>5, <1>7, <1>8 DEF Tells
<1>10. /\ program' = program /\ phase' = phase
      /\ files' = Rest /\ curr_input_file' = curr_input_file /\ line_num' = line_num /\ old_line_num' = old_line_num
      /\ line_start' = line_start /\ expr_list' = expr_list /\ contents' = contents
      /\ listing_on' = TRUE /\ listing_for_line_done' = done
      /\ listing_buf' = listing_buf /\ listing_offset' = listing_offset /\ listing_width' = listing_width
  BY <1>6 DEF ListOn, Reads
<1>11. Becomes(l)
  BY <1>5, <1>10 DEF Becomes, Current
<1> QED BY <1>1, <1>3, <1>5, <1>9, <1>10, <1>11, PassOneTells

LEMMA SkipTells ==
  ASSUME IInv, TInv, NEW s, Skip(s)
  PROVE  TInv'
<1>1. phase = "pass_one" /\ Reads(s) /\ s.k = "skip"
  BY DEF Skip, Reads
<1>2. At(files, curr_input_file, line_num)
  BY <1>1, PassOneTold
<1>3. PICK g \in Frames(DOMAIN program), rest \in Seq(Frames(DOMAIN program)) :
        /\ g = Rest[1] /\ rest = Rest /\ rest # <<>> /\ At(rest, curr_input_file, line_num)
        /\ g.file = files[1].file /\ g.line = files[1].line /\ g.open /\ files[1].open
        /\ g.todo = Tail(files[1].todo) /\ files[1].todo # <<>> /\ s = Head(files[1].todo)
        /\ s \in Readable(DOMAIN program)
  BY <1>1, <1>2, RestSteps
<1>4. PICK n \in Nat : n = s.n
  BY <1>3, StatementIs
<1>5. PICK line \in Nat : line = g.line + n
  <2>1. g.line \in Nat
    BY FrameIs
  <2> QED BY <2>1
<1>6. PICK f : f = [g EXCEPT !.line = line]
  OBVIOUS
<1>7. f.line = line /\ f.todo = g.todo /\ f.open = g.open /\ f.old = g.old /\ f.file = g.file
  <2>1. g = [file |-> g.file, line |-> g.line, todo |-> g.todo, open |-> g.open, old |-> g.old]
    BY FrameIs
  <2> QED BY <1>6, <2>1
<1>8. PICK fs : fs = [rest EXCEPT ![1] = f] /\ fs[1] = f /\ At(fs, curr_input_file, line)
  <2>1. At([rest EXCEPT ![1] = f], curr_input_file, f.line)
    BY <1>3, <1>7, AtChanged
  <2>2. [rest EXCEPT ![1] = f][1] = f
    BY <1>3
  <2> QED BY <1>7, <2>1, <2>2
<1>9. files' = fs
  <2>1. files' = [rest EXCEPT ![1].line = @ + n]
    BY <1>3, <1>4 DEF Skip
  <2>2. [rest EXCEPT ![1].line = @ + n] = [rest EXCEPT ![1] = f]
    BY <1>3, <1>5, <1>6
  <2> QED BY <1>8, <2>1, <2>2
<1>10. Steps1(files[1], f, s)
  BY <1>1, <1>3, <1>4, <1>5, <1>7 DEF Steps1
<1>11. PICK addr : TellsNow(addr)
  BY <1>1, PassOneTold
<1>12. PICK l \in Listings : l = Current
  BY <1>1, PassOneIs
<1>13. Opened(f, listing_on, listing_for_line_done) =>
         OpenLine(program, Shown(Current), contents, addr, f, line_start, old_line_num)
  <2>1. Opened(f, listing_on, listing_for_line_done) => Opened(files[1], listing_on, listing_for_line_done)
    BY <1>3 DEF Opened
  <2>2. s.k \notin {"data", "deferred"}
    BY <1>1
  <2> QED BY <1>1, <1>10, <1>11, <2>1, <2>2, SilentOpen
<1>14. Told(program, Shown(Current), contents, expr_list, addr)
  BY <1>11 DEF TellsNow
<1>15. Tells(program, Shown(l), contents, expr_list, fs[1], listing_on, listing_for_line_done, line_start, old_line_num)
  BY <1>8, <1>12, <1>13, <1>14 DEF Tells
<1>16. /\ program' = program /\ phase' = phase
       /\ curr_input_file' = curr_input_file /\ line_num' = line_num + n /\ old_line_num' = old_line_num
       /\ line_start' = line_start /\ expr_list' = expr_list /\ contents' = contents
       /\ listing_on' = listing_on /\ listing_for_line_done' = listing_for_line_done
       /\ listing_buf' = listing_buf /\ listing_offset' = listing_offset /\ listing_width' = listing_width
  BY <1>4 DEF Skip, Reads
<1>17. line_num' = line
  BY <1>3, <1>5, <1>16 DEF At
<1>18. Becomes(l)
  BY <1>12, <1>16 DEF Becomes, Current
<1> QED BY <1>1, <1>8, <1>9, <1>12, <1>15, <1>16, <1>17, <1>18, PassOneTells

\* Cells that are neither columns nor text are taken back.
LEMMA ToldCut ==
  ASSUME NEW p, NEW w \in Seq(CellSet), NEW c \in Seq(Nat), NEW list, NEW addr, Told(p, w, c, list, addr),
         NEW a \in Nat, a <= Len(w), \A q \in a + 1..Len(w) : w[q].k \notin {"hex", "text"},
         \A i \in 1..Len(list) : list[i].offset <= a
  PROVE  \E less : Told(p, SubSeq(w, 1, a), c, list, less)
<1>1. PICK x \in Seq(CellSet) : x = SubSeq(w, 1, a) /\ Len(x) = a /\ \A q \in 1..a : x[q] = w[q]
  <2>1. SubSeq(w, 1, a) \in Seq(CellSet) /\ Len(SubSeq(w, 1, a)) = a /\ \A q \in 1..a : SubSeq(w, 1, a)[q] = w[q]
    BY FirstCells, Zenon
  <2> QED BY <2>1
<1>2. PICK less : less = [q \in 1..Len(x) |-> addr[q]]
  OBVIOUS
<1>3. \A q \in 1..Len(x) : q \in 1..Len(w) /\ x[q] = w[q] /\ less[q] = addr[q]
  BY <1>1, <1>2
<1>4. \A q \in 1..Len(w) : w[q].k \in {"hex", "text"} => q \in 1..Len(x)
  <2> SUFFICES ASSUME NEW q \in 1..Len(w), q \notin 1..Len(x) PROVE w[q].k \notin {"hex", "text"}
    OBVIOUS
  <2>1. q \in a + 1..Len(w)
    BY <1>1
  <2> QED BY <2>1
<1>5. Addressed(w, c, addr)
  BY DEF Told
<1>6. Addressed(x, c, less)
  <2>1. less \in [1..Len(x) -> Nat]
    BY <1>2, <1>3, <1>5 DEF Addressed
  <2>2. \A q \in 1..Len(x) : x[q].k = "hex" => less[q] >= 1 /\ less[q] <= Len(c) /\ x[q].n = c[less[q]]
    BY <1>3, <1>5 DEF Addressed
  <2>3. \A q \in 1..Len(x) : \A r \in 1..Len(x) : x[q].k = "hex" /\ x[r].k = "hex" /\ q < r => less[q] < less[r]
    BY <1>3, <1>5 DEF Addressed
  <2> QED BY <2>1, <2>2, <2>3 DEF Addressed
<1>7. ASSUME NEW o, NEW b, Cut(w, addr, o, b) PROVE Cut(x, less, o, b)
  BY <1>3, <1>7 DEF Cut
<1>8. ASSUME NEW b, NEW d, Filled(w, addr, b, d) PROVE Filled(x, less, b, d)
  <2> SUFFICES ASSUME NEW i \in b + 1..d PROVE \E q \in 1..Len(x) : x[q].k = "hex" /\ less[q] = i
    BY DEF Filled
  <2>1. PICK q \in 1..Len(w) : w[q].k = "hex" /\ addr[q] = i
    BY <1>8 DEF Filled
  <2>2. q \in 1..Len(x)
    BY <1>4, <2>1
  <2> QED BY <1>3, <2>1, <2>2
<1>9. ASSUME NEW i \in 1..Len(list) PROVE Placed(x, c, less, list[i])
  <2>1. Placed(w, c, addr, list[i])
    BY DEF Told
  <2>2. list[i].offset <= Len(x)
    BY <1>1
  <2> QED BY <1>3, <1>7, <1>8, <2>1, <2>2 DEF Placed
<1>10. ASSUME NEW t \in 1..Len(x), x[t].k = "text" PROVE LineShown(p, x, c, less, t)
  <2>1. t \in 1..Len(w) /\ w[t].k = "text" /\ x[t] = w[t]
    BY <1>3, <1>10
  <2>2. LineShown(p, w, c, addr, t)
    BY <2>1 DEF Told
  <2>3. PICK s \in 1..t - 1 : \E size \in Nat : From(p, w, c, addr, t, s, size)
    BY <2>2 DEF LineShown
  <2>4. PICK size \in Nat : From(p, w, c, addr, t, s, size)
    BY <2>3
  <2>5. \A q \in 1..t : q \in 1..Len(x)
    OBVIOUS
  <2>6. x[s] = w[s] /\ \A q \in s + 1..t - 1 : x[q] = w[q]
    <3>1. s \in 1..t /\ \A q \in s + 1..t - 1 : q \in 1..t
      OBVIOUS
    <3> QED BY <1>3, <2>5, <3>1
  <2>7. /\ w[s].k = "line" /\ w[s].n = w[t].n
        /\ \A q \in s + 1..t - 1 : w[q].k \in {"hex", "newline", "space", "dash"}
        /\ w[s].pc + size <= Len(c)
        /\ Cut(w, addr, s, w[s].pc) /\ Cut(w, addr, t, w[s].pc + size) /\ Filled(w, addr, w[s].pc, w[s].pc + size)
        /\ Sized(p, w[t].file, w[t].n, size)
    BY <2>4 DEF From
  <2>8. Cut(x, less, s, w[s].pc) /\ Cut(x, less, t, w[s].pc + size) /\ Filled(x, less, w[s].pc, w[s].pc + size)
    BY <1>7, <1>8, <2>7
  <2>9. From(p, x, c, less, t, s, size)
    BY <2>1, <2>6, <2>7, <2>8 DEF From
  <2> QED BY <2>9 DEF LineShown
<1>11. Told(p, x, c, list, less)
  BY <1>6, <1>9, <1>10 DEF Told
<1> QED BY <1>1, <1>11

\* The first of the first cells.
LEMMA FirstOfFirst ==
  ASSUME NEW b \in Seq(CellSet), NEW o \in Nat, o <= Len(b), NEW a \in Nat, a <= o
  PROVE  SubSeq(SubSeq(b, 1, o), 1, a) = SubSeq(b, 1, a)
<1>1. PICK w \in Seq(CellSet) : w = SubSeq(b, 1, o) /\ Len(w) = o /\ \A i \in 1..o : w[i] = b[i]
  <2>1. SubSeq(b, 1, o) \in Seq(CellSet) /\ Len(SubSeq(b, 1, o)) = o /\ \A i \in 1..o : SubSeq(b, 1, o)[i] = b[i]
    BY FirstCells, Zenon
  <2> QED BY <2>1
<1>2. a <= Len(b) /\ a <= Len(w)
  BY <1>1
<1>3. PICK x \in Seq(CellSet) : x = SubSeq(b, 1, a) /\ Len(x) = a /\ \A i \in 1..a : x[i] = b[i]
  <2>1. SubSeq(b, 1, a) \in Seq(CellSet) /\ Len(SubSeq(b, 1, a)) = a /\ \A i \in 1..a : SubSeq(b, 1, a)[i] = b[i]
    BY <1>2, FirstCells, Zenon
  <2> QED BY <2>1
<1>4. PICK y \in Seq(CellSet) : y = SubSeq(w, 1, a) /\ Len(y) = a /\ \A i \in 1..a : y[i] = w[i]
  <2>1. SubSeq(w, 1, a) \in Seq(CellSet) /\ Len(SubSeq(w, 1, a)) = a /\ \A i \in 1..a : SubSeq(w, 1, a)[i] = w[i]
    BY <1>2, FirstCells, Zenon
  <2> QED BY <2>1
<1>5. \A i \in 1..a : i \in 1..o
  OBVIOUS
<1>6. \A i \in 1..Len(x) : x[i] = y[i]
  BY <1>1, <1>3, <1>4, <1>5
<1>7. x = y
  BY <1>3, <1>4, <1>6, SeqEqual
<1> QED BY <1>1, <1>3, <1>4, <1>7

LEMMA ListOffTells ==
  ASSUME IInv, TInv, NEW s, ListOff(s)
  PROVE  TInv'
<1>1. Typed /\ phase = "pass_one" /\ Reads(s) /\ s.k = "nolist"
  BY DEF IInv, ListOff, Reads
<1>2. At(files, curr_input_file, line_num)
  BY <1>1, PassOneTold
<1>3. PICK f : f = Rest[1] /\ At(Rest, curr_input_file, line_num)
  BY <1>1, <1>2, RestSteps
<1>4. PICK w \in Seq(CellSet) : w = Shown(Current) /\ Len(w) = listing_offset
  BY <1>1, PassOneIs
<1>5. Whole(w, expr_list, files[1], listing_on, listing_for_line_done)
  BY <1>1, <1>4, PassOneIs
<1>6. Fresh(files[1], listing_on) <=> listing_on
  BY <1>1 DEF Fresh, Reads, File, Typed
<1>7. Current \in Listings /\ listing_width \in Nat /\ listing_buf \in Seq(CellSet)
      /\ listing_offset \in Nat /\ listing_offset <= Len(listing_buf) /\ contents \in Seq(Nat)
  <2>1. Current \in Listings /\ contents \in Seq(Nat)
    BY <1>1 DEF Typed
  <2> QED BY <2>1, CurrentIs
<1>8. PICK addr : Told(program, w, contents, expr_list, addr)
  BY <1>1, <1>4, PassOneTold DEF TellsNow
<1>9. PICK a \in Nat : /\ a = IF listing_on THEN listing_offset - PrefixWidth ELSE listing_offset
                       /\ a <= listing_offset
                       /\ \E less : Told(program, SubSeq(w, 1, a), contents, expr_list, less)
  <2>1. CASE listing_on
    <3>1. PICK n : Partial(w, n) /\ Len(w) = n + PrefixWidth /\ Blocks(SubSeq(w, 1, n), expr_list)
      BY <1>5, <1>6, <2>1 DEF Whole
    <3>2. n \in Nat /\ PrefixWidth \in Nat /\ \A i \in n + 1..n + PrefixWidth : w[i].k = "line"
      BY <3>1, WidthsAssumption DEF Partial
    <3>3. n <= Len(w) /\ n = listing_offset - PrefixWidth /\ n <= listing_offset
      BY <1>4, <3>1, <3>2
    <3>4. \A q \in n + 1..Len(w) : w[q].k \notin {"hex", "text"}
      BY <3>1, <3>2
    <3>5. \A i \in 1..Len(expr_list) : expr_list[i].offset <= n
      <4>1. Len(SubSeq(w, 1, n)) = n
        BY <3>2, <3>3, FirstCells
      <4> QED BY <3>1, <4>1 DEF Blocks
    <3>6. \E less : Told(program, SubSeq(w, 1, n), contents, expr_list, less)
      BY <1>7, <1>8, <3>2, <3>3, <3>4, <3>5, ToldCut
    <3> QED BY <2>1, <3>2, <3>3, <3>6
  <2>2. CASE ~listing_on
    <3>1. SubSeq(w, 1, listing_offset) = w
      BY <1>4, SubSeqFull
    <3>2. listing_offset <= listing_offset
          /\ listing_offset = IF listing_on THEN listing_offset - PrefixWidth ELSE listing_offset
      BY <1>7, <2>2
    <3> QED BY <1>7, <1>8, <3>1, <3>2
  <2> QED BY <2>1, <2>2
<1>10. PICK l \in Listings : l = [buf |-> listing_buf, at |-> a, width |-> listing_width]
                            /\ l.buf = listing_buf /\ l.at = a /\ l.width = listing_width
  <2>1. a <= Len(listing_buf)
    BY <1>7, <1>9
  <2>2. PICK l : l = [buf |-> listing_buf, at |-> a, width |-> listing_width]
    OBVIOUS
  <2>3. l \in Listings
    BY <1>7, <2>1, <2>2, ListingMade
  <2> QED BY <2>2, <2>3
<1>11. Shown(l) = SubSeq(w, 1, a)
  <2>1. w = SubSeq(listing_buf, 1, listing_offset)
    BY <1>4, <1>7, CurrentIs DEF Shown
  <2>2. SubSeq(SubSeq(listing_buf, 1, listing_offset), 1, a) = SubSeq(listing_buf, 1, a)
    BY <1>7, <1>9, FirstOfFirst
  <2> QED BY <1>10, <2>1, <2>2 DEF Shown
<1>12. /\ program' = program /\ phase' = phase
      /\ files' = Rest /\ curr_input_file' = curr_input_file /\ line_num' = line_num /\ old_line_num' = old_line_num
      /\ line_start' = line_start /\ expr_list' = expr_list /\ contents' = contents
      /\ listing_on' = FALSE /\ listing_for_line_done' = listing_for_line_done
      /\ listing_buf' = listing_buf /\ listing_offset' = a /\ listing_width' = listing_width
  BY <1>9 DEF ListOff, Reads
<1>13. Becomes(l)
  BY <1>10, <1>12 DEF Becomes
<1>14. Tells(program, Shown(l), contents, expr_list, f, FALSE, listing_for_line_done, line_start, old_line_num)
  BY <1>9, <1>11 DEF Tells, Opened
<1> QED BY <1>1, <1>3, <1>12, <1>13, <1>14, PassOneTells

LEMMA BeginLineTells ==
  ASSUME IInv, TInv, BeginLine
  PROVE  TInv'
<1>1. Typed /\ files \in Seq(Frames(DOMAIN program)) /\ files # <<>> /\ Reading(program, files, line_start)
      /\ program \in Programs /\ phase = "pass_one"
  BY DEF IInv, Typed, BeginLine
<1>2. PICK h \in Frames(DOMAIN program) : h = files[1] /\ File = h
  BY <1>1 DEF File
<1>3. At(files, curr_input_file, line_num)
  BY <1>1, PassOneTold
<1>4. h.file \in DOMAIN program /\ h.line \in 1..Len(program[h.file]) /\ h.line \in Nat /\ line_num = h.line
  <2>1. h.line >= 1 /\ h.line \in Nat /\ h.file \in DOMAIN program
    <3>1. 1 \in 1..Len(files)
      BY <1>1
    <3> QED BY <1>1, <1>2, <3>1, FrameIs DEF Reading
  <2>2. program[h.file] \in Seq(Seq(Statements(DOMAIN program)))
    BY <1>1, <2>1, ProgramsAssumption
  <2>3. h.line <= Len(program[h.file])
    BY <1>2 DEF BeginLine
  <2> QED BY <1>2, <1>3, <2>1, <2>2, <2>3 DEF At
<1>5. PICK line \in Seq(Readable(DOMAIN program)) : line = program[h.file][h.line]
  <2>1. program[h.file][h.line] \in Seq(Readable(DOMAIN program))
    BY <1>1, <1>4, LineTyped, Zenon
  <2> QED BY <2>1
<1>6. PICK f : f = [h EXCEPT !.open = TRUE, !.todo = line]
  OBVIOUS
<1>7. f.file = h.file /\ f.line = h.line /\ f.todo = line /\ f.open = TRUE /\ f.old = h.old
  <2>1. h = [file |-> h.file, line |-> h.line, todo |-> h.todo, open |-> h.open, old |-> h.old]
    BY FrameIs
  <2> QED BY <1>6, <2>1
<1>8. PICK fs : fs = [files EXCEPT ![1] = f] /\ fs[1] = f /\ At(fs, curr_input_file, line_num)
  <2>1. At([files EXCEPT ![1] = f], curr_input_file, f.line)
    BY <1>1, <1>2, <1>3, <1>7, AtChanged
  <2>2. [files EXCEPT ![1] = f][1] = f
    BY <1>1
  <2> QED BY <1>4, <1>7, <2>1, <2>2
<1>9. files' = fs
  <2>1. files' = [files EXCEPT ![1].open = TRUE, ![1].todo = line]
    BY <1>2, <1>5 DEF BeginLine
  <2>2. [files EXCEPT ![1].open = TRUE, ![1].todo = line] = [files EXCEPT ![1] = [h EXCEPT !.open = TRUE, !.todo = line]]
    BY <1>1, <1>2
  <2> QED BY <1>6, <1>8, <2>1, <2>2
<1>10. PICK w \in Seq(CellSet), c \in Seq(Nat), list \in Seq(Slots(DOMAIN program)) :
         w = Shown(Current) /\ c = contents /\ list = expr_list
  BY <1>1, PassOneIs
<1>11. PICK addr : Told(program, w, c, list, addr) /\ Addressed(w, c, addr)
  BY <1>1, <1>10, PassOneTold DEF TellsNow
<1>12. Current \in Listings /\ line_num \in Nat /\ contents \in Seq(Nat)
  BY <1>1 DEF Typed
<1>13. PICK pre \in Seq(CellSet) : /\ pre = Prefix(line_num) /\ Len(pre) = PrefixWidth
                                   /\ \A i \in 1..PrefixWidth : pre[i].k = "line" /\ pre[i] = pre[1]
                                   /\ pre[1].n = line_num /\ pre[1].pc = Len(c)
  BY <1>10, <1>12, PrefixIs, PrefixFields
<1>14. PICK m \in Listings : m = IF listing_on THEN Insert(Current, pre) ELSE Current
  BY <1>12, InsertIs
<1>15. PICK l \in Listings : l = [m EXCEPT !.width = 0] /\ Shown(l) = Shown(m)
  <2>1. 0 \in Nat
    OBVIOUS
  <2> QED BY <2>1, WidthChanged
<1>16. Becomes(l)
  BY <1>13, <1>14, <1>15 DEF BeginLine
<1>17. Tells(program, Shown(l), c, list, f, listing_on, FALSE, h.line, line_num)
  <2>1. CASE listing_on
    <3>1. PICK x \in Seq(CellSet) : x = Shown(l) /\ x = w \o pre
      <4>1. Shown(Insert(Current, pre)) = w \o pre /\ w \o pre \in Seq(CellSet)
        BY <1>10, <1>12, InsertIs, Joined
      <4> QED BY <1>14, <1>15, <2>1, <4>1
    <3>2. PICK more : Told(program, x, c, list, more) /\ Extends(w, c, addr, x, c, more)
      <4>1. \A i \in 1..Len(pre) : pre[i].k \notin {"hex", "text"}
        BY <1>13
      <4>2. \E more : Told(program, w \o pre, c, list, more) /\ Extends(w, c, addr, w \o pre, c, more)
        BY <1>11, <4>1, BlanksTold
      <4> QED BY <3>1, <4>2
    <3>3. Prefixed(x, c, more, h.line, Len(w), 0)
      BY <1>4, <1>11, <1>13, <3>1, <3>2, PrefixBegins
    <3>4. PICK n \in Nat : n = Len(line)
      OBVIOUS
    <3>5. Begun(program, f, h.line, 0)
      <4>1. 0 \in 0..n /\ n = n - 0 /\ \A j \in 1..n : line[j] = line[0 + j]
        OBVIOUS
      <4> QED BY <1>4, <1>5, <1>7, <3>4, <4>1 DEF Begun
    <3>6. Sizes(line)[0] = 0
      BY SizesAre
    <3>7. OpenLine(program, x, c, more, f, h.line, line_num)
      <4>1. Prefixed(x, c, more, h.line, Len(w), Sizes(program[f.file][h.line])[0])
        BY <1>5, <1>7, <3>3, <3>6
      <4>2. 0 \in Nat /\ Len(w) \in Nat
        OBVIOUS
      <4> QED BY <1>4, <3>5, <4>1, <4>2 DEF OpenLine
    <3> QED BY <3>1, <3>2, <3>7 DEF Tells
  <2>2. CASE ~listing_on
    <3>1. Shown(l) = w
      BY <1>10, <1>14, <1>15, <2>2
    <3> QED BY <1>11, <2>2, <3>1 DEF Tells, Opened
  <2> QED BY <2>1, <2>2
<1>18. /\ program' = program /\ phase' = phase
       /\ curr_input_file' = curr_input_file /\ line_num' = line_num /\ contents' = c
       /\ expr_list' = list /\ listing_on' = listing_on /\ listing_for_line_done' = FALSE
       /\ line_start' = h.line /\ old_line_num' = line_num
  BY <1>2, <1>10 DEF BeginLine
<1> QED BY <1>1, <1>8, <1>9, <1>16, <1>17, <1>18, PassOneTells

\* The line is finished: it shows what its statements write.
LEMMA FinishedTold ==
  ASSUME IInv, phase = "pass_one", NEW f \in Frames(DOMAIN program), f.file = curr_input_file, f.todo = <<>>,
         NEW addr, Told(program, Shown(Current), contents, expr_list, addr),
         OpenLine(program, Shown(Current), contents, addr, f, line_start, old_line_num),
         NEW end, end = f.line + 1
  PROVE  \E more : Told(program, Shown(Listed(Current, end)), contents, expr_list, more)
<1>1. program \in Programs /\ line_start \in Nat /\ old_line_num = line_start
  BY DEF IInv, Typed, OpenLine
<1>2. PICK m \in Nat : /\ Begun(program, f, line_start, m)
                       /\ \E s \in Nat : Prefixed(Shown(Current), contents, addr, line_start, s,
                                                  Sizes(program[f.file][line_start])[m])
  BY DEF OpenLine
<1>3. PICK s \in Nat : Prefixed(Shown(Current), contents, addr, line_start, s, Sizes(program[f.file][line_start])[m])
  BY <1>2
<1>4. f.file \in DOMAIN program /\ line_start \in 1..Len(program[f.file])
  BY <1>2 DEF Begun
<1>5. PICK line \in Seq(Readable(DOMAIN program)) : line = program[f.file][line_start]
  BY <1>1, <1>4, LineTyped
<1>6. PICK n \in Nat : n = Len(line)
  OBVIOUS
<1>7. m = n
  <2>1. Len(f.todo) = 0
    OBVIOUS
  <2>2. Len(f.todo) = n - m
    BY <1>2, <1>5, <1>6 DEF Begun
  <2> QED BY <2>1, <2>2
<1>8. PICK size \in Nat : size = Sizes(line)[m] /\ size = Size(line)
  <2>1. Sizes(line) \in [0..Len(line) -> Nat] /\ Size(line) = Sizes(line)[Len(line)]
    BY SizesAre
  <2>2. m \in 0..Len(line)
    BY <1>6, <1>7
  <2> QED BY <1>6, <1>7, <2>1, <2>2
<1>9. Sized(program, curr_input_file, line_start, size)
  BY <1>5, <1>8 DEF Sized
<1>10. ASSUME NEW i \in 1..end - line_start - 1 PROVE Taken(program, curr_input_file, line_start + i)
  <2>1. PICK a \in Nat, e \in Nat : a = line_start /\ e = f.line /\ i \in 1..e - a /\ i \in Nat /\ a >= 1
    <3>1. f.line \in Nat
      BY FrameIs
    <3> QED BY <1>1, <1>4, <3>1, SMTT(30)
  <2>2. PICK k \in Nat : n > 0 /\ line[n].k = "skip" /\ k = line[n].n /\ e = a + k
    <3>1. e # a
      BY <2>1, SMTT(30)
    <3>2. n > 0 /\ line[n].k = "skip" /\ e = a + line[n].n
      BY <1>2, <1>5, <1>6, <1>7, <2>1, <3>1 DEF Begun
    <3>3. line[n] \in Readable(DOMAIN program)
      BY <1>6, <3>2
    <3> QED BY <3>2, <3>3, StatementIs
  <2>3. a \in 1..(a + i) - 1 /\ a + i <= a + k /\ line # <<>>
    BY <1>6, <2>1, <2>2
  <2> QED BY <1>5, <1>6, <2>1, <2>2, <2>3 DEF Taken
<1>11. end \in Int
  <2>1. f.line \in Nat
    BY FrameIs
  <2> QED BY <2>1
<1>12. Prefixed(Shown(Current), contents, addr, line_start, s, size)
  BY <1>3, <1>5, <1>8
<1>13. /\ Current \in Listings /\ Current.width <= HexColumns /\ contents \in Seq(Nat)
       /\ expr_list \in Seq(Slots(DOMAIN program)) /\ curr_input_file \in FileNames
  BY PassOneIs
<1> QED BY <1>1, <1>9, <1>10, <1>11, <1>12, <1>13, ListedTold

LEMMA BannerTold ==
  ASSUME NEW l \in Listings, NEW p, NEW c \in Seq(Nat), NEW D, NEW list \in Seq(Slots(D)), NEW addr,
         Told(p, Shown(l), c, list, addr), NEW file \in FileNames
  PROVE  \E more : Told(p, Shown(Insert(l, Banner(file))), c, list, more)
<1>1. PICK w \in Seq(CellSet), e \in Seq(CellSet) : w = Shown(l) /\ e = Banner(file)
  BY ShownIs, BannerIs
<1>2. \A i \in 1..Len(e) : e[i].k \notin {"hex", "text"}
  <2>1. PICK b : b = Cell("banner", file, 0, 0)
    OBVIOUS
  <2>2. b.k = "banner"
    BY <2>1 DEF Cell
  <2>3. e = <<b>>
    BY <1>1, <2>1 DEF Banner
  <2> QED BY <2>2, <2>3
<1>3. PICK more : Told(p, w \o e, c, list, more)
  BY <1>1, <1>2, BlanksTold
<1>4. Shown(Insert(l, Banner(file))) = w \o e
  BY <1>1, InsertIs
<1> QED BY <1>3, <1>4

LEMMA EndLineTells ==
  ASSUME IInv, TInv, EndLine
  PROVE  TInv'
<1>1. /\ Typed /\ phase = "pass_one" /\ files \in Seq(Frames(DOMAIN program)) /\ files # <<>>
      /\ contents \in Seq(Nat) /\ expr_list \in Seq(Slots(DOMAIN program))
  BY DEF IInv, EndLine, Typed
<1>2. PICK h \in Frames(DOMAIN program) : h = files[1] /\ File = h
  BY <1>1 DEF File
<1>3. h.open /\ h.todo = <<>>
  BY <1>2 DEF EndLine
<1>4. At(files, curr_input_file, line_num)
  BY <1>1, PassOneTold
<1>5. PICK line \in Nat : line = h.line + 1
  <2>1. h.line \in Nat
    BY FrameIs
  <2> QED BY <2>1
<1>6. PICK f : f = [h EXCEPT !.open = FALSE, !.line = line]
  OBVIOUS
<1>7. f.line = line /\ f.open = FALSE /\ f.old = h.old /\ f.file = h.file
  <2>1. h = [file |-> h.file, line |-> h.line, todo |-> h.todo, open |-> h.open, old |-> h.old]
    BY FrameIs
  <2> QED BY <1>6, <2>1
<1>8. PICK fs : fs = [files EXCEPT ![1] = f] /\ fs[1] = f /\ At(fs, curr_input_file, line)
  <2>1. At([files EXCEPT ![1] = f], curr_input_file, f.line)
    BY <1>1, <1>2, <1>4, <1>7, AtChanged
  <2>2. [files EXCEPT ![1] = f][1] = f
    BY <1>1
  <2> QED BY <1>7, <2>1, <2>2
<1>9. files' = fs
  <2>1. files' = [files EXCEPT ![1].open = FALSE, ![1].line = @ + 1]
    BY DEF EndLine
  <2>2. [files EXCEPT ![1].open = FALSE, ![1].line = @ + 1] = [files EXCEPT ![1] = f]
    <3>1. h = [file |-> h.file, line |-> h.line, todo |-> h.todo, open |-> h.open, old |-> h.old]
      BY FrameIs
    <3> QED BY <1>1, <1>2, <1>5, <1>6, <3>1
  <2> QED BY <1>8, <2>1, <2>2
<1>10. PICK addr : TellsNow(addr)
  BY <1>1, PassOneTold
<1>11. PICK l : l = IF listing_on /\ ~listing_for_line_done THEN Listed(Current, line) ELSE Current
  OBVIOUS
<1>12. l \in Listings
  <2>1. line \in Int
    OBVIOUS
  <2> QED BY <1>1, <1>2, <1>3, <1>11, <2>1, LineEnds
<1>13. Becomes(l)
  BY <1>2, <1>5, <1>11 DEF EndLine
<1>14. \E more : Told(program, Shown(l), contents, expr_list, more)
  <2>1. CASE listing_on /\ ~listing_for_line_done
    <3>1. OpenLine(program, Shown(Current), contents, addr, h, line_start, old_line_num)
      BY <1>2, <1>3, <1>10, <2>1 DEF TellsNow, Opened
    <3>2. Told(program, Shown(Current), contents, expr_list, addr) /\ h.file = curr_input_file
      BY <1>2, <1>4, <1>10 DEF TellsNow, At
    <3>3. \E more : Told(program, Shown(Listed(Current, line)), contents, expr_list, more)
      BY <1>1, <1>3, <1>5, <3>1, <3>2, FinishedTold
    <3> QED BY <1>11, <2>1, <3>3
  <2>2. CASE ~(listing_on /\ ~listing_for_line_done)
    BY <1>10, <1>11, <2>2 DEF TellsNow
  <2> QED BY <2>1, <2>2
<1>15. PICK start, old : start = line_start' /\ old = old_line_num'
  OBVIOUS
<1>16. Tells(program, Shown(l), contents, expr_list, f, listing_on, listing_for_line_done, start, old)
  BY <1>7, <1>14 DEF Tells, Opened
<1>17. /\ program' = program /\ phase' = phase /\ curr_input_file' = curr_input_file /\ line_num' = line_num + 1
       /\ expr_list' = expr_list /\ contents' = contents
       /\ listing_on' = listing_on /\ listing_for_line_done' = listing_for_line_done
  BY DEF EndLine
<1>18. line_num' = line
  BY <1>2, <1>4, <1>5, <1>17 DEF At
<1> QED BY <1>1, <1>8, <1>9, <1>12, <1>13, <1>15, <1>16, <1>17, <1>18, PassOneTells

\* A file is included, and left again.
LEMMA AtNested ==
  ASSUME NEW S, NEW fs \in Seq(S), fs # <<>>, NEW file, NEW line, At(fs, file, line),
         NEW g \in S, g.old[1] = file, g.old[2] = line
  PROVE  At(<<g>> \o fs, g.file, g.line)
<1>1. PICK gs \in Seq(S), n \in Nat : gs = <<g>> \o fs /\ n = Len(fs) /\ n >= 1 /\ Len(gs) = n + 1
                                    /\ gs[1] = g /\ \A i \in 1..n : gs[i + 1] = fs[i]
  <2>1. <<g>> \in Seq(S) /\ Len(<<g>>) = 1 /\ <<g>>[1] = g
    OBVIOUS
  <2>2. /\ <<g>> \o fs \in Seq(S) /\ Len(<<g>> \o fs) = 1 + Len(fs)
        /\ \A i \in 1..1 + Len(fs) : (<<g>> \o fs)[i] = IF i <= 1 THEN <<g>>[i] ELSE fs[i - 1]
    BY <2>1, ConcatProperties
  <2>3. PICK gs \in Seq(S), n \in Nat : gs = <<g>> \o fs /\ n = Len(fs) /\ n >= 1
    <3>1. Len(fs) \in Nat /\ Len(fs) >= 1
      OBVIOUS
    <3> QED BY <2>2, <3>1
  <2>4. Len(gs) = n + 1 /\ \A i \in 1..n + 1 : gs[i] = IF i <= 1 THEN g ELSE fs[i - 1]
    <3>1. \A i \in 1..n + 1 : gs[i] = IF i <= 1 THEN <<g>>[i] ELSE fs[i - 1]
      BY <2>2, <2>3
    <3>2. \A i \in 1..n + 1 : i <= 1 => i = 1
      OBVIOUS
    <3> QED BY <2>1, <2>2, <2>3, <3>1, <3>2
  <2>5. \A i \in 1..n : gs[i + 1] = fs[i]
    <3> TAKE i \in 1..n
    <3>1. i + 1 \in 1..n + 1 /\ ~(i + 1 <= 1) /\ (i + 1) - 1 = i
      OBVIOUS
    <3> QED BY <2>4, <3>1
  <2>6. gs[1] = g
    <3>1. 1 \in 1..n + 1
      BY <2>3
    <3> QED BY <2>4, <3>1
  <2> QED BY <2>3, <2>4, <2>5, <2>6
<1>2. ASSUME NEW i \in 1..n PROVE gs[i].old[1] = gs[i + 1].file /\ gs[i].old[2] = gs[i + 1].line
  <2>1. CASE i = 1
    <3>1. gs[i + 1] = fs[1] /\ gs[i] = g
      BY <1>1, <2>1
    <3> QED BY <3>1 DEF At
  <2>2. CASE i # 1
    <3>1. PICK j \in 1..n - 1 : i = j + 1
      <4>1. i - 1 \in 1..n - 1 /\ i = (i - 1) + 1
        BY <2>2
      <4> QED BY <4>1
    <3>2. gs[i] = fs[j] /\ gs[i + 1] = fs[i]
      BY <1>1, <3>1
    <3> QED BY <1>1, <3>1, <3>2 DEF At
  <2> QED BY <2>1, <2>2
<1>3. At(gs, g.file, g.line)
  BY <1>1, <1>2 DEF At
<1> QED BY <1>1, <1>3

LEMMA AtUnnested ==
  ASSUME NEW S, NEW fs \in Seq(S), Len(fs) > 1, NEW file, NEW line, At(fs, file, line)
  PROVE  At(Tail(fs), fs[1].old[1], fs[1].old[2])
<1>1. PICK gs \in Seq(S), n \in Nat : gs = Tail(fs) /\ n = Len(gs) /\ n >= 1 /\ Len(fs) = n + 1
                                      /\ \A i \in 1..n : gs[i] = fs[i + 1]
  <2>1. /\ Tail(fs) \in Seq(S) /\ Len(Tail(fs)) = Len(fs) - 1
        /\ \A i \in 1..Len(Tail(fs)) : Tail(fs)[i] = fs[i + 1]
    BY HeadTailProperties
  <2>2. PICK gs \in Seq(S) : gs = Tail(fs)
    BY <2>1
  <2>3. PICK n \in Nat : n = Len(gs)
    OBVIOUS
  <2>4. n >= 1 /\ Len(fs) = n + 1
    BY <2>1, <2>2, <2>3
  <2>5. \A i \in 1..n : gs[i] = fs[i + 1]
    BY <2>1, <2>2, <2>3
  <2> QED BY <2>2, <2>3, <2>4, <2>5
<1>2. ASSUME NEW i \in 1..n - 1 PROVE gs[i].old[1] = gs[i + 1].file /\ gs[i].old[2] = gs[i + 1].line
  <2>1. i + 1 \in 1..Len(fs) - 1 /\ i \in 1..n /\ i + 1 \in 1..n
    BY <1>1
  <2>2. fs[i + 1].old[1] = fs[(i + 1) + 1].file /\ fs[i + 1].old[2] = fs[(i + 1) + 1].line
    BY <2>1 DEF At
  <2> QED BY <1>1, <2>1, <2>2
<1>3. fs[1].old[1] = gs[1].file /\ fs[1].old[2] = gs[1].line
  <2>1. 1 \in 1..Len(fs) - 1 /\ 1 \in 1..n
    BY <1>1
  <2>2. fs[1].old[1] = fs[1 + 1].file /\ fs[1].old[2] = fs[1 + 1].line
    BY <2>1 DEF At
  <2> QED BY <1>1, <2>1, <2>2
<1> QED BY <1>1, <1>2, <1>3 DEF At

LEMMA IncludeTells ==
  ASSUME IInv, TInv, NEW s, Include(s)
  PROVE  TInv'
<1>1. Typed /\ phase = "pass_one" /\ Reads(s) /\ s.k = "include" /\ files[1].open /\ program \in Programs
      /\ contents \in Seq(Nat) /\ expr_list \in Seq(Slots(DOMAIN program))
  BY DEF IInv, Include, Reads, File, Typed
<1>2. At(files, curr_input_file, line_num)
  BY <1>1, PassOneTold
<1>3. PICK f \in Frames(DOMAIN program), rest \in Seq(Frames(DOMAIN program)) :
        /\ rest = Rest /\ rest # <<>> /\ rest[1] = f /\ At(rest, curr_input_file, line_num)
        /\ f.line = files[1].line /\ Steps1(files[1], f, s) /\ s \in Readable(DOMAIN program)
        /\ files[1] \in Frames(DOMAIN program)
  <2>1. s.k # "skip"
    BY <1>1
  <2> QED BY <1>1, <1>2, <2>1, RestSteps
<1>4. s.f \in DOMAIN program /\ s.f \in FileNames
  BY <1>1, <1>3, StatementIs, NameIs
<1>5. PICK g : g = [file |-> s.f, line |-> 1, todo |-> <<>>, open |-> FALSE,
                    old |-> <<curr_input_file, line_num, line_start>>]
  OBVIOUS
<1>6. g.line = 1 /\ g.file = s.f /\ ~g.open /\ g.old[1] = curr_input_file /\ g.old[2] = line_num
  <2>1. g.line = 1 /\ g.file = s.f /\ g.open = FALSE /\ g.old = <<curr_input_file, line_num, line_start>>
    BY <1>5
  <2>2. g.old[1] = curr_input_file /\ g.old[2] = line_num
    BY <2>1
  <2> QED BY <2>1, <2>2
<1>7. PICK fs : fs = <<g>> \o rest /\ fs[1] = g /\ At(fs, s.f, 1)
  <2>1. PICK S : S = Frames(DOMAIN program) \cup {g}
    OBVIOUS
  <2>2. rest \in Seq(S) /\ g \in S
    BY <2>1
  <2>3. At(<<g>> \o rest, g.file, g.line)
    BY <1>3, <1>6, <2>2, AtNested
  <2>4. (<<g>> \o rest)[1] = g
    BY <2>2
  <2> QED BY <1>6, <2>3, <2>4
<1>8. files' = fs
  BY <1>3, <1>5, <1>7 DEF Include
<1>9. PICK addr : TellsNow(addr)
  BY <1>1, PassOneTold
<1>10. PICK line : line = IF listing_on /\ ~listing_for_line_done THEN Listed(Current, line_start + 1) ELSE Current
  OBVIOUS
<1>11. line \in Listings
  <2>1. line_start + 1 \in Int
    BY <1>1 DEF Typed
  <2> QED BY <1>1, <1>10, <2>1, LineEnds
<1>12. PICK one : Told(program, Shown(line), contents, expr_list, one)
  <2>1. CASE listing_on /\ ~listing_for_line_done
    <3>1. Opened(files[1], listing_on, listing_for_line_done)
      BY <1>1, <2>1 DEF Opened
    <3>2. s.k \notin {"data", "deferred"}
      BY <1>1
    <3>3. OpenLine(program, Shown(Current), contents, addr, f, line_start, old_line_num)
      BY <1>1, <1>3, <1>9, <3>1, <3>2, SilentOpen
    <3>4. f.todo = <<>> /\ f.line = line_start
      <4>1. PICK m \in Nat : Begun(program, files[1], line_start, m)
        BY <1>9, <3>1 DEF TellsNow, OpenLine
      <4>2. PICK name \in DOMAIN program : name = files[1].file /\ line_start \in 1..Len(program[name])
        BY <4>1 DEF Begun
      <4>3. Begun(program, f, line_start, m + 1) /\ m + 1 \in 1..Len(program[name][line_start])
            /\ program[name][line_start][m + 1] = s /\ files[1].line = line_start
        BY <1>1, <1>3, <4>1, <4>2, BegunSteps
      <4>4. PICK stmts \in Seq(Readable(DOMAIN program)) : stmts = program[name][line_start]
        BY <1>1, <4>2, LineTyped
      <4>5. PICK k \in 1..Len(stmts) : k = m + 1 /\ stmts[k] = s
        BY <4>3, <4>4
      <4>6. k = Len(stmts)
        <5>1. k \in 1..Len(program[name][line_start]) /\ program[name][line_start][k].k \notin {"data", "deferred"}
          BY <3>2, <4>4, <4>5
        <5>2. k = Len(program[name][line_start])
          BY <1>1, <4>2, <5>1, LastOfLine
        <5> QED BY <4>4, <5>2
      <4>7. f.file = name
        BY <1>3, <4>2 DEF Steps1
      <4>8. Len(f.todo) = Len(stmts) - (m + 1)
        BY <4>3, <4>4, <4>7 DEF Begun
      <4>9. Len(f.todo) = 0
        BY <4>5, <4>6, <4>8
      <4>10. f.todo \in Seq(Readable(DOMAIN program))
        BY FrameIs
      <4>11. f.todo = <<>>
        BY <4>9, <4>10
      <4> QED BY <1>3, <4>3, <4>11
    <3>5. Told(program, Shown(Current), contents, expr_list, addr) /\ f.file = curr_input_file
      BY <1>3, <1>9 DEF TellsNow, At
    <3>6. PICK end : end = line_start + 1 /\ end = f.line + 1
      BY <3>4
    <3>7. \E more : Told(program, Shown(Listed(Current, end)), contents, expr_list, more)
      BY <1>1, <3>3, <3>4, <3>5, <3>6, FinishedTold
    <3> QED BY <1>10, <2>1, <3>6, <3>7
  <2>2. CASE ~(listing_on /\ ~listing_for_line_done)
    BY <1>9, <1>10, <2>2 DEF TellsNow
  <2> QED BY <2>1, <2>2
<1>13. PICK l : l = IF listing_on THEN Insert(line, Banner(s.f)) ELSE line
  OBVIOUS
<1>14. l \in Listings
  BY <1>4, <1>11, <1>13, BannerIs, InsertIs
<1>15. \E more : Told(program, Shown(l), contents, expr_list, more)
  <2>1. \E more : Told(program, Shown(Insert(line, Banner(s.f))), contents, expr_list, more)
    BY <1>1, <1>4, <1>11, <1>12, BannerTold
  <2> QED BY <1>12, <1>13, <2>1
<1>16. Becomes(l)
  BY <1>10, <1>13 DEF Include
<1>17. Tells(program, Shown(l), contents, expr_list, g, listing_on, listing_for_line_done, line_start, old_line_num)
  BY <1>6, <1>15 DEF Tells, Opened
<1>18. /\ program' = program /\ phase' = phase /\ curr_input_file' = s.f /\ line_num' = 1
       /\ old_line_num' = old_line_num /\ line_start' = line_start /\ expr_list' = expr_list /\ contents' = contents
       /\ listing_on' = listing_on /\ listing_for_line_done' = listing_for_line_done
  BY DEF Include, Reads
<1> QED BY <1>1, <1>7, <1>8, <1>14, <1>16, <1>17, <1>18, PassOneTells

LEMMA EndIncludeTells ==
  ASSUME IInv, TInv, EndInclude
  PROVE  TInv'
<1>1. /\ Typed /\ phase = "pass_one" /\ program \in Programs /\ Reading(program, files, line_start)
      /\ files \in Seq(Frames(DOMAIN program)) /\ Len(files) > 1 /\ File = files[1] /\ ~files[1].open
      /\ contents \in Seq(Nat) /\ expr_list \in Seq(Slots(DOMAIN program)) /\ Current \in Listings
  BY DEF IInv, EndInclude, File, Typed
<1>2. At(files, curr_input_file, line_num)
  BY <1>1, PassOneTold
<1>3. PICK fs : fs = Tail(files) /\ At(fs, files[1].old[1], files[1].old[2])
  BY <1>1, <1>2, AtUnnested
<1>4. files[1].old[1] \in FileNames
  <2>1. files[1].old[1] \in DOMAIN program
    BY <1>1, Unnested
  <2> QED BY <1>1, <2>1, NameIs
<1>5. PICK addr : Told(program, Shown(Current), contents, expr_list, addr)
  BY <1>1, PassOneTold DEF TellsNow
<1>6. PICK l : l = IF listing_on THEN Insert(Current, Banner(files[1].old[1])) ELSE Current
  OBVIOUS
<1>7. l \in Listings
  BY <1>1, <1>4, <1>6, BannerIs, InsertIs
<1>8. \E more : Told(program, Shown(l), contents, expr_list, more)
  <2>1. \E more : Told(program, Shown(Insert(Current, Banner(files[1].old[1]))), contents, expr_list, more)
    BY <1>1, <1>4, <1>5, BannerTold
  <2> QED BY <1>5, <1>6, <2>1
<1>9. Becomes(l)
  BY <1>1, <1>6 DEF EndInclude
<1>10. PICK done : done = (listing_for_line_done \/ listing_on)
  OBVIOUS
<1>11. PICK start : start = files[1].old[3]
  OBVIOUS
<1>12. Tells(program, Shown(l), contents, expr_list, fs[1], listing_on, done, start, old_line_num)
  <2>1. ~Opened(fs[1], listing_on, done)
    BY <1>10 DEF Opened
  <2> QED BY <1>8, <2>1 DEF Tells
<1>13. /\ program' = program /\ phase' = phase /\ files' = fs
       /\ curr_input_file' = files[1].old[1] /\ line_num' = files[1].old[2] /\ line_start' = start
       /\ old_line_num' = old_line_num /\ expr_list' = expr_list /\ contents' = contents
       /\ listing_on' = listing_on /\ listing_for_line_done' = done
  BY <1>1, <1>3, <1>10, <1>11 DEF EndInclude
<1> QED BY <1>1, <1>3, <1>7, <1>9, <1>12, <1>13, PassOneTells

LEMMA EndPassOneTells ==
  ASSUME IInv, TInv, EndPassOne
  PROVE  TInv'
<1>1. phase = "pass_one" /\ Current \in Listings
  BY DEF IInv, Typed, EndPassOne
<1>2. PICK addr : Told(program, Shown(Current), contents, expr_list, addr)
  BY <1>1, PassOneTold DEF TellsNow
<1>3. Shown(Current) = SubSeq(listing_buf, 1, listing_offset)
  BY <1>1, CurrentIs DEF Shown
<1>4. /\ program' = program /\ contents' = contents /\ expr_list' = expr_list /\ phase' = "pass_two"
      /\ listing_buf' = listing_buf /\ saved_listing_offset' = listing_offset
  BY DEF EndPassOne, reading
<1>5. Told(program', SubSeq(listing_buf', 1, saved_listing_offset'), contents', expr_list', addr)
  BY <1>2, <1>3, <1>4
<1> QED BY <1>4, <1>5 DEF TInv

LEMMA EndPassTwoTells ==
  ASSUME IInv, TInv, EndPassTwo
  PROVE  TInv'
<1>1. phase = "pass_two" /\ phase' = "done"
  BY DEF EndPassTwo
<1>2. PICK addr : Told(program, SubSeq(listing_buf, 1, saved_listing_offset), contents, expr_list, addr)
  BY <1>1 DEF TInv
<1>3. /\ program' = program /\ contents' = contents /\ expr_list' = expr_list
      /\ listing_buf' = listing_buf /\ saved_listing_offset' = saved_listing_offset
  BY DEF EndPassTwo
<1>4. Told(program', SubSeq(listing_buf', 1, saved_listing_offset'), contents', expr_list', addr)
  BY <1>2, <1>3
<1> QED BY <1>1, <1>4 DEF TInv

\* The next column is that of the next byte.
LEMMA NextColumn ==
  ASSUME NEW w \in Seq(CellSet), NEW c \in Seq(Nat), NEW addr, Addressed(w, c, addr),
         NEW p \in Nat, NEW a \in Nat, Cut(w, addr, p, a), NEW q \in Nat, Linked(w, p, q),
         NEW r \in 1..Len(w), w[r].k = "hex", addr[r] = a + 1
  PROVE  addr[q] = a + 1 /\ Cut(w, addr, q, a + 1)
<1>1. q \in 1..Len(w) /\ w[q].k = "hex" /\ p < q
      /\ \A t \in p + 1..q - 1 : w[t].k # "hex"
  <2>1. q \in 1..Len(w) /\ w[q].k = "hex"
    BY DEF Linked
  <2>2. CASE q = p + 1
    <3>1. \A t \in p + 1..q - 1 : FALSE
      BY <2>2
    <3> QED BY <2>1, <2>2, <3>1
  <2>3. CASE q = p + PrefixWidth + 2 /\ w[p + 1].k = "newline" /\ \A i \in p + 2..q - 1 : w[i].k = "space"
    <3>1. \A t \in p + 1..q - 1 : t = p + 1 \/ t \in p + 2..q - 1
      OBVIOUS
    <3>2. p < q
      BY <2>3, WidthsAssumption
    <3> QED BY <2>1, <2>3, <3>1, <3>2
  <2> QED BY <2>2, <2>3 DEF Linked
<1>2. \A t \in 1..Len(w) : addr[t] \in Nat
  BY DEF Addressed
<1>3. ~(addr[r] <= a)
  OBVIOUS
<1>4. ~(r <= p)
  BY <1>3 DEF Cut
<1>5. q <= r
  <2>1. r \notin p + 1..q - 1
    BY <1>1
  <2> QED BY <1>4, <2>1
<1>6. addr[q] > a
  <2>1. ~(q <= p)
    BY <1>1
  <2>2. ~(addr[q] <= a)
    BY <1>1, <2>1 DEF Cut
  <2> QED BY <1>1, <1>2, <2>2
<1>7. q = r
  <2> SUFFICES ASSUME q < r PROVE FALSE
    BY <1>5
  <2>1. addr[q] < addr[r]
    BY <1>1 DEF Addressed
  <2> QED BY <1>1, <1>2, <1>6, <2>1
<1>8. Cut(w, addr, q, a + 1)
  <2> SUFFICES ASSUME NEW t \in 1..Len(w), w[t].k = "hex" PROVE t <= q <=> addr[t] <= a + 1
    BY DEF Cut
  <2>1. t < q => addr[t] < addr[q]
    BY <1>1 DEF Addressed
  <2>2. q < t => addr[q] < addr[t]
    BY <1>1 DEF Addressed
  <2> QED BY <1>1, <1>2, <1>7, <2>1, <2>2
<1> QED BY <1>7, <1>8

LEMMA ChainAddressed ==
  ASSUME NEW w \in Seq(CellSet), NEW c \in Seq(Nat), NEW addr, Addressed(w, c, addr),
         NEW o, NEW n, NEW pos, Chain(w, o, n, pos),
         NEW out \in Nat, Cut(w, addr, o, out), Filled(w, addr, out, out + n)
  PROVE  \A j \in 1..n : addr[pos[j]] = out + j
<1>1. n \in Nat /\ pos \in [0..n -> Nat] /\ pos[0] = o /\ \A i \in 1..n : Linked(w, pos[i - 1], pos[i])
  BY DEF Chain
<1> DEFINE T == {j \in 0..n : Cut(w, addr, pos[j], out + j) /\ (j > 0 => addr[pos[j]] = out + j)}
<1>2. 0 \in T
  BY <1>1
<1>3. ASSUME NEW m \in 0..(n - 1), m \in T PROVE m + 1 \in T
  <2>1. PICK i \in 1..n : i = m + 1 /\ i - 1 = m /\ i \in 0..n /\ m \in 0..n
    BY <1>1
  <2>2. PICK p \in Nat, q \in Nat, a \in Nat : p = pos[m] /\ q = pos[i] /\ a = out + m
    <3>1. pos[m] \in Nat /\ pos[i] \in Nat
      BY <1>1, <2>1
    <3>2. out + m \in Nat
      OBVIOUS
    <3> QED BY <3>1, <3>2
  <2>3. Linked(w, p, q) /\ Cut(w, addr, p, a)
    BY <1>1, <1>3, <2>1, <2>2
  <2>4. a + 1 \in out + 1..out + n
    <3>1. n \in Nat /\ m \in Nat /\ m + 1 <= n
      BY <1>1
    <3> QED BY <2>2, <3>1
  <2>5. PICK r \in 1..Len(w) : w[r].k = "hex" /\ addr[r] = a + 1
    BY <2>4 DEF Filled
  <2>6. addr[q] = a + 1 /\ Cut(w, addr, q, a + 1)
    BY <2>3, <2>5, NextColumn
  <2>7. a + 1 = out + i
    BY <2>1, <2>2
  <2> QED BY <2>1, <2>2, <2>6, <2>7
<1>4. 0..n \subseteq T
  <2> HIDE DEF T
  <2> QED BY <1>1, <1>2, <1>3, BoundedInduction
<1>5. \A j \in 1..n : j \in 0..n /\ j > 0
  OBVIOUS
<1> QED BY <1>4, <1>5

\* The columns show other bytes, where the output has them.
LEMMA OverlaidTold ==
  ASSUME NEW p, NEW w \in Seq(CellSet), NEW y \in Seq(CellSet), Overlaid(w, y),
         NEW c \in Seq(Nat), NEW d \in Seq(Nat), Len(d) = Len(c),
         NEW list, NEW addr, Told(p, w, c, list, addr),
         \A q \in 1..Len(w) : w[q].k = "hex" => y[q].n = d[addr[q]]
  PROVE  Told(p, y, d, list, addr)
<1>1. Len(y) = Len(w) /\ 1..Len(y) = 1..Len(w)
      /\ \A q \in 1..Len(w) : (y[q].k = "hex" <=> w[q].k = "hex") /\ (w[q].k # "hex" => y[q] = w[q])
  BY DEF Overlaid
<1>2. Addressed(w, c, addr)
  BY DEF Told
<1>3. Addressed(y, d, addr)
  BY <1>1, <1>2 DEF Addressed
<1>4. ASSUME NEW o, NEW a, Cut(w, addr, o, a) PROVE Cut(y, addr, o, a)
  BY <1>1, <1>4 DEF Cut
<1>5. ASSUME NEW a, NEW b, Filled(w, addr, a, b) PROVE Filled(y, addr, a, b)
  BY <1>1, <1>5 DEF Filled
<1>6. ASSUME NEW i \in 1..Len(list) PROVE Placed(y, d, addr, list[i])
  <2>1. Placed(w, c, addr, list[i])
    BY DEF Told
  <2> QED BY <1>1, <1>4, <1>5, <2>1 DEF Placed
<1>7. ASSUME NEW t \in 1..Len(y), y[t].k = "text" PROVE LineShown(p, y, d, addr, t)
  <2>1. t \in 1..Len(w) /\ y[t] = w[t] /\ w[t].k = "text"
    BY <1>1, <1>7
  <2>2. LineShown(p, w, c, addr, t)
    BY <2>1 DEF Told
  <2>3. PICK s \in 1..t - 1 : \E size \in Nat : From(p, w, c, addr, t, s, size)
    BY <2>2 DEF LineShown
  <2>4. PICK size \in Nat : From(p, w, c, addr, t, s, size)
    BY <2>3
  <2>5. /\ w[s].k = "line" /\ w[s].n = w[t].n
        /\ \A q \in s + 1..t - 1 : w[q].k \in {"hex", "newline", "space", "dash"}
        /\ w[s].pc + size <= Len(c)
        /\ Cut(w, addr, s, w[s].pc) /\ Cut(w, addr, t, w[s].pc + size) /\ Filled(w, addr, w[s].pc, w[s].pc + size)
        /\ Sized(p, w[t].file, w[t].n, size)
    BY <2>4 DEF From
  <2>6. y[s] = w[s]
    <3>1. s \in 1..Len(w)
      BY <2>1
    <3> QED BY <1>1, <2>5, <3>1
  <2>7. \A q \in s + 1..t - 1 : y[q].k \in {"hex", "newline", "space", "dash"}
    <3> TAKE q \in s + 1..t - 1
    <3>1. q \in 1..Len(w)
      BY <2>1
    <3> QED BY <1>1, <2>5, <3>1
  <2>8. Cut(y, addr, s, w[s].pc) /\ Cut(y, addr, t, w[s].pc + size) /\ Filled(y, addr, w[s].pc, w[s].pc + size)
    BY <1>4, <1>5, <2>5
  <2>9. From(p, y, d, addr, t, s, size)
    BY <2>1, <2>5, <2>6, <2>7, <2>8 DEF From
  <2> QED BY <2>9 DEF LineShown
<1> QED BY <1>3, <1>6, <1>7 DEF Told

LEMMA ToldTail ==
  ASSUME NEW p, NEW w, NEW c, NEW addr, NEW S, NEW list \in Seq(S), list # <<>>, Told(p, w, c, list, addr)
  PROVE  Told(p, w, c, Tail(list), addr)
<1>1. /\ Len(Tail(list)) = Len(list) - 1
      /\ \A i \in 1..Len(Tail(list)) : Tail(list)[i] = list[i + 1]
  BY HeadTailProperties
<1>2. ASSUME NEW i \in 1..Len(Tail(list)) PROVE Placed(w, c, addr, Tail(list)[i])
  <2>1. i + 1 \in 1..Len(list)
    BY <1>1
  <2> QED BY <1>1, <2>1 DEF Told
<1> QED BY <1>2 DEF Told

\* The columns behind o show the bytes; the other cells of w are kept.
Recolumned(w, y, o, n, bytes) ==
  \E pos : /\ Chain(w, o, n, pos)
           /\ \A q \in 1..Len(w) : (\A j \in 1..n : pos[j] # q) => y[q] = w[q]
           /\ \A j \in 1..n : y[pos[j]] = Hex(bytes[j])

\* What filling in the argument e makes of w.
Refilled(w, y, c, addr, e, out, n, bytes) ==
  /\ Addressed(w, c, addr) /\ Placed(w, c, addr, e)
  /\ e.out = out /\ e.n = n /\ Len(bytes) = n
  /\ IF e.on THEN Recolumned(w, y, e.offset, n, bytes) ELSE y = w

\* The output with the bytes of an argument behind out.
Put(c, out, n, bytes) == [a \in DOMAIN c |-> IF a > out /\ a <= out + n THEN bytes[a - out] ELSE c[a]]

\* What pass two writes over the columns of a placeholder is what it puts
\* in the output.
LEMMA ValuesFilled ==
  ASSUME NEW w \in Seq(CellSet), NEW y \in Seq(CellSet), NEW c \in Seq(Nat), NEW addr,
         NEW e, NEW out \in Nat, NEW n \in Nat, NEW bytes \in Seq(Nat),
         Refilled(w, y, c, addr, e, out, n, bytes)
  PROVE  \A q \in 1..Len(w) : w[q].k = "hex" => y[q].n = Put(c, out, n, bytes)[addr[q]]
<1> DEFINE d == Put(c, out, n, bytes)
<1> SUFFICES ASSUME NEW q \in 1..Len(w), w[q].k = "hex" PROVE y[q].n = d[addr[q]]
  OBVIOUS
<1>0. /\ Addressed(w, c, addr) /\ Placed(w, c, addr, e) /\ e.out = out /\ e.n = n /\ Len(bytes) = n
      /\ e.on => Recolumned(w, y, e.offset, n, bytes)
      /\ ~e.on => y = w
  BY DEF Refilled
<1>1. PICK a \in Nat : a = addr[q] /\ a >= 1 /\ a <= Len(c) /\ w[q].n = c[a]
  BY <1>0 DEF Addressed
<1>2. a \in DOMAIN c
  BY <1>1
<1>3. CASE e.on
  <2>1. PICK pos : /\ Chain(w, e.offset, n, pos)
                   /\ \A r \in 1..Len(w) : (\A j \in 1..n : pos[j] # r) => y[r] = w[r]
                   /\ \A j \in 1..n : y[pos[j]] = Hex(bytes[j])
    BY <1>0, <1>3 DEF Recolumned
  <2>2. \A j \in 1..n : addr[pos[j]] = out + j
    <3>1. PICK o : o = e.offset
      OBVIOUS
    <3>2. Cut(w, addr, o, out) /\ Filled(w, addr, out, out + n)
      BY <1>0, <1>3, <3>1 DEF Placed
    <3>3. Chain(w, o, n, pos)
      BY <2>1, <3>1
    <3>4. ASSUME NEW u \in Nat, NEW k, k = n, u = out PROVE \A j \in 1..k : addr[pos[j]] = u + j
      <4>1. Cut(w, addr, o, u) /\ Filled(w, addr, u, u + k) /\ Chain(w, o, k, pos)
        BY <3>2, <3>3, <3>4
      <4>2. Addressed(w, c, addr)
        BY <1>0
      <4> QED BY <4>1, <4>2, ChainAddressed
    <3> QED BY <3>4
  <2>3. CASE a > out /\ a <= out + n
    <3>1. PICK j \in 1..n : a = out + j /\ j = a - out
      <4>1. a - out \in 1..n /\ a = out + (a - out)
        BY <2>3
      <4> QED BY <4>1
    <3>2. PICK r \in 1..Len(w) : r = pos[j] /\ w[r].k = "hex" /\ addr[r] = a
      <4>1. PICK o : o = e.offset
        OBVIOUS
      <4>2. Chain(w, o, n, pos)
        BY <2>1, <4>1
      <4>3. \A i \in 1..n : pos[i] \in 1..Len(w) /\ w[pos[i]].k = "hex"
        BY <4>2, ChainRises
      <4>4. pos[j] \in 1..Len(w) /\ w[pos[j]].k = "hex" /\ addr[pos[j]] = a
        BY <2>2, <3>1, <4>3
      <4> QED BY <4>4
    <3>3. r = q
      <4>1. r < q => addr[r] < addr[q]
        BY <1>0, <3>2 DEF Addressed
      <4>2. q < r => addr[q] < addr[r]
        BY <1>0, <3>2 DEF Addressed
      <4> QED BY <1>1, <3>2, <4>1, <4>2
    <3>4. y[q] = Hex(bytes[j])
      BY <2>1, <3>1, <3>2, <3>3
    <3>5. y[q].n = bytes[j]
      <4>1. PICK v : v = bytes[j]
        OBVIOUS
      <4>2. Hex(v).n = v
        BY DEF Hex, Cell
      <4> QED BY <3>4, <4>1, <4>2
    <3>6. d[a] = bytes[j]
      BY <1>2, <2>3, <3>1 DEF Put
    <3> QED BY <1>1, <3>5, <3>6
  <2>4. CASE ~(a > out /\ a <= out + n)
    <3>1. \A j \in 1..n : pos[j] # q
      <4> SUFFICES ASSUME NEW j \in 1..n, pos[j] = q PROVE FALSE
        OBVIOUS
      <4>1. a = out + j
        BY <1>1, <2>2
      <4> QED BY <2>4, <4>1
    <3>2. y[q] = w[q]
      BY <2>1, <3>1
    <3>3. d[a] = c[a]
      BY <1>2, <2>4 DEF Put
    <3> QED BY <1>1, <3>2, <3>3
  <2> QED BY <2>3, <2>4
<1>4. CASE ~e.on
  <2>1. y[q] = w[q]
    BY <1>0, <1>4
  <2>2. a <= out \/ a > out + n
    BY <1>0, <1>1, <1>4 DEF Placed
  <2>3. d[a] = c[a]
    BY <1>2, <2>2, SMTT(30) DEF Put
  <2> QED BY <1>1, <2>1, <2>3
<1> QED BY <1>3, <1>4

\* What filling in the argument e makes of the whole listing.
Fills(b, e, out, n, bytes, l) ==
  /\ e.out = out /\ e.n = n /\ Len(bytes) = n
  /\ e.on => \A pos : Chain(b, e.offset, n, pos) => Overwriting(b, pos, bytes, n, l)
  /\ ~e.on => l.buf = b

LEMMA SlotFilled ==
  ASSUME NEW b \in Seq(CellSet), NEW l \in Listings, Overlaid(b, l.buf), NEW s \in Nat, s <= Len(b),
         NEW D, NEW list \in Seq(Slots(D)), list # <<>>, Ended(b, s, list),
         NEW p, NEW c \in Seq(Nat), NEW addr, Told(p, SubSeq(b, 1, s), c, list, addr),
         NEW e \in Slots(D), e = Head(list), NEW out \in Nat, NEW n \in Nat, NEW bytes \in Seq(Nat),
         Fills(b, e, out, n, bytes, l), Put(c, out, n, bytes) \in Seq(Nat)
  PROVE  Told(p, SubSeq(l.buf, 1, s), Put(c, out, n, bytes), Tail(list), addr)
<1>0. /\ e.out = out /\ e.n = n /\ Len(bytes) = n
      /\ e.on => \A pos : Chain(b, e.offset, n, pos) => Overwriting(b, pos, bytes, n, l)
      /\ ~e.on => l.buf = b
  BY DEF Fills
<1>1. PICK x \in Seq(CellSet) : x = l.buf /\ Len(x) = Len(b) /\ s <= Len(x)
  BY ListingIs DEF Overlaid
<1>2. PICK w \in Seq(CellSet) : w = SubSeq(b, 1, s) /\ Len(w) = s /\ \A i \in 1..s : w[i] = b[i]
  <2>1. SubSeq(b, 1, s) \in Seq(CellSet) /\ Len(SubSeq(b, 1, s)) = s /\ \A i \in 1..s : SubSeq(b, 1, s)[i] = b[i]
    BY FirstCells, Zenon
  <2> QED BY <2>1
<1>3. PICK y \in Seq(CellSet) : y = SubSeq(x, 1, s) /\ Len(y) = s /\ \A i \in 1..s : y[i] = x[i]
  <2>1. SubSeq(x, 1, s) \in Seq(CellSet) /\ Len(SubSeq(x, 1, s)) = s /\ \A i \in 1..s : SubSeq(x, 1, s)[i] = x[i]
    BY <1>1, FirstCells, Zenon
  <2> QED BY <2>1
<1>4. Keeps(w, b, Len(w))
  <2>1. Len(w) <= Len(w) /\ Len(w) <= Len(b) /\ \A i \in 1..Len(w) : w[i] = b[i]
    BY <1>2, SMTT(40)
  <2> QED BY <2>1 DEF Keeps, Like
<1>5. Overlaid(b, x)
  BY <1>1
<1>6. Overlaid(w, y)
  BY <1>1, <1>2, <1>3, <1>5 DEF Overlaid
<1>7. Told(p, w, c, list, addr) /\ Addressed(w, c, addr)
  BY <1>2 DEF Told
<1>8. 1 \in 1..Len(list) /\ e = list[1]
  OBVIOUS
<1>9. Placed(w, c, addr, e)
  BY <1>7, <1>8 DEF Told
<1>10. e.on => Recolumned(w, y, e.offset, n, bytes)
  <2> SUFFICES ASSUME e.on PROVE Recolumned(w, y, e.offset, n, bytes)
    OBVIOUS
  <2>1. Blocks(w, list)
    BY <1>2 DEF Ended
  <2>2. Columned(w, e.offset, n)
    BY <1>0, <1>8, <2>1 DEF Blocks
  <2>3. PICK o : o = e.offset
    OBVIOUS
  <2>4. PICK pos : Chain(w, o, n, pos)
    BY <2>2, <2>3 DEF Columned
  <2>5. Chain(b, o, n, pos)
    BY <1>4, <2>4, ChainStays
  <2>6. Overwriting(b, pos, bytes, n, l)
    BY <1>0, <2>3, <2>5
  <2>7. /\ \A q \in 1..Len(b) : (\A j \in 1..n : pos[j] # q) => x[q] = b[q]
        /\ \A j \in 1..n : x[pos[j]] = Hex(bytes[j])
    BY <1>1, <2>6 DEF Overwriting
  <2>8. \A i \in 1..n : pos[i] \in 1..Len(w)
    BY <2>4, ChainRises
  <2>9. \A q \in 1..Len(w) : (\A j \in 1..n : pos[j] # q) => y[q] = w[q]
    <3> SUFFICES ASSUME NEW q \in 1..Len(w), \A j \in 1..n : pos[j] # q PROVE y[q] = w[q]
      OBVIOUS
    <3>1. q \in 1..s /\ q \in 1..Len(b)
      BY <1>2
    <3> QED BY <1>2, <1>3, <2>7, <3>1
  <2>10. \A j \in 1..n : y[pos[j]] = Hex(bytes[j])
    BY <1>2, <1>3, <2>7, <2>8
  <2> QED BY <2>3, <2>4, <2>9, <2>10 DEF Recolumned
<1>11. ~e.on => y = w
  BY <1>0, <1>1, <1>2, <1>3
<1>12. \A q \in 1..Len(w) : w[q].k = "hex" => y[q].n = Put(c, out, n, bytes)[addr[q]]
  <2>1. Refilled(w, y, c, addr, e, out, n, bytes)
    BY <1>0, <1>7, <1>9, <1>10, <1>11 DEF Refilled
  <2> QED BY <2>1, ValuesFilled, SMTT(30)
<1>13. PICK d \in Seq(Nat) : d = Put(c, out, n, bytes) /\ Len(d) = Len(c)
  BY DEF Put
<1>14. Told(p, y, d, list, addr)
  <2>1. \A q \in 1..Len(w) : w[q].k = "hex" => y[q].n = d[addr[q]]
    BY <1>12, <1>13
  <2> QED BY <1>6, <1>7, <1>13, <2>1, OverlaidTold
<1>15. Told(p, y, d, Tail(list), addr)
  BY <1>14, ToldTail
<1> QED BY <1>1, <1>3, <1>13, <1>15

LEMMA SecondPassStepTells ==
  ASSUME IInv, TInv, SecondPassStep
  PROVE  TInv'
<1>1. Typed /\ phase = "pass_two"
  BY DEF IInv, SecondPassStep
<1>2. PICK x \in Slots(DOMAIN program) :
           /\ x = Head(expr_list) /\ expr_list # <<>> /\ expr_list \in Seq(Slots(DOMAIN program))
           /\ x.out \in Nat /\ x.on \in BOOLEAN /\ x.n \in Nat
  BY NextSlot
<1>3. PICK l \in Listings : Becomes(l) /\ Overlaid(listing_buf, l.buf) /\ FillsIn(x, l)
  BY <1>2, SecondPassIs
<1>4. PICK out \in Nat, n \in Nat : out = x.out /\ n = x.n
  BY <1>2
<1>5. PICK bytes \in Seq(Nat) : bytes = Bytes(out, n) /\ Len(bytes) = n
  BY BytesAre
<1>6. PICK c \in Seq(Nat) : c = contents
  BY <1>1 DEF Typed
<1>7. PICK d \in Seq(Nat) : d = Put(c, out, n, bytes)
  BY <1>5, BytesPut DEF Put
<1>8. PICK b \in Seq(CellSet), s \in Nat : b = listing_buf /\ s = saved_listing_offset /\ s <= Len(b)
  <2>1. listing_buf \in Seq(CellSet)
    BY <1>1, CurrentIs DEF Typed
  <2> QED BY <1>1, <2>1 DEF Typed
<1>9. PICK list \in Seq(Slots(DOMAIN program)) : list = expr_list /\ list # <<>> /\ x = Head(list)
  BY <1>2
<1>10. Ended(b, s, list)
  BY <1>1, <1>8, <1>9 DEF IInv
<1>11. PICK addr : Told(program, SubSeq(b, 1, s), c, list, addr)
  <2>1. phase # "pass_one"
    BY <1>1
  <2> QED BY <1>6, <1>8, <1>9, <2>1 DEF TInv
<1>12. Overlaid(b, l.buf)
  BY <1>3, <1>8
<1>13. Fills(b, x, out, n, bytes, l)
  BY <1>3, <1>4, <1>5, <1>8 DEF FillsIn, Fills
<1>14. Told(program, SubSeq(l.buf, 1, s), d, Tail(list), addr)
  <2>1. Put(c, out, n, bytes) \in Seq(Nat)
    BY <1>7
  <2>2. Told(program, SubSeq(l.buf, 1, s), Put(c, out, n, bytes), Tail(list), addr)
    BY <1>8, <1>9, <1>10, <1>11, <1>12, <1>13, <2>1, SlotFilled
  <2> QED BY <1>7, <2>2
<1>15. /\ program' = program /\ expr_list' = Tail(list) /\ phase' = "pass_two" /\ saved_listing_offset' = s
       /\ contents' = d /\ listing_buf' = l.buf
  <2>1. contents' = [a \in DOMAIN contents |->
                       IF a > x.out /\ a <= x.out + x.n THEN Bytes(x.out, x.n)[a - x.out] ELSE contents[a]]
    BY <1>2 DEF SecondPassStep
  <2>2. contents' = d
    BY <1>4, <1>5, <1>6, <1>7, <2>1 DEF Put
  <2>3. program' = program /\ expr_list' = Tail(list) /\ phase' = "pass_two" /\ saved_listing_offset' = s
    BY <1>1, <1>8, <1>9 DEF SecondPassStep
  <2>4. listing_buf' = l.buf
    BY <1>3 DEF Becomes
  <2> QED BY <2>2, <2>3, <2>4
<1>16. Told(program', SubSeq(listing_buf', 1, saved_listing_offset'), contents', expr_list', addr)
  BY <1>14, <1>15
<1>17. phase' # "pass_one"
  BY <1>15
<1> QED BY <1>16, <1>17 DEF TInv

LEMMA StillTells ==
  ASSUME TInv, UNCHANGED vars
  PROVE  TInv'
<1>1. /\ program' = program /\ files' = files /\ curr_input_file' = curr_input_file /\ line_num' = line_num
      /\ old_line_num' = old_line_num /\ line_start' = line_start /\ contents' = contents /\ expr_list' = expr_list
      /\ phase' = phase /\ listing_on' = listing_on /\ listing_for_line_done' = listing_for_line_done
      /\ listing_width' = listing_width /\ listing_buf' = listing_buf /\ listing_offset' = listing_offset
      /\ saved_listing_offset' = saved_listing_offset
  BY DEF vars, reading
<1>2. Current' = Current
  BY <1>1 DEF Current
<1>3. phase' = "pass_one" =>
        /\ At(files', curr_input_file', line_num')
        /\ Tells(program', Shown(Current'), contents', expr_list', files'[1],
                 listing_on', listing_for_line_done', line_start', old_line_num')
  BY <1>1, <1>2 DEF TInv
<1>4. phase' # "pass_one" =>
        \E addr : Told(program', SubSeq(listing_buf', 1, saved_listing_offset'), contents', expr_list', addr)
  BY <1>1 DEF TInv
<1> QED BY <1>3, <1>4 DEF TInv

LEMMA StepTells ==
  ASSUME IInv, TInv, [Next]_vars
  PROVE  TInv'
<1>1. CASE BeginLine
  BY <1>1, BeginLineTells
<1>2. CASE Statement
  <2>1. PICK s : Data(s) \/ Deferred(s) \/ ListOn(s) \/ ListOff(s) \/ Skip(s) \/ Include(s)
    BY <1>2 DEF Statement
  <2> QED BY <2>1, DataTells, DeferredTells, ListOnTells, ListOffTells, SkipTells, IncludeTells
<1>3. CASE EndLine
  BY <1>3, EndLineTells
<1>4. CASE EndInclude
  BY <1>4, EndIncludeTells
<1>5. CASE EndPassOne
  BY <1>5, EndPassOneTells
<1>6. CASE SecondPassStep
  BY <1>6, SecondPassStepTells
<1>7. CASE EndPassTwo
  BY <1>7, EndPassTwoTells
<1>8. CASE Done
  BY <1>8, StillTells DEF Done
<1>9. CASE UNCHANGED vars
  BY <1>9, StillTells
<1> QED BY <1>1, <1>2, <1>3, <1>4, <1>5, <1>6, <1>7, <1>8, <1>9 DEF Next

----------------------------------------------------------------------------
(***************************************************************************)
(* The columns that are shown are counted.                                 *)
(***************************************************************************)
ColumnsIn(w, s, q) == {r \in s + 1..q : w[r].k = "hex"}

\* Between two cuts there are as many columns as bytes.
LEMMA ColumnsCounted ==
  ASSUME NEW w \in Seq(CellSet), NEW c, NEW addr, Addressed(w, c, addr),
         NEW s \in 1..Len(w), NEW q \in 1..Len(w), NEW a \in Nat, NEW n \in Nat,
         Cut(w, addr, s, a), Cut(w, addr, q, a + n), Filled(w, addr, a, a + n)
  PROVE  Cardinality(ColumnsIn(w, s, q)) = n
<1> DEFINE C == ColumnsIn(w, s, q)
<1>1. \A r \in C : r \in 1..Len(w) /\ w[r].k = "hex" /\ s < r /\ r <= q
  BY DEF ColumnsIn
<1>2. \A r \in 1..Len(w) : w[r].k = "hex" /\ s < r /\ r <= q => r \in C
  BY DEF ColumnsIn
<1>3. \A r \in 1..Len(w) : addr[r] \in Nat
  BY DEF Addressed
<1> HIDE DEF C
<1>4. ASSUME NEW r \in C PROVE a < addr[r] /\ addr[r] <= a + n
  <2>1. r \in 1..Len(w) /\ w[r].k = "hex" /\ ~(r <= s) /\ r <= q
    BY <1>1
  <2>2. ~(addr[r] <= a) /\ addr[r] <= a + n
    BY <2>1 DEF Cut
  <2> QED BY <1>3, <2>1, <2>2
<1>5. \A i \in 1..n : \E r \in C : addr[r] = a + i
  <2> TAKE i \in 1..n
  <2>1. a + i \in a + 1..a + n
    OBVIOUS
  <2>2. PICK r \in 1..Len(w) : w[r].k = "hex" /\ addr[r] = a + i
    BY <2>1 DEF Filled
  <2>3. ~(addr[r] <= a) /\ addr[r] <= a + n
    BY <2>2
  <2>4. ~(r <= s) /\ r <= q
    BY <2>2, <2>3 DEF Cut
  <2>5. s < r
    BY <2>4
  <2> QED BY <1>2, <2>2, <2>4, <2>5
<1> DEFINE f == [i \in 1..n |-> CHOOSE r \in C : addr[r] = a + i]
<1>6. \A i \in 1..n : f[i] \in C /\ addr[f[i]] = a + i
  BY <1>5
<1>7. f \in [1..n -> C]
  BY <1>6
<1>8. \A i \in 1..n : \A j \in 1..n : f[i] = f[j] => i = j
  <2> SUFFICES ASSUME NEW i \in 1..n, NEW j \in 1..n, f[i] = f[j] PROVE i = j
    OBVIOUS
  <2>1. a + i = a + j
    BY <1>6
  <2> QED BY <2>1
<1>9. \A r \in C : \E i \in 1..n : f[i] = r
  <2> TAKE r \in C
  <2>1. r \in 1..Len(w) /\ w[r].k = "hex"
    BY <1>1
  <2>2. PICK i \in 1..n : addr[r] = a + i
    <3>1. addr[r] - a \in 1..n /\ addr[r] = a + (addr[r] - a)
      BY <1>3, <1>4, <2>1
    <3> QED BY <3>1
  <2>3. PICK t \in 1..Len(w) : t = f[i] /\ w[t].k = "hex" /\ addr[t] = addr[r]
    BY <1>1, <1>6, <2>2
  <2>4. t < r => addr[t] < addr[r]
    BY <2>1, <2>3 DEF Addressed
  <2>5. r < t => addr[r] < addr[t]
    BY <2>1, <2>3 DEF Addressed
  <2>6. t = r
    BY <1>3, <2>1, <2>3, <2>4, <2>5
  <2> QED BY <2>3, <2>6
<1> HIDE DEF f
<1>10. ExistsBijection(1..n, C)
  <2>1. f \in Injection(1..n, C)
    BY <1>7, <1>8 DEF Injection, IsInjective
  <2>2. f \in Surjection(1..n, C)
    BY <1>7, <1>9 DEF Surjection
  <2> QED BY <2>1, <2>2 DEF ExistsBijection, Bijection
<1>11. Cardinality(C) = n
  BY <1>10, FS_CountingElements
<1> QED BY <1>11 DEF C

\* A column is the last of its line up to it.
LEMMA CutAt ==
  ASSUME NEW w \in Seq(CellSet), NEW c, NEW addr, Addressed(w, c, addr), NEW q \in 1..Len(w), w[q].k = "hex"
  PROVE  Cut(w, addr, q, addr[q])
<1> SUFFICES ASSUME NEW r \in 1..Len(w), w[r].k = "hex" PROVE r <= q <=> addr[r] <= addr[q]
  BY DEF Cut
<1>1. r < q => addr[r] < addr[q]
  BY DEF Addressed
<1>2. q < r => addr[q] < addr[r]
  BY DEF Addressed
<1>3. addr[q] \in Nat /\ addr[r] \in Nat
  BY DEF Addressed
<1> QED BY <1>1, <1>2, <1>3

LEMMA Between ==
  ASSUME NEW a \in Nat, NEW size \in Nat, NEW x \in Nat, x <= a + size, ~(x <= a)
  PROVE  \E n \in Nat : x = a + n /\ n <= size
<1>1. x - a \in Nat /\ x = a + (x - a) /\ x - a <= size
  OBVIOUS
<1> QED BY <1>1

\* A finished line shows the output.
Shows(p, w, c, t, s) ==
  /\ w[s].n = w[t].n
  /\ \A q \in s + 1..t - 1 : w[q].k \in {"hex", "newline", "space", "dash"}
  /\ Sized(p, w[t].file, w[t].n, Cardinality(ColumnsIn(w, s, t)))
  /\ \A q \in ColumnsIn(w, s, t) : w[q].n = c[w[s].pc + Cardinality(ColumnsIn(w, s, q))]

StartOf(w, t) == CHOOSE q \in 1..t : w[q].k = "line" /\ \A r \in q + 1..t : w[r].k # "line"

LEMMA LineShows ==
  ASSUME NEW p, NEW w \in Seq(CellSet), NEW c \in Seq(Nat), NEW addr, Addressed(w, c, addr),
         NEW t \in 1..Len(w), w[t].k = "text", LineShown(p, w, c, addr, t)
  PROVE  Shows(p, w, c, t, StartOf(w, t))
<1>1. PICK s \in 1..t - 1 : \E size \in Nat : From(p, w, c, addr, t, s, size)
  BY DEF LineShown
<1>2. PICK size \in Nat : From(p, w, c, addr, t, s, size)
  BY <1>1
<1>3. s \in 1..Len(w) /\ s \in 1..t /\ s < t
  OBVIOUS
<1>4. PICK pc \in Nat : pc = w[s].pc
  BY <1>3, CellFields
<1>5. /\ w[s].k = "line" /\ w[s].n = w[t].n
      /\ \A q \in s + 1..t - 1 : w[q].k \in {"hex", "newline", "space", "dash"}
      /\ Cut(w, addr, s, pc) /\ Cut(w, addr, t, pc + size) /\ Filled(w, addr, pc, pc + size)
      /\ Sized(p, w[t].file, w[t].n, size)
  BY <1>2, <1>4 DEF From
<1>6. \A r \in s + 1..t : w[r].k # "line"
  <2> TAKE r \in s + 1..t
  <2>1. r = t \/ r \in s + 1..t - 1
    OBVIOUS
  <2> QED BY <1>5, <2>1
<1>7. StartOf(w, t) = s
  <2> DEFINE First(q) == w[q].k = "line" /\ \A r \in q + 1..t : w[r].k # "line"
  <2>1. First(s)
    BY <1>5, <1>6
  <2>2. ASSUME NEW q \in 1..t, First(q) PROVE q = s
    <3>1. ~(q < s)
      <4>1. q < s => s \in q + 1..t
        BY <1>3
      <4> QED BY <1>5, <2>2, <4>1
    <3>2. ~(s < q)
      <4>1. s < q => q \in s + 1..t
        BY <1>3
      <4> QED BY <1>6, <2>2, <4>1
    <3> QED BY <3>1, <3>2
  <2>3. StartOf(w, t) = CHOOSE q \in 1..t : First(q)
    BY DEF StartOf
  <2> HIDE DEF First
  <2> QED BY <1>3, <2>1, <2>2, <2>3
<1>8. Cardinality(ColumnsIn(w, s, t)) = size
  BY <1>3, <1>5, ColumnsCounted
<1>9. ASSUME NEW q \in ColumnsIn(w, s, t) PROVE w[q].n = c[pc + Cardinality(ColumnsIn(w, s, q))]
  <2>1. q \in 1..Len(w) /\ w[q].k = "hex" /\ s < q /\ q <= t
    BY <1>3 DEF ColumnsIn
  <2>2. addr[q] \in Nat /\ w[q].n = c[addr[q]]
    BY <2>1 DEF Addressed
  <2>3. addr[q] <= pc + size /\ ~(addr[q] <= pc)
    BY <1>3, <1>5, <2>1 DEF Cut
  <2>4. PICK n \in Nat : addr[q] = pc + n /\ n <= size
    BY <2>2, <2>3, Between
  <2>5. Cut(w, addr, q, pc + n)
    BY <2>1, <2>4, CutAt
  <2>6. Filled(w, addr, pc, pc + n)
    <3>1. \A i \in pc + 1..pc + n : i \in pc + 1..pc + size
      BY <2>4
    <3> QED BY <1>5, <3>1 DEF Filled
  <2>7. Cardinality(ColumnsIn(w, s, q)) = n
    BY <1>3, <1>5, <2>1, <2>5, <2>6, ColumnsCounted
  <2> QED BY <2>2, <2>4, <2>7
<1>10. Shows(p, w, c, t, s)
  BY <1>4, <1>5, <1>8, <1>9 DEF Shows
<1> QED BY <1>7, <1>10

LEMMA TellsShown ==
  ASSUME IInv, TInv
  PROVE  LinesShowOutput
<1>1. Typed
  BY DEF IInv
<1>2. PICK w \in Seq(CellSet) : w = Written /\ DOMAIN w = 1..Len(w)
      /\ \E addr : Told(program, w, contents, expr_list, addr)
  <2>1. CASE phase = "pass_one"
    <3>1. Current \in Listings /\ Shown(Current) \in Seq(CellSet)
      BY <2>1, PassOneIs
    <3>2. Shown(Current) = Written
      <4>1. Current.buf = listing_buf /\ Current.at = listing_offset
        BY <3>1, CurrentIs
      <4> QED BY <2>1, <4>1 DEF Shown, Written
    <3>3. \E addr : Told(program, Shown(Current), contents, expr_list, addr)
      BY <2>1 DEF TInv, Tells
    <3>4. DOMAIN Shown(Current) = 1..Len(Shown(Current))
      BY <3>1
    <3> QED BY <3>1, <3>2, <3>3, <3>4
  <2>2. CASE phase # "pass_one"
    <3>1. PICK b \in Seq(CellSet), s \in Nat : b = listing_buf /\ s = saved_listing_offset /\ s <= Len(b)
      <4>1. listing_buf \in Seq(CellSet)
        BY <1>1, CurrentIs DEF Typed
      <4> QED BY <1>1, <4>1 DEF Typed
    <3>2. SubSeq(b, 1, s) \in Seq(CellSet)
      BY <3>1, FirstCells
    <3>3. Written = SubSeq(b, 1, s)
      <4>1. CASE phase = "pass_two"
        BY <3>1, <4>1 DEF Written
      <4>2. CASE phase # "pass_two"
        <5>1. phase = "done"
          BY <1>1, <2>2, <4>2 DEF Typed
        <5>2. listing_offset = saved_listing_offset
          BY <5>1 DEF IInv
        <5> QED BY <3>1, <4>2, <5>2 DEF Written
      <4> QED BY <4>1, <4>2
    <3>4. \E addr : Told(program, SubSeq(b, 1, s), contents, expr_list, addr)
      BY <2>2, <3>1 DEF TInv
    <3>5. DOMAIN SubSeq(b, 1, s) = 1..Len(SubSeq(b, 1, s))
      BY <3>2
    <3> QED BY <3>2, <3>3, <3>4, <3>5
  <2> QED BY <2>1, <2>2
<1>3. PICK c \in Seq(Nat) : c = contents
  BY <1>1 DEF Typed
<1>4. PICK addr : Told(program, w, c, expr_list, addr)
  BY <1>2, <1>3
<1>5. ASSUME NEW t \in 1..Len(w), w[t].k = "text" PROVE Shows(program, w, c, t, StartOf(w, t))
  <2>1. Addressed(w, c, addr) /\ LineShown(program, w, c, addr, t)
    BY <1>4, <1>5 DEF Told
  <2> QED BY <1>5, <2>1, LineShows
<1>6. ASSUME NEW t \in {q \in DOMAIN Written : Written[q].k = "text"}
      PROVE  Shows(program, Written, contents, t, StartOf(Written, t))
  BY <1>2, <1>3, <1>5
<1> SUFFICES ASSUME NEW t \in {q \in DOMAIN Written : Written[q].k = "text"}
             PROVE  LET text == Written[t]
                        start == CHOOSE q \in 1..t : Written[q].k = "line" /\ \A r \in q + 1..t : Written[r].k # "line"
                        columns(q) == {r \in start + 1..q : Written[r].k = "hex"}
                        size == Cardinality(columns(t))
                    IN /\ Written[start].n = text.n
                       /\ \A q \in start + 1..t - 1 : Written[q].k \in {"hex", "dash", "newline", "space"}
                       /\ size = Size(program[text.file][text.n]) \/ (size = 0 /\ Skipped(text.file, text.n))
                       /\ \A q \in columns(t) : Written[q].n = contents[Written[start].pc + Cardinality(columns(q))]
  BY DEF LinesShowOutput
<1> DEFINE start == CHOOSE q \in 1..t : Written[q].k = "line" /\ \A r \in q + 1..t : Written[r].k # "line"
           columns(q) == {r \in start + 1..q : Written[r].k = "hex"}
<1>7. start = StartOf(Written, t)
  BY DEF StartOf
<1>8. \A q : ColumnsIn(Written, start, q) = columns(q)
  BY DEF ColumnsIn
<1> HIDE DEF start
<1>9. Shows(program, Written, contents, t, start)
  BY <1>6, <1>7
<1> HIDE DEF columns
<1>10. \A f, n : Taken(program, f, n) <=> Skipped(f, n)
  BY DEF Taken, Skipped
<1>11. /\ Written[start].n = Written[t].n
       /\ \A q \in start + 1..t - 1 : Written[q].k \in {"hex", "dash", "newline", "space"}
       /\ Sized(program, Written[t].file, Written[t].n, Cardinality(columns(t)))
       /\ \A q \in columns(t) : Written[q].n = contents[Written[start].pc + Cardinality(columns(q))]
  BY <1>8, <1>9 DEF Shows
<1>12. \/ Cardinality(columns(t)) = Size(program[Written[t].file][Written[t].n])
       \/ Cardinality(columns(t)) = 0 /\ Skipped(Written[t].file, Written[t].n)
  BY <1>10, <1>11 DEF Sized
<1> USE DEF start, columns
<1> QED BY <1>11, <1>12

----------------------------------------------------------------------------
(***************************************************************************)
(* The theorems.                                                           *)
(***************************************************************************)
LEMMA StillHolds ==
  ASSUME IInv, UNCHANGED vars
  PROVE  IInv'
<1>1. /\ program' = program /\ files' = files /\ curr_input_file' = curr_input_file /\ line_num' = line_num
      /\ old_line_num' = old_line_num /\ line_start' = line_start /\ contents' = contents /\ expr_list' = expr_list
      /\ phase' = phase /\ listing_on' = listing_on /\ listing_for_line_done' = listing_for_line_done
      /\ listing_width' = listing_width /\ listing_buf' = listing_buf /\ listing_offset' = listing_offset
      /\ saved_listing_offset' = saved_listing_offset
  BY DEF vars, reading
<1>2. Current' = Current
  BY <1>1 DEF Current
<1>3. Typed'
  BY <1>1, <1>2 DEF IInv, Typed
<1>4. Reading(program', files', line_start')
  BY <1>1 DEF IInv
<1>5. phase' = "pass_one" =>
        Whole(Shown(Current'), expr_list', files'[1], listing_on', listing_for_line_done')
  BY <1>1, <1>2 DEF IInv
<1>6. phase' # "pass_one" => Ended(listing_buf', saved_listing_offset', expr_list')
  BY <1>1 DEF IInv
<1>7. phase' = "done" => listing_offset' = saved_listing_offset'
  BY <1>1 DEF IInv
<1> QED BY <1>3, <1>4, <1>5, <1>6, <1>7 DEF IInv

LEMMA StepHolds ==
  ASSUME IInv, [Next]_vars
  PROVE  IInv'
<1>1. CASE BeginLine
  BY <1>1, BeginLineKeeps
<1>2. CASE Statement
  <2>1. PICK s : Data(s) \/ Deferred(s) \/ ListOn(s) \/ ListOff(s) \/ Skip(s) \/ Include(s)
    BY <1>2 DEF Statement
  <2> QED BY <2>1, DataKeeps, DeferredKeeps, ListOnKeeps, ListOffKeeps, SkipKeeps, IncludeKeeps
<1>3. CASE EndLine
  BY <1>3, EndLineKeeps
<1>4. CASE EndInclude
  BY <1>4, EndIncludeKeeps
<1>5. CASE EndPassOne
  BY <1>5, EndPassOneKeeps
<1>6. CASE SecondPassStep
  BY <1>6, SecondPassStepKeeps
<1>7. CASE EndPassTwo
  BY <1>7, EndPassTwoKeeps
<1>8. CASE Done
  BY <1>8, StillHolds DEF Done
<1>9. CASE UNCHANGED vars
  BY <1>9, StillHolds
<1> QED BY <1>1, <1>2, <1>3, <1>4, <1>5, <1>6, <1>7, <1>8, <1>9 DEF Next

LEMMA Reached == Spec => []IInv
<1>1. Init => IInv
  BY InitHolds
<1>2. IInv /\ [Next]_vars => IInv'
  BY StepHolds
<1> QED BY <1>1, <1>2, PTL DEF Spec

\* listing_offset stays within listing_buf: while lines are inserted, when
\* .nolist takes a prefix back, and when pass two jumps about in the buffer.
THEOREM TypeCorrect == Spec => []TypeOK
<1>1. IInv => TypeOK
  <2> SUFFICES ASSUME IInv PROVE TypeOK
    OBVIOUS
  <2>1. Typed
    BY DEF IInv
  <2>2. /\ listing_buf \in Seq(CellSet) /\ listing_offset \in Nat /\ listing_width \in Nat
        /\ listing_offset <= Len(listing_buf)
    BY <2>1, CurrentIs DEF Typed
  <2>3. listing_offset \in 0..Len(listing_buf)
    BY <2>2
  <2>4. \A i \in DOMAIN files : files[i].file \in DOMAIN program /\ files[i].open \in BOOLEAN
    <3>1. \A i \in DOMAIN files : files[i] \in Frames(DOMAIN program)
      BY <2>1 DEF Typed
    <3> QED BY <3>1, FrameIs
  <2> QED BY <2>1, <2>2, <2>3, <2>4 DEF Typed, TypeOK
<1> QED BY <1>1, Reached, PTL

\* Every prefix in the listing that is written is followed by the text of its
\* line: .nolist takes back the prefix of its own line, and no other line is
\* left without its text, however .list, .nolist and #include follow each other.
THEOREM NoPrefixIsLeft == Spec => []NoPrefixLeft
<1>1. IInv => NoPrefixLeft
  <2> SUFFICES ASSUME IInv, phase = "done" PROVE Complete(Written) /\ Written \in Seq(CellSet)
    <3>1. ASSUME Complete(Written), Written \in Seq(CellSet) PROVE NoPrefixLeft
      <4>1. DOMAIN Written = 1..Len(Written)
        BY <3>1
      <4> QED BY <3>1, <4>1 DEF Complete, CompleteUpTo, NoPrefixLeft
    <3>2. phase # "done" => NoPrefixLeft
      BY DEF NoPrefixLeft
    <3> QED BY <3>1, <3>2
  <2>1. Typed /\ Complete(SubSeq(listing_buf, 1, saved_listing_offset)) /\ listing_offset = saved_listing_offset
    BY DEF IInv, Ended
  <2>2. Written = SubSeq(listing_buf, 1, listing_offset)
    BY DEF Written
  <2>3. listing_buf \in Seq(CellSet) /\ listing_offset \in Nat /\ listing_offset <= Len(listing_buf)
    BY <2>1, CurrentIs DEF Typed
  <2> QED BY <2>1, <2>2, <2>3, FirstCells
<1> QED BY <1>1, Reached, PTL

\* Pass two changes nothing in the listing but the columns of the bytes: the
\* place an argument remembered is followed by its columns, on whatever rows
\* they are, also when another file or a .nolist came in between.
THEOREM ColumnsOnly == Spec => OverwritesColumns
<1> DEFINE A == phase = "pass_two" =>
                  /\ Len(listing_buf') = Len(listing_buf)
                  /\ \A i \in DOMAIN listing_buf :
                       listing_buf'[i] # listing_buf[i] => listing_buf[i].k = "hex" /\ listing_buf'[i].k = "hex"
<1>1. ASSUME IInv, [Next]_vars PROVE [A]_vars
  <2>1. ASSUME phase = "pass_two", listing_buf' = listing_buf PROVE A
    BY <2>1
  <2>2. CASE SecondPassStep
    <3>1. PICK l \in Listings : Becomes(l) /\ Overlaid(listing_buf, l.buf)
      BY <1>1, <2>2, SecondPassIs
    <3>2. listing_buf' = l.buf /\ DOMAIN listing_buf = 1..Len(listing_buf)
      <4>1. listing_buf \in Seq(CellSet)
        BY <1>1, CurrentIs DEF IInv, Typed
      <4> QED BY <3>1, <4>1 DEF Becomes
    <3> QED BY <3>1, <3>2 DEF Overlaid
  <2>3. CASE EndPassTwo
    BY <2>1, <2>3 DEF EndPassTwo
  <2>4. CASE BeginLine \/ Statement \/ EndLine \/ EndInclude \/ EndPassOne \/ Done
    <3>1. phase # "pass_two"
      BY <2>4 DEF BeginLine, Statement, EndLine, EndInclude, EndPassOne, Done,
                  Data, Deferred, ListOn, ListOff, Skip, Include, Reads
    <3> QED BY <3>1
  <2>5. CASE UNCHANGED vars
    BY <2>5
  <2> QED BY <1>1, <2>2, <2>3, <2>4, <2>5 DEF Next
<1>2. IInv /\ [Next]_vars => [A]_vars
  BY <1>1
<1> QED BY <1>2, Reached, PTL DEF Spec, OverwritesColumns

\* Every line of the listing that is finished shows its own number, and the
\* bytes the output has at the address it shows, as many as its statements
\* write: before pass two the placeholders of both, and afterwards what pass
\* two writes over both, whatever was listed and read between the statement
\* that left the placeholder and the end of pass one.
THEOREM OutputIsShown == Spec => []LinesShowOutput
<1>1. Init => TInv
  BY InitTells
<1>2. IInv /\ TInv /\ [Next]_vars => TInv'
  BY StepTells
<1>3. IInv /\ TInv => LinesShowOutput
  BY TellsShown
<1> QED BY <1>1, <1>2, <1>3, Reached, PTL DEF Spec
=============================================================================
