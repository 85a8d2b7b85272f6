------------------------------- MODULE Listing -------------------------------
(***************************************************************************)
(* The listing of an assembly and the files it includes: pass_one.cpp,     *)
(* preop.cpp, pass_two.cpp and expand_buf.cpp.                             *)
(*                                                                         *)
(* Pass one inserts into listing_buf at listing_offset: the number and     *)
(* address of a line before it is read, a column for every byte it writes, *)
(* and its text when it is done.  An argument left to pass two remembers   *)
(* the offset of its first column, where pass two overwrites the columns   *)
(* of the placeholder.                                                     *)
(*                                                                         *)
(* A cell of the buffer is a piece of text none of the code looks into: a  *)
(* column ("01 "), the text of a line, and so on.  Only the 14 characters  *)
(* before a line are PrefixWidth cells, since .nolist takes them back.     *)
(***************************************************************************)
EXTENDS Integers, Sequences, FiniteSets, SequencesExt

CONSTANTS
  Programs,     \* functions from names of files to sequences of lines
  PrefixWidth,  \* 14 characters, which is nearly five columns
  HexColumns    \* columns in a row: 4

\* A line is a sequence of statements; n is the number of bytes of data and of
\* the lines after it that a skipping #if takes with it, f a file.
StatementKinds == {"data", "deferred", "list", "nolist", "include", "skip"}

Statements(names) == [k : StatementKinds, n : Nat, f : names \cup {""}]

\* .list and .nolist stand alone and nothing follows an #include or #if.
ASSUME ProgramsAssumption ==
  \A p \in Programs : "main" \in DOMAIN p /\
    \A f \in DOMAIN p :
      /\ p[f] \in Seq(Seq(Statements(DOMAIN p)))
      /\ \A i \in DOMAIN p[f] : \A j \in DOMAIN p[f][i] :
           LET s == p[f][i][j]
           IN /\ s.k \notin {"data", "deferred"} => j = Len(p[f][i])
              /\ s.k \in {"list", "nolist"} => j = 1
              /\ s.k = "include" => s.f \in DOMAIN p
              /\ s.k = "skip" => i + s.n <= Len(p[f])

ASSUME WidthsAssumption == PrefixWidth \in Nat \ {0} /\ HexColumns \in Nat \ {0}

VARIABLES
  program,
  files,                  \* files being read, innermost first: [file, line, todo, open, old]
  curr_input_file, line_num, old_line_num,
  line_start,             \* line the text of the listing goes on from
  contents,               \* bytes of the output, the last of them at out_ptr
  expr_list,              \* placeholders: [out, offset, on, n, file, line]
  phase,                  \* "pass_one", "pass_two" or "done"
  listing_on, listing_for_line_done, listing_width,
  listing_buf, listing_offset, saved_listing_offset

reading == <<files, curr_input_file, line_num, old_line_num, line_start, listing_for_line_done, listing_width>>
vars == <<program, reading, contents, expr_list, phase, listing_on, listing_buf, listing_offset,
          saved_listing_offset>>

program_counter == Len(contents)  \* in pass one

(***************************************************************************)
(* Cells: n is the number of a line or the value of a byte, pc an address. *)
(***************************************************************************)
Cell(k, file, n, pc) == [k |-> k, file |-> file, n |-> n, pc |-> pc]
Prefix(n) == [i \in 1..PrefixWidth |-> Cell("line", "", n, program_counter)]
Hex(v) == Cell("hex", "", v, 0)
Cells(k, n) == [i \in 1..n |-> Cell(k, "", 0, 0)]
NewRow == Cells("newline", 1) \o Cells("space", PrefixWidth)
Text(file, n) == Cell("text", file, n, 0)
Banner(file) == <<Cell("banner", file, 0, 0)>>

(***************************************************************************)
(* The listing as a record: buf, at (listing_offset) and width.            *)
(***************************************************************************)
Current == [buf |-> listing_buf, at |-> listing_offset, width |-> listing_width]

\* eb_insert: what is behind `at` moves on.
Insert(l, cells) ==
  [l EXCEPT !.buf = SubSeq(l.buf, 1, l.at) \o cells \o SubSeq(l.buf, l.at + 1, Len(l.buf)),
            !.at = l.at + Len(cells)]

\* write_out in pass one.
WriteColumn(l, v) ==
  LET row == IF l.width >= HexColumns THEN [Insert(l, NewRow) EXCEPT !.width = 0] ELSE l
  IN [Insert(row, <<Hex(v)>>) EXCEPT !.width = @ + 1]

\* Mutant: the end of a row is not looked for.
OverwriteColumn_NoSkip(l, v) == [l EXCEPT !.buf[l.at + 1] = Hex(v), !.at = l.at + 1, !.width = @ + 1]

\* write_out in pass two: a word may go on in the next row.
OverwriteColumn(l, v) ==
  LET ahead == {i \in l.at + 1..Len(l.buf) : l.buf[i].k \notin {"newline", "space"}}
      to == IF l.buf[l.at + 1].k = "newline" THEN CHOOSE i \in ahead : \A j \in ahead : i <= j ELSE l.at + 1
  IN [l EXCEPT !.buf[to] = Hex(v), !.at = to, !.width = @ + 1]

\* The bytes of an argument, each different from its neighbours.
Value(address) == address + 1
Bytes(address, n) == [i \in 1..n |-> Value(address + i - 1)]

Columns(l, bytes) ==
  LET after[i \in 0..Len(bytes)] == IF i = 0 THEN l ELSE WriteColumn(after[i - 1], bytes[i])
  IN after[Len(bytes)]

Overwritten(l, bytes) ==
  LET after[i \in 0..Len(bytes)] == IF i = 0 THEN l ELSE OverwriteColumn(after[i - 1], bytes[i])
  IN after[Len(bytes)]

\* do_listing_for_line, from line_start to before the line `end`.
Listed(l, end) ==
  LET filled == [Insert(l, Cells("dash", HexColumns - l.width)) EXCEPT !.width = HexColumns]
      row(i) == Prefix(old_line_num + i) \o Cells("space", HexColumns)
                  \o <<Text(curr_input_file, line_start + i)>>
      more == [i \in 1..end - line_start - 1 |-> row(i)]
  IN Insert(filled, <<Text(curr_input_file, line_start)>> \o FlattenSeq(more))

Becomes(l) == listing_buf' = l.buf /\ listing_offset' = l.at /\ listing_width' = l.width

(***************************************************************************)
(* run_first_pass.                                                         *)
(***************************************************************************)
File == Head(files)

Init ==
  /\ program \in Programs
  /\ files = <<[file |-> "main", line |-> 1, todo |-> <<>>, open |-> FALSE, old |-> <<"", 0, 0>>]>>
  /\ curr_input_file = "main" /\ line_num = 1 /\ old_line_num = 0 /\ line_start = 0
  /\ contents = <<>> /\ expr_list = <<>> /\ phase = "pass_one"
  /\ listing_on = TRUE /\ listing_for_line_done = FALSE /\ listing_width = 0
  /\ listing_buf = <<>> /\ listing_offset = 0 /\ saved_listing_offset = 0

BeginLine ==
  /\ phase = "pass_one" /\ ~File.open /\ File.line <= Len(program[File.file])
  /\ files' = [files EXCEPT ![1].open = TRUE, ![1].todo = program[File.file][File.line]]
  /\ line_start' = File.line /\ old_line_num' = line_num
  /\ listing_for_line_done' = FALSE
  /\ Becomes([IF listing_on THEN Insert(Current, Prefix(line_num)) ELSE Current EXCEPT !.width = 0])
  /\ UNCHANGED <<program, curr_input_file, line_num, contents, expr_list, phase, listing_on,
                 saved_listing_offset>>

\* s is the next statement of the line.
Reads(s) ==
  /\ phase = "pass_one" /\ File.open /\ File.todo # <<>> /\ s = Head(File.todo)
  /\ UNCHANGED <<program, phase, saved_listing_offset>>

Rest == [files EXCEPT ![1].todo = Tail(@)]

Data(s) ==
  /\ s.k = "data" /\ Reads(s)
  /\ files' = Rest
  /\ contents' = contents \o Bytes(program_counter, s.n)
  /\ Becomes(IF listing_on THEN Columns(Current, Bytes(program_counter, s.n)) ELSE Current)
  /\ UNCHANGED <<curr_input_file, line_num, old_line_num, line_start, expr_list, listing_on,
                 listing_for_line_done>>

\* Mutant: the offset is taken after the placeholder was written.
Deferred_LateOffset(s) ==
  /\ s.k = "deferred" /\ Reads(s)
  /\ files' = Rest
  /\ contents' = contents \o [i \in 1..s.n |-> 0]
  /\ Becomes(IF listing_on THEN Columns(Current, [i \in 1..s.n |-> 0]) ELSE Current)
  /\ expr_list' = Append(expr_list, [out |-> program_counter, offset |-> listing_offset' - s.n,
                                     on |-> listing_on, n |-> s.n,
                                     file |-> curr_input_file, line |-> line_num])
  /\ UNCHANGED <<curr_input_file, line_num, old_line_num, line_start, listing_on, listing_for_line_done>>

\* add_pass_two_expr.
Deferred(s) ==
  /\ s.k = "deferred" /\ Reads(s)
  /\ files' = Rest
  /\ contents' = contents \o [i \in 1..s.n |-> 0]
  /\ Becomes(IF listing_on THEN Columns(Current, [i \in 1..s.n |-> 0]) ELSE Current)
  /\ expr_list' = Append(expr_list, [out |-> program_counter, offset |-> listing_offset,
                                     on |-> listing_on, n |-> s.n,
                                     file |-> curr_input_file, line |-> line_num])
  /\ UNCHANGED <<curr_input_file, line_num, old_line_num, line_start, listing_on, listing_for_line_done>>

\* The start of this line was not listed, so neither is its end.
ListOn(s) ==
  /\ s.k = "list" /\ Reads(s)
  /\ files' = Rest
  /\ listing_on' = TRUE
  /\ listing_for_line_done' = (listing_for_line_done \/ ~listing_on)
  /\ UNCHANGED <<curr_input_file, line_num, old_line_num, line_start, contents, expr_list,
                 listing_width, listing_buf, listing_offset>>

\* Mutant: the prefix is taken back even if there is none.
ListOff_Always(s) ==
  /\ s.k = "nolist" /\ Reads(s)
  /\ files' = Rest
  /\ listing_offset' = listing_offset - PrefixWidth
  /\ listing_on' = FALSE
  /\ UNCHANGED <<curr_input_file, line_num, old_line_num, line_start, contents, expr_list,
                 listing_for_line_done, listing_width, listing_buf>>

\* Mutant: the prefix of the line is left in the listing.
ListOff_LeavesPrefix(s) ==
  /\ s.k = "nolist" /\ Reads(s)
  /\ files' = Rest
  /\ listing_on' = FALSE
  /\ UNCHANGED <<curr_input_file, line_num, old_line_num, line_start, contents, expr_list,
                 listing_for_line_done, listing_width, listing_buf, listing_offset>>

\* The prefix stays in the buffer, but behind the offset.
ListOff(s) ==
  /\ s.k = "nolist" /\ Reads(s)
  /\ files' = Rest
  /\ listing_offset' = IF listing_on THEN listing_offset - PrefixWidth ELSE listing_offset
  /\ listing_on' = FALSE
  /\ UNCHANGED <<curr_input_file, line_num, old_line_num, line_start, contents, expr_list,
                 listing_for_line_done, listing_width, listing_buf>>

\* A false #if: skip_until moves on to its #endif.
Skip(s) ==
  /\ s.k = "skip" /\ Reads(s)
  /\ files' = [Rest EXCEPT ![1].line = @ + s.n]
  /\ line_num' = line_num + s.n
  /\ UNCHANGED <<curr_input_file, old_line_num, line_start, contents, expr_list, listing_on,
                 listing_for_line_done, listing_width, listing_buf, listing_offset>>

\* handle_preop_include up to its nested run_first_pass.
Include(s) ==
  LET line == IF listing_on /\ ~listing_for_line_done THEN Listed(Current, line_start + 1) ELSE Current
  IN /\ s.k = "include" /\ Reads(s)
     /\ Becomes(IF listing_on THEN Insert(line, Banner(s.f)) ELSE line)
     /\ files' = <<[file |-> s.f, line |-> 1, todo |-> <<>>, open |-> FALSE,
                    old |-> <<curr_input_file, line_num, line_start>>]>> \o Rest
     /\ curr_input_file' = s.f /\ line_num' = 1
     /\ UNCHANGED <<old_line_num, line_start, contents, expr_list, listing_on, listing_for_line_done>>

\* Mutant: the line the #include is on is listed once more.
EndInclude_NotDone ==
  /\ phase = "pass_one" /\ Len(files) > 1
  /\ ~File.open /\ File.line > Len(program[File.file])
  /\ files' = Tail(files)
  /\ curr_input_file' = File.old[1] /\ line_num' = File.old[2] /\ line_start' = File.old[3]
  /\ Becomes(IF listing_on THEN Insert(Current, Banner(File.old[1])) ELSE Current)
  /\ UNCHANGED <<program, old_line_num, contents, expr_list, phase, listing_on, listing_for_line_done,
                 saved_listing_offset>>

\* The rest of handle_preop_include; old_line_num is a local of it.
EndInclude ==
  /\ phase = "pass_one" /\ Len(files) > 1
  /\ ~File.open /\ File.line > Len(program[File.file])
  /\ files' = Tail(files)
  /\ curr_input_file' = File.old[1] /\ line_num' = File.old[2] /\ line_start' = File.old[3]
  /\ listing_for_line_done' = (listing_for_line_done \/ listing_on)
  /\ Becomes(IF listing_on THEN Insert(Current, Banner(File.old[1])) ELSE Current)
  /\ UNCHANGED <<program, old_line_num, contents, expr_list, phase, listing_on, saved_listing_offset>>

EndLine ==
  LET lists == listing_on /\ ~listing_for_line_done
      lines == File.line - line_start  \* besides the first
  IN /\ phase = "pass_one" /\ File.open /\ File.todo = <<>>
     /\ files' = [files EXCEPT ![1].open = FALSE, ![1].line = @ + 1]
     /\ line_num' = line_num + 1
     /\ Becomes(IF lists THEN Listed(Current, File.line + 1) ELSE Current)
     /\ old_line_num' = IF lists THEN old_line_num + lines ELSE old_line_num
     /\ line_start' = IF lists THEN line_start + lines ELSE line_start
     /\ UNCHANGED <<program, curr_input_file, contents, expr_list, phase, listing_on,
                    listing_for_line_done, saved_listing_offset>>

(***************************************************************************)
(* run_second_pass and the writing of the listing.                         *)
(***************************************************************************)
EndPassOne ==
  /\ phase = "pass_one" /\ Len(files) = 1
  /\ ~File.open /\ File.line > Len(program["main"])
  /\ phase' = "pass_two"
  /\ saved_listing_offset' = listing_offset
  /\ UNCHANGED <<program, reading, contents, expr_list, listing_on, listing_buf, listing_offset>>

SecondPassStep ==
  LET x == Head(expr_list)
      bytes == Bytes(x.out, x.n)
      start == [Current EXCEPT !.at = x.offset]
      l == IF x.on THEN Overwritten(start, bytes) ELSE start
  IN /\ phase = "pass_two" /\ expr_list # <<>>
     /\ expr_list' = Tail(expr_list)
     /\ contents' = [a \in DOMAIN contents |->
                       IF a > x.out /\ a <= x.out + x.n THEN bytes[a - x.out] ELSE contents[a]]
     /\ listing_on' = x.on
     /\ Becomes(l)
     /\ curr_input_file' = x.file /\ line_num' = x.line
     /\ UNCHANGED <<program, files, old_line_num, line_start, listing_for_line_done, phase,
                    saved_listing_offset>>

\* The file that was current when pass one ended is "main", the only one open.
EndPassTwo ==
  /\ phase = "pass_two" /\ expr_list = <<>>
  /\ phase' = "done"
  /\ listing_offset' = saved_listing_offset
  /\ curr_input_file' = File.file
  /\ UNCHANGED <<program, files, line_num, old_line_num, line_start, listing_for_line_done, listing_width,
                 contents, expr_list, listing_on, listing_buf, saved_listing_offset>>

Done == phase = "done" /\ UNCHANGED vars

Statement ==
  /\ File.todo # <<>>
  /\ LET s == Head(File.todo)
     IN Data(s) \/ Deferred(s) \/ ListOn(s) \/ ListOff(s) \/ Skip(s) \/ Include(s)

Next ==
  \/ BeginLine \/ Statement \/ EndLine \/ EndInclude
  \/ EndPassOne \/ SecondPassStep \/ EndPassTwo
  \/ Done

Spec == Init /\ [][Next]_vars

(***************************************************************************)
(* Properties.                                                             *)
(***************************************************************************)
\* Every variable has its type; the offset stays within the buffer.
TypeOK ==
  /\ phase \in {"pass_one", "pass_two", "done"}
  /\ curr_input_file \in DOMAIN program /\ line_num \in Nat /\ old_line_num \in Nat /\ line_start \in Nat
  /\ \A i \in DOMAIN files : files[i].file \in DOMAIN program /\ files[i].open \in BOOLEAN
  /\ listing_on \in BOOLEAN /\ listing_for_line_done \in BOOLEAN
  /\ listing_width \in Nat /\ (phase = "pass_one" => listing_width <= HexColumns)
  /\ listing_offset \in 0..Len(listing_buf) /\ saved_listing_offset \in 0..Len(listing_buf)

\* What is in the listing so far: the cells behind it are never written.
Written == SubSeq(listing_buf, 1, IF phase = "pass_two" THEN saved_listing_offset ELSE listing_offset)

\* Bytes the statements of a line write.
Size(line) ==
  LET size[i \in 0..Len(line)] ==
        IF i = 0 THEN 0
        ELSE size[i - 1] + (IF line[i].k \in {"data", "deferred"} THEN line[i].n ELSE 0)
  IN size[Len(line)]

\* A false #if before the line takes it with it.
Skipped(f, n) ==
  \E i \in 1..n - 1 :
    LET line == program[f][i]
    IN line # <<>> /\ line[Len(line)].k = "skip" /\ n <= i + line[Len(line)].n

\* Every line of the listing that is finished shows its own number, and the
\* bytes the output has for it at the address it shows: while pass two fills
\* in placeholders, across rows, and although .list, .nolist and #include
\* move the place in the listing about.
LinesShowOutput ==
  \A p \in {q \in DOMAIN Written : Written[q].k = "text"} :
    LET text == Written[p]
        start == CHOOSE q \in 1..p : Written[q].k = "line" /\ \A r \in q + 1..p : Written[r].k # "line"
        columns(q) == {r \in start + 1..q : Written[r].k = "hex"}
        size == Cardinality(columns(p))
    IN /\ Written[start].n = text.n
       /\ \A q \in start + 1..p - 1 : Written[q].k \in {"hex", "dash", "newline", "space"}
       /\ size = Size(program[text.file][text.n]) \/ (size = 0 /\ Skipped(text.file, text.n))
       /\ \A q \in columns(p) : Written[q].n = contents[Written[start].pc + Cardinality(columns(q))]

\* The lines that should be listed, from the text of the program: those that
\* are read while the listing is on, each once and in the order of reading,
\* with the lines of an included file after that of its #include.
Walk ==
  LET Files == DOMAIN program
      walk[f \in Files, i \in Nat, on \in BOOLEAN] ==
        IF i > Len(program[f]) THEN [on |-> on, lines |-> <<>>]
        ELSE
          LET line == program[f][i]
              s == IF line = <<>> THEN [k |-> "data", n |-> 0, f |-> ""] ELSE line[Len(line)]
              last == IF s.k = "skip" THEN i + s.n ELSE i
              own == IF on /\ s.k # "nolist" THEN [j \in 1..last - i + 1 |-> <<f, i + j - 1>>] ELSE <<>>
              inner == IF s.k = "include" THEN walk[s.f, 1, on]
                       ELSE [on |-> IF s.k = "list" THEN TRUE ELSE IF s.k = "nolist" THEN FALSE ELSE on,
                             lines |-> <<>>]
              rest == walk[f, last + 1, inner.on]
          IN [on |-> rest.on, lines |-> own \o inner.lines \o rest.lines]
  IN walk["main", 1, TRUE].lines

\* The listing that is written has exactly those lines.
LinesListed ==
  phase = "done" =>
    LET texts == SelectSeq(Written, LAMBDA c : c.k = "text")
    IN [i \in DOMAIN texts |-> <<texts[i].file, texts[i].n>>] = Walk

\* Nothing is left of a line that was not listed: every prefix is followed
\* by the text of its line.
NoPrefixLeft ==
  phase = "done" =>
    \A p \in DOMAIN Written :
      Written[p].k = "line" =>
        \E q \in p + 1..Len(Written) :
          Written[q].k = "text" /\ \A r \in p..q - 1 : Written[r].k = "line" => Written[r] = Written[p]

\* Pass two changes the columns of bytes, and nothing else in the listing.
OverwritesColumns ==
  [][phase = "pass_two" =>
       /\ Len(listing_buf') = Len(listing_buf)
       /\ \A i \in DOMAIN listing_buf :
            listing_buf'[i] # listing_buf[i] => listing_buf[i].k = "hex" /\ listing_buf'[i].k = "hex"]_vars
=============================================================================
