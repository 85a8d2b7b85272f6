------------------------------- MODULE Export -------------------------------
(***************************************************************************)
(* Writing the output in the formats of the calculators: export.cpp.       *)
(*                                                                         *)
(* A job is an output file to write.  Apps (.8xk) and .hex files are       *)
(* written as Intel hex, a record at a time, and an app states the length  *)
(* of its records before they are written.  Programs (.8xp and the like)   *)
(* are one section of bytes that states its own length several times.      *)
(***************************************************************************)
EXTENDS Integers, Sequences

CONSTANTS
  Jobs,         \* files to write: [type, contents, fields, name], see JobsAssumption
  PageRecords,  \* records on a page: 512
  RecordBytes,  \* bytes in a record: 32
  SigLength,    \* bytes of an app's signature: 96
  BaseAddress   \* where pages start: 0x4000

ProgramTypes == {"73P", "82P", "83P", "8XP", "8XV", "85P", "86P", "85S", "86S"}
Types == ProgramTypes \cup {"8XK", "HEX"}

Byte == 0..255
Address == 0..65535

PageSize == PageRecords * RecordBytes

\* No file, signed or not, has more than n pages.
PagesAtMost(n) == \A j \in Jobs : Len(j.contents) + SigLength <= n * PageSize

\* fields: the header fields an app has; name: the length of a program's name.
\* The output buffer, of 8000000 bytes, is far from 65536 pages.
ASSUME JobsAssumption ==
  /\ \A j \in Jobs : /\ j.type \in Types /\ j.contents \in Seq(Byte) /\ j.name \in Nat
                     /\ j.type = "8XK" /\ j.fields # {} => j.contents # <<>>
  /\ PagesAtMost(65536)

ASSUME ExportAssumption ==
  /\ PageRecords \in Nat \ {0} /\ RecordBytes \in 1..255 /\ BaseAddress \in Nat
  /\ BaseAddress + PageSize <= 65536
  /\ SigLength \in 1..PageSize - 1

VARIABLES
  job,
  phase,      \* "start", "pages", "records", "done" or "refused"
  buffer,     \* what is written as Intel hex
  page,       \* number of the next page
  bpnt,       \* bytes written
  address,    \* of the next record
  records,    \* records written: [len, address, type, data, chksum]
  app,        \* fields of an app: [pages, length]
  section     \* bytes of a program

vars == <<job, phase, buffer, page, bpnt, address, records, app, section>>

Lo(n) == n % 256
Hi(n) == (n \div 256) % 256

Total(bytes) ==
  LET n == Len(bytes)
      sum[r \in (0..n) \X (0..n)] ==   \* of bytes[r[1] + 1] to bytes[r[2]], half by half
        IF r[1] >= r[2] THEN 0 ELSE IF r[1] + 1 = r[2] THEN bytes[r[2]]
        ELSE LET mid == (r[1] + r[2]) \div 2 IN sum[<<r[1], mid>>] + sum[<<mid, r[2]>>]
  IN sum[<<0, n>>]

(***************************************************************************)
(* makeapp.                                                                *)
(***************************************************************************)
Size == Len(job.contents)

\* Mutant: the last record is taken to be a full one.
HexLength_Rounded(total, pages) ==
  (13 + 2 * RecordBytes) * ((total + RecordBytes - 1) \div RecordBytes) + 17 * pages + 11

\* The characters of the records, as the app's header states them.
HexLength(total, pages) ==
  (13 + 2 * RecordBytes) * (total \div RecordBytes) + 17 * pages + 11
    + (IF total % RecordBytes = 0 THEN 0 ELSE 2 * (total % RecordBytes) + 13)

NoRoomForSig ==
  LET used == (Size + SigLength) % PageSize
  IN used # 0 /\ used < SigLength + 1 /\ Size > PageSize

\* Pages of the program without its signature.
Pages == Size \div PageSize + (IF Size % PageSize = 0 THEN 0 ELSE 1)

Init ==
  /\ job \in Jobs
  /\ phase = "start" /\ buffer = <<>> /\ page = 0 /\ bpnt = 0 /\ address = 0
  /\ records = <<>> /\ app = [pages |-> 0, length |-> 0] /\ section = <<>>

\* Signature and corrected header fields only matter by their number of bytes:
\* the hash and the RSA signature are left out.
MakeApp ==
  /\ phase = "start" /\ job.type = "8XK"
  /\ IF NoRoomForSig \/ job.fields # {"length", "type", "pages", "name"}
     THEN phase' = "refused" /\ UNCHANGED <<buffer, app>>
     ELSE /\ phase' = "pages"
          /\ buffer' = job.contents \o [i \in 1..SigLength |-> 255]
          /\ app' = [pages |-> Lo(Pages), length |-> HexLength(Size + SigLength, Pages)]
  /\ UNCHANGED <<job, page, bpnt, address, records, section>>

MakeHex ==
  /\ phase = "start" /\ job.type = "HEX"
  /\ phase' = "pages" /\ buffer' = job.contents
  /\ UNCHANGED <<job, page, bpnt, address, records, app, section>>

(***************************************************************************)
(* intelhex.                                                               *)
(***************************************************************************)
\* Mutant: the number of bytes is left out of the checksum.
Chksum_NoCount(len, addr, type, data) == (-(Hi(addr) + Lo(addr) + type + Total(data))) % 256

Chksum(len, addr, type, data) == (-(Hi(addr) + Lo(addr) + type + Total(data) + len)) % 256

Record(addr, type, data, chksum) ==
  [len |-> Len(data), address |-> addr, type |-> type, data |-> data, chksum |-> chksum]

\* Mutant: addresses go on from page to page.
StartPage_KeepsAddress ==
  /\ phase = "pages" /\ bpnt < Len(buffer)
  /\ phase' = "records"
  /\ records' = Append(records, Record(0, 2, <<Hi(page), Lo(page)>>, (-(4 + page)) % 256))
  /\ page' = page + 1
  /\ address' = IF page = 0 THEN BaseAddress ELSE address
  /\ UNCHANGED <<job, buffer, bpnt, app, section>>

\* The checksum of a page's record is -(4 + page), 4 for its count and type.
StartPage ==
  /\ phase = "pages" /\ bpnt < Len(buffer)
  /\ phase' = "records"
  /\ records' = Append(records, Record(0, 2, <<Hi(page), Lo(page)>>, (-(4 + page)) % 256))
  /\ page' = page + 1
  /\ address' = BaseAddress
  /\ UNCHANGED <<job, buffer, bpnt, app, section>>

\* Mutant: every record is full.
DataRecord_Full ==
  LET data == [i \in 1..RecordBytes |-> IF bpnt + i <= Len(buffer) THEN buffer[bpnt + i] ELSE -1]
  IN /\ phase = "records"
     /\ records' = Append(records, Record(address, 0, data, Chksum(Len(data), address, 0, data)))
     /\ bpnt' = bpnt + Len(data)
     /\ address' = address + RecordBytes
     /\ phase' = IF bpnt' < Len(buffer) /\ address' - BaseAddress < PageSize THEN "records" ELSE "pages"
     /\ UNCHANGED <<job, buffer, page, app, section>>

DataRecord ==
  LET data == SubSeq(buffer, bpnt + 1,
                     IF bpnt + RecordBytes < Len(buffer) THEN bpnt + RecordBytes ELSE Len(buffer))
  IN /\ phase = "records"
     /\ records' = Append(records, Record(address, 0, data, Chksum(Len(data), address, 0, data)))
     /\ bpnt' = bpnt + Len(data)
     /\ address' = address + RecordBytes
     /\ phase' = IF bpnt' < Len(buffer) /\ address' - BaseAddress < PageSize THEN "records" ELSE "pages"
     /\ UNCHANGED <<job, buffer, page, app, section>>

EndOfHex ==
  /\ phase = "pages" /\ bpnt = Len(buffer)
  /\ records' = Append(records, Record(0, 1, <<>>, 255))
  /\ phase' = "done"
  /\ UNCHANGED <<job, buffer, page, bpnt, address, app, section>>

(***************************************************************************)
(* makeprgm: what follows the 53 bytes of identification and comment.      *)
(***************************************************************************)
\* Length of the variable, its own two bytes of length included.
VarSize ==
  LET code == IF job.type = "83P" THEN 2 * Size + 9 ELSE Size
      token == CASE job.type = "86P" -> 2 [] job.type = "82P" -> 3 [] OTHER -> 0
  IN code + token + 2

\* Mutant: the flag bytes of a TI-83+ variable are not counted.
SectionLength_NoFlags ==
  IF job.type = "85P" THEN VarSize + 8 + job.name
  ELSE VarSize + 15 + (IF job.type = "86P" THEN 1 ELSE 0)

SectionLength ==
  IF job.type = "85P" THEN VarSize + 8 + job.name
  ELSE VarSize + 15 + (CASE job.type \in {"8XP", "8XV"} -> 2 [] job.type = "86P" -> 1 [] OTHER -> 0)

TypeByte ==
  CASE job.type \in {"73P", "82P", "83P"} -> 11
    [] job.type \in {"8XP", "8XV"} -> 13
    [] job.type = "85P" -> 6 + job.name
    [] job.type \in {"86P", "86S"} -> 12
    [] job.type = "85S" -> 0

\* The variable's type, and from the TI-85 on the length of its name.
Kind ==
  CASE job.type \in {"85S", "86S"} -> <<12, Lo(job.name)>>
    [] job.type \in {"85P", "86P"} -> <<18, Lo(job.name)>>
    [] job.type = "8XV" -> <<21>>
    [] OTHER -> <<6>>

Zeros(n) == [i \in 1..n |-> 0]

\* At most eight letters, filled up with zeros but for the TI-85.
NameBytes ==
  LET n == IF job.name < 8 THEN job.name ELSE 8
  IN [i \in 1..n |-> 65] \o (IF job.type \in {"85P", "85S"} THEN <<>> ELSE Zeros(8 - n))

HexDigit(d) == IF d < 10 THEN 48 + d ELSE 55 + d

\* The program, as hex digits and with a trailer on the TI-83.
Code ==
  CASE job.type = "86P" -> <<142, 40>> \o job.contents
    [] job.type = "82P" -> <<213, 0, 17>> \o job.contents
    [] job.type = "83P" ->
         [i \in 1..2 * Size |-> LET b == job.contents[(i + 1) \div 2]
                                IN HexDigit(IF i % 2 = 1 THEN b \div 16 ELSE b % 16)]
           \o <<63, 212, 63, 48, 48, 48, 48, 63, 212>>
    [] OTHER -> job.contents

Word(n) == <<Lo(n), Hi(n)>>

Flags == IF job.type \in {"8XP", "8XV"} THEN Zeros(2) ELSE <<>>

\* Type, length, kind and name of the variable, then the variable itself.
Header == <<Lo(TypeByte), 0>> \o Word(VarSize) \o Kind \o NameBytes \o Flags

Body == Header \o Word(VarSize) \o Word(VarSize - 2) \o Code

MakePrgm ==
  /\ phase = "start" /\ job.type \in ProgramTypes
  /\ section' = Word(SectionLength) \o Body \o Word(Total(Body))
  /\ phase' = "done"
  /\ UNCHANGED <<job, buffer, page, bpnt, address, records, app>>

Finished == phase \in {"done", "refused"} /\ UNCHANGED vars

Next ==
  \/ MakeApp \/ MakeHex \/ MakePrgm
  \/ StartPage \/ DataRecord \/ EndOfHex
  \/ Finished

Spec == Init /\ [][Next]_vars

(***************************************************************************)
(* Properties.                                                             *)
(***************************************************************************)
\* Every variable has its type; what is written are bytes.
TypeOK ==
  /\ job.type \in Types
  /\ phase \in {"start", "pages", "records", "done", "refused"}
  /\ buffer \in Seq(Byte) /\ bpnt \in 0..Len(buffer)
  /\ page \in Nat /\ address \in Nat
  /\ \A i \in DOMAIN records :
       /\ records[i].data \in Seq(Byte) /\ records[i].chksum \in Byte
       /\ records[i].address \in Address
  /\ section \in Seq(Byte)

\* A loader accepts a record: its bytes and its checksum add up to 0.
AddsUp(r) ==
  (r.len + Hi(r.address) + Lo(r.address) + r.type + Total(r.data) + r.chksum) % 256 = 0

\* Every record of a file of at most 256 pages adds up.  The record of a page
\* from the 257th on does not: ~(4 + page) + 1 adds the low byte of its number.
RecordsAddUp == page <= 256 => \A i \in DOMAIN records : AddsUp(records[i])

\* What a loader makes of the records: page and address of every byte.
Load(s, r) ==
  CASE r.type = 2 -> [s EXCEPT !.page = 256 * r.data[1] + r.data[2]]
    [] r.type = 0 -> [s EXCEPT !.bytes = @ \cup
                        {<<s.page, r.address + k - 1, r.data[k]>> : k \in DOMAIN r.data}]
    [] r.type = 1 -> s

LoadedFrom(rs) ==
  LET state[i \in 0..Len(rs)] ==
        IF i = 0 THEN [page |-> -1, bytes |-> {}] ELSE Load(state[i - 1], rs[i])
  IN state[Len(rs)]

Loaded == LoadedFrom(records).bytes

\* The records written so far load as the bytes of the output so far, cut
\* into pages that all start at the same address: nothing is lost, doubled
\* or put on the wrong page at the boundary of a record or a page.
LoadsAsWritten ==
  Loaded = {<<(k - 1) \div PageSize, BaseAddress + ((k - 1) % PageSize), buffer[k]>> : k \in 1..bpnt}

\* Characters of a record: ten hex digits, its data, a colon and an end of
\* line, which the last one lacks.
CharactersOf(r) == 11 + 2 * Len(r.data) + (IF r.type = 1 THEN 0 ELSE 2)
Characters == Total([i \in DOMAIN records |-> CharactersOf(records[i])])

\* The number of pages and the length an app states are those of the file,
\* but for an app whose program fits on one page and whose signature does not,
\* and for one with more pages than its field of one byte holds.
AppFieldsAgree ==
  phase = "done" /\ job.type = "8XK" /\ page < 256 /\ Size \notin PageSize - SigLength + 1..PageSize =>
    app.pages = page /\ app.length = Characters

\* The same for every app that is written.
EveryAppFieldAgrees ==
  phase = "done" /\ job.type = "8XK" => app.pages = page /\ app.length = Characters

\* A program's lengths are those of what follows them, and its checksum is
\* that of its bytes.
LengthsAndChecksum ==
  LET length == Len(section) - 4
      At(i) == section[i] + 256 * section[i + 1]
      size == Len(Header) + 3
  IN /\ At(1) = length
     /\ At(5) = At(size) /\ At(size) = Len(section) - 2 - (size + 1)
     /\ At(size + 2) = At(size) - 2
     /\ At(Len(section) - 1) = Total(SubSeq(section, 3, Len(section) - 2)) % 65536

\* They agree for every type but the TI-85 and TI-86 strings, when the lengths
\* fit their fields and, on the TI-85, the name is not cut to eight letters:
\* there they count the letters that are not written.
ProgramFieldsAgree ==
  /\ phase = "done" /\ job.type \in ProgramTypes \ {"85S", "86S"}
  /\ SectionLength < 65536 /\ (job.type = "85P" => job.name <= 8)
  => LengthsAndChecksum
=============================================================================
