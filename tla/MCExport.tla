------------------------------ MODULE MCExport ------------------------------
(***************************************************************************)
(* Files for TLC.  Pages are scaled down to three records of four bytes    *)
(* and signatures to five bytes; programs have their real layout.          *)
(***************************************************************************)
EXTENDS Export

\* Bytes that tell neighbouring positions apart.
Contents(n) == [i \in 1..n |-> (37 * i + i \div 4) % 256]

AllFields == {"length", "type", "pages", "name"}

Job(type, n, fields, name) ==
  [type |-> type, contents |-> Contents(n), fields |-> fields, name |-> name]

HexJobs == {Job("HEX", n, AllFields, 1) : n \in 0..40}

AppJobs == {Job("8XK", n, AllFields, 1) : n \in 1..40}

BadApps == {Job("8XK", 20, AllFields \ {f}, 1) : f \in AllFields}

\* Sizes at which the fields carry from one byte into the next.
ProgramJobs ==
  {Job(type, n, AllFields, name) :
     type \in ProgramTypes, n \in {0, 1, 2, 119, 120, 238, 239, 240, 254, 255, 256, 257}, name \in {1, 5, 8}}

AllJobs == HexJobs \cup AppJobs \cup BadApps \cup ProgramJobs
=============================================================================
