------------------------------ MODULE MCListing ------------------------------
(***************************************************************************)
(* Programs for TLC: a file of three lines and one of two that it includes *)
(* and that includes a third one.                                          *)
(***************************************************************************)
EXTENDS Listing

S(k, n) == [k |-> k, n |-> n, f |-> ""]
Includes(f) == [k |-> "include", n |-> 0, f |-> f]

MainLines ==
  {<<>>, <<S("data", 1), S("deferred", 2)>>, <<S("deferred", 1), S("data", 2), S("deferred", 2)>>,
   <<S("list", 0)>>, <<S("nolist", 0)>>, <<Includes("a")>>, <<S("deferred", 1), Includes("a")>>,
   <<S("data", 5)>>}

IncludedLines ==
  {<<S("deferred", 3)>>, <<S("list", 0)>>, <<S("nolist", 0)>>, <<S("data", 1), Includes("b")>>, <<>>}

LastFile == {<<<<S("deferred", 1)>>, <<S("nolist", 0)>>>>, <<<<S("skip", 1)>>, <<>>>>, <<>>}

SkipMains == {<<<<S("skip", 2)>>, <<S("data", 1)>>, <<>>, <<S("deferred", 2)>>>>,
              <<<<S("nolist", 0)>>, <<S("skip", 1)>>, <<>>, <<S("list", 0)>>, <<S("skip", 1)>>, <<S("deferred", 1)>>>>}

MCPrograms ==
  {[main |-> m, a |-> a, b |-> b] :
     m \in [1..3 -> MainLines] \cup SkipMains, a \in [1..2 -> IncludedLines], b \in LastFile}
=============================================================================
