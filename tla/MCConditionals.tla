--------------------------- MODULE MCConditionals ---------------------------
EXTENDS Conditionals

Line(k) == [k |-> k, cond |-> ""]
Cond(k, c) == [k |-> k, cond |-> c]

\* Conditions that are known, and text.
BranchLines ==
  {Cond("if", "true"), Cond("if", "false"), Cond("elif", "true"), Cond("elif", "false"),
   Line("else"), Line("endif"), Line("text")}

\* Conditions on what the program itself defines, and comments.
NameLines ==
  {Cond("ifdef", "name"), Cond("ifndef", "name"), Line("define"), Line("undef"), Line("else"),
   Line("endif"), Line("comment"), Line("endcomment"), Line("text")}

\* Macros being defined, in branches and around them.
MacroLines ==
  {Cond("if", "true"), Cond("if", "false"), Line("else"), Line("endif"), Line("macro"),
   Line("endmacro"), Line("text")}

\* Anything, with expressions left out as well, but no comments.
WildLines ==
  {Cond("if", "true"), Cond("if", "false"), Cond("if", "none"), Cond("ifdef", "name"),
   Cond("ifndef", "none"), Cond("elif", "false"), Cond("elif", "none"), Line("else"), Line("endif"),
   Line("define")}

AllPrograms == [1..6 -> BranchLines] \cup [1..5 -> NameLines] \cup [1..5 -> WildLines] \cup [1..6 -> MacroLines]
=============================================================================
