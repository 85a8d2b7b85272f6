-------------------------- MODULE MCErrorSessions --------------------------
(***************************************************************************)
(* Instances of ErrorSessions for TLC: one code of each severity, the call *)
(* sites a program may be made of, and the bounds on nesting and on the    *)
(* number of diagnostics.                                                  *)
(***************************************************************************)
EXTENDS ErrorSessions

MCErrors == {"e"}
MCWarnings == {"w"}
MCRecoverable == {"r"}
BalancedClients == OptionalClients \ {"string_junk"}
=============================================================================
