------------------------------- MODULE MCLog -------------------------------
(* Values of the constants of Log for TLC. *)
EXTENDS Log

MCLines == {1, 3, 5}
AnyFault == {"open", "close", "chdir"}
=============================================================================
