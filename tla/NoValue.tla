------------------------------- MODULE NoValue -------------------------------
(***************************************************************************)
(* The value of a column, field or variable that has none.  Modules that   *)
(* are extended together share this one.                                   *)
(***************************************************************************)
CONSTANT Null
=============================================================================
