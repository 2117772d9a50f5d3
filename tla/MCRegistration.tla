--------------------------- MODULE MCRegistration ---------------------------
(***************************************************************************)
(* Small instances of Registration for TLC.                                *)
(***************************************************************************)
EXTENDS Registration

Procs2   == 1..2
Process1 == {1}
Sizes2   == 2..3
=============================================================================
