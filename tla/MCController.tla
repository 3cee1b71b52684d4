----------------------------- MODULE MCController -----------------------------
(* The constants of the runs of Controller. *)
EXTENDS Controller, TLC

CONSTANTS n1, n2
===============================================================================
