---------------------------- MODULE MCCtlThreads ------------------------------
(* The constants of the runs of CtlThreads. *)
EXTENDS CtlThreads

CONSTANTS m1, m2, m3
===============================================================================
