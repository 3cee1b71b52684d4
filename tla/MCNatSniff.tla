------------------------------ MODULE MCNatSniff ------------------------------
(* The constants of the run of NatSniff. *)
EXTENDS NatSniff

CONSTANTS n1, s1, i1, e1, e2
===============================================================================
