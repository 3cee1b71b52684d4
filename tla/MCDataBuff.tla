------------------------------ MODULE MCDataBuff ------------------------------
(* The constants of the runs of DataBuff. *)
EXTENDS DataBuff, TLC

CONSTANTS m1, m2, x1, x2, b1, b2, b3, b4

\* Cells are interchangeable.
CellsAlike == Permutations(Cell)
===============================================================================
