----------------------------- MODULE MCTunnelPool -----------------------------
(* The constants of the runs of TunnelPool. *)
EXTENDS TunnelPool

CONSTANTS a1, a2, a3, a4, l1, l2

\* Every address belongs to one interface.
OneLinkEach == {<<a1, l1>>, <<a2, l1>>, <<a3, l2>>, <<a4, l2>>}
===============================================================================
