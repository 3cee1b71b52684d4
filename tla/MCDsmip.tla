------------------------------- MODULE MCDsmip --------------------------------
(* The constants of the runs of Dsmip. *)
EXTENDS Dsmip

CONSTANTS a1, c1

\* No NAT on the path: the endpoints are the subject of module HomeAgent.
Plain == [c \in CoaV4 |-> {[ip |-> c, port |-> DPORT]}]

\* WLAN alone, at home and away.
HomeAndAway == {<<1, HoaV6>>, <<1, c1>>, <<1, a1>>}
===============================================================================
