----------------------------- MODULE MCHomeAgent -----------------------------
(* The constants of the runs of HomeAgent. *)
EXTENDS HomeAgent, TLC

CONSTANTS c1, c2, box1

\* The ports of box1 behind which a mobile node may appear.
Mapping(p) == [ip |-> box1, port |-> p]

\* A NAT box may forget the port it chose and choose another (c1), and an
\* address may be used with and without a NAT on the path (c2).
AnySource ==
  [c \in CoaV4 |-> IF c = c1 THEN {Mapping(DPORT), Mapping(DPORT + 1)}
                   ELSE {Direct(c), Mapping(DPORT + 1)}]

\* NAT boxes that keep the port they chose.
SteadySource ==
  [c \in CoaV4 |-> IF c = c1 THEN {Mapping(DPORT + 1)} ELSE {Direct(c)}]

\* One address behind a NAT box that chooses a new port.
RebindSource == [c \in CoaV4 |-> {Mapping(DPORT), Mapping(DPORT + 1)}]

\* No NAT on any path.
PlainSource == [c \in CoaV4 |-> {Direct(c)}]

Interchangeable == Permutations(MN)
===============================================================================
