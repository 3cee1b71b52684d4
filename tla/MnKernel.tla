------------------------------- MODULE MnKernel -------------------------------
(***************************************************************************)
(* The network stack of the mobile node's host, as the daemon drives it    *)
(* through rtnl.h (policy rules and routes) and mn-xfrm.h (UDP             *)
(* encapsulation, destination option), and the messages the daemon sends.  *)
(*                                                                         *)
(* A handler of the daemon makes its calls one after the other: here a     *)
(* call is a value, a handler a sequence of calls, and Do(k, call) the     *)
(* kernel state one call leaves.  A call that fails changes nothing: its   *)
(* caller never looks at the result.                                       *)
(***************************************************************************)
EXTENDS Integers, Sequences

CONSTANTS
  Ifindex,    \* the interfaces of the host the daemon may hear of
  CoaV4,      \* IPv4 care-of addresses
  CoaV6,      \* IPv6 care-of addresses
  HoaV6,      \* hoav6, the IPv6 home address
  HoaV4,      \* hoav4, the IPv4 home address
  None        \* no address: 0.0.0.0, ::, no tunnel, no route

ASSUME IfindexAssumption == Ifindex \subseteq Nat \ {0}

ASSUME AddressAssumption ==
  /\ CoaV4 \intersect CoaV6 = {}
  /\ {HoaV6, HoaV4, None} \intersect (CoaV4 \union CoaV6) = {}
  /\ HoaV6 # HoaV4 /\ HoaV6 # None /\ HoaV4 # None
  /\ {"any4", "any6"} \intersect (CoaV4 \union CoaV6 \union {HoaV6, HoaV4, None}) = {}

Coa    == CoaV4 \union CoaV6
Family == {"v4", "v6"}

\* A rule sends the packets of a source to a table: a care-of address to the
\* main table (254, priority 870; 250 for some deletions), everything to the
\* temporary table (251, priority 887) or the mobile one (252, 888).
RuleTable  == {"main", "250", "tmp", "mobile"}
RouteTable == {"tmp", "mobile"}
AnySrc     == [f \in Family |-> IF f = "v4" THEN "any4" ELSE "any6"]
SrcV4      == CoaV4 \union {"any4"}
Src        == SrcV4 \union CoaV6 \union {"any6"}

\* A tunnel to the home agent is known by its near end: the pair of tunnels
\* 64 and 44 of an IPv4 address, or the tunnel 66 of an IPv6 address.
Kernel ==
  [ rule   : [RuleTable \X Src -> Nat],
    route  : [RouteTable \X Family -> Coa \union {None}],  \* default routes
    sa     : SUBSET CoaV4,             \* xfrm states of UDP encapsulation
    pol    : CoaV4 \union {None},      \* xfrm policies of the home addresses
    dstopt : CoaV6 \union {None},      \* home address option of updates
    said   : Coa \union {HoaV6, None} ]          \* last binding update sent

KernelInit ==
  [ rule   |-> [x \in RuleTable \X Src |-> 0],
    route  |-> [x \in RouteTable \X Family |-> None],
    sa     |-> {},
    pol    |-> None,
    dstopt |-> None,
    said   |-> None ]

-------------------------------------------------------------------------------
(* Rules and routes.  change_iprule passes NLM_F_EXCL and rule_mod does    *)
(* not: an IPv6 rule that exists is added a second time.                   *)

RuleAdd(k, t, s) ==
  IF s \in SrcV4 THEN [k EXCEPT !.rule[<<t, s>>] = 1]
                 ELSE [k EXCEPT !.rule[<<t, s>>] = @ + 1]

\* Mutant: a rule that is not there is taken away as well.
RuleDel_Blind(k, t, s) == IF s \in Src THEN [k EXCEPT !.rule[<<t, s>>] = @ - 1] ELSE k

\* No rule has another source, such as 0.0.0.0/32 or the home address.
RuleDel(k, t, s) ==
  IF s \in Src /\ k.rule[<<t, s>>] > 0 THEN [k EXCEPT !.rule[<<t, s>>] = @ - 1] ELSE k

\* Both families pass NLM_F_EXCL: a second default route is refused.
RouteAdd(k, t, f, tnl) ==
  IF k.route[<<t, f>>] = None THEN [k EXCEPT !.route[<<t, f>>] = tnl] ELSE k

\* A deletion matches by device and ignores the source prefix it names; device
\* 0 matches every route.
RouteDel(k, t, f, tnl) ==
  IF tnl \in {k.route[<<t, f>>], None} THEN [k EXCEPT !.route[<<t, f>>] = None] ELSE k

-------------------------------------------------------------------------------
(* UDP encapsulation of the home addresses from care-of address c.         *)

\* Mutant: the state stays.
stop_udp_encap_PolicyOnly(k, c) == [k EXCEPT !.pol = None]

stop_udp_encap(k, c) == [k EXCEPT !.pol = None, !.sa = @ \ {c}]

\* The state first: if it exists nothing more is done.  If a policy exists
\* everything is undone.
start_udp_encap(k, c) ==
  IF c \in k.sa THEN k
  ELSE IF k.pol # None THEN stop_udp_encap(k, c)
  ELSE [k EXCEPT !.pol = c, !.sa = @ \union {c}]

\* The policy and the state that put the home address option, with care-of
\* address c, into binding updates.
mn_dstopt_policies_add(k, c) ==
  IF k.dstopt = None THEN [k EXCEPT !.dstopt = c] ELSE k

-------------------------------------------------------------------------------
(* The calls. *)

Do(k, call) ==
  CASE call[1] = "rule_add"   -> RuleAdd(k, call[2], call[3])
    [] call[1] = "rule_del"   -> RuleDel(k, call[2], call[3])
    [] call[1] = "route_add"  -> RouteAdd(k, call[2], call[3], call[4])
    [] call[1] = "route_del"  -> RouteDel(k, call[2], call[3], call[4])
    [] call[1] = "encap"      -> start_udp_encap(k, call[2])
    [] call[1] = "decap"      -> stop_udp_encap(k, call[2])
    [] call[1] = "dstopt_add" -> mn_dstopt_policies_add(k, call[2])
    [] call[1] = "dstopt_del" -> [k EXCEPT !.dstopt = None]
    [] call[1] = "probe"      -> k    \* nat_probe_send leaves nothing here
    [] call[1] = "bu"         -> [k EXCEPT !.said = call[2]]
    [] call[1] = "tnl_cleanup" ->
         [k EXCEPT !.route = [x \in RouteTable \X Family |-> None]]

\* The two default routes into a tunnel, IPv4 first.
RoutesAdd(t, tnl) == << <<"route_add", t, "v4", tnl>>, <<"route_add", t, "v6", tnl>> >>
RoutesDel(t, tnl) == << <<"route_del", t, "v4", tnl>>, <<"route_del", t, "v6", tnl>> >>

\* The two rules that send everything to table t.
RulesAdd(t) == << <<"rule_add", t, "any4">>, <<"rule_add", t, "any6">> >>
RulesDel(t) == << <<"rule_del", t, "any4">>, <<"rule_del", t, "any6">> >>

\* The tunnel the traffic of the home address of family f takes: the rules are
\* tried in the order of their priorities.
Path(k, f) ==
  IF k.rule[<<"tmp", AnySrc[f]>>] > 0 /\ k.route[<<"tmp", f>>] # None
  THEN k.route[<<"tmp", f>>]
  ELSE IF k.rule[<<"mobile", AnySrc[f]>>] > 0 THEN k.route[<<"mobile", f>>] ELSE None
===============================================================================
