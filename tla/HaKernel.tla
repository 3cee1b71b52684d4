------------------------------- MODULE HaKernel -------------------------------
(***************************************************************************)
(* The network stack of the home agent's host, as the daemon drives it     *)
(* through tunlctl.h (ioctls on tunl0, sit0 and ip6tnl0), rtnl.h (routes   *)
(* and policy rules) and ha-xfrm.h (UDP encapsulation towards a NAT).      *)
(*                                                                         *)
(* Every operator maps a kernel state to the state one call leaves.  A     *)
(* call that fails changes nothing, except that a tunnel may have been     *)
(* created: its caller never looks at the result.                          *)
(***************************************************************************)
EXTENDS Integers

CONSTANTS
  MN,         \* the mobile nodes of conf/mnlist.txt
  CoaV4,      \* IPv4 care-of addresses
  CoaV6,      \* IPv6 care-of addresses
  NatIP,      \* public addresses of NAT boxes
  Port,       \* UDP ports
  DPORT,      \* DSMIP_UDP_DPORT (666), the port a mobile node sends from
  Dev,        \* interface indexes tunnel devices get
  MayFail,    \* what may fail: "create", SIOCADDTUNNEL; "flags", a call after
              \* it that brings the device up or looks up its index
  Unspec      \* the unspecified address, 0.0.0.0 or ::

ASSUME DevAssumption ==
  /\ Dev \subseteq Nat \ {0}
  /\ MayFail \subseteq {"create", "flags"}

ASSUME PortAssumption == Port \subseteq Nat \ {0} /\ DPORT \in Port

ASSUME AddressAssumption ==
  /\ Unspec \notin CoaV4 \union CoaV6 \union NatIP
  /\ CoaV4 \intersect CoaV6 = {}
  /\ NatIP \intersect CoaV4 = {}

Coa    == CoaV4 \union CoaV6
IPv4   == CoaV4 \union NatIP
Family == {"v4", "v6"}
Kind   == {"44", "64", "66"}
Table  == {"main", "tmp"}   \* ROUTE_MOBILE (252) and ROUTE_MOBILE_TMP (251)

\* A tunnel is identified by its type and its far end: the near end is always
\* the home agent.  The interface index is what the daemon remembers.
NoDev  == 0     \* no tunnel recorded, or no route
FAILED == -1    \* what tunnelXX_add returns on an error

TunnelEnd == [kind : Kind \union {"free"}, remote : Coa \union {Unspec}]
Free      == [kind |-> "free", remote |-> Unspec]

\* The source of a UDP encapsulated packet, as the home agent sees it.
Endpoint  == [ip : IPv4, port : Port]
Direct(c) == [ip |-> c, port |-> DPORT]

Kernel ==
  [ dev   : [Dev -> TunnelEnd],                   \* live tunnel devices
    route : [Table \X MN \X Family -> Dev \union {NoDev}],
    rule  : [MN \X Family -> Nat],                \* rules of priority 887
    sa    : [IPv4 -> Port \union {0}],            \* xfrm state by NAT address
    pol   : [MN -> IPv4 \union {Unspec}] ]        \* xfrm policies by home address

KernelInit ==
  [ dev   |-> [d \in Dev |-> Free],
    route |-> [x \in Table \X MN \X Family |-> NoDev],
    rule  |-> [x \in MN \X Family |-> 0],
    sa    |-> [a \in IPv4 |-> 0],
    pol   |-> [m \in MN |-> Unspec] ]

-------------------------------------------------------------------------------
(* Tunnel devices. *)

Live(k, d) == d \in Dev /\ k.dev[d].kind # "free"

\* What SIOCADDTUNNEL may yield: the device with these ends if there is one,
\* else a new device, or nothing.  The kernel never reuses an index; the model
\* hands out the least one that no device has and that nobody remembers, which
\* is the same up to renaming.
TunnelAddResults(k, remembered, kind, c) ==
  LET same   == {d \in Dev : k.dev[d] = [kind |-> kind, remote |-> c]}
      unused == {d \in Dev : k.dev[d].kind = "free" /\ d \notin remembered}
  IN  (IF same # {} THEN same ELSE {d \in unused : \A e \in unused : d <= e})
        \union (IF "create" \in MayFail THEN {FAILED} ELSE {})

\* What tunnelXX_add then returns: the index or, when the flags cannot be read
\* or set or the index not be found, -1.  The device stays.
Returned(d) == {d} \union (IF "flags" \in MayFail THEN {FAILED} ELSE {})

TunnelAdd(k, d, kind, c) ==
  IF d \in Dev
  THEN [k EXCEPT !.dev = [k.dev EXCEPT ![d] = [kind |-> kind, remote |-> c]]]
  ELSE k

\* Mutant: the routes through a deleted device stay.
TunnelsDel_KeepsRoutes(k, ds) ==
  [k EXCEPT !.dev = [d \in Dev |-> IF d \in ds THEN Free ELSE k.dev[d]]]

\* tunnelXX_del of every index in ds: the routes through a device go with it.
\* The index of a device already gone gives no name to delete, so the ioctl
\* fails.
TunnelsDel(k, ds) ==
  [k EXCEPT
     !.dev   = [d \in Dev |-> IF d \in ds THEN Free ELSE k.dev[d]],
     !.route = [x \in Table \X MN \X Family |->
                  IF k.route[x] \in ds THEN NoDev ELSE k.route[x]]]

-------------------------------------------------------------------------------
(* Routes to a mobile node's two home addresses, and the rules of priority *)
(* RULE_MOBILE_PRIO-1 that make the temporary table win meanwhile.  Routes *)
(* are added with NLM_F_EXCL: a second route to the same address in the    *)
(* same table is refused.  n gives the device of each address family.      *)

RoutesAdd(k, t, m, n) ==
  [k EXCEPT !.route = [x \in Table \X MN \X Family |->
     IF x[1] = t /\ x[2] = m /\ k.route[x] = NoDev /\ Live(k, n[x[3]])
     THEN n[x[3]] ELSE k.route[x]]]

RoutesDel(k, t, m, n) ==
  [k EXCEPT !.route = [x \in Table \X MN \X Family |->
     IF x[1] = t /\ x[2] = m /\ k.route[x] = n[x[3]]
     THEN NoDev ELSE k.route[x]]]

\* change_iprule passes NLM_F_EXCL for IPv4, rule_mod does not for IPv6: an
\* IPv6 rule that exists is added a second time.
RulesAdd(k, m) ==
  [k EXCEPT !.rule = [x \in MN \X Family |->
     IF x[1] # m THEN k.rule[x] ELSE IF x[2] = "v4" THEN 1 ELSE k.rule[x] + 1]]

RulesDel(k, m) ==
  [k EXCEPT !.rule = [x \in MN \X Family |->
     IF x[1] = m /\ k.rule[x] > 0 THEN k.rule[x] - 1 ELSE k.rule[x]]]

-------------------------------------------------------------------------------
(* UDP encapsulation towards the NAT endpoint e of mobile node m: one      *)
(* state, found again by its addresses only, and the policies of the two   *)
(* home addresses, found again by the home address.                        *)

stop_udp_encap(k, m, e) ==
  [k EXCEPT !.pol = [k.pol EXCEPT ![m] = Unspec],
            !.sa  = [k.sa EXCEPT ![e.ip] = 0]]

\* Mutant: the port the probe came from is not used.
start_udp_encap_Port666(k, m, e) ==
  [k EXCEPT !.pol = [k.pol EXCEPT ![m] = e.ip],
            !.sa  = [k.sa EXCEPT ![e.ip] = DPORT]]

\* The state first: if it exists nothing more is done.  If a policy exists
\* everything is undone, with stop_udp_encap.
start_udp_encap(k, m, e) ==
  IF k.sa[e.ip] # 0 THEN k
  ELSE IF k.pol[m] # Unspec THEN stop_udp_encap(k, m, e)
  ELSE [k EXCEPT !.pol = [k.pol EXCEPT ![m] = e.ip],
                 !.sa  = [k.sa EXCEPT ![e.ip] = e.port]]
===============================================================================
