------------------------------ MODULE HomeAgent ------------------------------
(***************************************************************************)
(* The home agent daemon, ha_working() of ha.c: one thread that waits in   *)
(* select for NAT probes (UDP port 667) and binding updates (mobility      *)
(* header socket), handles one of each in that order, and then removes the *)
(* bindings nobody refreshed.  Between two selects the thread is at pc:    *)
(*                                                                         *)
(*    select -> nat -> bu -> clean -> select        (any of nat, bu absent)*)
(*                                                                         *)
(* A message the thread reads is any message a mobile node may have sent,  *)
(* now or earlier: the network may lose, repeat and reorder them.          *)
(***************************************************************************)
EXTENDS HaKernel

CONSTANTS
  NIF,          \* slots of a node's IPv4 address cache; slot NIF is spare (30)
  Ifindex,      \* interface indexes a mobile node puts into its probes
  LIFETIME,     \* seconds without a binding update before a cleanup (60)
  SEQWIN,       \* width of the window of rejected sequence numbers (10)
  SeqNo,        \* sequence numbers of binding updates (0..65535)
  RuleCap,      \* bound: temporary IPv6 rules a node's moves may leave behind
  MaxWait,      \* bound: seconds one iteration of the loop may take
  Sources       \* Sources[c]: endpoints a packet sent from c may arrive from

ASSUME LoopAssumption ==
  /\ NIF \in Nat /\ NIF > 1
  /\ LIFETIME \in Nat /\ SEQWIN \in Nat
  /\ MaxWait \in Nat /\ RuleCap \in Nat
  /\ SeqNo \subseteq Nat /\ 0 \in SeqNo
  /\ Sources \in [CoaV4 -> SUBSET Endpoint]

VARIABLES
  pc,    \* where the thread is in its loop
  more,  \* select also reported a binding update, not read yet
  mns,   \* the table of mobile nodes (struct _mn mns[])
  k,     \* the kernel
  ba     \* binding acknowledgements sent in this iteration

vars == <<pc, more, mns, k, ba>>

NoNat == [ip |-> Unspec, port |-> 0]     \* in_nat = 0: natv4 is never read

\* struct _mn, without the fields nothing reads.  natv4, nat_port and in_nat
\* are one entry of nat; NIF_MAP and nnif are the sequence nifmap.
Slot    == 0 .. NIF
Active  == -1 .. NIF            \* 0 home, -1 IPv6, else the slot in use
Age     == 0 .. LIFETIME + 1
CoaTab  == [Slot -> CoaV4 \union {Unspec}]
NatTab  == [Slot -> Endpoint \union {NoNat}]
IfMap   == [1 .. NIF -> Ifindex \union {0}]
Tunnels == [Kind -> Dev \union {NoDev, FAILED}]

MnRecord ==
  [ active : Active,
    coav4  : CoaTab,
    nat    : NatTab,
    nnif   : Slot,
    nifmap : IfMap,
    coav6  : CoaV6 \union {Unspec},
    tnl    : Tunnels,
    seq    : SeqNo,          \* last_bu_seq
    age    : Age ]           \* now - last_bu_t, capped

Ack == [mn : MN, seq : SeqNo, coa : Coa]

TypeOK ==
  /\ pc \in {"select", "nat", "bu", "clean", "end"}
  /\ more \in BOOLEAN
  /\ mns \in [MN -> MnRecord]
  /\ k \in Kernel
  /\ ba \in SUBSET Ack

\* mn_list_init: everything zero, so that a node looks as old as the host.
Init ==
  /\ pc = "select" /\ more = FALSE
  /\ \E uptime \in Age :
       mns = [m \in MN |->
               [ active |-> 0,
                 coav4  |-> [i \in Slot |-> Unspec],
                 nat    |-> [i \in Slot |-> NoNat],
                 nnif   |-> 0,
                 nifmap |-> [i \in 1 .. NIF |-> 0],
                 coav6  |-> Unspec,
                 tnl    |-> [t \in Kind |-> NoDev],
                 seq    |-> 0,
                 age    |-> uptime ]]
  /\ k = KernelInit
  /\ ba = {}

-------------------------------------------------------------------------------
(* Reading a node's record. *)

ViaNat(r) == r.active > 0 /\ r.nat[r.active] # NoNat

\* Mutant: the tunnel for the IPv6 home address over IPv4 is overlooked.
OldTunnels_No64(r) ==
  (IF r.active < 0 THEN {r.tnl["66"]}
   ELSE IF r.active > 0 THEN {r.tnl["44"]} ELSE {}) \intersect Dev

\* The devices the record points to.
OldTunnels(r) ==
  (IF r.active < 0 THEN {r.tnl["66"]}
   ELSE IF r.active > 0 THEN {r.tnl["44"], r.tnl["64"]} ELSE {}) \intersect Dev

\* tnl of the record once OldTunnels are deleted.
Forgotten(r) ==
  [t \in Kind |-> IF (r.active < 0 /\ t = "66") \/ (r.active > 0 /\ t # "66")
                  THEN NoDev ELSE r.tnl[t]]

\* Every index some record holds, live or not.
Remembered == {mns[m].tnl[t] : m \in MN, t \in Kind}

\* The care-of address traffic for the node is to be sent to.
Binding(r) == IF r.active < 0 THEN r.coav6
              ELSE IF r.active > 0 THEN r.coav4[r.active] ELSE Unspec

Stale(m, q) == mns[m].seq > q /\ mns[m].seq - q < SEQWIN

\* The search of the handler: the first slot before NIF that holds c.
Holds(r, c) == {i \in 0 .. NIF - 1 : r.coav4[i] = c}
FoundAt(r, c, i) == i \in Holds(r, c) /\ \A j \in Holds(r, c) : i <= j

-------------------------------------------------------------------------------
(* The loop. *)

\* select returns after at most a second, but the previous iteration may have
\* taken longer (getnatsrc waits for a packet), so any time has passed.
Select ==
  /\ pc = "select"
  /\ \E d \in 0 .. MaxWait :
       mns' = [m \in MN |-> [mns[m] EXCEPT !.age =
                 IF @ + d > LIFETIME THEN LIFETIME + 1 ELSE @ + d]]
  /\ \E nat, bu \in BOOLEAN :
       /\ pc' = IF nat THEN "nat" ELSE IF bu THEN "bu" ELSE "clean"
       /\ more' = bu
  /\ ba' = {}
  /\ UNCHANGED k

AfterNat == pc' = (IF more THEN "bu" ELSE "clean")

\* nif_map: the slot of an interface is its position in NIF_MAP, or the next
\* free one.
SlotOf(r, x) ==
  {i \in 1 .. r.nnif : r.nifmap[i] = x /\ \A j \in 1 .. i - 1 : r.nifmap[j] # x}
    \union (IF \E i \in 1 .. r.nnif : r.nifmap[i] = x THEN {} ELSE {r.nnif + 1})

\* The interface is noted while there is room for it, usable slot or not.
NoteIface(r, x, s) ==
  IF s <= NIF /\ s = r.nnif + 1
  THEN [r EXCEPT !.nifmap = [r.nifmap EXCEPT ![s] = x], !.nnif = s]
  ELSE r

\* Mutants: only the address is compared; the spare slot is one further.
SaveActive_AddressOnly(r, s, c, e) ==
  IF r.active = s /\ r.coav4[s] # c
  THEN [r EXCEPT !.coav4 = [r.coav4 EXCEPT ![NIF] = r.coav4[s]],
                 !.nat   = [r.nat EXCEPT ![NIF] = r.nat[s]],
                 !.active = NIF]
  ELSE r

SaveActive_OffByOne(r, s, c, e) ==
  IF r.active = s /\ r.coav4[s] # c THEN [r EXCEPT !.active = NIF + 1] ELSE r

\* A probe for the address in use that changes what is known about it: the
\* old facts move to the spare slot, where the binding now points.
SaveActive(r, s, c, e) ==
  IF r.active = s /\ (r.coav4[s] # c \/ r.nat[s] \notin {NoNat, e})
  THEN [r EXCEPT !.coav4 = [r.coav4 EXCEPT ![NIF] = r.coav4[s]],
                 !.nat   = [r.nat EXCEPT ![NIF] = r.nat[s]],
                 !.active = NIF]
  ELSE r

\* A NAT probe of node m for address c of its interface x; the sniffed packet
\* came from e.
NatProbe(m, x, c, e) ==
  /\ pc = "nat"
  /\ \E s \in SlotOf(mns[m], x) :
       LET noted == NoteIface(mns[m], x, s)
           saved == SaveActive(noted, s, c, e)
           known == [saved EXCEPT
                       !.coav4 = [saved.coav4 EXCEPT ![s] = c],
                       !.nat   = [saved.nat EXCEPT
                                    ![s] = IF e = Direct(c) THEN NoNat ELSE e]]
       IN  mns' = [mns EXCEPT ![m] = IF s < NIF THEN known ELSE noted]
  /\ AfterNat
  /\ UNCHANGED <<more, k, ba>>

\* A malformed probe, or no packet from port 666 for PASSTIME_USEC.
NatSkip ==
  /\ pc = "nat"
  /\ AfterNat
  /\ UNCHANGED <<more, mns, k, ba>>

-------------------------------------------------------------------------------
(* Binding updates: node, sequence number q, care-of address c. *)

\* recvbu fails, or the home address is not in the list.
BuIgnored ==
  /\ pc = "bu" /\ pc' = "clean"
  /\ UNCHANGED <<more, mns, k, ba>>

\* Out of sequence: "continue", which skips the cleanup of this iteration.
BuStale(m, q) ==
  /\ pc = "bu" /\ pc' = "select"
  /\ Stale(m, q)
  /\ UNCHANGED <<more, mns, k, ba>>

Accept(m, q) ==
  /\ pc = "bu" /\ pc' = "clean"
  /\ ~Stale(m, q)

Seen(r, q) == [r EXCEPT !.seq = q, !.age = 0]

\* The IPv4 address was in no probe: refused, but the sequence number and the
\* time of the update count.
BuV4Unknown(m, q, c) ==
  /\ Accept(m, q)
  /\ Holds(mns[m], c) = {}
  /\ mns' = [mns EXCEPT ![m] = Seen(@, q)]
  /\ UNCHANGED <<more, k, ba>>

BuV4Refresh(m, q, c) ==
  /\ Accept(m, q)
  /\ FoundAt(mns[m], c, mns[m].active)
  /\ mns' = [mns EXCEPT ![m] = Seen(@, q)]
  /\ ba' = {[mn |-> m, seq |-> q, coa |-> c]}
  /\ UNCHANGED <<more, k>>

\* The node's record once it is bound through the devices of n.
BoundV4(r, i, n) ==
  [r EXCEPT !.active = i,
            !.tnl = [t \in Kind |-> CASE t = "44" -> n["v4"]
                                      [] t = "64" -> n["v6"]
                                      [] OTHER -> Forgotten(r)["66"]]]

BoundV6(r, c, n) ==
  [r EXCEPT !.active = -1, !.coav6 = c,
            !.tnl = [t \in Kind |-> IF t = "66" THEN n["v6"]
                                    ELSE Forgotten(r)[t]]]

\* Mutant: the new main routes are added while the old ones are there.
Move_RoutesFirst(k0, m, n) ==
  LET r  == mns[m]
      k1 == IF r.active # 0 THEN RulesAdd(RoutesAdd(k0, "tmp", m, n), m) ELSE k0
      k2 == TunnelsDel(RoutesAdd(k1, "main", m, n), OldTunnels(r))
  IN  IF ViaNat(r) THEN stop_udp_encap(k2, m, r.nat[r.active]) ELSE k2

\* The kernel calls of a move to new tunnels n: the temporary routes carry the
\* traffic while the old tunnels go and the main routes are replaced.
Move(k0, m, n) ==
  LET r  == mns[m]
      k1 == IF r.active # 0 THEN RulesAdd(RoutesAdd(k0, "tmp", m, n), m) ELSE k0
      k2 == TunnelsDel(k1, OldTunnels(r))
      k3 == RoutesAdd(k2, "main", m, n)
  IN  IF ViaNat(r) THEN stop_udp_encap(k3, m, r.nat[r.active]) ELSE k3

EndMove(k0, m, n) == RoutesDel(RulesDel(k0, m), "tmp", m, n)

\* Node m is bound through slot i and the tunnels of indexes n, which k1 has.
ThroughV4(m, q, i, k1, n) ==
  LET r  == mns[m]
      k2 == Move(k1, m, n)
      k3 == IF r.active # 0 THEN EndMove(k2, m, n) ELSE k2
  IN  /\ k' = IF r.nat[i] # NoNat THEN start_udp_encap(k3, m, r.nat[i]) ELSE k3
      /\ mns' = [mns EXCEPT ![m] = Seen(BoundV4(r, i, n), q)]

\* A move to the IPv4 address of slot i (next_v4_process).
BuV4Move(m, q, c) ==
  /\ Accept(m, q)
  /\ \E i \in 0 .. NIF - 1 :
     \E d64 \in TunnelAddResults(k, Remembered, "64", c) :
     \E d44 \in TunnelAddResults(TunnelAdd(k, d64, "64", c),
                                 Remembered \union {d64}, "44", c) :
     \E i64 \in Returned(d64) : \E i44 \in Returned(d44) :
       /\ FoundAt(mns[m], c, i) /\ mns[m].active # i
       /\ ThroughV4(m, q, i, TunnelAdd(TunnelAdd(k, d64, "64", c), d44, "44", c),
                    [f \in Family |-> IF f = "v4" THEN i44 ELSE i64])
  /\ ba' = {[mn |-> m, seq |-> q, coa |-> c]}
  /\ UNCHANGED more

BuV6Refresh(m, q, c) ==
  /\ Accept(m, q)
  /\ mns[m].active < 0 /\ mns[m].coav6 = c
  /\ mns' = [mns EXCEPT ![m] = Seen(@, q)]
  /\ ba' = {[mn |-> m, seq |-> q, coa |-> c]}
  /\ UNCHANGED <<more, k>>

\* A move to an IPv6 address.  Coming from behind a NAT, the encapsulation is
\* removed instead of the temporary routes and rules.
BuV6Move(m, q, c) ==
  /\ Accept(m, q)
  /\ ~(mns[m].active < 0 /\ mns[m].coav6 = c)
  /\ ViaNat(mns[m]) => k.rule[<<m, "v6">>] < RuleCap
  /\ \E d \in TunnelAddResults(k, Remembered, "66", c) : \E index \in Returned(d) :
       LET r  == mns[m]
           n  == [f \in Family |-> index]
           k1 == Move(TunnelAdd(k, d, "66", c), m, n)
       IN  /\ k' = IF r.active # 0 /\ ~ViaNat(r) THEN EndMove(k1, m, n) ELSE k1
           /\ mns' = [mns EXCEPT ![m] = Seen(BoundV6(r, c, n), q)]
  /\ ba' = {[mn |-> m, seq |-> q, coa |-> c]}
  /\ UNCHANGED more

\* The care-of address is the home address; nothing is acknowledged.
BuHome(m, q) ==
  /\ Accept(m, q)
  /\ LET r  == mns[m]
         k1 == IF ViaNat(r) THEN stop_udp_encap(k, m, r.nat[r.active]) ELSE k
     IN  /\ k' = TunnelsDel(k1, OldTunnels(r))
         /\ mns' = [mns EXCEPT ![m] =
                      Seen([r EXCEPT !.active = 0, !.tnl = Forgotten(r)], q)]
  /\ UNCHANGED <<more, ba>>

-------------------------------------------------------------------------------
(* mn_state_cleanup for every node of a set. *)

CleanKernel(ms) ==
  LET nats == {m \in ms : ViaNat(mns[m])}
      ips  == {mns[m].nat[mns[m].active].ip : m \in nats}
      k1   == [k EXCEPT
                 !.pol = [m \in MN |-> IF m \in nats THEN Unspec ELSE k.pol[m]],
                 !.sa  = [a \in IPv4 |-> IF a \in ips THEN 0 ELSE k.sa[a]]]
  IN  TunnelsDel(k1, UNION {OldTunnels(mns[m]) : m \in ms})

\* Mutant: last_bu_seq is not reset.
CleanRecord_KeepsSeq(r) ==
  [r EXCEPT !.active = 0, !.tnl = Forgotten(r),
            !.nnif = 0, !.nifmap = [i \in 1 .. NIF |-> 0],
            !.coav4 = [i \in Slot |-> IF i < NIF THEN Unspec ELSE @[i]]]

\* nat, coav6 and the address in the spare slot stay as they were.
CleanRecord(r) ==
  [r EXCEPT !.active = 0, !.tnl = Forgotten(r), !.seq = 0,
            !.nnif = 0, !.nifmap = [i \in 1 .. NIF |-> 0],
            !.coav4 = [i \in Slot |-> IF i < NIF THEN Unspec ELSE @[i]]]

CleanAll(ms) ==
  /\ k' = CleanKernel(ms)
  /\ mns' = [m \in MN |-> IF m \in ms THEN CleanRecord(mns[m]) ELSE mns[m]]

Clean ==
  /\ pc = "clean" /\ pc' = "select"
  /\ CleanAll({m \in MN : mns[m].age > LIFETIME})
  /\ UNCHANGED <<more, ba>>

\* SIGINT cleared keepworking: the loop ends and every binding is removed.
Exit ==
  /\ pc = "select" /\ pc' = "end"
  /\ CleanAll(MN)
  /\ UNCHANGED <<more, ba>>

Ended == pc = "end" /\ UNCHANGED vars

-------------------------------------------------------------------------------
Nat_(m) == \E x \in Ifindex, c \in CoaV4 : \E e \in Sources[c] :
             NatProbe(m, x, c, e)

Bu(m) == \E q \in SeqNo :
  \/ BuStale(m, q)
  \/ \E c \in CoaV4 : BuV4Unknown(m, q, c) \/ BuV4Refresh(m, q, c)
                        \/ BuV4Move(m, q, c)
  \/ \E c \in CoaV6 : BuV6Refresh(m, q, c) \/ BuV6Move(m, q, c)
  \/ BuHome(m, q)

Next ==
  \/ Select \/ NatSkip \/ BuIgnored \/ Clean \/ Exit \/ Ended
  \/ \E m \in MN : Nat_(m) \/ Bu(m)

Spec == Init /\ [][Next]_vars

-------------------------------------------------------------------------------
(* Properties. *)

\* The kind of tunnel that carries a family, and the device the record names.
Carrier(r, f) == IF r.active < 0 THEN "66" ELSE IF f = "v4" THEN "44" ELSE "64"

\* Wherever a route for a node's home address is left, in the main or in the
\* temporary table, it leads into the tunnel the node's record names, and that
\* tunnel ends at the care-of address the node is bound to: a packet is never
\* sent to an address the node has left, even while probes rewrite the slot
\* the binding came from.
TrafficFollowsBinding ==
  \A t \in Table, m \in MN, f \in Family :
    LET d == k.route[<<t, m, f>>] IN
    d # NoDev => /\ d = mns[m].tnl[Carrier(mns[m], f)]
                 /\ k.dev[d].remote = Binding(mns[m])

\* Every tunnel device ends at the binding of some node that remembers it, so
\* the cleanup of that node can delete it: no device outlives the bindings.
\* It holds as long as tunnelXX_add fails, if it does, before the device is
\* there (MayFail without "flags").
NoOrphanTunnel ==
  \A d \in Dev : Live(k, d) =>
    \E m \in MN : /\ mns[m].active # 0
                  /\ mns[m].tnl[k.dev[d].kind] = d
                  /\ k.dev[d].remote = Binding(mns[m])

\* UDP encapsulation is installed only towards the NAT box of a node bound
\* through it, and the record still holds the endpoint it was installed with,
\* so that it can be removed.
EncapFollowsBinding ==
  /\ \A m \in MN : k.pol[m] # Unspec =>
       ViaNat(mns[m]) /\ mns[m].nat[mns[m].active].ip = k.pol[m]
  /\ \A a \in IPv4 : k.sa[a] # 0 =>
       \E m \in MN : /\ k.pol[m] = a
                     /\ mns[m].nat[mns[m].active] = [ip |-> a, port |-> k.sa[a]]

\* When an update is acknowledged the node is reachable at the address the
\* acknowledgement is about: both home addresses have a main route.
AckedIsRouted ==
  \A a \in ba, f \in Family :
    pc = "clean" => k.route[<<"main", a.mn, f>>] # NoDev

\* A node that moves to another address is reachable there as soon as it is
\* bound there: the main routes of its old tunnels never keep the new ones out.
MoveIsRouted ==
  [][\A m \in MN, f \in Family :
       (Binding(mns'[m]) # Binding(mns[m]) /\ mns'[m].active # 0) =>
         k'.route[<<"main", m, f>>] # NoDev]_vars

\* When the acknowledged node's packets come from behind a NAT, its traffic is
\* encapsulated for that NAT, to the port the node's probe came from.
AckedIsEncapsulated ==
  \A a \in ba :
    LET r == mns[a.mn]
        e == r.nat[r.active]
    IN  (pc = "clean" /\ ViaNat(r)) => (k.pol[a.mn] = e.ip /\ k.sa[e.ip] = e.port)

\* Between two iterations no temporary rule or route is left.
NoTemporaryResidue ==
  pc = "select" =>
    \A m \in MN, f \in Family :
      k.rule[<<m, f>>] = 0 /\ k.route[<<"tmp", m, f>>] = NoDev

\* The daemon is a binding cache: in particular no probe, lost, repeated or
\* late, changes where a node is bound.
Cache == INSTANCE BindingCache WITH
  Home <- Unspec,
  bind <- [m \in MN |-> Binding(mns[m])],
  last <- [m \in MN |-> mns[m].seq],
  age  <- [m \in MN |-> mns[m].age],
  ack  <- ba

ImplementsCache == Cache!Spec
===============================================================================
