--------------------------- MODULE HomeAgentProofs ---------------------------
(***************************************************************************)
(* The invariants of HomeAgent and its implementation of BindingCache,     *)
(* for every value of the constants.                                       *)
(***************************************************************************)
EXTENDS HomeAgent, TLAPS

-------------------------------------------------------------------------------
(* What the kernel calls of HaKernel preserve and change. *)

USE DEF NoDev, FAILED

\* tunnelXX_add returns an interface index of a tunnel device or -1.
LEMMA AddResultType ==
  ASSUME NEW q, NEW rem, NEW kind, NEW c,
         NEW d \in TunnelAddResults(q, rem, kind, c)
  PROVE  d \in Dev \union {FAILED}
BY DEF TunnelAddResults

\* What it returns for a device it got is that device's index or -1.
LEMMA ReturnedType ==
  ASSUME NEW d \in Dev \union {FAILED}, NEW i \in Returned(d)
  PROVE  /\ i \in Dev \union {FAILED}
         /\ i # d => i = FAILED /\ "flags" \in MayFail
BY DEF Returned

\* Adding a device, or failing to, leaves a kernel state.
LEMMA TunnelAddType ==
  ASSUME NEW q \in Kernel, NEW d \in Dev \union {FAILED},
         NEW kind \in Kind, NEW c \in Coa
  PROVE  TunnelAdd(q, d, kind, c) \in Kernel
BY DEF TunnelAdd, Kernel, TunnelEnd

\* Deleting devices leaves a kernel state.
LEMMA TunnelsDelType ==
  ASSUME NEW q \in Kernel, NEW ds
  PROVE  TunnelsDel(q, ds) \in Kernel
BY DEF TunnelsDel, Kernel, TunnelEnd, Free

\* Routes only ever lead to devices, since a dead one is refused.
LEMMA RoutesAddType ==
  ASSUME NEW q \in Kernel, NEW t \in Table, NEW m \in MN, NEW n
  PROVE  RoutesAdd(q, t, m, n) \in Kernel
BY DEF RoutesAdd, Kernel, Live

\* Deleting routes leaves a kernel state.
LEMMA RoutesDelType ==
  ASSUME NEW q \in Kernel, NEW t \in Table, NEW m \in MN, NEW n
  PROVE  RoutesDel(q, t, m, n) \in Kernel
BY DEF RoutesDel, Kernel

\* The count of rules of a node stays a natural number.
LEMMA RulesType ==
  ASSUME NEW q \in Kernel, NEW m \in MN
  PROVE  RulesAdd(q, m) \in Kernel /\ RulesDel(q, m) \in Kernel
<1>. \A x \in MN \X Family : q.rule[x] \in Nat
  BY DEF Kernel
<1>1. RulesAdd(q, m).rule \in [MN \X Family -> Nat]
  BY DEF RulesAdd, Kernel
<1>2. RulesDel(q, m).rule \in [MN \X Family -> Nat]
  <2>. \A i \in Nat : i > 0 => i - 1 \in Nat
    OBVIOUS
  <2>. QED  BY DEF RulesDel, Kernel
<1>. QED  BY <1>1, <1>2 DEF RulesAdd, RulesDel, Kernel

\* Removing an encapsulation leaves a kernel state.
LEMMA StopEncapType ==
  ASSUME NEW q \in Kernel, NEW m \in MN, NEW e \in Endpoint
  PROVE  stop_udp_encap(q, m, e) \in Kernel
BY DEF stop_udp_encap, Kernel

\* Installing an encapsulation, or undoing it halfway, leaves a kernel state.
LEMMA StartEncapType ==
  ASSUME NEW q \in Kernel, NEW m \in MN, NEW e \in Endpoint
  PROVE  start_udp_encap(q, m, e) \in Kernel
BY StopEncapType DEF start_udp_encap, Kernel, Endpoint

\* The kernel the daemon starts with is a kernel state.
LEMMA KernelInitType == KernelInit \in Kernel
BY DEF KernelInit, Kernel, TunnelEnd, Free

-------------------------------------------------------------------------------
(* What the calls do to devices and routes. *)

\* A device that is added has the ends asked for, and a live device keeps its
\* own: tunnelXX_add returns a device in use only if it has the same ends.
LEMMA TunnelAddEffect ==
  ASSUME NEW q \in Kernel, NEW rem, NEW kind \in Kind, NEW c \in Coa,
         NEW n \in TunnelAddResults(q, rem, kind, c)
  PROVE  LET q1 == TunnelAdd(q, n, kind, c) IN
         /\ q1.route = q.route /\ q1.pol = q.pol /\ q1.sa = q.sa
         /\ \A d \in Dev : Live(q, d) => q1.dev[d] = q.dev[d]
         /\ \A d \in Dev : Live(q1, d) => Live(q, d) \/ d = n
         /\ n \in Dev => q1.dev[n] = [kind |-> kind, remote |-> c]
<1>1. n \in Dev =>
        \/ q.dev[n] = [kind |-> kind, remote |-> c]
        \/ q.dev[n].kind = "free"
  <2>. DEFINE same   == {d \in Dev : q.dev[d] = [kind |-> kind, remote |-> c]}
              unused == {d \in Dev : q.dev[d].kind = "free" /\ d \notin rem}
  <2>1. n \in same \/ n \in unused \/ n = FAILED
    BY DEF TunnelAddResults
  <2>2. FAILED \notin Dev
    BY DevAssumption
  <2>. QED  BY <2>1, <2>2
<1>2. CASE n \notin Dev
  BY <1>2 DEF TunnelAdd, Live
<1>3. CASE n \in Dev
  <2>1. TunnelAdd(q, n, kind, c) =
          [q EXCEPT !.dev = [q.dev EXCEPT ![n] = [kind |-> kind, remote |-> c]]]
    BY <1>3 DEF TunnelAdd
  <2>2. q.dev \in [Dev -> TunnelEnd]
    BY DEF Kernel
  <2>3. /\ TunnelAdd(q, n, kind, c).dev =
             [q.dev EXCEPT ![n] = [kind |-> kind, remote |-> c]]
        /\ TunnelAdd(q, n, kind, c).route = q.route
        /\ TunnelAdd(q, n, kind, c).pol = q.pol
        /\ TunnelAdd(q, n, kind, c).sa = q.sa
    BY <2>1 DEF Kernel
  <2>4. \A d \in Dev : TunnelAdd(q, n, kind, c).dev[d] =
          IF d = n THEN [kind |-> kind, remote |-> c] ELSE q.dev[d]
    BY <2>2, <2>3
  <2>. QED  BY <1>1, <1>3, <2>3, <2>4 DEF Live
<1>. QED  BY <1>2, <1>3

\* A deleted device takes the routes through it along, and nothing else.
LEMMA TunnelsDelEffect ==
  ASSUME NEW q \in Kernel, NEW ds
  PROVE  LET q1 == TunnelsDel(q, ds) IN
         /\ q1.pol = q.pol /\ q1.sa = q.sa
         /\ \A d \in Dev : q1.dev[d] = IF d \in ds THEN Free ELSE q.dev[d]
         /\ \A x \in Table \X MN \X Family :
              q1.route[x] = IF q.route[x] \in ds THEN NoDev ELSE q.route[x]
BY DEF TunnelsDel, Kernel

\* Adding routes changes those of one node only, to live devices.
LEMMA RoutesAddEffect ==
  ASSUME NEW q \in Kernel, NEW t, NEW m, NEW n
  PROVE  LET q1 == RoutesAdd(q, t, m, n) IN
         /\ q1.dev = q.dev /\ q1.pol = q.pol /\ q1.sa = q.sa
         /\ \A x \in Table \X MN \X Family :
              \/ q1.route[x] = q.route[x]
              \/ x[2] = m /\ Live(q, n[x[3]]) /\ q1.route[x] = n[x[3]]
BY DEF RoutesAdd, Kernel

\* Deleting routes changes those of one node only.
LEMMA RoutesDelEffect ==
  ASSUME NEW q \in Kernel, NEW t, NEW m, NEW n
  PROVE  LET q1 == RoutesDel(q, t, m, n) IN
         /\ q1.dev = q.dev /\ q1.pol = q.pol /\ q1.sa = q.sa
         /\ \A x \in Table \X MN \X Family :
              \/ q1.route[x] = q.route[x]
              \/ x[2] = m /\ q1.route[x] = NoDev
BY DEF RoutesDel, Kernel

\* Rules change no device, route or encapsulation.
LEMMA RulesEffect ==
  ASSUME NEW q \in Kernel, NEW m
  PROVE  /\ RulesAdd(q, m).dev = q.dev /\ RulesAdd(q, m).route = q.route
         /\ RulesAdd(q, m).pol = q.pol /\ RulesAdd(q, m).sa = q.sa
         /\ RulesDel(q, m).dev = q.dev /\ RulesDel(q, m).route = q.route
         /\ RulesDel(q, m).pol = q.pol /\ RulesDel(q, m).sa = q.sa
BY DEF RulesAdd, RulesDel, Kernel

\* Removing an encapsulation changes no device and no route.
LEMMA StopEncapEffect ==
  ASSUME NEW q \in Kernel, NEW m \in MN, NEW e \in Endpoint
  PROVE  LET q1 == stop_udp_encap(q, m, e) IN
         /\ q1.dev = q.dev /\ q1.route = q.route
         /\ q1.pol = [q.pol EXCEPT ![m] = Unspec]
         /\ q1.sa = [q.sa EXCEPT ![e.ip] = 0]
BY DEF stop_udp_encap, Kernel

\* With no policy of the node left, the encapsulation is started or there is
\* a state for the same NAT box already.
LEMMA StartEncapEffect ==
  ASSUME NEW q \in Kernel, NEW m \in MN, NEW e \in Endpoint,
         q.pol[m] = Unspec
  PROVE  LET q1 == start_udp_encap(q, m, e) IN
         /\ q1.dev = q.dev /\ q1.route = q.route
         /\ \/ q1.pol = q.pol /\ q1.sa = q.sa
            \/ /\ q1.pol = [q.pol EXCEPT ![m] = e.ip]
               /\ q1.sa = [q.sa EXCEPT ![e.ip] = e.port]
BY DEF start_udp_encap, Kernel

HIDE DEF NoDev, FAILED

USE LoopAssumption

-------------------------------------------------------------------------------
(* What the operators on records return. *)

\* nif_map yields a slot that exists or the next one.
LEMMA SlotType ==
  ASSUME NEW r \in MnRecord, NEW x, NEW s \in SlotOf(r, x)
  PROVE  s \in 1 .. r.nnif + 1
BY DEF SlotOf, MnRecord, Slot

\* Noting an interface keeps the record in its type.
LEMMA NoteIfaceType ==
  ASSUME NEW r \in MnRecord, NEW x \in Ifindex, NEW s \in SlotOf(r, x)
  PROVE  NoteIface(r, x, s) \in MnRecord
<1>1. s <= NIF => s \in Slot
  BY SlotType DEF Slot, MnRecord
<1>2. [r.nifmap EXCEPT ![s] = x] \in IfMap
  BY DEF IfMap, MnRecord
<1>. QED  BY <1>1, <1>2 DEF NoteIface, MnRecord

\* Storing an address in a slot.
LEMMA CoaTabType ==
  ASSUME NEW f \in CoaTab, NEW s, NEW c \in CoaV4 \union {Unspec}
  PROVE  [f EXCEPT ![s] = c] \in CoaTab
BY DEF CoaTab

\* Storing an endpoint in a slot.
LEMMA NatTabType ==
  ASSUME NEW f \in NatTab, NEW s, NEW e \in Endpoint \union {NoNat}
  PROVE  [f EXCEPT ![s] = e] \in NatTab
BY DEF NatTab

\* The spare slot is within the arrays.
LEMMA SaveActiveType ==
  ASSUME NEW r \in MnRecord, NEW s \in Slot, NEW c, NEW e
  PROVE  SaveActive(r, s, c, e) \in MnRecord
<1>1. /\ r.coav4[s] \in CoaV4 \union {Unspec}
      /\ r.nat[s] \in Endpoint \union {NoNat}
  BY DEF MnRecord, CoaTab, NatTab
<1>2. /\ [r.coav4 EXCEPT ![NIF] = r.coav4[s]] \in CoaTab
      /\ [r.nat EXCEPT ![NIF] = r.nat[s]] \in NatTab
  BY <1>1, CoaTabType, NatTabType DEF MnRecord
<1>3. NIF \in Active
  BY DEF Active
<1>. QED  BY <1>2, <1>3 DEF SaveActive, MnRecord

\* The device indexes left after the old ones are forgotten.
LEMMA ForgottenType ==
  ASSUME NEW r \in MnRecord
  PROVE  Forgotten(r) \in Tunnels
BY DEF Forgotten, MnRecord, Tunnels

\* A record bound to an IPv4 address is a record.
LEMMA BoundV4Type ==
  ASSUME NEW r \in MnRecord, NEW i \in 0 .. NIF - 1,
         NEW n \in [Family -> Dev \union {FAILED}]
  PROVE  BoundV4(r, i, n) \in MnRecord
<1>1. BoundV4(r, i, n).tnl \in Tunnels
  BY ForgottenType DEF BoundV4, MnRecord, Kind, Family, Tunnels
<1>2. i \in Active
  BY DEF Active
<1>. QED  BY <1>1, <1>2 DEF BoundV4, MnRecord

\* A record bound to an IPv6 address is a record.
LEMMA BoundV6Type ==
  ASSUME NEW r \in MnRecord, NEW c \in CoaV6,
         NEW n \in [Family -> Dev \union {FAILED}]
  PROVE  BoundV6(r, c, n) \in MnRecord
<1>1. BoundV6(r, c, n).tnl \in Tunnels
  BY ForgottenType DEF BoundV6, MnRecord, Kind, Family, Tunnels
<1>2. -1 \in Active
  BY DEF Active
<1>. QED  BY <1>1, <1>2 DEF BoundV6, MnRecord

\* A record whose update is noted is a record.
LEMMA SeenType ==
  ASSUME NEW r \in MnRecord, NEW q \in SeqNo
  PROVE  Seen(r, q) \in MnRecord
<1>1. 0 \in Age
  BY DEF Age
<1>. QED  BY <1>1 DEF Seen, MnRecord

\* A cleaned record is a record.
LEMMA CleanRecordType ==
  ASSUME NEW r \in MnRecord
  PROVE  CleanRecord(r) \in MnRecord
<1>1. [i \in Slot |-> IF i < NIF THEN Unspec ELSE r.coav4[i]] \in CoaTab
  BY DEF MnRecord, CoaTab
<1>2. [i \in 1 .. NIF |-> 0] \in IfMap
  BY DEF IfMap
<1>3. 0 \in Active /\ 0 \in Slot
  BY DEF Active, Slot
<1>. QED  BY <1>1, <1>2, <1>3, ForgottenType DEF CleanRecord, MnRecord

\* The endpoint the binding goes through, when it goes through a NAT box.
LEMMA NatEndpoint ==
  ASSUME NEW r \in MnRecord, ViaNat(r)
  PROVE  r.nat[r.active] \in Endpoint
BY DEF ViaNat, MnRecord, NatTab, Slot, Active

-------------------------------------------------------------------------------
(* What the sequences of kernel calls return. *)

\* The calls of a move leave a kernel state.
LEMMA MoveType ==
  ASSUME mns \in [MN -> MnRecord],
         NEW k0 \in Kernel, NEW m \in MN, NEW n
  PROVE  Move(k0, m, n) \in Kernel
<1>. DEFINE r  == mns[m]
            k1 == IF r.active # 0
                  THEN RulesAdd(RoutesAdd(k0, "tmp", m, n), m) ELSE k0
            k2 == TunnelsDel(k1, OldTunnels(r))
            k3 == RoutesAdd(k2, "main", m, n)
<1>1. k1 \in Kernel
  BY RoutesAddType, RulesType DEF Table
<1>2. k2 \in Kernel
  BY <1>1, TunnelsDelType
<1>3. k3 \in Kernel
  <2>. HIDE DEF k2
  <2>. QED  BY <1>2, RoutesAddType DEF Table
<1>4. ViaNat(r) => stop_udp_encap(k3, m, r.nat[r.active]) \in Kernel
  <2>. HIDE DEF k3
  <2>. QED  BY <1>3, NatEndpoint, StopEncapType
<1>. QED  BY <1>3, <1>4 DEF Move

\* So do those that end it.
LEMMA EndMoveType ==
  ASSUME NEW k0 \in Kernel, NEW m \in MN, NEW n
  PROVE  EndMove(k0, m, n) \in Kernel
BY RulesType, RoutesDelType DEF EndMove, Table

\* So does a cleanup of any set of nodes.
LEMMA CleanKernelType ==
  ASSUME k \in Kernel, NEW ms
  PROVE  CleanKernel(ms) \in Kernel
<1>. DEFINE nats == {m \in ms : ViaNat(mns[m])}
            ips  == {mns[m].nat[mns[m].active].ip : m \in nats}
            k1   == [k EXCEPT
                      !.pol = [m \in MN |-> IF m \in nats THEN Unspec
                                            ELSE k.pol[m]],
                      !.sa  = [a \in IPv4 |-> IF a \in ips THEN 0
                                              ELSE k.sa[a]]]
<1>1. k1 \in Kernel
  BY DEF Kernel
<1>. HIDE DEF k1
<1>2. TunnelsDel(k1, UNION {OldTunnels(mns[m]) : m \in ms}) \in Kernel
  BY <1>1, TunnelsDelType
<1>. QED  BY <1>2 DEF CleanKernel, k1

\* The endpoint mapping of the new tunnels of a move.
LEMMA AddPairType ==
  ASSUME NEW k0 \in Kernel, NEW d64 \in Dev \union {FAILED},
         NEW d44 \in Dev \union {FAILED}, NEW c \in CoaV4,
         NEW i64 \in Dev \union {FAILED}, NEW i44 \in Dev \union {FAILED}
  PROVE  /\ TunnelAdd(TunnelAdd(k0, d64, "64", c), d44, "44", c) \in Kernel
         /\ [f \in Family |-> IF f = "v4" THEN i44 ELSE i64]
              \in [Family -> Dev \union {FAILED}]
<1>1. TunnelAdd(k0, d64, "64", c) \in Kernel
  BY TunnelAddType DEF Kind, Coa
<1>2. TunnelAdd(TunnelAdd(k0, d64, "64", c), d44, "44", c) \in Kernel
  BY <1>1, TunnelAddType DEF Kind, Coa
<1>. QED  BY <1>2

-------------------------------------------------------------------------------
(* Type correctness. *)

\* A cleanup keeps table and kernel in their types.
LEMMA CleanAllType ==
  ASSUME TypeOK, NEW ms, CleanAll(ms)
  PROVE  mns' \in [MN -> MnRecord] /\ k' \in Kernel
BY CleanKernelType, CleanRecordType DEF CleanAll, TypeOK

\* A probe keeps the table in its type: the slot it names is below NIF or
\* nothing is stored.
LEMMA NatProbeType ==
  ASSUME TypeOK, NEW m \in MN, NEW x \in Ifindex, NEW c \in CoaV4,
         NEW e \in Sources[c], NatProbe(m, x, c, e)
  PROVE  TypeOK'
<1>. PICK s \in SlotOf(mns[m], x) :
       LET noted == NoteIface(mns[m], x, s)
           saved == SaveActive(noted, s, c, e)
           known == [saved EXCEPT
                       !.coav4 = [saved.coav4 EXCEPT ![s] = c],
                       !.nat   = [saved.nat EXCEPT
                                    ![s] = IF e = Direct(c) THEN NoNat ELSE e]]
       IN  mns' = [mns EXCEPT ![m] = IF s < NIF THEN known ELSE noted]
  BY DEF NatProbe
<1>. DEFINE noted == NoteIface(mns[m], x, s)
            saved == SaveActive(noted, s, c, e)
            nat   == IF e = Direct(c) THEN NoNat ELSE e
            known == [saved EXCEPT !.coav4 = [saved.coav4 EXCEPT ![s] = c],
                                   !.nat   = [saved.nat EXCEPT ![s] = nat]]
<1>1. mns[m] \in MnRecord /\ e \in Endpoint
  BY DEF TypeOK
<1>2. noted \in MnRecord
  BY <1>1, NoteIfaceType
<1>3. s < NIF => known \in MnRecord
  <2>. SUFFICES ASSUME s < NIF PROVE known \in MnRecord
    OBVIOUS
  <2>1. s \in Slot
    BY <1>1, SlotType DEF Slot, MnRecord
  <2>. HIDE DEF noted
  <2>2. saved \in MnRecord
    BY <1>2, <2>1, SaveActiveType
  <2>. HIDE DEF saved
  <2>3. nat \in Endpoint \union {NoNat}
    BY <1>1
  <2>. HIDE DEF nat
  <2>4. /\ [saved.coav4 EXCEPT ![s] = c] \in CoaTab
        /\ [saved.nat EXCEPT ![s] = nat] \in NatTab
    BY <2>2, <2>3, CoaTabType, NatTabType DEF MnRecord
  <2>. QED  BY <2>2, <2>4 DEF MnRecord
<1>4. mns' = [mns EXCEPT ![m] = IF s < NIF THEN known ELSE noted]
  OBVIOUS
<1>. HIDE DEF known, noted
<1>5. mns' \in [MN -> MnRecord]
  BY <1>2, <1>3, <1>4 DEF TypeOK
<1>. QED  BY <1>5 DEF NatProbe, AfterNat, TypeOK

\* What the creation of both tunnels of a move yields: devices and indexes.
PairAdded(c, d64, d44, i64, i44) ==
  /\ d64 \in TunnelAddResults(k, Remembered, "64", c)
  /\ d44 \in TunnelAddResults(TunnelAdd(k, d64, "64", c),
                              Remembered \union {d64}, "44", c)
  /\ i64 \in Returned(d64) /\ i44 \in Returned(d44)

PairKernel(c, d64, d44) == TunnelAdd(TunnelAdd(k, d64, "64", c), d44, "44", c)

Pair(i64, i44) == [f \in Family |-> IF f = "v4" THEN i44 ELSE i64]

\* A move to an IPv4 address is one through a pair of tunnels.
LEMMA V4Pair ==
  ASSUME NEW m \in MN, NEW q \in SeqNo, NEW c \in CoaV4, BuV4Move(m, q, c)
  PROVE  \E i \in 0 .. NIF - 1 : \E d64, d44, i64, i44 \in Dev \union {FAILED} :
           /\ PairAdded(c, d64, d44, i64, i44)
           /\ FoundAt(mns[m], c, i) /\ mns[m].active # i
           /\ ThroughV4(m, q, i, PairKernel(c, d64, d44), Pair(i64, i44))
<1>1. PICK i \in 0 .. NIF - 1 :
        \E d64 \in TunnelAddResults(k, Remembered, "64", c) :
        \E d44 \in TunnelAddResults(TunnelAdd(k, d64, "64", c),
                                    Remembered \union {d64}, "44", c) :
        \E i64 \in Returned(d64) : \E i44 \in Returned(d44) :
          /\ FoundAt(mns[m], c, i) /\ mns[m].active # i
          /\ ThroughV4(m, q, i, PairKernel(c, d64, d44), Pair(i64, i44))
  BY Zenon DEF BuV4Move, PairKernel, Pair
<1>. QED  BY <1>1, AddResultType, ReturnedType DEF PairAdded

\* A move to an IPv4 address keeps everything in its type.
LEMMA BuV4MoveType ==
  ASSUME TypeOK, NEW m \in MN, NEW q \in SeqNo, NEW c \in CoaV4,
         BuV4Move(m, q, c)
  PROVE  TypeOK'
<1>1. PICK i \in 0 .. NIF - 1 : \E d64, d44, i64, i44 \in Dev \union {FAILED} :
        ThroughV4(m, q, i, PairKernel(c, d64, d44), Pair(i64, i44))
  BY V4Pair
<1>2. PICK d64, d44, i64, i44 \in Dev \union {FAILED} :
        ThroughV4(m, q, i, PairKernel(c, d64, d44), Pair(i64, i44))
  BY <1>1
<1>. DEFINE r  == mns[m]
            n  == Pair(i64, i44)
            k1 == PairKernel(c, d64, d44)
            k2 == Move(k1, m, n)
            k3 == IF r.active # 0 THEN EndMove(k2, m, n) ELSE k2
<1>3. /\ k' = IF r.nat[i] # NoNat THEN start_udp_encap(k3, m, r.nat[i]) ELSE k3
      /\ mns' = [mns EXCEPT ![m] = Seen(BoundV4(r, i, n), q)]
  BY <1>2, Zenon DEF ThroughV4
<1>4. r \in MnRecord /\ k \in Kernel
  BY DEF TypeOK
<1>. HIDE DEF r
<1>5. k1 \in Kernel /\ n \in [Family -> Dev \union {FAILED}]
  BY <1>4, AddPairType DEF PairKernel, Pair
<1>. HIDE DEF k1, n
<1>6. k2 \in Kernel
  BY <1>5, MoveType DEF TypeOK
<1>. HIDE DEF k2
<1>7. k3 \in Kernel
  BY <1>6, EndMoveType
<1>. HIDE DEF k3
<1>8. k' \in Kernel
  <2>1. r.nat[i] # NoNat => r.nat[i] \in Endpoint
    BY <1>4 DEF MnRecord, NatTab, Slot
  <2>. QED  BY <1>3, <1>7, <2>1, StartEncapType
<1>9. Seen(BoundV4(r, i, n), q) \in MnRecord
  BY <1>4, <1>5, BoundV4Type, SeenType
<1>10. mns' \in [MN -> MnRecord]
  BY <1>3, <1>9 DEF TypeOK
<1>11. ba' \in SUBSET Ack /\ pc' = "clean" /\ more' = more
  BY DEF BuV4Move, Accept, Ack, Coa
<1>. QED  BY <1>8, <1>10, <1>11 DEF TypeOK

\* A move to an IPv6 address keeps everything in its type.
LEMMA BuV6MoveType ==
  ASSUME TypeOK, NEW m \in MN, NEW q \in SeqNo, NEW c \in CoaV6,
         BuV6Move(m, q, c)
  PROVE  TypeOK'
<1>. DEFINE r     == mns[m]
            n(x)  == [f \in Family |-> x]
            k1(d, x) == Move(TunnelAdd(k, d, "66", c), m, n(x))
<1>1. PICK d \in TunnelAddResults(k, Remembered, "66", c) :
        \E x \in Returned(d) :
             /\ k' = IF r.active # 0 /\ ~ViaNat(r) THEN EndMove(k1(d, x), m, n(x))
                     ELSE k1(d, x)
             /\ mns' = [mns EXCEPT ![m] = Seen(BoundV6(r, c, n(x)), q)]
  BY Zenon DEF BuV6Move
<1>0. PICK x \in Returned(d) :
             /\ k' = IF r.active # 0 /\ ~ViaNat(r) THEN EndMove(k1(d, x), m, n(x))
                     ELSE k1(d, x)
             /\ mns' = [mns EXCEPT ![m] = Seen(BoundV6(r, c, n(x)), q)]
  BY <1>1, Zenon
<1>2. /\ r \in MnRecord /\ k \in Kernel
      /\ d \in Dev \union {FAILED} /\ x \in Dev \union {FAILED}
  BY AddResultType, ReturnedType DEF TypeOK
<1>. HIDE DEF r
<1>3. TunnelAdd(k, d, "66", c) \in Kernel
  BY <1>2, TunnelAddType DEF Kind, Coa
<1>4. k1(d, x) \in Kernel
  BY <1>3, MoveType DEF TypeOK
<1>5. n(x) \in [Family -> Dev \union {FAILED}]
  BY <1>2
<1>. HIDE DEF k1, n
<1>6. k' \in Kernel
  BY <1>0, <1>4, EndMoveType
<1>7. Seen(BoundV6(r, c, n(x)), q) \in MnRecord
  BY <1>2, <1>5, BoundV6Type, SeenType
<1>8. mns' \in [MN -> MnRecord]
  BY <1>0, <1>7 DEF TypeOK
<1>9. ba' \in SUBSET Ack /\ pc' = "clean" /\ more' = more
  BY DEF BuV6Move, Accept, Ack, Coa
<1>. QED  BY <1>6, <1>8, <1>9 DEF TypeOK

\* Going home keeps everything in its type.
LEMMA BuHomeType ==
  ASSUME TypeOK, NEW m \in MN, NEW q \in SeqNo, BuHome(m, q)
  PROVE  TypeOK'
<1>. DEFINE r  == mns[m]
            k1 == IF ViaNat(r) THEN stop_udp_encap(k, m, r.nat[r.active]) ELSE k
            h  == [r EXCEPT !.active = 0, !.tnl = Forgotten(r)]
<1>1. r \in MnRecord /\ k \in Kernel
  BY DEF TypeOK
<1>2. k1 \in Kernel
  BY <1>1, NatEndpoint, StopEncapType
<1>3. h \in MnRecord
  <2>1. 0 \in Active
    BY DEF Active
  <2>. HIDE DEF r
  <2>. QED  BY <1>1, <2>1, ForgottenType DEF MnRecord
<1>4. k' = TunnelsDel(k1, OldTunnels(r)) /\ mns' = [mns EXCEPT ![m] = Seen(h, q)]
  BY DEF BuHome
<1>. HIDE DEF k1, h
<1>5. k' \in Kernel /\ mns' \in [MN -> MnRecord]
  BY <1>2, <1>3, <1>4, TunnelsDelType, SeenType DEF TypeOK
<1>. QED  BY <1>5 DEF TypeOK, BuHome, Accept

\* Time passing keeps ages in their range.
LEMMA SelectType ==
  ASSUME TypeOK, Select
  PROVE  TypeOK'
<1>1. PICK d \in 0 .. MaxWait :
        mns' = [m \in MN |-> [mns[m] EXCEPT !.age =
                  IF mns[m].age + d > LIFETIME THEN LIFETIME + 1
                  ELSE mns[m].age + d]]
  BY DEF Select
<1>2. ASSUME NEW m \in MN
      PROVE  [mns[m] EXCEPT !.age =
                IF mns[m].age + d > LIFETIME THEN LIFETIME + 1
                ELSE mns[m].age + d] \in MnRecord
  <2>. DEFINE a == IF mns[m].age + d > LIFETIME THEN LIFETIME + 1
                   ELSE mns[m].age + d
  <2>1. mns[m] \in MnRecord /\ mns[m].age \in Age
    BY DEF TypeOK, MnRecord
  <2>2. a \in Age
    BY <2>1 DEF Age
  <2>. HIDE DEF a
  <2>3. [mns[m] EXCEPT !.age = a] \in MnRecord
    BY <2>1, <2>2 DEF MnRecord
  <2>. QED  BY <2>3 DEF a
<1>. QED  BY <1>1, <1>2 DEF TypeOK, Select

\* The table mn_list_init leaves has the types of MnRecord.
LEMMA InitType == Init => TypeOK
<1>. SUFFICES ASSUME Init PROVE TypeOK
  OBVIOUS
<1>1. \A uptime \in Age :
        [ active |-> 0,
          coav4  |-> [i \in Slot |-> Unspec],
          nat    |-> [i \in Slot |-> NoNat],
          nnif   |-> 0,
          nifmap |-> [i \in 1 .. NIF |-> 0],
          coav6  |-> Unspec,
          tnl    |-> [t \in Kind |-> NoDev],
          seq    |-> 0,
          age    |-> uptime ] \in MnRecord
  <2>1. 0 \in Active /\ 0 \in Slot
    BY DEF Active, Slot
  <2>2. /\ [i \in Slot |-> Unspec] \in CoaTab
        /\ [i \in Slot |-> NoNat] \in NatTab
        /\ [i \in 1 .. NIF |-> 0] \in IfMap
        /\ [t \in Kind |-> NoDev] \in Tunnels
    BY DEF CoaTab, NatTab, IfMap, Tunnels
  <2>. QED  BY <2>1, <2>2 DEF MnRecord
<1>. QED  BY <1>1, KernelInitType DEF Init, TypeOK

\* The variables keep their types: in particular a slot of the address cache
\* is never used beyond the spare one.
THEOREM TypeCorrect == Spec => []TypeOK
<1>1. Init => TypeOK
  BY InitType
<1>2. TypeOK /\ [Next]_vars => TypeOK'
  <2>. SUFFICES ASSUME TypeOK, [Next]_vars PROVE TypeOK'
    OBVIOUS
  <2>1. CASE Select
    BY <2>1, SelectType
  <2>2. CASE NatSkip
    BY <2>2 DEF NatSkip, AfterNat, TypeOK
  <2>3. CASE BuIgnored
    BY <2>3 DEF BuIgnored, TypeOK
  <2>4. CASE Clean
    BY <2>4, CleanAllType DEF Clean, TypeOK
  <2>5. CASE Exit
    BY <2>5, CleanAllType DEF Exit, TypeOK
  <2>6. ASSUME NEW m \in MN, Nat_(m)
        PROVE  TypeOK'
    BY <2>6, NatProbeType DEF Nat_
  <2>7. ASSUME NEW m \in MN, Bu(m)
        PROVE  TypeOK'
    <3>1. PICK q \in SeqNo :
            \/ BuStale(m, q)
            \/ \E c \in CoaV4 : \/ BuV4Unknown(m, q, c)
                                \/ BuV4Refresh(m, q, c)
                                \/ BuV4Move(m, q, c)
            \/ \E c \in CoaV6 : BuV6Refresh(m, q, c) \/ BuV6Move(m, q, c)
            \/ BuHome(m, q)
      BY <2>7 DEF Bu
    <3>2. Seen(mns[m], q) \in MnRecord
      BY SeenType DEF TypeOK
    <3>3. CASE BuStale(m, q)
      BY <3>3 DEF BuStale, TypeOK
    <3>4. ASSUME NEW c \in CoaV4, BuV4Unknown(m, q, c)
          PROVE  TypeOK'
      BY <3>2, <3>4 DEF BuV4Unknown, Accept, TypeOK
    <3>5. ASSUME NEW c \in CoaV4, BuV4Refresh(m, q, c)
          PROVE  TypeOK'
      BY <3>2, <3>5 DEF BuV4Refresh, Accept, TypeOK, Ack, Coa
    <3>6. ASSUME NEW c \in CoaV6, BuV6Refresh(m, q, c)
          PROVE  TypeOK'
      BY <3>2, <3>6 DEF BuV6Refresh, Accept, TypeOK, Ack, Coa
    <3>. QED
      BY <3>1, <3>3, <3>4, <3>5, <3>6, BuV4MoveType, BuV6MoveType, BuHomeType
  <2>8. CASE UNCHANGED vars
    BY <2>8 DEF vars, TypeOK
  <2>. QED
    BY <2>1, <2>2, <2>3, <2>4, <2>5, <2>6, <2>7, <2>8 DEF Next, Ended
<1>. QED  BY <1>1, <1>2, PTL DEF Spec

-------------------------------------------------------------------------------
(* HomeAgent implements BindingCache. *)

\* No probe changes where a node is bound, however late it comes: when it
\* rewrites the slot in use, the binding moves to the spare slot first.
LEMMA ProbeKeepsBinding ==
  ASSUME TypeOK, NEW m \in MN, NEW x \in Ifindex, NEW c \in CoaV4,
         NEW e \in Sources[c], NatProbe(m, x, c, e)
  PROVE  /\ Binding(mns'[m]) = Binding(mns[m])
         /\ mns'[m].seq = mns[m].seq /\ mns'[m].age = mns[m].age
         /\ mns'[m].tnl = mns[m].tnl
         /\ mns'[m].active < 0 <=> mns[m].active < 0
         /\ mns'[m].active = 0 <=> mns[m].active = 0
         /\ mns'[m].coav4[0] = mns[m].coav4[0]
         /\ \A l \in MN : l # m => mns'[l] = mns[l]
<1>. PICK s \in SlotOf(mns[m], x) :
       LET noted == NoteIface(mns[m], x, s)
           saved == SaveActive(noted, s, c, e)
           known == [saved EXCEPT
                       !.coav4 = [saved.coav4 EXCEPT ![s] = c],
                       !.nat   = [saved.nat EXCEPT
                                    ![s] = IF e = Direct(c) THEN NoNat ELSE e]]
       IN  mns' = [mns EXCEPT ![m] = IF s < NIF THEN known ELSE noted]
  BY DEF NatProbe
<1>. DEFINE r     == mns[m]
            noted == NoteIface(mns[m], x, s)
            saved == SaveActive(noted, s, c, e)
            nat   == IF e = Direct(c) THEN NoNat ELSE e
            known == [saved EXCEPT !.coav4 = [saved.coav4 EXCEPT ![s] = c],
                                   !.nat   = [saved.nat EXCEPT ![s] = nat]]
            Same(a, b) == /\ Binding(a) = Binding(b)
                          /\ a.seq = b.seq /\ a.age = b.age /\ a.tnl = b.tnl
                          /\ a.active < 0 <=> b.active < 0
                          /\ a.active = 0 <=> b.active = 0
                          /\ a.coav4[0] = b.coav4[0]
<1>1. r \in MnRecord /\ e \in Endpoint /\ s \in 1 .. r.nnif + 1
  BY SlotType DEF TypeOK
<1>2. noted \in MnRecord
  BY <1>1, NoteIfaceType
<1>3. Same(noted, r)
  BY <1>1 DEF NoteIface, MnRecord, Binding
<1>4. ASSUME s < NIF PROVE Same(known, noted)
  <2>. HIDE DEF noted
  <2>1. s \in Slot /\ s > 0 /\ s # NIF
    BY <1>1, <1>4 DEF Slot, MnRecord
  <2>2. saved \in MnRecord
    BY <1>2, <2>1, SaveActiveType
  <2>3. noted.active \in Active /\ noted.coav4 \in CoaTab
    BY <1>2 DEF MnRecord
  <2>4. /\ known.seq = saved.seq /\ known.age = saved.age
        /\ known.tnl = saved.tnl /\ known.active = saved.active
        /\ known.coav4 = [saved.coav4 EXCEPT ![s] = c]
    <3>. HIDE DEF saved, nat
    <3>. QED  BY <2>2 DEF MnRecord
  <2>5. CASE /\ noted.active = s
             /\ noted.coav4[s] # c \/ noted.nat[s] \notin {NoNat, e}
    <3>1. saved = [noted EXCEPT
                     !.coav4 = [noted.coav4 EXCEPT ![NIF] = noted.coav4[s]],
                     !.nat   = [noted.nat EXCEPT ![NIF] = noted.nat[s]],
                     !.active = NIF]
      BY <2>5 DEF SaveActive
    <3>2. /\ saved.seq = noted.seq /\ saved.age = noted.age
          /\ saved.tnl = noted.tnl /\ saved.active = NIF
          /\ saved.coav4 = [noted.coav4 EXCEPT ![NIF] = noted.coav4[s]]
      BY <1>2, <3>1 DEF MnRecord
    <3>3. known.coav4[NIF] = noted.coav4[s]
      BY <2>1, <2>3, <2>4, <3>2 DEF CoaTab, Slot
    <3>4. known.coav4[0] = noted.coav4[0]
      BY <2>1, <2>3, <2>4, <3>2 DEF CoaTab, Slot
    <3>. HIDE DEF known, saved
    <3>. QED  BY <2>1, <2>3, <2>4, <2>5, <3>2, <3>3, <3>4 DEF Binding, Active
  <2>6. CASE ~(/\ noted.active = s
               /\ noted.coav4[s] # c \/ noted.nat[s] \notin {NoNat, e})
    <3>1. saved = noted
      BY <2>6 DEF SaveActive
    <3>2. noted.active = s => noted.coav4[s] = c
      BY <2>6
    <3>3. noted.active > 0 => known.coav4[noted.active] = noted.coav4[noted.active]
      BY <2>1, <2>3, <2>4, <3>1, <3>2 DEF CoaTab, Slot, Active
    <3>4. known.coav6 = noted.coav6
      BY <1>2, <3>1 DEF MnRecord
    <3>5. known.coav4[0] = noted.coav4[0]
      BY <2>1, <2>3, <2>4, <3>1 DEF CoaTab, Slot
    <3>. HIDE DEF known, saved
    <3>. QED  BY <2>3, <2>4, <3>1, <3>3, <3>4, <3>5 DEF Binding, Active
  <2>. QED  BY <2>5, <2>6
<1>5. mns' = [mns EXCEPT ![m] = IF s < NIF THEN known ELSE noted]
  OBVIOUS
<1>. HIDE DEF noted, known
<1>6. mns'[m] = (IF s < NIF THEN known ELSE noted)
  BY <1>5 DEF TypeOK
<1>7. Same(mns'[m], r)
  BY <1>3, <1>4, <1>6
<1>. QED  BY <1>5, <1>7 DEF TypeOK

\* Slot 0 is never written, so that no care-of address is ever found there.
HomeSlotEmpty == \A m \in MN : mns[m].coav4[0] = Unspec

\* The slot an address is found in is a proper one: never 0, never the spare.
LEMMA FoundType ==
  ASSUME NEW r \in MnRecord, r.coav4[0] = Unspec,
         NEW c \in CoaV4, NEW i, FoundAt(r, c, i)
  PROVE  i \in 1 .. NIF - 1 /\ r.coav4[i] = c
BY AddressAssumption DEF FoundAt, Holds

\* What an update that binds a node leaves in its record.
LEMMA BoundRecord ==
  ASSUME NEW r \in MnRecord, NEW q \in SeqNo, NEW n, NEW i \in 1 .. NIF - 1,
         NEW c \in CoaV6
  PROVE  /\ Binding(Seen(BoundV4(r, i, n), q)) = r.coav4[i]
         /\ Binding(Seen(BoundV6(r, c, n), q)) = c
         /\ Binding(Seen(r, q)) = Binding(r)
         /\ Seen(BoundV4(r, i, n), q).coav4 = r.coav4
         /\ Seen(BoundV6(r, c, n), q).coav4 = r.coav4
         /\ Seen(r, q).coav4 = r.coav4
BY DEF Binding, Seen, BoundV4, BoundV6, MnRecord

\* What a cleanup leaves in a record.
LEMMA CleanRecordEffect ==
  ASSUME NEW r \in MnRecord
  PROVE  /\ Binding(CleanRecord(r)) = Unspec
         /\ CleanRecord(r).seq = 0 /\ CleanRecord(r).age = r.age
         /\ CleanRecord(r).coav4[0] = Unspec
<1>1. CleanRecord(r).coav4 = [i \in Slot |-> IF i < NIF THEN Unspec ELSE r.coav4[i]]
  BY DEF CleanRecord, MnRecord
<1>2. CleanRecord(r).coav4[0] = Unspec
  BY <1>1 DEF Slot
<1>. QED  BY <1>2 DEF CleanRecord, Binding, MnRecord

\* A cleanup of the nodes ms maps to Cache!Drop(ms).
LEMMA CleanAllDrops ==
  ASSUME TypeOK, NEW ms \in SUBSET MN, CleanAll(ms), ba' = ba
  PROVE  Cache!Drop(ms)
<1>1. \A m \in MN : mns'[m] = IF m \in ms THEN CleanRecord(mns[m]) ELSE mns[m]
  BY DEF CleanAll
<1>2. \A m \in MN :
        /\ Binding(mns'[m]) = IF m \in ms THEN Unspec ELSE Binding(mns[m])
        /\ mns'[m].seq = IF m \in ms THEN 0 ELSE mns[m].seq
        /\ mns'[m].age = mns[m].age
  BY <1>1, CleanRecordEffect DEF TypeOK
<1>. QED  BY <1>2 DEF Cache!Drop

CacheInv == TypeOK /\ HomeSlotEmpty

\* No step writes slot 0.
LEMMA HomeSlotStep ==
  ASSUME CacheInv, [Next]_vars
  PROVE  HomeSlotEmpty'
<1>. USE DEF CacheInv, HomeSlotEmpty
<1>1. CASE Select
  BY <1>1 DEF Select, TypeOK, MnRecord
<1>2. CASE NatSkip \/ BuIgnored \/ UNCHANGED vars
  BY <1>2 DEF NatSkip, BuIgnored, vars
<1>3. CASE Clean \/ Exit
  BY <1>3, CleanRecordEffect DEF Clean, Exit, CleanAll, TypeOK
<1>4. ASSUME NEW m \in MN, Nat_(m)
      PROVE  HomeSlotEmpty'
  BY <1>4, ProbeKeepsBinding DEF Nat_
<1>5. ASSUME NEW m \in MN, Bu(m)
      PROVE  HomeSlotEmpty'
  <2>1. PICK q \in SeqNo :
          \/ BuStale(m, q)
          \/ \E c \in CoaV4 : \/ BuV4Unknown(m, q, c)
                              \/ BuV4Refresh(m, q, c)
                              \/ BuV4Move(m, q, c)
          \/ \E c \in CoaV6 : BuV6Refresh(m, q, c) \/ BuV6Move(m, q, c)
          \/ BuHome(m, q)
    BY <1>5 DEF Bu
  <2>2. mns[m] \in MnRecord
    BY DEF TypeOK
  <2>3. CASE \/ BuStale(m, q)
             \/ \E c \in CoaV4 : BuV4Unknown(m, q, c) \/ BuV4Refresh(m, q, c)
             \/ \E c \in CoaV6 : BuV6Refresh(m, q, c)
    <3>1. Seen(mns[m], q).coav4 = mns[m].coav4
      BY <2>2 DEF Seen, MnRecord
    <3>. QED  BY <2>3, <3>1 DEF BuStale, BuV4Unknown, BuV4Refresh, BuV6Refresh, TypeOK
  <2>4. ASSUME NEW c \in CoaV4, BuV4Move(m, q, c)
        PROVE  HomeSlotEmpty'
    <3>1. PICK i, n : mns' = [mns EXCEPT ![m] = Seen(BoundV4(mns[m], i, n), q)]
      BY <2>4, V4Pair DEF ThroughV4
    <3>2. Seen(BoundV4(mns[m], i, n), q).coav4 = mns[m].coav4
      BY <2>2 DEF Seen, BoundV4, MnRecord
    <3>. QED  BY <3>1, <3>2 DEF TypeOK
  <2>5. ASSUME NEW c \in CoaV6, BuV6Move(m, q, c)
        PROVE  HomeSlotEmpty'
    <3>1. PICK n : mns' = [mns EXCEPT ![m] = Seen(BoundV6(mns[m], c, n), q)]
      BY <2>5, Zenon DEF BuV6Move
    <3>2. Seen(BoundV6(mns[m], c, n), q).coav4 = mns[m].coav4
      BY <2>2 DEF Seen, BoundV6, MnRecord
    <3>. QED  BY <3>1, <3>2 DEF TypeOK
  <2>6. CASE BuHome(m, q)
    BY <2>2, <2>6 DEF BuHome, Seen, TypeOK, MnRecord
  <2>. QED  BY <2>1, <2>3, <2>4, <2>5, <2>6
<1>. QED  BY <1>1, <1>2, <1>3, <1>4, <1>5 DEF Next, Ended

\* Types, and the empty slot 0, hold in every reachable state: the invariant
\* the refinement is proved under.
THEOREM CacheInvariant == Spec => []CacheInv
<1>1. Init => HomeSlotEmpty
  <2>. SUFFICES ASSUME Init, NEW m \in MN PROVE mns[m].coav4[0] = Unspec
    BY DEF HomeSlotEmpty
  <2>1. mns[m].coav4 = [i \in Slot |-> Unspec]
    BY DEF Init
  <2>. QED  BY <2>1 DEF Slot
<1>2. CacheInv /\ [Next]_vars => HomeSlotEmpty'
  BY HomeSlotStep
<1>. QED  BY <1>1, <1>2, TypeCorrect, PTL DEF Spec, CacheInv

\* Every step of the daemon is a step of the binding cache or changes nothing
\* of it.
LEMMA CacheStep ==
  ASSUME CacheInv, [Next]_vars
  PROVE  [Cache!Next]_(Cache!vars)
<1>. USE DEF CacheInv
<1>. DEFINE Same == /\ \A l \in MN : /\ Binding(mns'[l]) = Binding(mns[l])
                                     /\ mns'[l].seq = mns[l].seq
                                     /\ mns'[l].age = mns[l].age
                    /\ ba' = ba
<1>0. Same => UNCHANGED Cache!vars
  BY DEF Cache!vars
<1>1. CASE Select
  <2>1. PICK d \in 0 .. MaxWait :
          mns' = [m \in MN |-> [mns[m] EXCEPT !.age =
                    IF mns[m].age + d > LIFETIME THEN LIFETIME + 1
                    ELSE mns[m].age + d]]
    BY <1>1 DEF Select
  <2>2. \A m \in MN :
          /\ Binding(mns'[m]) = Binding(mns[m])
          /\ mns'[m].seq = mns[m].seq
          /\ mns'[m].age = IF mns[m].age + d > LIFETIME THEN LIFETIME + 1
                           ELSE mns[m].age + d
    BY <2>1 DEF TypeOK, MnRecord, Binding
  <2>3. Cache!Wait(d)
    BY <1>1, <2>2 DEF Select, Cache!Wait
  <2>. QED  BY <2>3 DEF Cache!Next
<1>2. CASE NatSkip \/ BuIgnored \/ UNCHANGED vars
  BY <1>0, <1>2 DEF NatSkip, BuIgnored, vars
<1>3. CASE Clean
  <2>1. PICK ms \in SUBSET MN : ms = {m \in MN : mns[m].age > LIFETIME}
    OBVIOUS
  <2>2. \A m \in ms : [l \in MN |-> mns[l].age][m] > LIFETIME
    BY <2>1
  <2>3. CleanAll(ms) /\ ba' = ba
    BY <1>3, <2>1 DEF Clean
  <2>4. Cache!Drop(ms)
    BY <2>3, CleanAllDrops
  <2>5. Cache!Expire
    BY <2>2, <2>4 DEF Cache!Expire
  <2>. QED  BY <2>5 DEF Cache!Next
<1>4. CASE Exit
  BY <1>4, CleanAllDrops DEF Exit, Cache!Next, Cache!Shutdown
<1>5. ASSUME NEW m \in MN, Nat_(m)
      PROVE  UNCHANGED Cache!vars
  <2>1. Same
    BY <1>5, ProbeKeepsBinding DEF Nat_, NatProbe
  <2>. QED  BY <1>0, <2>1
<1>6. ASSUME NEW m \in MN, NEW q \in SeqNo, NEW b \in MnRecord, Accept(m, q),
             mns' = [mns EXCEPT ![m] = Seen(b, q)]
      PROVE  /\ Cache!Accept(m, q)
             /\ [l \in MN |-> Binding(mns'[l])]
                  = [[l \in MN |-> Binding(mns[l])] EXCEPT ![m] = Binding(Seen(b, q))]
  <2>1. Cache!Fresh(m, q)
    BY <1>6 DEF Accept, Stale, Cache!Fresh
  <2>2. /\ [l \in MN |-> Binding(mns'[l])]
             = [[l \in MN |-> Binding(mns[l])] EXCEPT ![m] = Binding(Seen(b, q))]
        /\ [l \in MN |-> mns'[l].seq] = [[l \in MN |-> mns[l].seq] EXCEPT ![m] = q]
        /\ [l \in MN |-> mns'[l].age] = [[l \in MN |-> mns[l].age] EXCEPT ![m] = 0]
    <3>1. Seen(b, q).seq = q /\ Seen(b, q).age = 0
      BY DEF Seen, MnRecord
    <3>2. \A l \in MN : mns'[l] = IF l = m THEN Seen(b, q) ELSE mns[l]
      BY <1>6 DEF TypeOK
    <3>. QED  BY <3>1, <3>2
  <2>. QED  BY <2>1, <2>2, Zenon DEF Cache!Accept
<1>7. ASSUME NEW m \in MN, Bu(m)
      PROVE  Cache!Next \/ UNCHANGED Cache!vars
  <2>1. PICK q \in SeqNo :
          \/ BuStale(m, q)
          \/ \E c \in CoaV4 : \/ BuV4Unknown(m, q, c)
                              \/ BuV4Refresh(m, q, c)
                              \/ BuV4Move(m, q, c)
          \/ \E c \in CoaV6 : BuV6Refresh(m, q, c) \/ BuV6Move(m, q, c)
          \/ BuHome(m, q)
    BY <1>7 DEF Bu
  <2>2. mns[m] \in MnRecord /\ mns[m].coav4[0] = Unspec
    BY DEF TypeOK, HomeSlotEmpty
  <2>. DEFINE bind == [l \in MN |-> Binding(mns[l])]
              Bound(c) == /\ Cache!Accept(m, q)
                          /\ [l \in MN |-> Binding(mns'[l])] = [bind EXCEPT ![m] = c]
  <2>3. Binding(Seen(mns[m], q)) = Binding(mns[m])
    BY <2>2 DEF Seen, Binding, MnRecord
  <2>4. [bind EXCEPT ![m] = Binding(mns[m])] = bind
    OBVIOUS
  <2>5. CASE BuStale(m, q)
    BY <1>0, <2>5 DEF BuStale
  <2>6. ASSUME NEW c \in CoaV4, BuV4Unknown(m, q, c)
        PROVE  Cache!Refuse(m, q)
    BY <1>6, <2>2, <2>3, <2>4, <2>6 DEF BuV4Unknown, Cache!Refuse
  <2>7. ASSUME NEW c \in Coa, Bound(c), ba' = {[mn |-> m, seq |-> q, coa |-> c]}
        PROVE  Cache!Register(m, q, c)
    BY <2>7 DEF Cache!Register
  <2>8. ASSUME NEW c \in CoaV4, BuV4Refresh(m, q, c)
        PROVE  Cache!Register(m, q, c)
    <3>1. Binding(mns[m]) = c
      BY <2>2, <2>8, FoundType DEF BuV4Refresh, Binding
    <3>2. Bound(c)
      BY <1>6, <2>2, <2>3, <2>8, <3>1 DEF BuV4Refresh
    <3>. QED  BY <2>7, <2>8, <3>2 DEF BuV4Refresh, Coa
  <2>9. ASSUME NEW c \in CoaV6, BuV6Refresh(m, q, c)
        PROVE  Cache!Register(m, q, c)
    <3>1. Binding(mns[m]) = c
      BY <2>9 DEF BuV6Refresh, Binding
    <3>2. Bound(c)
      BY <1>6, <2>2, <2>3, <2>9, <3>1 DEF BuV6Refresh
    <3>. QED  BY <2>7, <2>9, <3>2 DEF BuV6Refresh, Coa
  <2>10. ASSUME NEW c \in CoaV4, BuV4Move(m, q, c)
         PROVE  Cache!Register(m, q, c)
    <3>1. PICK i \in 0 .. NIF - 1, n \in [Family -> Dev \union {FAILED}] :
            /\ FoundAt(mns[m], c, i)
            /\ mns' = [mns EXCEPT ![m] = Seen(BoundV4(mns[m], i, n), q)]
      <4>1. PICK i \in 0 .. NIF - 1 :
              \E d64, d44, i64, i44 \in Dev \union {FAILED} :
                /\ FoundAt(mns[m], c, i)
                /\ ThroughV4(m, q, i, PairKernel(c, d64, d44), Pair(i64, i44))
        BY <2>10, V4Pair
      <4>2. PICK d64, d44, i64, i44 \in Dev \union {FAILED} :
              /\ FoundAt(mns[m], c, i)
              /\ ThroughV4(m, q, i, PairKernel(c, d64, d44), Pair(i64, i44))
        BY <4>1
      <4>3. mns' = [mns EXCEPT ![m] = Seen(BoundV4(mns[m], i, Pair(i64, i44)), q)]
        BY <4>2, Zenon DEF ThroughV4
      <4>4. Pair(i64, i44) \in [Family -> Dev \union {FAILED}]
        BY DEF Pair
      <4>. QED  BY <4>2, <4>3, <4>4
    <3>2. i \in 1 .. NIF - 1 /\ mns[m].coav4[i] = c
      BY <2>2, <3>1, FoundType
    <3>3. BoundV4(mns[m], i, n) \in MnRecord
      BY <2>2, <3>1, BoundV4Type
    <3>4. Binding(Seen(BoundV4(mns[m], i, n), q)) = c
      BY <2>2, <3>2 DEF Binding, Seen, BoundV4, MnRecord
    <3>5. Accept(m, q) /\ ba' = {[mn |-> m, seq |-> q, coa |-> c]}
      BY <2>10 DEF BuV4Move
    <3>6. Bound(c)
      BY <1>6, <3>1, <3>3, <3>4, <3>5
    <3>. QED  BY <2>7, <3>5, <3>6 DEF Coa
  <2>11. ASSUME NEW c \in CoaV6, BuV6Move(m, q, c)
         PROVE  Cache!Register(m, q, c)
    <3>1. PICK n \in [Family -> Dev \union {FAILED}] :
            mns' = [mns EXCEPT ![m] = Seen(BoundV6(mns[m], c, n), q)]
      <4>0. PICK d \in TunnelAddResults(k, Remembered, "66", c) :
              \E x \in Returned(d) :
                mns' = [mns EXCEPT ![m] =
                          Seen(BoundV6(mns[m], c, [f \in Family |-> x]), q)]
        BY <2>11, Zenon DEF BuV6Move
      <4>1. PICK x \in Returned(d) :
              mns' = [mns EXCEPT ![m] =
                        Seen(BoundV6(mns[m], c, [f \in Family |-> x]), q)]
        BY <4>0, Zenon
      <4>2. [f \in Family |-> x] \in [Family -> Dev \union {FAILED}]
        BY AddResultType, ReturnedType
      <4>. QED  BY <4>1, <4>2, Zenon
    <3>2. BoundV6(mns[m], c, n) \in MnRecord
      BY <2>2, BoundV6Type
    <3>3. Binding(Seen(BoundV6(mns[m], c, n), q)) = c
      BY <2>2 DEF Binding, Seen, BoundV6, MnRecord
    <3>4. Accept(m, q) /\ ba' = {[mn |-> m, seq |-> q, coa |-> c]}
      BY <2>11 DEF BuV6Move
    <3>5. Bound(c)
      BY <1>6, <3>1, <3>2, <3>3, <3>4
    <3>. QED  BY <2>7, <3>4, <3>5 DEF Coa
  <2>12. CASE BuHome(m, q)
    <3>. DEFINE h == [mns[m] EXCEPT !.active = 0, !.tnl = Forgotten(mns[m])]
    <3>1. mns' = [mns EXCEPT ![m] = Seen(h, q)]
      BY <2>12 DEF BuHome
    <3>2. h \in MnRecord
      <4>1. 0 \in Active
        BY DEF Active
      <4>. QED  BY <2>2, <4>1, ForgottenType DEF MnRecord
    <3>3. Binding(Seen(h, q)) = Unspec
      BY <2>2 DEF Binding, Seen, MnRecord
    <3>. HIDE DEF h
    <3>4. Bound(Unspec)
      BY <1>6, <2>12, <3>1, <3>2, <3>3 DEF BuHome
    <3>5. Cache!Deregister(m, q)
      BY <2>12, <3>4 DEF BuHome, Cache!Deregister
    <3>. QED  BY <3>5 DEF Cache!Next
  <2>. QED
    BY <2>1, <2>5, <2>6, <2>8, <2>9, <2>10, <2>11, <2>12 DEF Cache!Next, Coa
<1>. QED  BY <1>1, <1>2, <1>3, <1>4, <1>5, <1>7 DEF Next, Ended

\* The daemon implements the binding cache: however probes and updates are
\* lost, repeated and reordered, a node's binding changes only by an update
\* that is not out of sequence, and ends only as BindingCache says.
THEOREM Implements == Spec => ImplementsCache
<1>1. Init => Cache!Init
  <2>. SUFFICES ASSUME Init PROVE Cache!Init
    OBVIOUS
  <2>1. PICK uptime \in Age :
          \A m \in MN :
            mns[m].active = 0 /\ mns[m].seq = 0 /\ mns[m].age = uptime
    BY DEF Init
  <2>2. ASSUME NEW m \in MN PROVE Binding(mns[m]) = Unspec
    <3>1. mns[m].active = 0
      BY <2>1
    <3>2. ~(mns[m].active < 0) /\ ~(mns[m].active > 0)
      BY <3>1
    <3>. QED  BY <3>2 DEF Binding
  <2>. QED  BY <2>1, <2>2 DEF Init, Cache!Init, Age
<1>2. CacheInv /\ [Next]_vars => [Cache!Next]_(Cache!vars)
  BY CacheStep
<1>. QED  BY <1>1, <1>2, CacheInvariant, PTL DEF Spec, Cache!Spec, ImplementsCache
===============================================================================
