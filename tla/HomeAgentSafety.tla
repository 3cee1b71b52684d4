--------------------------- MODULE HomeAgentSafety ---------------------------
(***************************************************************************)
(* TrafficFollowsBinding, NoOrphanTunnel and EncapFollowsBinding are       *)
(* invariants of HomeAgent, and a node that binds to another address has a *)
(* main route into each tunnel it got (MoveIsRouted if the kernel refuses  *)
(* none), for every value of the constants.  While NAT boxes keep their    *)
(* mapping and nodes are behind different ones, AckedIsEncapsulated is an  *)
(* invariant too.                                                          *)
(***************************************************************************)
EXTENDS HomeAgentProofs

USE LoopAssumption
USE DEF NoDev, FAILED

-------------------------------------------------------------------------------
(* The inductive invariant about routes and devices.                       *)
(*                                                                         *)
(* TrafficFollowsBinding and NoOrphanTunnel are not inductive: a move      *)
(* deletes the devices of the node's kind of binding only, and the routes  *)
(* of the node through them, so that every device must also be of the kind *)
(* its owner's binding calls for, and every route must lead to a live one. *)

\* The record r accounts for device d with ends e.
Carries(r, d, e) ==
  /\ r.active # 0
  /\ e.kind \in Kind /\ r.tnl[e.kind] = d
  /\ e.remote = Binding(r)
  /\ e.kind = "66" <=> r.active < 0

PathOK(kk, f) ==
  /\ \A t \in Table, m \in MN, a \in Family :
       LET d == kk.route[<<t, m, a>>] IN
       d # NoDev => /\ Live(kk, d)
                    /\ kk.dev[d].kind = Carrier(f[m], a)
                    /\ Carries(f[m], d, kk.dev[d])
  /\ "flags" \notin MayFail =>
       \A d \in Dev : Live(kk, d) => \E m \in MN : Carries(f[m], d, kk.dev[d])

\* The inductive invariant implies both properties.
LEMMA PathImplies ==
  ASSUME PathOK(k, mns)
  PROVE  TrafficFollowsBinding /\ ("flags" \notin MayFail => NoOrphanTunnel)
BY DEF PathOK, Carries, TrafficFollowsBinding, NoOrphanTunnel

\* A device a record accounts for is deleted when the node is released.
LEMMA CarriesOld ==
  ASSUME NEW r \in MnRecord, NEW d \in Dev, NEW e, Carries(r, d, e)
  PROVE  d \in OldTunnels(r)
BY DEF Carries, OldTunnels, Kind, MnRecord, Active

\* Nothing changes but what Carries does not look at.
LEMMA PathKept ==
  ASSUME NEW kk, NEW f \in [MN -> MnRecord], NEW g \in [MN -> MnRecord],
         PathOK(kk, f),
         \A m \in MN : /\ Binding(g[m]) = Binding(f[m]) /\ g[m].tnl = f[m].tnl
                       /\ g[m].active < 0 <=> f[m].active < 0
                       /\ g[m].active = 0 <=> f[m].active = 0
  PROVE  PathOK(kk, g)
<1>1. \A m \in MN : \A d, e : Carries(g[m], d, e) <=> Carries(f[m], d, e)
  BY DEF Carries
<1>2. \A m \in MN, a \in Family : Carrier(g[m], a) = Carrier(f[m], a)
  BY DEF Carrier
<1>. QED  BY <1>1, <1>2 DEF PathOK

\* From k0 and f to k1 and g, the nodes of S are released: their devices are
\* deleted.
Released(k0, k1, f, g, S, old) ==
  /\ \A m \in S : OldTunnels(f[m]) \subseteq old
  /\ \A m \in MN \ S : g[m] = f[m]
  /\ \A d \in Dev : k1.dev[d] = IF d \in old THEN Free ELSE k0.dev[d]
  /\ \A x \in Table \X MN \X Family :
       k1.route[x] = IF k0.route[x] \in old THEN NoDev ELSE k0.route[x]

\* Releasing nodes preserves the invariant.
LEMMA PathReleased ==
  ASSUME NEW k0 \in Kernel, NEW k1 \in Kernel,
         NEW f \in [MN -> MnRecord], NEW g \in [MN -> MnRecord],
         PathOK(k0, f), NEW S \in SUBSET MN, NEW old,
         Released(k0, k1, f, g, S, old)
  PROVE  PathOK(k1, g)
<1>. USE DEF Released
<1>1. ASSUME NEW d \in Dev, Live(k1, d)
      PROVE  d \notin old /\ k1.dev[d] = k0.dev[d] /\ Live(k0, d)
  BY <1>1 DEF Live, Free
<1>2. ASSUME NEW d \in Dev, d \notin old, Live(k0, d)
      PROVE  Live(k1, d) /\ k1.dev[d] = k0.dev[d]
  BY <1>2 DEF Live
<1>3. ASSUME NEW t \in Table, NEW m \in MN, NEW a \in Family,
             k1.route[<<t, m, a>>] # NoDev
      PROVE  LET d == k1.route[<<t, m, a>>] IN
             /\ Live(k1, d)
             /\ k1.dev[d].kind = Carrier(g[m], a)
             /\ Carries(g[m], d, k1.dev[d])
  <2>. DEFINE d == k0.route[<<t, m, a>>]
  <2>1. k1.route[<<t, m, a>>] = d /\ d # NoDev /\ d \notin old
    BY <1>3
  <2>2. Live(k0, d) /\ k0.dev[d].kind = Carrier(f[m], a) /\ Carries(f[m], d, k0.dev[d])
    BY <2>1 DEF PathOK
  <2>3. d \in Dev
    BY <2>2 DEF Live
  <2>4. m \notin S
    BY <2>1, <2>2, <2>3, CarriesOld
  <2>. HIDE DEF d
  <2>. QED  BY <1>2, <2>1, <2>2, <2>3, <2>4
<1>4. ASSUME "flags" \notin MayFail, NEW d \in Dev, Live(k1, d)
      PROVE  \E m \in MN : Carries(g[m], d, k1.dev[d])
  <2>1. PICK m \in MN : Carries(f[m], d, k0.dev[d])
    BY <1>1, <1>4 DEF PathOK
  <2>2. m \notin S
    BY <1>1, <1>4, <2>1, CarriesOld
  <2>. QED  BY <1>1, <1>4, <2>1, <2>2
<1>. QED  BY <1>3, <1>4 DEF PathOK

\* From k0 and f to k1 and g, node m is bound through the devices of n instead
\* of those of old.
Rebound(k0, k1, f, g, m, n, old) ==
  /\ OldTunnels(f[m]) \subseteq old
  /\ \A l \in MN \ {m} : g[l] = f[l]
  /\ \A d \in Dev : Live(k0, d) /\ d \notin old => k1.dev[d] = k0.dev[d]
  /\ \A d \in Dev : Live(k1, d) =>
       \/ \E a \in Family : d = n[a]
       \/ Live(k0, d) /\ d \notin old
       \/ "flags" \in MayFail
  /\ \A a \in Family : Live(k1, n[a]) =>
       /\ k1.dev[n[a]].kind = Carrier(g[m], a)
       /\ Carries(g[m], n[a], k1.dev[n[a]])
  /\ \A x \in Table \X MN \X Family : x[2] # m =>
       k1.route[x] = IF k0.route[x] \in old THEN NoDev ELSE k0.route[x]
  /\ \A x \in Table \X MN \X Family : x[2] = m /\ k1.route[x] # NoDev =>
       k1.route[x] = n[x[3]] /\ Live(k1, n[x[3]])

\* Rebinding a node preserves the invariant.
LEMMA PathRebound ==
  ASSUME NEW k0 \in Kernel, NEW k1 \in Kernel,
         NEW f \in [MN -> MnRecord], NEW g \in [MN -> MnRecord],
         PathOK(k0, f), NEW m \in MN, NEW n, NEW old,
         Rebound(k0, k1, f, g, m, n, old)
  PROVE  PathOK(k1, g)
<1>. USE DEF Rebound
<1>1. ASSUME NEW d \in Dev, d \notin old, Live(k0, d)
      PROVE  Live(k1, d) /\ k1.dev[d] = k0.dev[d]
  BY <1>1 DEF Live
<1>2. ASSUME NEW t \in Table, NEW l \in MN, NEW a \in Family,
             k1.route[<<t, l, a>>] # NoDev
      PROVE  LET d == k1.route[<<t, l, a>>] IN
             /\ Live(k1, d)
             /\ k1.dev[d].kind = Carrier(g[l], a)
             /\ Carries(g[l], d, k1.dev[d])
  <2>1. CASE l = m
    <3>1. k1.route[<<t, l, a>>] = n[a] /\ Live(k1, n[a])
      BY <1>2, <2>1
    <3>. QED  BY <2>1, <3>1
  <2>2. CASE l # m
    <3>. DEFINE d == k0.route[<<t, l, a>>]
    <3>1. k1.route[<<t, l, a>>] = d /\ d # NoDev /\ d \notin old
      BY <1>2, <2>2
    <3>2. Live(k0, d) /\ k0.dev[d].kind = Carrier(f[l], a) /\ Carries(f[l], d, k0.dev[d])
      BY <3>1 DEF PathOK
    <3>3. d \in Dev
      BY <3>2 DEF Live
    <3>. HIDE DEF d
    <3>. QED  BY <1>1, <2>2, <3>1, <3>2, <3>3
  <2>. QED  BY <2>1, <2>2
<1>3. ASSUME "flags" \notin MayFail, NEW d \in Dev, Live(k1, d)
      PROVE  \E l \in MN : Carries(g[l], d, k1.dev[d])
  <2>1. CASE \E a \in Family : d = n[a]
    BY <1>3, <2>1
  <2>2. CASE Live(k0, d) /\ d \notin old
    <3>1. PICK l \in MN : Carries(f[l], d, k0.dev[d])
      BY <1>3, <2>2 DEF PathOK
    <3>2. l # m
      BY <2>2, <3>1, CarriesOld
    <3>. QED  BY <1>1, <2>2, <3>1, <3>2
  <2>. QED  BY <1>3, <2>1, <2>2
<1>. QED  BY <1>2, <1>3 DEF PathOK

-------------------------------------------------------------------------------
(* The kernel after the calls of a move.  k1 is reached from k0.           *)

\* Routes of other nodes: those through the devices of old are gone.
OthersRoutes(k0, k1, m, old) ==
  \A x \in Table \X MN \X Family : x[2] # m =>
    k1.route[x] = IF k0.route[x] \in old THEN NoDev ELSE k0.route[x]

\* Routes of node m: all lead into the live devices of n.
OwnRoutes(k1, m, n) ==
  \A x \in Table \X MN \X Family : x[2] = m /\ k1.route[x] # NoDev =>
    k1.route[x] = n[x[3]] /\ Live(k1, n[x[3]])

Moved(k0, k1, m, n, old) ==
  /\ \A d \in Dev : k1.dev[d] = IF d \in old THEN Free ELSE k0.dev[d]
  /\ OthersRoutes(k0, k1, m, old)
  /\ OwnRoutes(k1, m, n)

\* Between its last call and the return of the handler the kernel is as Move
\* and, if it is called, EndMove leave it.
LEMMA MoveEffect ==
  ASSUME mns \in [MN -> MnRecord], NEW k0 \in Kernel, NEW m \in MN, NEW n,
         \A x \in Table \X MN \X Family : x[2] = m =>
           k0.route[x] \in OldTunnels(mns[m]) \union {NoDev}
  PROVE  Moved(k0, Move(k0, m, n), m, n, OldTunnels(mns[m]))
<1>. DEFINE r   == mns[m]
            old == OldTunnels(r)
            ka  == RoutesAdd(k0, "tmp", m, n)
            k1  == IF r.active # 0 THEN RulesAdd(ka, m) ELSE k0
            k2  == TunnelsDel(k1, old)
            k3  == RoutesAdd(k2, "main", m, n)
            k4  == IF ViaNat(r) THEN stop_udp_encap(k3, m, r.nat[r.active]) ELSE k3
<1>0. Move(k0, m, n) = k4
  BY DEF Move
<1>1. ka \in Kernel /\ k1 \in Kernel
  BY RoutesAddType, RulesType DEF Table
<1>2. k2 \in Kernel
  BY <1>1, TunnelsDelType
<1>3. k3 \in Kernel
  <2>. HIDE DEF k2
  <2>. QED  BY <1>2, RoutesAddType DEF Table
<1>4. /\ k1.dev = k0.dev
      /\ \A x \in Table \X MN \X Family :
           \/ k1.route[x] = k0.route[x]
           \/ x[2] = m /\ Live(k0, n[x[3]]) /\ k1.route[x] = n[x[3]]
  <2>1. /\ ka.dev = k0.dev
        /\ \A x \in Table \X MN \X Family :
             \/ ka.route[x] = k0.route[x]
             \/ x[2] = m /\ Live(k0, n[x[3]]) /\ ka.route[x] = n[x[3]]
    BY RoutesAddEffect
  <2>. HIDE DEF ka
  <2>. QED  BY <1>1, <2>1, RulesEffect
<1>. HIDE DEF ka, k1
<1>5. /\ \A d \in Dev : k2.dev[d] = IF d \in old THEN Free ELSE k1.dev[d]
      /\ \A x \in Table \X MN \X Family :
           k2.route[x] = IF k1.route[x] \in old THEN NoDev ELSE k1.route[x]
  BY <1>1, TunnelsDelEffect
<1>. HIDE DEF k2
<1>6. /\ k3.dev = k2.dev
      /\ \A x \in Table \X MN \X Family :
           \/ k3.route[x] = k2.route[x]
           \/ x[2] = m /\ Live(k2, n[x[3]]) /\ k3.route[x] = n[x[3]]
  BY <1>2, RoutesAddEffect
<1>. HIDE DEF k3
<1>7. k4.dev = k3.dev /\ k4.route = k3.route
  <2>1. CASE ViaNat(r)
    <3>. DEFINE e == r.nat[r.active]
    <3>1. e \in Endpoint
      BY <2>1, NatEndpoint
    <3>2. k4 = stop_udp_encap(k3, m, e)
      BY <2>1
    <3>. HIDE DEF r, k4, e
    <3>3. /\ stop_udp_encap(k3, m, e).dev = k3.dev
          /\ stop_udp_encap(k3, m, e).route = k3.route
      BY <1>3, <3>1, StopEncapEffect
    <3>. QED  BY <3>2, <3>3
  <2>. QED  BY <2>1
<1>. HIDE DEF k4, old
<1>8. \A d \in Dev : k4.dev[d] = IF d \in old THEN Free ELSE k0.dev[d]
  BY <1>4, <1>5, <1>6, <1>7
<1>9. OthersRoutes(k0, k4, m, old)
  BY <1>4, <1>5, <1>6, <1>7 DEF OthersRoutes
<1>10. OwnRoutes(k4, m, n)
  <2>. SUFFICES ASSUME NEW x \in Table \X MN \X Family, x[2] = m,
                       k4.route[x] # NoDev
                PROVE  k4.route[x] = n[x[3]] /\ Live(k4, n[x[3]])
    BY DEF OwnRoutes
  <2>1. CASE k3.route[x] = k2.route[x]
    <3>1. k2.route[x] = k1.route[x] /\ k1.route[x] \notin old /\ k1.route[x] # NoDev
      BY <1>5, <1>7, <2>1
    <3>2. k1.route[x] = n[x[3]] /\ Live(k0, n[x[3]])
      BY <1>4, <3>1 DEF old
    <3>3. Live(k4, n[x[3]])
      BY <1>8, <3>1, <3>2 DEF Live
    <3>. QED  BY <1>7, <2>1, <3>1, <3>2, <3>3
  <2>2. CASE Live(k2, n[x[3]]) /\ k3.route[x] = n[x[3]]
    BY <1>6, <1>7, <2>2 DEF Live
  <2>. QED  BY <1>6, <2>1, <2>2
<1>. QED  BY <1>0, <1>8, <1>9, <1>10 DEF Moved, old

\* The calls that end a move only delete routes of the node.
LEMMA EndMoveEffect ==
  ASSUME NEW k1 \in Kernel, NEW m \in MN, NEW n
  PROVE  /\ EndMove(k1, m, n).dev = k1.dev
         /\ EndMove(k1, m, n).pol = k1.pol /\ EndMove(k1, m, n).sa = k1.sa
         /\ \A x \in Table \X MN \X Family :
              \/ EndMove(k1, m, n).route[x] = k1.route[x]
              \/ x[2] = m /\ EndMove(k1, m, n).route[x] = NoDev
<1>1. RulesDel(k1, m) \in Kernel
  BY RulesType
<1>. QED  BY <1>1, RulesEffect, RoutesDelEffect DEF EndMove

\* Hence they change nothing of what Moved says.
LEMMA EndMoveMoved ==
  ASSUME NEW k0 \in Kernel, NEW k1 \in Kernel, NEW m \in MN, NEW n, NEW old,
         Moved(k0, k1, m, n, old)
  PROVE  Moved(k0, EndMove(k1, m, n), m, n, old)
<1>. DEFINE k2 == EndMove(k1, m, n)
<1>1. /\ k2.dev = k1.dev
      /\ \A x \in Table \X MN \X Family :
           \/ k2.route[x] = k1.route[x]
           \/ x[2] = m /\ k2.route[x] = NoDev
  BY EndMoveEffect
<1>. HIDE DEF k2
<1>2. \A d : Live(k2, d) <=> Live(k1, d)
  BY <1>1 DEF Live
<1>3. \A x \in Table \X MN \X Family : x[2] # m => k2.route[x] = k1.route[x]
  BY <1>1
<1>4. OthersRoutes(k0, k2, m, old)
  BY <1>3 DEF OthersRoutes, Moved
<1>5. OwnRoutes(k2, m, n)
  BY <1>1, <1>2 DEF OwnRoutes, Moved
<1>. QED  BY <1>1, <1>4, <1>5 DEF Moved, k2

-------------------------------------------------------------------------------
(* A move and its tunnels. *)

KindV4(a) == IF a = "v4" THEN "44" ELSE "64"

\* k1 is k0 with a tunnel of that kind to c, whose device d is returned as i:
\* when its index is lost its device is a new one.
AddedOne(k0, k1, rem, kind, c, d, i) ==
  /\ k1 \in Kernel
  /\ k1.route = k0.route /\ k1.pol = k0.pol /\ k1.sa = k0.sa
  /\ \A x \in Dev : Live(k0, x) => k1.dev[x] = k0.dev[x]
  /\ \A x \in Dev : Live(k1, x) =>
       \/ Live(k0, x) \/ x = i \/ ("flags" \in MayFail /\ x \notin rem)
  /\ i \in Dev => i = d /\ k1.dev[i] = [kind |-> kind, remote |-> c]

LEMMA AddOneEffect ==
  ASSUME NEW k0 \in Kernel, NEW rem, NEW kind \in Kind, NEW c \in Coa,
         NEW d \in TunnelAddResults(k0, rem, kind, c), NEW i \in Returned(d)
  PROVE  AddedOne(k0, TunnelAdd(k0, d, kind, c), rem, kind, c, d, i)
<1>. DEFINE k1 == TunnelAdd(k0, d, kind, c)
<1>1. /\ k1.route = k0.route /\ k1.pol = k0.pol /\ k1.sa = k0.sa
      /\ \A x \in Dev : Live(k0, x) => k1.dev[x] = k0.dev[x]
      /\ \A x \in Dev : Live(k1, x) => Live(k0, x) \/ x = d
      /\ d \in Dev => k1.dev[d] = [kind |-> kind, remote |-> c]
  BY TunnelAddEffect
<1>2. d \in Dev \union {FAILED} /\ k1 \in Kernel
  BY AddResultType, TunnelAddType
<1>3. /\ i # d => i = FAILED /\ "flags" \in MayFail
      /\ FAILED \notin Dev
  BY <1>2, ReturnedType, DevAssumption
<1>4. d \in Dev => Live(k0, d) \/ d \notin rem
  <2>1. d \in Dev => k0.dev[d] = [kind |-> kind, remote |-> c] \/ d \notin rem
    BY <1>3 DEF TunnelAddResults
  <2>. QED  BY <2>1 DEF Live, Kind
<1>. HIDE DEF k1
<1>5. \A x \in Dev : Live(k1, x) =>
        \/ Live(k0, x) \/ x = i \/ ("flags" \in MayFail /\ x \notin rem)
  BY <1>1, <1>3, <1>4
<1>6. AddedOne(k0, k1, rem, kind, c, d, i)
  BY <1>1, <1>2, <1>3, <1>5 DEF AddedOne
<1>. QED  BY <1>6 DEF k1

\* The two tunnels of a move to an IPv4 address.
LEMMA AddPairEffect ==
  ASSUME k \in Kernel, NEW c \in CoaV4,
         NEW d64, NEW d44, NEW i64, NEW i44, PairAdded(c, d64, d44, i64, i44)
  PROVE  LET k2 == PairKernel(c, d64, d44)
             n  == Pair(i64, i44)
         IN  /\ k2 \in Kernel
             /\ k2.route = k.route /\ k2.pol = k.pol /\ k2.sa = k.sa
             /\ \A d \in Dev : Live(k, d) => k2.dev[d] = k.dev[d]
             /\ \A d \in Dev : Live(k2, d) =>
                  \/ Live(k, d) \/ \E a \in Family : d = n[a]
                  \/ ("flags" \in MayFail /\ d \notin Remembered)
             /\ \A a \in Family : n[a] \in Dev =>
                  k2.dev[n[a]] = [kind |-> KindV4(a), remote |-> c]
<1>. USE DEF PairAdded
<1>. DEFINE k1 == TunnelAdd(k, d64, "64", c)
            k2 == TunnelAdd(k1, d44, "44", c)
            n  == Pair(i64, i44)
<1>0. "64" \in Kind /\ "44" \in Kind /\ c \in Coa
  BY DEF Kind, Coa
<1>1. /\ k1 \in Kernel
      /\ k1.route = k.route /\ k1.pol = k.pol /\ k1.sa = k.sa
      /\ \A d \in Dev : Live(k, d) => k1.dev[d] = k.dev[d]
      /\ \A d \in Dev : Live(k1, d) =>
           \/ Live(k, d) \/ d = i64 \/ ("flags" \in MayFail /\ d \notin Remembered)
      /\ i64 \in Dev => i64 = d64 /\ k1.dev[i64] = [kind |-> "64", remote |-> c]
  <2>1. AddedOne(k, k1, Remembered, "64", c, d64, i64)
    BY <1>0, AddOneEffect
  <2>. HIDE DEF k1
  <2>. QED  BY <2>1 DEF AddedOne
<1>. HIDE DEF k1
<1>3. /\ k2 \in Kernel
      /\ k2.route = k1.route /\ k2.pol = k1.pol /\ k2.sa = k1.sa
      /\ \A d \in Dev : Live(k1, d) => k2.dev[d] = k1.dev[d]
      /\ \A d \in Dev : Live(k2, d) =>
           \/ Live(k1, d) \/ d = i44
           \/ ("flags" \in MayFail /\ d \notin Remembered \union {d64})
      /\ i44 \in Dev => i44 = d44 /\ k2.dev[i44] = [kind |-> "44", remote |-> c]
  <2>1. d44 \in TunnelAddResults(k1, Remembered \union {d64}, "44", c)
    BY DEF k1
  <2>2. AddedOne(k1, k2, Remembered \union {d64}, "44", c, d44, i44)
    BY <1>0, <1>1, <2>1, AddOneEffect
  <2>. HIDE DEF k2
  <2>. QED  BY <2>2 DEF AddedOne
<1>. HIDE DEF k2
<1>4. n["v4"] = i44 /\ n["v6"] = i64
  BY DEF Family, Pair
<1>. HIDE DEF n
<1>5. \A d \in Dev : Live(k, d) => k2.dev[d] = k.dev[d]
  BY <1>1, <1>3 DEF Live
<1>6. \A d \in Dev : Live(k2, d) =>
        \/ Live(k, d) \/ \E a \in Family : d = n[a]
        \/ ("flags" \in MayFail /\ d \notin Remembered)
  BY <1>1, <1>3, <1>4 DEF Family
<1>7. i64 \in Dev => k2.dev[i64] = [kind |-> "64", remote |-> c]
  BY <1>1, <1>3 DEF Live
<1>8. \A a \in Family : n[a] \in Dev =>
        k2.dev[n[a]] = [kind |-> KindV4(a), remote |-> c]
  BY <1>3, <1>4, <1>7 DEF Family, KindV4
<1>. QED  BY <1>1, <1>3, <1>5, <1>6, <1>8 DEF k1, k2, n, PairKernel

\* The record of a node that is bound accounts for the devices of n.
LEMMA BoundV4Carries ==
  ASSUME NEW r \in MnRecord, NEW i \in 1 .. NIF - 1, NEW q,
         NEW n \in [Family -> Dev \union {FAILED}], NEW a \in Family
  PROVE  LET g == Seen(BoundV4(r, i, n), q) IN
         /\ Carrier(g, a) = KindV4(a)
         /\ Carries(g, n[a], [kind |-> KindV4(a), remote |-> r.coav4[i]])
<1>. DEFINE g == Seen(BoundV4(r, i, n), q)
<1>1. /\ g.active = i /\ g.coav4 = r.coav4
      /\ g.tnl = [t \in Kind |-> CASE t = "44" -> n["v4"] [] t = "64" -> n["v6"]
                                   [] OTHER -> Forgotten(r)["66"]]
  BY DEF Seen, BoundV4, MnRecord
<1>. HIDE DEF g
<1>2. g.tnl[KindV4(a)] = n[a]
  BY <1>1 DEF KindV4, Kind, Family
<1>3. Carrier(g, a) = KindV4(a)
  BY <1>1 DEF Carrier, KindV4
<1>4. Binding(g) = r.coav4[i]
  BY <1>1 DEF Binding
<1>5. Carries(g, n[a], [kind |-> KindV4(a), remote |-> r.coav4[i]])
  BY <1>1, <1>2, <1>4 DEF Carries, KindV4, Kind
<1>. QED  BY <1>3, <1>5 DEF g

\* A record bound to an IPv6 address accounts for the device of both families.
LEMMA BoundV6Carries ==
  ASSUME NEW r \in MnRecord, NEW c, NEW q,
         NEW n \in [Family -> Dev \union {FAILED}], NEW a \in Family,
         n["v6"] = n[a]
  PROVE  LET g == Seen(BoundV6(r, c, n), q) IN
         /\ Carrier(g, a) = "66"
         /\ Carries(g, n[a], [kind |-> "66", remote |-> c])
<1>. DEFINE g == Seen(BoundV6(r, c, n), q)
<1>1. /\ g.active = -1 /\ g.coav6 = c
      /\ g.tnl = [t \in Kind |-> IF t = "66" THEN n["v6"] ELSE Forgotten(r)[t]]
  BY DEF Seen, BoundV6, MnRecord
<1>. HIDE DEF g
<1>2. g.tnl["66"] = n[a]
  BY <1>1 DEF Kind
<1>. QED  BY <1>1, <1>2 DEF Carrier, Carries, Binding, Kind, g

\* All routes of a node lead through devices its release deletes.
LEMMA RoutesOld ==
  ASSUME NEW kk, NEW f \in [MN -> MnRecord], PathOK(kk, f), NEW m \in MN
  PROVE  \A x \in Table \X MN \X Family : x[2] = m =>
           kk.route[x] \in OldTunnels(f[m]) \union {NoDev}
<1>. SUFFICES ASSUME NEW t \in Table, NEW a \in Family,
                     kk.route[<<t, m, a>>] # NoDev
              PROVE  kk.route[<<t, m, a>>] \in OldTunnels(f[m])
  OBVIOUS
<1>1. Live(kk, kk.route[<<t, m, a>>])
      /\ Carries(f[m], kk.route[<<t, m, a>>], kk.dev[kk.route[<<t, m, a>>]])
  BY DEF PathOK
<1>. QED  BY <1>1, CarriesOld DEF Live

\* kA is k0 with devices n, whose ends are e, and perhaps new devices whose
\* indexes were lost.
Added(k0, kA, n, e) ==
  /\ kA.route = k0.route /\ kA.pol = k0.pol /\ kA.sa = k0.sa
  /\ \A d \in Dev : Live(k0, d) => kA.dev[d] = k0.dev[d]
  /\ \A d \in Dev : Live(kA, d) =>
       \/ Live(k0, d) \/ \E a \in Family : d = n[a]
       \/ ("flags" \in MayFail /\ d \notin Remembered)
  /\ \A a \in Family : n[a] \in Dev => kA.dev[n[a]] = e[a]

\* The record r accounts for the devices n with ends e.
CarriesAll(r, n, e) ==
  \A a \in Family : e[a].kind = Carrier(r, a) /\ Carries(r, n[a], e[a])

\* A move, seen as a whole: kA is k with the new devices, k1 the kernel once
\* the old ones are gone.
LEMMA PathMoved ==
  ASSUME NEW k0 \in Kernel, NEW kA \in Kernel, NEW k1 \in Kernel,
         NEW f \in [MN -> MnRecord], NEW g \in [MN -> MnRecord],
         PathOK(k0, f), NEW m \in MN, NEW n \in [Family -> Dev \union {FAILED}],
         NEW e \in [Family -> [kind : Kind, remote : Coa]], NEW b,
         g = [f EXCEPT ![m] = b], CarriesAll(b, n, e),
         Added(k0, kA, n, e),
         Moved(kA, k1, m, n, OldTunnels(f[m]))
  PROVE  PathOK(k1, g)
<1>. USE DEF Added, CarriesAll
<1>. DEFINE old == OldTunnels(f[m])
<1>1. \A d \in Dev : Live(k0, d) /\ d \notin old => k1.dev[d] = k0.dev[d]
  BY DEF Moved
<1>2. \A d \in Dev : Live(k1, d) =>
        /\ d \notin old /\ k1.dev[d] = kA.dev[d]
        /\ \/ \E a \in Family : d = n[a]
           \/ Live(k0, d) /\ d \notin old
           \/ "flags" \in MayFail
  BY DEF Moved, Live, Free
<1>3. \A a \in Family : Live(k1, n[a]) =>
        /\ k1.dev[n[a]].kind = Carrier(g[m], a)
        /\ Carries(g[m], n[a], k1.dev[n[a]])
  <2>. SUFFICES ASSUME NEW a \in Family, Live(k1, n[a])
                PROVE  k1.dev[n[a]] = e[a] /\ n[a] \in Dev
    OBVIOUS
  <2>. QED  BY <1>2 DEF Live
<1>4. \A x \in Table \X MN \X Family : x[2] # m =>
        k1.route[x] = IF k0.route[x] \in old THEN NoDev ELSE k0.route[x]
  BY DEF Moved, OthersRoutes
<1>5. \A x \in Table \X MN \X Family : x[2] = m /\ k1.route[x] # NoDev =>
        k1.route[x] = n[x[3]] /\ Live(k1, n[x[3]])
  BY DEF Moved, OwnRoutes
<1>6. \A d \in Dev : Live(k1, d) =>
        \/ \E a \in Family : d = n[a]
        \/ Live(k0, d) /\ d \notin old
        \/ "flags" \in MayFail
  BY <1>2
<1>7. OldTunnels(f[m]) \subseteq old
  OBVIOUS
<1>8. Rebound(k0, k1, f, g, m, n, old)
  BY <1>1, <1>3, <1>4, <1>5, <1>6, <1>7 DEF Rebound
<1>. HIDE DEF old
<1>. QED  BY <1>8, PathRebound

-------------------------------------------------------------------------------
(* The two moves, in the form the proofs use.                              *)

AfterMove(kA, m, n, ended) ==
  IF ended THEN EndMove(Move(kA, m, n), m, n) ELSE Move(kA, m, n)

EndsV4(c) == [a \in Family |-> [kind |-> KindV4(a), remote |-> c]]
EndsV6(c) == [a \in Family |-> [kind |-> "66", remote |-> c]]

\* What adding tunnels returned: devices that were there, indexes that are
\* nobody's, or failures.
Got(n) ==
  \A a \in Family : \/ n[a] = FAILED /\ MayFail # {}
                    \/ n[a] \in Dev /\ (Live(k, n[a]) \/ n[a] \notin Remembered)

V4Shape(m, q, c, i, n, kA) ==
  /\ mns[m].coav4[i] = c
  /\ Added(k, kA, n, EndsV4(c)) /\ Got(n)
  /\ LET k3 == AfterMove(kA, m, n, mns[m].active # 0) IN
     k' = IF mns[m].nat[i] # NoNat THEN start_udp_encap(k3, m, mns[m].nat[i]) ELSE k3
  /\ mns' = [mns EXCEPT ![m] = Seen(BoundV4(mns[m], i, n), q)]

V6Shape(m, q, c, n, kA) ==
  /\ n["v4"] = n["v6"]
  /\ Added(k, kA, n, EndsV6(c)) /\ Got(n)
  /\ k' = AfterMove(kA, m, n, mns[m].active # 0 /\ ~ViaNat(mns[m]))
  /\ mns' = [mns EXCEPT ![m] = Seen(BoundV6(mns[m], c, n), q)]

\* tunnelXX_add returns a device with the ends asked for, an index that is
\* nobody's, or a failure.
LEMMA AddResultGot ==
  ASSUME NEW k0, NEW rem, NEW kind, NEW c,
         NEW d \in TunnelAddResults(k0, rem, kind, c), NEW i \in Returned(d)
  PROVE  \/ i = FAILED /\ MayFail # {}
         \/ i \in Dev /\ i = d
            /\ (k0.dev[i] = [kind |-> kind, remote |-> c] \/ i \notin rem)
BY DEF TunnelAddResults, Returned

\* So it does for both tunnels of a move to an IPv4 address.
LEMMA AddPairGot ==
  ASSUME NEW c \in CoaV4, k \in Kernel,
         NEW d64, NEW d44, NEW i64, NEW i44, PairAdded(c, d64, d44, i64, i44)
  PROVE  Got(Pair(i64, i44))
<1>. USE DEF PairAdded
<1>. DEFINE k1 == TunnelAdd(k, d64, "64", c)
            n  == Pair(i64, i44)
            OK(d) == \/ d = FAILED /\ MayFail # {}
                     \/ d \in Dev /\ (Live(k, d) \/ d \notin Remembered)
<1>1. OK(i64)
  <2>1. \/ i64 = FAILED /\ MayFail # {}
        \/ i64 \in Dev /\ \/ k.dev[i64] = [kind |-> "64", remote |-> c]
                          \/ i64 \notin Remembered
    BY AddResultGot
  <2>. QED  BY <2>1 DEF Live
<1>2. \A d \in Dev : Live(k1, d) =>
        \/ Live(k, d) \/ d = i64 \/ ("flags" \in MayFail /\ d \notin Remembered)
  <2>1. "64" \in Kind /\ c \in Coa
    BY DEF Kind, Coa
  <2>2. AddedOne(k, k1, Remembered, "64", c, d64, i64)
    BY <2>1, AddOneEffect
  <2>. HIDE DEF k1
  <2>. QED  BY <2>2 DEF AddedOne
<1>3. \/ i44 = FAILED /\ MayFail # {}
      \/ i44 \in Dev /\ \/ k1.dev[i44] = [kind |-> "44", remote |-> c]
                        \/ i44 \notin Remembered
  BY AddResultGot
<1>. HIDE DEF k1
<1>4. OK(i44)
  BY <1>1, <1>2, <1>3 DEF Live
<1>5. \A a \in Family : n[a] = i44 \/ n[a] = i64
  BY DEF Pair
<1>. HIDE DEF n
<1>6. Got(n)
  BY <1>1, <1>4, <1>5 DEF Got
<1>. QED  BY <1>6 DEF n

\* A move to an IPv4 address has the form V4Shape.
LEMMA BuV4MoveShape ==
  ASSUME CacheInv, NEW m \in MN, NEW q \in SeqNo, NEW c \in CoaV4,
         BuV4Move(m, q, c)
  PROVE  \E i \in 1 .. NIF - 1, n \in [Family -> Dev \union {FAILED}],
            kA \in Kernel : V4Shape(m, q, c, i, n, kA)
<1>1. PICK i \in 0 .. NIF - 1 : \E d64, d44, i64, i44 \in Dev \union {FAILED} :
        /\ PairAdded(c, d64, d44, i64, i44)
        /\ FoundAt(mns[m], c, i)
        /\ ThroughV4(m, q, i, PairKernel(c, d64, d44), Pair(i64, i44))
  BY V4Pair
<1>2. PICK d64, d44, i64, i44 \in Dev \union {FAILED} :
        /\ PairAdded(c, d64, d44, i64, i44)
        /\ FoundAt(mns[m], c, i)
        /\ ThroughV4(m, q, i, PairKernel(c, d64, d44), Pair(i64, i44))
  BY <1>1
<1>. DEFINE r  == mns[m]
            n  == Pair(i64, i44)
            kA == PairKernel(c, d64, d44)
            k3 == AfterMove(kA, m, n, r.active # 0)
<1>4. r \in MnRecord /\ k \in Kernel /\ r.coav4[0] = Unspec
  BY DEF CacheInv, TypeOK, HomeSlotEmpty
<1>6. n \in [Family -> Dev \union {FAILED}]
  BY DEF Pair
<1>7. i \in 1 .. NIF - 1 /\ r.coav4[i] = c
  BY <1>2, <1>4, FoundType
<1>8. kA \in Kernel /\ Added(k, kA, n, EndsV4(c))
  <2>1. /\ kA \in Kernel
        /\ kA.route = k.route /\ kA.pol = k.pol /\ kA.sa = k.sa
        /\ \A d \in Dev : Live(k, d) => kA.dev[d] = k.dev[d]
        /\ \A d \in Dev : Live(kA, d) =>
             \/ Live(k, d) \/ \E a \in Family : d = n[a]
             \/ ("flags" \in MayFail /\ d \notin Remembered)
        /\ \A a \in Family : n[a] \in Dev =>
             kA.dev[n[a]] = [kind |-> KindV4(a), remote |-> c]
    BY <1>2, <1>4, AddPairEffect
  <2>. HIDE DEF n, kA
  <2>2. \A a \in Family : n[a] \in Dev => kA.dev[n[a]] = EndsV4(c)[a]
    BY <2>1 DEF EndsV4
  <2>. QED  BY <2>1, <2>2 DEF Added
<1>9. /\ k' = IF r.nat[i] # NoNat THEN start_udp_encap(k3, m, r.nat[i]) ELSE k3
      /\ mns' = [mns EXCEPT ![m] = Seen(BoundV4(r, i, n), q)]
  BY <1>2, Zenon DEF ThroughV4, AfterMove
<1>10. Got(n)
  BY <1>2, <1>4, AddPairGot
<1>. HIDE DEF kA, n
<1>11. V4Shape(m, q, c, i, n, kA)
  BY <1>7, <1>8, <1>9, <1>10 DEF V4Shape
<1>. QED  BY <1>6, <1>7, <1>8, <1>11

\* A move to an IPv6 address has the form V6Shape.
LEMMA BuV6MoveShape ==
  ASSUME CacheInv, NEW m \in MN, NEW q \in SeqNo, NEW c \in CoaV6,
         BuV6Move(m, q, c)
  PROVE  \E n \in [Family -> Dev \union {FAILED}], kA \in Kernel :
           V6Shape(m, q, c, n, kA)
<1>. DEFINE r == mns[m]
            n(x)  == [f \in Family |-> x]
            kA(d) == TunnelAdd(k, d, "66", c)
            k1(d, x) == Move(kA(d), m, n(x))
<1>0. PICK d \in TunnelAddResults(k, Remembered, "66", c) :
        \E x \in Returned(d) :
          /\ k' = IF r.active # 0 /\ ~ViaNat(r) THEN EndMove(k1(d, x), m, n(x))
                  ELSE k1(d, x)
          /\ mns' = [mns EXCEPT ![m] = Seen(BoundV6(r, c, n(x)), q)]
  BY Zenon DEF BuV6Move
<1>1. PICK x \in Returned(d) :
        /\ k' = IF r.active # 0 /\ ~ViaNat(r) THEN EndMove(k1(d, x), m, n(x))
                ELSE k1(d, x)
        /\ mns' = [mns EXCEPT ![m] = Seen(BoundV6(r, c, n(x)), q)]
  BY <1>0, Zenon
<1>2. k \in Kernel /\ d \in Dev \union {FAILED} /\ x \in Dev \union {FAILED}
  BY AddResultType, ReturnedType DEF CacheInv, TypeOK
<1>3. kA(d) \in Kernel /\ n(x) \in [Family -> Dev \union {FAILED}]
  BY <1>2, TunnelAddType DEF Kind, Coa
<1>4. n(x)["v4"] = n(x)["v6"] /\ \A a \in Family : n(x)[a] = x
  BY DEF Family
<1>5. Added(k, kA(d), n(x), EndsV6(c))
  <2>. DEFINE kk == kA(d)
  <2>1. /\ kk.route = k.route /\ kk.pol = k.pol /\ kk.sa = k.sa
        /\ \A y \in Dev : Live(k, y) => kk.dev[y] = k.dev[y]
        /\ \A y \in Dev : Live(kk, y) =>
             \/ Live(k, y) \/ y = x \/ ("flags" \in MayFail /\ y \notin Remembered)
        /\ x \in Dev => kk.dev[x] = [kind |-> "66", remote |-> c]
    <3>1. "66" \in Kind /\ c \in Coa
      BY DEF Kind, Coa
    <3>2. AddedOne(k, kk, Remembered, "66", c, d, x)
      BY <1>2, <3>1, AddOneEffect
    <3>. HIDE DEF kk
    <3>. QED  BY <3>2 DEF AddedOne
  <2>. HIDE DEF kk, n
  <2>2. "v4" \in Family
    BY DEF Family
  <2>3. Added(k, kk, n(x), EndsV6(c))
    BY <1>4, <2>1, <2>2 DEF Added, EndsV6
  <2>. QED  BY <2>3 DEF kk
<1>6. k' = AfterMove(kA(d), m, n(x), r.active # 0 /\ ~ViaNat(r))
  BY <1>1, Zenon DEF AfterMove
<1>7. Got(n(x))
  <2>1. \/ x = FAILED /\ MayFail # {}
        \/ x \in Dev /\ \/ k.dev[x] = [kind |-> "66", remote |-> c]
                        \/ x \notin Remembered
    BY AddResultGot
  <2>2. \/ x = FAILED /\ MayFail # {}
        \/ x \in Dev /\ (Live(k, x) \/ x \notin Remembered)
    BY <2>1 DEF Live
  <2>. HIDE DEF n
  <2>. QED  BY <1>4, <2>2 DEF Got
<1>. HIDE DEF kA, n
<1>8. V6Shape(m, q, c, n(x), kA(d))
  BY <1>1, <1>4, <1>5, <1>6, <1>7 DEF V6Shape
<1>. QED  BY <1>3, <1>8

\* What the kernel is like after all the calls of a move.
LEMMA AfterMoveMoved ==
  ASSUME TypeOK, PathOK(k, mns), NEW m \in MN, NEW n, NEW kA \in Kernel,
         kA.route = k.route, NEW ended
  PROVE  /\ AfterMove(kA, m, n, ended) \in Kernel
         /\ Moved(kA, AfterMove(kA, m, n, ended), m, n, OldTunnels(mns[m]))
<1>1. mns \in [MN -> MnRecord]
  BY DEF TypeOK
<1>2. \A x \in Table \X MN \X Family : x[2] = m =>
        kA.route[x] \in OldTunnels(mns[m]) \union {NoDev}
  <2>1. \A x \in Table \X MN \X Family : x[2] = m =>
          k.route[x] \in OldTunnels(mns[m]) \union {NoDev}
    BY <1>1, RoutesOld
  <2>. QED  BY <2>1
<1>3. /\ Move(kA, m, n) \in Kernel
      /\ Moved(kA, Move(kA, m, n), m, n, OldTunnels(mns[m]))
  BY <1>1, <1>2, MoveType, MoveEffect
<1>4. /\ EndMove(Move(kA, m, n), m, n) \in Kernel
      /\ Moved(kA, EndMove(Move(kA, m, n), m, n), m, n, OldTunnels(mns[m]))
  BY <1>3, EndMoveType, EndMoveMoved
<1>. QED  BY <1>3, <1>4 DEF AfterMove

\* An encapsulation that is started or stopped leaves routes and devices alone.
LEMMA MovedSame ==
  ASSUME NEW k0, NEW k1, NEW k2, NEW m, NEW n, NEW old,
         Moved(k0, k1, m, n, old), k2.dev = k1.dev, k2.route = k1.route
  PROVE  Moved(k0, k2, m, n, old)
BY DEF Moved, OthersRoutes, OwnRoutes, Live

-------------------------------------------------------------------------------
(* A step is of one of three forms: it keeps what the invariants look at,  *)
(* it releases nodes, or it moves one node.                                *)

\* No route and no device changes, and no node's binding.
Keeps ==
  /\ k'.dev = k.dev /\ k'.route = k.route
  /\ \A m \in MN : /\ Binding(mns'[m]) = Binding(mns[m])
                   /\ mns'[m].tnl = mns[m].tnl
                   /\ mns'[m].active < 0 <=> mns[m].active < 0
                   /\ mns'[m].active = 0 <=> mns[m].active = 0

\* The nodes of S are bound to nothing any more.
Releases(S) ==
  /\ Released(k, k', mns, mns', S, UNION {OldTunnels(mns[m]) : m \in S})
  /\ \A m \in S : mns'[m].active = 0

\* Node m has the record b, which accounts for the devices n with ends e; an
\* encapsulation that is started or stopped leaves routes and devices alone.
MoveForm(m, n, e, kA, b, ended) ==
  /\ Added(k, kA, n, e) /\ Got(n) /\ CarriesAll(b, n, e)
  /\ mns' = [mns EXCEPT ![m] = b]
  /\ k'.dev = AfterMove(kA, m, n, ended).dev
  /\ k'.route = AfterMove(kA, m, n, ended).route

Moves(m) ==
  \E n \in [Family -> Dev \union {FAILED}],
     e \in [Family -> [kind : Kind, remote : Coa]], kA \in Kernel,
     b \in MnRecord, ended \in BOOLEAN : MoveForm(m, n, e, kA, b, ended)

\* A move to an IPv4 address is a move.
LEMMA V4Moves ==
  ASSUME CacheInv, CacheInv', PathOK(k, mns),
         NEW m \in MN, NEW q \in SeqNo, NEW c \in CoaV4, BuV4Move(m, q, c)
  PROVE  Moves(m)
<1>1. PICK i \in 1 .. NIF - 1, n \in [Family -> Dev \union {FAILED}],
           kA \in Kernel : V4Shape(m, q, c, i, n, kA)
  BY BuV4MoveShape
<1>. USE DEF CacheInv
<1>. DEFINE r  == mns[m]
            k3 == AfterMove(kA, m, n, r.active # 0)
            e  == EndsV4(c)
<1>2. /\ mns[m] \in MnRecord /\ k \in Kernel /\ mns \in [MN -> MnRecord]
      /\ mns' \in [MN -> MnRecord]
  BY DEF TypeOK
<1>3. k3 \in Kernel
  BY <1>1, AfterMoveMoved DEF V4Shape, Added
<1>0. k' = IF r.nat[i] # NoNat THEN start_udp_encap(k3, m, r.nat[i]) ELSE k3
  BY <1>1, Zenon DEF V4Shape
<1>. HIDE DEF k3
<1>4. k'.dev = k3.dev /\ k'.route = k3.route
  <2>1. CASE r.nat[i] # NoNat
    <3>1. r.nat[i] \in Endpoint
      BY <1>2, <2>1 DEF MnRecord, NatTab, Slot
    <3>2. k' = start_udp_encap(k3, m, r.nat[i])
      BY <1>0, <2>1
    <3>3. \A ep \in Endpoint :
            /\ start_udp_encap(k3, m, ep).dev = k3.dev
            /\ start_udp_encap(k3, m, ep).route = k3.route
      BY <1>3 DEF start_udp_encap, stop_udp_encap, Kernel
    <3>. QED  BY <3>1, <3>2, <3>3
  <2>2. CASE r.nat[i] = NoNat
    BY <1>0, <2>2
  <2>. QED  BY <2>1, <2>2
<1>5. e \in [Family -> [kind : Kind, remote : Coa]]
  BY DEF EndsV4, KindV4, Kind, Coa
<1>. DEFINE b == Seen(BoundV4(r, i, n), q)
<1>6. mns' = [mns EXCEPT ![m] = b]
  BY <1>1 DEF V4Shape
<1>7. CarriesAll(b, n, e)
  <2>. SUFFICES ASSUME NEW a \in Family
                PROVE  e[a].kind = Carrier(b, a) /\ Carries(b, n[a], e[a])
    BY Zenon DEF CarriesAll
  <2>1. e[a] = [kind |-> KindV4(a), remote |-> r.coav4[i]]
    BY <1>1 DEF EndsV4, V4Shape
  <2>2. /\ Carrier(b, a) = KindV4(a)
        /\ Carries(b, n[a], [kind |-> KindV4(a), remote |-> r.coav4[i]])
    BY <1>2, BoundV4Carries
  <2>. HIDE DEF b
  <2>. QED  BY <2>1, <2>2
<1>. HIDE DEF e, b
<1>8. b \in MnRecord
  BY <1>2, <1>6
<1>9. Added(k, kA, n, e) /\ Got(n)
  BY <1>1 DEF V4Shape, e
<1>10. MoveForm(m, n, e, kA, b, r.active # 0)
  BY <1>4, <1>6, <1>7, <1>9 DEF MoveForm, k3
<1>. QED  BY <1>5, <1>8, <1>10 DEF Moves

\* A move to an IPv6 address is a move.
LEMMA V6Moves ==
  ASSUME CacheInv, CacheInv', NEW m \in MN, NEW q \in SeqNo, NEW c \in CoaV6,
         BuV6Move(m, q, c)
  PROVE  Moves(m)
<1>1. PICK n \in [Family -> Dev \union {FAILED}],
           kA \in Kernel : V6Shape(m, q, c, n, kA)
  BY BuV6MoveShape
<1>. USE DEF CacheInv
<1>. DEFINE r     == mns[m]
            e     == EndsV6(c)
            ended == mns[m].active # 0 /\ ~ViaNat(mns[m])
<1>2. mns[m] \in MnRecord /\ mns \in [MN -> MnRecord] /\ mns' \in [MN -> MnRecord]
  BY DEF TypeOK
<1>3. e \in [Family -> [kind : Kind, remote : Coa]]
  BY DEF EndsV6, Kind, Coa
<1>. DEFINE b == Seen(BoundV6(r, c, n), q)
<1>4. mns' = [mns EXCEPT ![m] = b]
  BY <1>1 DEF V6Shape
<1>5. CarriesAll(b, n, e)
  <2>. SUFFICES ASSUME NEW a \in Family
                PROVE  e[a].kind = Carrier(b, a) /\ Carries(b, n[a], e[a])
    BY Zenon DEF CarriesAll
  <2>1. e[a] = [kind |-> "66", remote |-> c] /\ n["v6"] = n[a]
    BY <1>1 DEF EndsV6, V6Shape, Family
  <2>2. /\ Carrier(b, a) = "66"
        /\ Carries(b, n[a], [kind |-> "66", remote |-> c])
    BY <1>2, <2>1, BoundV6Carries
  <2>. HIDE DEF b
  <2>. QED  BY <2>1, <2>2
<1>. HIDE DEF e, b
<1>6. b \in MnRecord
  BY <1>2, <1>4
<1>7. Added(k, kA, n, e) /\ Got(n) /\ k' = AfterMove(kA, m, n, ended)
  BY <1>1 DEF V6Shape, e
<1>8. ended \in BOOLEAN
  OBVIOUS
<1>. HIDE DEF ended
<1>9. MoveForm(m, n, e, kA, b, ended)
  BY <1>4, <1>5, <1>7 DEF MoveForm
<1>. QED  BY <1>3, <1>6, <1>8, <1>9 DEF Moves

\* Going home releases the node.
LEMMA HomeReleases ==
  ASSUME CacheInv, CacheInv', NEW m \in MN, NEW q \in SeqNo, BuHome(m, q)
  PROVE  Releases({m})
<1>. USE DEF CacheInv
<1>. DEFINE r  == mns[m]
            k1 == IF ViaNat(r) THEN stop_udp_encap(k, m, r.nat[r.active]) ELSE k
<1>1. mns[m] \in MnRecord /\ k \in Kernel /\ mns \in [MN -> MnRecord]
  BY DEF TypeOK
<1>2. k1 \in Kernel /\ k1.dev = k.dev /\ k1.route = k.route
  BY <1>1, NatEndpoint, StopEncapType, StopEncapEffect
<1>3. k' = TunnelsDel(k1, OldTunnels(r)) /\ \A l \in MN \ {m} : mns'[l] = mns[l]
  BY <1>1 DEF BuHome
<1>. HIDE DEF k1
<1>4. /\ \A d \in Dev : k'.dev[d] = IF d \in OldTunnels(r) THEN Free ELSE k.dev[d]
      /\ \A x \in Table \X MN \X Family :
           k'.route[x] = IF k.route[x] \in OldTunnels(r) THEN NoDev ELSE k.route[x]
  BY <1>2, <1>3, TunnelsDelEffect
<1>5. Released(k, k', mns, mns', {m}, OldTunnels(r))
  BY <1>3, <1>4 DEF Released
<1>6. UNION {OldTunnels(mns[l]) : l \in {m}} = OldTunnels(r)
  OBVIOUS
<1>7. mns'[m].active = 0
  BY <1>1 DEF BuHome, Seen, MnRecord
<1>. HIDE DEF r
<1>. QED  BY <1>5, <1>6, <1>7 DEF Releases

\* A cleanup releases the nodes it is about.
LEMMA CleanReleases ==
  ASSUME CacheInv, NEW S \in SUBSET MN, CleanAll(S)
  PROVE  Releases(S)
<1>. USE DEF CacheInv
<1>. DEFINE nats == {m \in S : ViaNat(mns[m])}
            ips  == {mns[m].nat[mns[m].active].ip : m \in nats}
            k1   == [k EXCEPT
                      !.pol = [m \in MN |-> IF m \in nats THEN Unspec
                                            ELSE k.pol[m]],
                      !.sa  = [a \in IPv4 |-> IF a \in ips THEN 0
                                              ELSE k.sa[a]]]
            old  == UNION {OldTunnels(mns[m]) : m \in S}
<1>1. k \in Kernel /\ mns \in [MN -> MnRecord]
  BY DEF TypeOK
<1>2. k1 \in Kernel /\ k1.dev = k.dev /\ k1.route = k.route
  BY <1>1 DEF Kernel
<1>3. /\ k' = TunnelsDel(k1, old) /\ \A l \in MN \ S : mns'[l] = mns[l]
      /\ \A m \in S : mns'[m] = CleanRecord(mns[m])
  BY DEF CleanAll, CleanKernel
<1>4. \A m \in S : OldTunnels(mns[m]) \subseteq old
  OBVIOUS
<1>7. \A m \in S : mns'[m].active = 0
  <2>1. \A r \in MnRecord : CleanRecord(r).active = 0
    BY DEF CleanRecord, MnRecord
  <2>. QED  BY <1>1, <1>3, <2>1
<1>. HIDE DEF k1, old
<1>5. /\ \A d \in Dev : k'.dev[d] = IF d \in old THEN Free ELSE k.dev[d]
      /\ \A x \in Table \X MN \X Family :
           k'.route[x] = IF k.route[x] \in old THEN NoDev ELSE k.route[x]
  BY <1>2, <1>3, TunnelsDelEffect
<1>6. Released(k, k', mns, mns', S, old)
  BY <1>3, <1>4, <1>5 DEF Released
<1>. QED  BY <1>6, <1>7 DEF Releases, old

\* A refresh or a refused update keeps everything.
LEMMA SeenKeeps ==
  ASSUME CacheInv, NEW m \in MN, NEW q \in SeqNo,
         mns' = [mns EXCEPT ![m] = Seen(@, q)], UNCHANGED k
  PROVE  Keeps
<1>1. mns[m] \in MnRecord
  BY DEF CacheInv, TypeOK
<1>2. /\ Binding(Seen(mns[m], q)) = Binding(mns[m])
      /\ Seen(mns[m], q).tnl = mns[m].tnl
      /\ Seen(mns[m], q).active = mns[m].active
  BY <1>1 DEF Seen, Binding, MnRecord
<1>3. \A l \in MN : mns'[l] = IF l = m THEN Seen(mns[m], q) ELSE mns[l]
  BY DEF CacheInv, TypeOK
<1>. QED  BY <1>2, <1>3 DEF Keeps

\* Every step is of one of the three forms.
LEMMA StepForms ==
  ASSUME CacheInv, CacheInv', PathOK(k, mns), [Next]_vars
  PROVE  \/ Keeps
         \/ \E S \in SUBSET MN : Releases(S)
         \/ \E m \in MN : Moves(m)
<1>1. CASE Select
  <2>1. PICK d \in 0 .. MaxWait :
          mns' = [m \in MN |-> [mns[m] EXCEPT !.age =
                    IF mns[m].age + d > LIFETIME THEN LIFETIME + 1
                    ELSE mns[m].age + d]]
    BY <1>1 DEF Select
  <2>2. \A m \in MN : /\ Binding(mns'[m]) = Binding(mns[m])
                      /\ mns'[m].tnl = mns[m].tnl
                      /\ mns'[m].active = mns[m].active
    BY <2>1 DEF CacheInv, TypeOK, MnRecord, Binding
  <2>. QED  BY <1>1, <2>2 DEF Select, Keeps
<1>2. CASE NatSkip \/ BuIgnored \/ UNCHANGED vars
  BY <1>2 DEF NatSkip, BuIgnored, vars, Keeps
<1>3. CASE Clean
  <2>1. PICK S \in SUBSET MN : S = {m \in MN : mns[m].age > LIFETIME}
    OBVIOUS
  <2>2. CleanAll(S)
    BY <1>3, <2>1 DEF Clean
  <2>. QED  BY <2>2, CleanReleases
<1>4. CASE Exit
  <2>1. CleanAll(MN)
    BY <1>4 DEF Exit
  <2>. QED  BY <2>1, CleanReleases
<1>5. ASSUME NEW m \in MN, Nat_(m)
      PROVE  Keeps
  <2>1. PICK x \in Ifindex, c \in CoaV4 : \E e \in Sources[c] : NatProbe(m, x, c, e)
    BY <1>5 DEF Nat_
  <2>2. PICK e \in Sources[c] : NatProbe(m, x, c, e)
    BY <2>1
  <2>3. \A l \in MN : /\ Binding(mns'[l]) = Binding(mns[l])
                      /\ mns'[l].tnl = mns[l].tnl
                      /\ mns'[l].active < 0 <=> mns[l].active < 0
                      /\ mns'[l].active = 0 <=> mns[l].active = 0
    BY <2>2, ProbeKeepsBinding DEF CacheInv
  <2>. QED  BY <2>2, <2>3 DEF NatProbe, Keeps
<1>6. ASSUME NEW m \in MN, Bu(m)
      PROVE  Keeps \/ Releases({m}) \/ Moves(m)
  <2>1. PICK q \in SeqNo :
          \/ BuStale(m, q)
          \/ \E c \in CoaV4 : \/ BuV4Unknown(m, q, c)
                              \/ BuV4Refresh(m, q, c)
                              \/ BuV4Move(m, q, c)
          \/ \E c \in CoaV6 : BuV6Refresh(m, q, c) \/ BuV6Move(m, q, c)
          \/ BuHome(m, q)
    BY <1>6 DEF Bu
  <2>2. CASE BuStale(m, q)
    BY <2>2 DEF BuStale, Keeps
  <2>3. ASSUME NEW c \in CoaV4, BuV4Unknown(m, q, c) \/ BuV4Refresh(m, q, c)
        PROVE  Keeps
    BY <2>3, SeenKeeps DEF BuV4Unknown, BuV4Refresh
  <2>4. ASSUME NEW c \in CoaV6, BuV6Refresh(m, q, c)
        PROVE  Keeps
    BY <2>4, SeenKeeps DEF BuV6Refresh
  <2>. QED  BY <2>1, <2>2, <2>3, <2>4, V4Moves, V6Moves, HomeReleases
<1>7. ASSUME NEW m \in MN, Nat_(m) \/ Bu(m)
      PROVE  Keeps \/ (\E S \in SUBSET MN : Releases(S)) \/ Moves(m)
  <2>1. {m} \in SUBSET MN
    OBVIOUS
  <2>. QED  BY <1>5, <1>6, <1>7, <2>1
<1>. QED  BY <1>1, <1>2, <1>3, <1>4, <1>7 DEF Next, Ended

-------------------------------------------------------------------------------
(* Every step preserves PathOK. *)

\* A move preserves the invariant.
LEMMA MovePath ==
  ASSUME CacheInv, CacheInv', PathOK(k, mns), NEW m \in MN, Moves(m)
  PROVE  PathOK(k', mns')
<1>1. PICK n \in [Family -> Dev \union {FAILED}],
           e \in [Family -> [kind : Kind, remote : Coa]], kA \in Kernel,
           b \in MnRecord, ended \in BOOLEAN : MoveForm(m, n, e, kA, b, ended)
  BY DEF Moves
<1>. USE DEF CacheInv
<1>2. /\ k \in Kernel /\ mns \in [MN -> MnRecord]
      /\ k' \in Kernel /\ mns' \in [MN -> MnRecord]
  BY DEF TypeOK
<1>3. Moved(kA, AfterMove(kA, m, n, ended), m, n, OldTunnels(mns[m]))
  BY <1>1, AfterMoveMoved DEF MoveForm, Added
<1>4. Moved(kA, k', m, n, OldTunnels(mns[m]))
  BY <1>1, <1>3, MovedSame DEF MoveForm
<1>5. /\ Added(k, kA, n, e) /\ CarriesAll(b, n, e) /\ mns' = [mns EXCEPT ![m] = b]
  BY <1>1 DEF MoveForm
<1>. QED  BY <1>2, <1>4, <1>5, PathMoved

\* The invariant is inductive.
LEMMA PathStep ==
  ASSUME CacheInv, CacheInv', PathOK(k, mns), [Next]_vars
  PROVE  PathOK(k', mns')
<1>. USE DEF CacheInv
<1>1. /\ k \in Kernel /\ mns \in [MN -> MnRecord]
      /\ k' \in Kernel /\ mns' \in [MN -> MnRecord]
  BY DEF TypeOK
<1>2. CASE Keeps
  <2>1. PathOK(k, mns')
    BY <1>1, <1>2, PathKept DEF Keeps
  <2>. QED  BY <1>2, <2>1 DEF PathOK, Live, Keeps
<1>3. ASSUME NEW S \in SUBSET MN, Releases(S)
      PROVE  PathOK(k', mns')
  BY <1>1, <1>3, PathReleased DEF Releases
<1>. QED  BY <1>2, <1>3, StepForms, MovePath

\* Routes and devices agree with the records of the nodes at all times.
THEOREM PathInvariant == Spec => []PathOK(k, mns)
<1>1. Init => PathOK(k, mns)
  BY DEF Init, PathOK, KernelInit, Live, Free
<1>2. CacheInv /\ CacheInv' /\ PathOK(k, mns) /\ [Next]_vars => PathOK(k, mns)'
  BY PathStep
<1>. QED  BY <1>1, <1>2, CacheInvariant, PTL DEF Spec

\* No route for a node leads anywhere but into the tunnel to the address it is
\* bound to, whichever creations of tunnels fail, before or after the device is
\* there (tunnelXX_add, next_v4_process, next_v6_process).
THEOREM PathSafety == Spec => []TrafficFollowsBinding
<1>1. PathOK(k, mns) => TrafficFollowsBinding
  BY PathImplies
<1>. QED  BY <1>1, PathInvariant, PTL

\* Every device belongs to a binding that can delete it, although results of
\* kernel calls are ignored and nodes share devices (tunnelXX_del), as long as
\* no call fails between the creation of a device and the return of its index.
THEOREM NoOrphans ==
  ASSUME "flags" \notin MayFail
  PROVE  Spec => []NoOrphanTunnel
<1>1. PathOK(k, mns) => NoOrphanTunnel
  BY PathImplies
<1>. QED  BY <1>1, PathInvariant, PTL

-------------------------------------------------------------------------------
(* A node that moves is routed. *)

\* The devices a record points to end at its binding as long as they live: one
\* that another node deleted comes back only with the ends it had, since its
\* index is remembered.
EndsOK(kk, f) ==
  \A m \in MN : \A d \in OldTunnels(f[m]) :
    Live(kk, d) => kk.dev[d].remote = Binding(f[m])

\* A record that accounts for the devices of n points to no others.
LEMMA CarriesOnly ==
  ASSUME NEW b \in MnRecord, NEW n, NEW e, CarriesAll(b, n, e)
  PROVE  /\ OldTunnels(b) \subseteq {n[a] : a \in Family}
         /\ \A a \in Family : e[a].remote = Binding(b)
<1>1. /\ b.active # 0
      /\ b.active < 0 => b.tnl["66"] = n["v4"]
      /\ b.active > 0 => b.tnl["44"] = n["v4"] /\ b.tnl["64"] = n["v6"]
  <2>1. "v4" \in Family /\ "v6" \in Family
    BY DEF Family
  <2>2. /\ e["v4"].kind = Carrier(b, "v4") /\ Carries(b, n["v4"], e["v4"])
        /\ e["v6"].kind = Carrier(b, "v6") /\ Carries(b, n["v6"], e["v6"])
    BY <2>1 DEF CarriesAll
  <2>. QED  BY <2>2 DEF Carrier, Carries, MnRecord, Active
<1>2. OldTunnels(b) \subseteq {n[a] : a \in Family}
  BY <1>1 DEF OldTunnels, Family
<1>. QED  BY <1>2 DEF CarriesAll, Carries

\* No move disturbs the invariant.
LEMMA MoveEnds ==
  ASSUME CacheInv, PathOK(k, mns), EndsOK(k, mns), NEW m \in MN, Moves(m)
  PROVE  EndsOK(k', mns')
<1>1. PICK n \in [Family -> Dev \union {FAILED}],
           e \in [Family -> [kind : Kind, remote : Coa]], kA \in Kernel,
           b \in MnRecord, ended \in BOOLEAN : MoveForm(m, n, e, kA, b, ended)
  BY DEF Moves
<1>. USE DEF CacheInv
<1>. DEFINE old == OldTunnels(mns[m])
<1>2. Moved(kA, AfterMove(kA, m, n, ended), m, n, old)
  BY <1>1, AfterMoveMoved DEF MoveForm, Added
<1>3. \A d \in Dev : k'.dev[d] = IF d \in old THEN Free ELSE kA.dev[d]
  BY <1>1, <1>2 DEF MoveForm, Moved
<1>. HIDE DEF old
<1>4. /\ \A d \in Dev : Live(k, d) => kA.dev[d] = k.dev[d]
      /\ \A d \in Dev : Live(kA, d) =>
           \/ Live(k, d) \/ \E a \in Family : d = n[a]
           \/ d \notin Remembered
      /\ \A a \in Family : n[a] \in Dev => kA.dev[n[a]] = e[a]
      /\ \A a \in Family : n[a] \in Dev => Live(k, n[a]) \/ n[a] \notin Remembered
  BY <1>1, DevAssumption DEF MoveForm, Added, Got
<1>5. /\ OldTunnels(b) \subseteq {n[a] : a \in Family}
      /\ \A a \in Family : e[a].remote = Binding(b)
  BY <1>1, CarriesOnly DEF MoveForm
<1>6. mns \in [MN -> MnRecord] /\ mns' = [mns EXCEPT ![m] = b]
  BY <1>1 DEF TypeOK, MoveForm
<1>. SUFFICES ASSUME NEW l \in MN, NEW d \in OldTunnels(mns'[l]), Live(k', d)
              PROVE  k'.dev[d].remote = Binding(mns'[l])
  BY DEF EndsOK
<1>7. d \in Dev /\ k'.dev[d] = kA.dev[d] /\ Live(kA, d)
  BY <1>3 DEF Live, Free
<1>8. CASE l = m
  <2>1. PICK a \in Family : d = n[a]
    BY <1>5, <1>6, <1>8
  <2>. QED  BY <1>4, <1>5, <1>6, <1>7, <1>8, <2>1
<1>9. CASE l # m
  <2>1. mns'[l] = mns[l] /\ d \in Remembered
    <3>1. OldTunnels(mns[l]) \subseteq Remembered
      BY DEF OldTunnels, Remembered, Kind
    <3>. QED  BY <1>6, <1>9, <3>1
  <2>2. Live(k, d)
    BY <1>4, <1>7, <2>1
  <2>. QED  BY <1>4, <1>7, <2>1, <2>2 DEF EndsOK
<1>. QED  BY <1>8, <1>9

\* The devices of the records end at the bindings at all times.
LEMMA EndsStep ==
  ASSUME CacheInv, CacheInv', PathOK(k, mns), EndsOK(k, mns), [Next]_vars
  PROVE  EndsOK(k', mns')
<1>. USE DEF CacheInv
<1>1. CASE Keeps
  <2>1. \A m \in MN : OldTunnels(mns'[m]) = OldTunnels(mns[m])
    <3>1. \A m \in MN : mns[m].active \in Int /\ mns'[m].active \in Int
      BY DEF TypeOK, MnRecord, Active
    <3>. QED  BY <1>1, <3>1 DEF Keeps, OldTunnels
  <2>. QED  BY <1>1, <2>1 DEF EndsOK, Keeps, Live
<1>2. ASSUME NEW S \in SUBSET MN, Releases(S)
      PROVE  EndsOK(k', mns')
  <2>1. \A m \in S : OldTunnels(mns'[m]) = {}
    BY <1>2 DEF Releases, OldTunnels
  <2>2. /\ \A m \in MN \ S : mns'[m] = mns[m]
        /\ \A d \in Dev : Live(k', d) => k'.dev[d] = k.dev[d] /\ Live(k, d)
    BY <1>2 DEF Releases, Released, Live, Free
  <2>3. \A m \in MN : OldTunnels(mns[m]) \subseteq Dev
    BY DEF OldTunnels
  <2>. QED  BY <2>1, <2>2, <2>3 DEF EndsOK
<1>. QED  BY <1>1, <1>2, StepForms, MoveEnds

\* The main route of a family is there after the calls of a move, if the
\* tunnel of that family is there and is not one of the old ones.
LEMMA MoveRoutes ==
  ASSUME TypeOK, NEW k0 \in Kernel, NEW m \in MN, NEW n, NEW a \in Family,
         Live(k0, n[a]), n[a] \notin OldTunnels(mns[m]), NEW ended
  PROVE  AfterMove(k0, m, n, ended).route[<<"main", m, a>>] # NoDev
<1>. DEFINE r   == mns[m]
            ka  == RoutesAdd(k0, "tmp", m, n)
            k1  == IF r.active # 0 THEN RulesAdd(ka, m) ELSE k0
            k2  == TunnelsDel(k1, OldTunnels(r))
            k3  == RoutesAdd(k2, "main", m, n)
            k4  == IF ViaNat(r) THEN stop_udp_encap(k3, m, r.nat[r.active]) ELSE k3
            x   == <<"main", m, a>>
<1>0. Move(k0, m, n) = k4 /\ x \in Table \X MN \X Family
  BY DEF Move, Table
<1>1. k1 \in Kernel /\ k1.dev = k0.dev
  <2>1. ka \in Kernel /\ ka.dev = k0.dev
    BY RoutesAddType, RoutesAddEffect DEF Table
  <2>. HIDE DEF ka
  <2>. QED  BY <2>1, RulesType, RulesEffect
<1>. HIDE DEF k1
<1>2. k2 \in Kernel /\ Live(k2, n[a])
  BY <1>1, TunnelsDelType, TunnelsDelEffect DEF Live
<1>. HIDE DEF k2
<1>3. k3 \in Kernel
  BY <1>2, RoutesAddType DEF Table
<1>4. k3.route[x] # NoDev
  <2>1. k3.route[x] = IF k2.route[x] = NoDev THEN n[a] ELSE k2.route[x]
    BY <1>0, <1>2 DEF RoutesAdd, Kernel
  <2>2. n[a] # NoDev
    BY <1>2, DevAssumption DEF Live
  <2>. QED  BY <2>1, <2>2
<1>. HIDE DEF k3
<1>5. k4 \in Kernel /\ k4.route = k3.route
  <2>1. CASE ViaNat(r)
    <3>1. r.nat[r.active] \in Endpoint
      BY <2>1, NatEndpoint DEF TypeOK
    <3>. QED  BY <1>3, <2>1, <3>1, StopEncapType, StopEncapEffect
  <2>. QED  BY <1>3, <2>1
<1>. HIDE DEF k4
<1>6. RulesDel(k4, m) \in Kernel /\ RulesDel(k4, m).route = k4.route
  BY <1>5, RulesType, RulesEffect
<1>7. EndMove(k4, m, n).route[x] = k4.route[x]
  BY <1>0, <1>6 DEF EndMove, RoutesDel, Kernel
<1>. QED  BY <1>0, <1>4, <1>5, <1>7 DEF AfterMove

\* A node that binds to another address has a main route into every tunnel it
\* got, and lacks only those the kernel refused.
NewIsRouted ==
  \A m \in MN, f \in Family :
    Binding(mns'[m]) # Binding(mns[m]) /\ mns'[m].active # 0 =>
      \/ k'.route[<<"main", m, f>>] # NoDev
      \/ mns'[m].tnl[Carrier(mns'[m], f)] = FAILED /\ MayFail # {}

\* The tunnels of another address are none of the old ones.
LEMMA MoveIsNew ==
  ASSUME CacheInv, PathOK(k, mns), EndsOK(k, mns), NEW m \in MN, Moves(m)
  PROVE  NewIsRouted
<1>1. PICK n \in [Family -> Dev \union {FAILED}],
           e \in [Family -> [kind : Kind, remote : Coa]], kA \in Kernel,
           b \in MnRecord, ended \in BOOLEAN : MoveForm(m, n, e, kA, b, ended)
  BY DEF Moves
<1>. USE DEF CacheInv
<1>2. /\ \A d \in Dev : Live(k, d) => kA.dev[d] = k.dev[d]
      /\ \A a \in Family : n[a] \in Dev => kA.dev[n[a]] = e[a]
      /\ \A a \in Family : n[a] \in Dev => Live(k, n[a]) \/ n[a] \notin Remembered
  BY <1>1, DevAssumption DEF MoveForm, Added, Got
<1>3. \A a \in Family : /\ e[a].remote = Binding(b) /\ e[a].kind # "free"
                        /\ n[a] = b.tnl[Carrier(b, a)]
  BY <1>1, CarriesOnly DEF MoveForm, CarriesAll, Carries, Kind
<1>4. mns \in [MN -> MnRecord] /\ mns' = [mns EXCEPT ![m] = b]
  BY <1>1 DEF TypeOK, MoveForm
<1>. SUFFICES ASSUME NEW l \in MN, NEW a \in Family,
                     Binding(mns'[l]) # Binding(mns[l]),
                     ~ (mns'[l].tnl[Carrier(mns'[l], a)] = FAILED /\ MayFail # {})
              PROVE  k'.route[<<"main", l, a>>] # NoDev
  BY DEF NewIsRouted
<1>5. l = m /\ n[a] \in Dev /\ Binding(b) # Binding(mns[m])
  BY <1>1, <1>3, <1>4 DEF MoveForm, Got
<1>6. n[a] \notin OldTunnels(mns[m])
  <2>. SUFFICES ASSUME n[a] \in OldTunnels(mns[m])
                PROVE  FALSE
    OBVIOUS
  <2>1. n[a] \in Remembered
    BY DEF OldTunnels, Remembered, Kind
  <2>2. Live(k, n[a]) /\ k.dev[n[a]] = e[a]
    BY <1>2, <1>5, <2>1
  <2>3. k.dev[n[a]].remote = Binding(mns[m])
    BY <2>2 DEF EndsOK
  <2>. QED  BY <1>3, <1>5, <2>2, <2>3
<1>7. Live(kA, n[a])
  BY <1>2, <1>3, <1>5 DEF Live
<1>8. AfterMove(kA, m, n, ended).route[<<"main", m, a>>] # NoDev
  BY <1>6, <1>7, MoveRoutes
<1>. QED  BY <1>1, <1>5, <1>8 DEF MoveForm

\* A step that binds a node to another address is a move.
LEMMA NewIsRoutedStep ==
  ASSUME CacheInv, CacheInv', PathOK(k, mns), EndsOK(k, mns), [Next]_vars
  PROVE  NewIsRouted
<1>1. CASE Keeps
  BY <1>1 DEF Keeps, NewIsRouted
<1>2. ASSUME NEW S \in SUBSET MN, Releases(S)
      PROVE  NewIsRouted
  BY <1>2 DEF Releases, Released, NewIsRouted
<1>. QED  BY <1>1, <1>2, StepForms, MoveIsNew

\* Whatever creations of tunnels the kernel refuses, a node that binds to
\* another address has a main route into every tunnel it got: neither its old
\* routes nor the deletion of its old tunnels, shared with other nodes or not,
\* are in the way (next_v4_process, next_v6_process).
THEOREM CreatedIsRouted == Spec => [][NewIsRouted]_vars
<1>1. Init => EndsOK(k, mns)
  BY DEF Init, EndsOK, OldTunnels
<1>2. CacheInv /\ CacheInv' /\ PathOK(k, mns) /\ EndsOK(k, mns) /\ [Next]_vars
        => EndsOK(k, mns)'
  BY EndsStep
<1>3. CacheInv /\ CacheInv' /\ PathOK(k, mns) /\ EndsOK(k, mns) /\ [Next]_vars
        => [NewIsRouted]_vars
  BY NewIsRoutedStep
<1>. QED  BY <1>1, <1>2, <1>3, CacheInvariant, PathInvariant, PTL DEF Spec

\* Hence both home addresses are routed after every move, when the kernel
\* refuses no tunnel.
THEOREM MovesRouted ==
  ASSUME MayFail = {}
  PROVE  Spec => MoveIsRouted
<1>1. NewIsRouted =>
        \A m \in MN, f \in Family :
          (Binding(mns'[m]) # Binding(mns[m]) /\ mns'[m].active # 0) =>
            k'.route[<<"main", m, f>>] # NoDev
  BY DEF NewIsRouted
<1>. QED  BY <1>1, CreatedIsRouted, PTL DEF MoveIsRouted

-------------------------------------------------------------------------------
(* UDP encapsulation. *)

\* The NAT endpoint a record is bound through.
Via(r) == IF ViaNat(r) THEN r.nat[r.active] ELSE NoNat

EncapOK(kk, f) ==
  /\ \A m \in MN : kk.pol[m] # Unspec => Via(f[m]).ip = kk.pol[m]
  /\ \A a \in IPv4 : kk.sa[a] # 0 =>
       \E m \in MN : kk.pol[m] = a /\ Via(f[m]) = [ip |-> a, port |-> kk.sa[a]]

\* An endpoint is recorded only when it is not the node itself: without this a
\* probe of the address in use could erase the endpoint it is bound through.
NatDistinct(r) ==
  \A s \in Slot : r.nat[s] # NoNat => r.nat[s] # Direct(r.coav4[s])

EncapInv == EncapOK(k, mns) /\ \A m \in MN : NatDistinct(mns[m])

\* The inductive invariant implies the property.
LEMMA EncapImplies ==
  ASSUME TypeOK, EncapOK(k, mns)
  PROVE  EncapFollowsBinding
<1>1. \A m \in MN : k.pol[m] # Unspec => ViaNat(mns[m])
  BY DEF EncapOK, Via, NoNat
<1>2. \A a \in IPv4 : a # Unspec
  BY AddressAssumption DEF IPv4
<1>. QED  BY <1>1, <1>2 DEF EncapOK, EncapFollowsBinding, Via

\* From k0 and f to k1, the encapsulation of the nodes of S is removed.
Unencapsulated(k0, k1, f, S) ==
  /\ \A m \in S : k1.pol[m] = Unspec
  /\ \A m \in MN \ S : k1.pol[m] = k0.pol[m]
  /\ \A a \in IPv4 :
       k1.sa[a] = IF \E m \in S : Via(f[m]).ip = a THEN 0 ELSE k0.sa[a]

\* When the encapsulation of some nodes is removed, what is left still
\* belongs to the nodes whose records stay.
LEMMA EncapReleased ==
  ASSUME NEW k0, NEW k1, NEW f, NEW g, NEW S \in SUBSET MN,
         EncapOK(k0, f), Unencapsulated(k0, k1, f, S),
         \A m \in MN \ S : g[m] = f[m]
  PROVE  EncapOK(k1, g)
<1>1. ASSUME NEW a \in IPv4, k1.sa[a] # 0
      PROVE  \E m \in MN : k1.pol[m] = a /\ Via(g[m]) = [ip |-> a, port |-> k1.sa[a]]
  <2>1. k1.sa[a] = k0.sa[a] /\ \A m \in S : Via(f[m]).ip # a
    BY <1>1 DEF Unencapsulated
  <2>2. PICK m \in MN : k0.pol[m] = a /\ Via(f[m]) = [ip |-> a, port |-> k0.sa[a]]
    BY <1>1, <2>1 DEF EncapOK
  <2>3. m \notin S
    BY <2>1, <2>2
  <2>. QED  BY <2>1, <2>2, <2>3 DEF Unencapsulated
<1>2. \A m \in MN : k1.pol[m] # Unspec => Via(g[m]).ip = k1.pol[m]
  BY DEF EncapOK, Unencapsulated
<1>. QED  BY <1>1, <1>2 DEF EncapOK

\* Stopping the encapsulation of the endpoint a node is bound through removes
\* all of it, and a node bound through none has none.
LEMMA StopReleases ==
  ASSUME NEW k0 \in Kernel, NEW f \in [MN -> MnRecord], EncapOK(k0, f),
         NEW m \in MN
  PROVE  Unencapsulated(k0,
           IF ViaNat(f[m]) THEN stop_udp_encap(k0, m, f[m].nat[f[m].active]) ELSE k0,
           f, {m})
<1>1. CASE ViaNat(f[m])
  <2>. DEFINE e  == f[m].nat[f[m].active]
              k1 == stop_udp_encap(k0, m, e)
  <2>1. e \in Endpoint /\ Via(f[m]) = e
    BY <1>1, NatEndpoint DEF Via
  <2>2. k1.pol = [k0.pol EXCEPT ![m] = Unspec] /\ k1.sa = [k0.sa EXCEPT ![e.ip] = 0]
    BY <2>1, StopEncapEffect
  <2>. HIDE DEF k1, e
  <2>3. k0.pol \in [MN -> IPv4 \union {Unspec}] /\ k0.sa \in [IPv4 -> Port \union {0}]
    BY DEF Kernel
  <2>4. Unencapsulated(k0, k1, f, {m})
    BY <2>1, <2>2, <2>3 DEF Unencapsulated
  <2>. QED  BY <1>1, <2>4 DEF k1, e
<1>2. CASE ~ViaNat(f[m])
  <2>1. k0.pol[m] = Unspec
    BY <1>2, AddressAssumption DEF EncapOK, Via, NoNat
  <2>2. \A a \in IPv4 : Via(f[m]).ip # a
    BY <1>2, AddressAssumption DEF Via, NoNat, IPv4
  <2>3. Unencapsulated(k0, k0, f, {m})
    BY <2>1, <2>2 DEF Unencapsulated
  <2>. QED  BY <1>2, <2>3
<1>. QED  BY <1>1, <1>2

\* Only pol and sa matter.
LEMMA UnencapsulatedSame ==
  ASSUME NEW k0, NEW k1, NEW l0, NEW l1, NEW f, NEW S,
         Unencapsulated(k0, k1, f, S),
         l0.pol = k0.pol, l0.sa = k0.sa, l1.pol = k1.pol, l1.sa = k1.sa
  PROVE  Unencapsulated(l0, l1, f, S)
BY DEF Unencapsulated

-------------------------------------------------------------------------------
(* The moves. *)

\* A move removes the encapsulation of the old binding.
LEMMA MoveStops ==
  ASSUME mns \in [MN -> MnRecord], NEW k0 \in Kernel, EncapOK(k0, mns),
         NEW m \in MN, NEW n
  PROVE  Unencapsulated(k0, Move(k0, m, n), mns, {m})
<1>. DEFINE r   == mns[m]
            ka  == RoutesAdd(k0, "tmp", m, n)
            k1  == IF r.active # 0 THEN RulesAdd(ka, m) ELSE k0
            k2  == TunnelsDel(k1, OldTunnels(r))
            k3  == RoutesAdd(k2, "main", m, n)
            k4  == IF ViaNat(r) THEN stop_udp_encap(k3, m, r.nat[r.active]) ELSE k3
<1>0. Move(k0, m, n) = k4
  BY DEF Move
<1>1. ka \in Kernel /\ ka.pol = k0.pol /\ ka.sa = k0.sa
  BY RoutesAddType, RoutesAddEffect DEF Table
<1>2. k1 \in Kernel /\ k1.pol = k0.pol /\ k1.sa = k0.sa
  <2>. HIDE DEF ka
  <2>. QED  BY <1>1, RulesType, RulesEffect
<1>. HIDE DEF k1
<1>3. k2 \in Kernel /\ k2.pol = k0.pol /\ k2.sa = k0.sa
  BY <1>2, TunnelsDelType, TunnelsDelEffect
<1>. HIDE DEF k2
<1>4. k3 \in Kernel /\ k3.pol = k0.pol /\ k3.sa = k0.sa
  BY <1>3, RoutesAddType, RoutesAddEffect DEF Table
<1>. HIDE DEF k3
<1>5. EncapOK(k3, mns)
  BY <1>4 DEF EncapOK
<1>6. Unencapsulated(k3, k4, mns, {m})
  BY <1>4, <1>5, StopReleases
<1>. QED  BY <1>0, <1>4, <1>6, UnencapsulatedSame

\* The same when EndMove follows.
LEMMA AfterMoveStops ==
  ASSUME TypeOK, EncapOK(k, mns), NEW m \in MN, NEW n, NEW kA \in Kernel,
         kA.pol = k.pol, kA.sa = k.sa, NEW ended
  PROVE  Unencapsulated(k, AfterMove(kA, m, n, ended), mns, {m})
<1>1. mns \in [MN -> MnRecord] /\ EncapOK(kA, mns)
  BY DEF TypeOK, EncapOK
<1>2. Unencapsulated(kA, Move(kA, m, n), mns, {m}) /\ Move(kA, m, n) \in Kernel
  BY <1>1, MoveStops, MoveType
<1>3. /\ AfterMove(kA, m, n, ended).pol = Move(kA, m, n).pol
      /\ AfterMove(kA, m, n, ended).sa = Move(kA, m, n).sa
  BY <1>2, EndMoveEffect DEF AfterMove
<1>. QED  BY <1>2, <1>3, UnencapsulatedSame

\* A move to an IPv4 address: k3 is the kernel when the old encapsulation is
\* gone, e what the node is bound through then.
V4Restarts(m, k3, e) ==
  /\ Unencapsulated(k, k3, mns, {m})
  /\ k' = IF e # NoNat THEN start_udp_encap(k3, m, e) ELSE k3
  /\ Via(mns'[m]) = e
  /\ \A l \in MN \ {m} : mns'[l] = mns[l]

LEMMA V4MoveRestarts ==
  ASSUME CacheInv, PathOK(k, mns), EncapOK(k, mns),
         NEW m \in MN, NEW q \in SeqNo, NEW c \in CoaV4, BuV4Move(m, q, c)
  PROVE  \E k3 \in Kernel, e \in Endpoint \union {NoNat} : V4Restarts(m, k3, e)
<1>. USE DEF CacheInv
<1>1. PICK i \in 1 .. NIF - 1, n \in [Family -> Dev \union {FAILED}],
           kA \in Kernel : V4Shape(m, q, c, i, n, kA)
  BY BuV4MoveShape
<1>. DEFINE r  == mns[m]
            b  == Seen(BoundV4(r, i, n), q)
            k3 == AfterMove(kA, m, n, r.active # 0)
<1>2. r \in MnRecord /\ \A l \in MN : mns'[l] = IF l = m THEN b ELSE mns[l]
  BY <1>1 DEF V4Shape, TypeOK
<1>3. k' = IF r.nat[i] # NoNat THEN start_udp_encap(k3, m, r.nat[i]) ELSE k3
  BY <1>1, Zenon DEF V4Shape
<1>4. k3 \in Kernel /\ Unencapsulated(k, k3, mns, {m})
  BY <1>1, AfterMoveMoved, AfterMoveStops DEF V4Shape, Added
<1>. HIDE DEF k3
<1>5. b.active = i /\ b.nat = r.nat
  BY <1>2 DEF Seen, BoundV4, MnRecord
<1>. HIDE DEF b
<1>6. Via(mns'[m]) = r.nat[i]
  BY <1>2, <1>5 DEF Via, ViaNat
<1>7. r.nat[i] \in Endpoint \union {NoNat}
  BY <1>2 DEF MnRecord, NatTab, Slot
<1>8. V4Restarts(m, k3, r.nat[i])
  BY <1>2, <1>3, <1>4, <1>6 DEF V4Restarts
<1>. QED  BY <1>4, <1>7, <1>8

\* A move to an IPv4 address preserves the invariant: the encapsulation it
\* installs, if any, is towards the endpoint of the slot now in use.
LEMMA V4MoveEncap ==
  ASSUME CacheInv, PathOK(k, mns), EncapOK(k, mns),
         NEW m \in MN, NEW q \in SeqNo, NEW c \in CoaV4, BuV4Move(m, q, c)
  PROVE  EncapOK(k', mns')
<1>1. PICK k3 \in Kernel, e \in Endpoint \union {NoNat} : V4Restarts(m, k3, e)
  BY V4MoveRestarts
<1>2. /\ Unencapsulated(k, k3, mns, {m}) /\ Via(mns'[m]) = e
      /\ \A l \in MN \ {m} : mns'[l] = mns[l]
  BY <1>1 DEF V4Restarts
<1>3. k' = IF e # NoNat THEN start_udp_encap(k3, m, e) ELSE k3
  BY <1>1 DEF V4Restarts
<1>6. EncapOK(k3, mns')
  BY <1>2, EncapReleased
<1>7. CASE e = NoNat
  BY <1>3, <1>6, <1>7
<1>8. CASE e # NoNat
  <2>. DEFINE k4 == start_udp_encap(k3, m, e)
  <2>1. e \in Endpoint /\ e.ip \in IPv4 /\ e = [ip |-> e.ip, port |-> e.port]
    BY <1>8 DEF Endpoint
  <2>3. k3.pol[m] = Unspec
    BY <1>2 DEF Unencapsulated
  <2>4. \/ k4.pol = k3.pol /\ k4.sa = k3.sa
        \/ /\ k4.pol = [k3.pol EXCEPT ![m] = e.ip]
           /\ k4.sa = [k3.sa EXCEPT ![e.ip] = e.port]
    BY <2>1, <2>3, StartEncapEffect
  <2>5. k3.pol \in [MN -> IPv4 \union {Unspec}] /\ k3.sa \in [IPv4 -> Port \union {0}]
    BY DEF Kernel
  <2>6. k' = k4
    BY <1>3, <1>8
  <2>. HIDE DEF k4
  <2>7. CASE k4.pol = k3.pol /\ k4.sa = k3.sa
    BY <1>6, <2>6, <2>7 DEF EncapOK
  <2>8. CASE /\ k4.pol = [k3.pol EXCEPT ![m] = e.ip]
             /\ k4.sa = [k3.sa EXCEPT ![e.ip] = e.port]
    <3>1. \A l \in MN : k4.pol[l] # Unspec => Via(mns'[l]).ip = k4.pol[l]
      BY <1>2, <1>6, <2>5, <2>8 DEF EncapOK
    <3>2. ASSUME NEW a \in IPv4, k4.sa[a] # 0
          PROVE  \E l \in MN : k4.pol[l] = a /\ Via(mns'[l]) = [ip |-> a, port |-> k4.sa[a]]
      <4>1. CASE a = e.ip
        BY <1>2, <2>1, <2>5, <2>8, <4>1
      <4>2. CASE a # e.ip
        <5>1. k4.sa[a] = k3.sa[a]
          BY <2>5, <2>8, <4>2
        <5>2. PICK l \in MN : /\ k3.pol[l] = a
                              /\ Via(mns'[l]) = [ip |-> a, port |-> k3.sa[a]]
          BY <1>6, <3>2, <5>1 DEF EncapOK
        <5>3. l # m
          BY <2>3, <5>2, AddressAssumption DEF IPv4
        <5>. QED  BY <2>5, <2>8, <5>1, <5>2, <5>3
      <4>. QED  BY <4>1, <4>2
    <3>. QED  BY <2>6, <3>1, <3>2 DEF EncapOK
  <2>. QED  BY <2>4, <2>7, <2>8
<1>. QED  BY <1>7, <1>8

\* The nodes of S are bound through nothing any more.
Stops(S) ==
  /\ Unencapsulated(k, k', mns, S)
  /\ \A m \in S : Via(mns'[m]) = NoNat
  /\ \A m \in MN \ S : mns'[m] = mns[m]

\* Hence the invariant is preserved.
LEMMA StopsEncap ==
  ASSUME EncapOK(k, mns), NEW S \in SUBSET MN, Stops(S)
  PROVE  EncapOK(k', mns')
BY EncapReleased DEF Stops

\* A move to an IPv6 address ends the encapsulation of the node.
LEMMA V6MoveStops ==
  ASSUME CacheInv, EncapOK(k, mns),
         NEW m \in MN, NEW q \in SeqNo, NEW c \in CoaV6, BuV6Move(m, q, c)
  PROVE  Stops({m})
<1>. USE DEF CacheInv
<1>1. PICK n \in [Family -> Dev \union {FAILED}],
           kA \in Kernel : V6Shape(m, q, c, n, kA)
  BY BuV6MoveShape
<1>2. /\ \A l \in MN \ {m} : mns'[l] = mns[l]
      /\ mns'[m] = Seen(BoundV6(mns[m], c, n), q)
  BY <1>1 DEF V6Shape, TypeOK
<1>3. Seen(BoundV6(mns[m], c, n), q).active = -1
  BY DEF Seen, BoundV6, TypeOK, MnRecord
<1>4. Via(mns'[m]) = NoNat
  BY <1>2, <1>3 DEF Via, ViaNat
<1>5. Unencapsulated(k, k', mns, {m})
  BY <1>1, AfterMoveStops DEF V6Shape, Added
<1>. QED  BY <1>2, <1>4, <1>5 DEF Stops

\* So does going home.
LEMMA HomeStops ==
  ASSUME TypeOK, EncapOK(k, mns), NEW m \in MN, NEW q \in SeqNo, BuHome(m, q)
  PROVE  Stops({m})
<1>. DEFINE r  == mns[m]
            k1 == IF ViaNat(r) THEN stop_udp_encap(k, m, r.nat[r.active]) ELSE k
<1>1. k \in Kernel /\ mns \in [MN -> MnRecord]
  BY DEF TypeOK
<1>2. Unencapsulated(k, k1, mns, {m})
  BY <1>1, StopReleases
<1>3. k1 \in Kernel
  BY <1>1, NatEndpoint, StopEncapType
<1>4. k' = TunnelsDel(k1, OldTunnels(r)) /\ \A l \in MN \ {m} : mns'[l] = mns[l]
  BY <1>1 DEF BuHome
<1>5. mns'[m].active = 0
  BY <1>1 DEF BuHome, Seen, MnRecord
<1>. HIDE DEF k1
<1>6. k'.pol = k1.pol /\ k'.sa = k1.sa
  BY <1>3, <1>4, TunnelsDelEffect
<1>7. Unencapsulated(k, k', mns, {m})
  BY <1>2, <1>6, UnencapsulatedSame
<1>8. Via(mns'[m]) = NoNat
  BY <1>5 DEF Via, ViaNat
<1>. QED  BY <1>4, <1>7, <1>8 DEF Stops

\* So does a cleanup, for the nodes it is about.
LEMMA CleanStops ==
  ASSUME TypeOK, EncapOK(k, mns), NEW S \in SUBSET MN, CleanAll(S)
  PROVE  Stops(S)
<1>. DEFINE nats == {m \in S : ViaNat(mns[m])}
            ips  == {mns[m].nat[mns[m].active].ip : m \in nats}
            k1   == [k EXCEPT
                      !.pol = [m \in MN |-> IF m \in nats THEN Unspec
                                            ELSE k.pol[m]],
                      !.sa  = [a \in IPv4 |-> IF a \in ips THEN 0
                                              ELSE k.sa[a]]]
            old  == UNION {OldTunnels(mns[m]) : m \in S}
<1>1. k \in Kernel /\ mns \in [MN -> MnRecord]
  BY DEF TypeOK
<1>2. /\ k1 \in Kernel
      /\ k1.pol = [m \in MN |-> IF m \in nats THEN Unspec ELSE k.pol[m]]
      /\ k1.sa = [a \in IPv4 |-> IF a \in ips THEN 0 ELSE k.sa[a]]
  BY <1>1 DEF Kernel
<1>3. /\ k' = TunnelsDel(k1, old) /\ \A l \in MN \ S : mns'[l] = mns[l]
      /\ \A m \in S : mns'[m] = CleanRecord(mns[m])
  BY DEF CleanAll, CleanKernel
<1>. HIDE DEF k1, old
<1>4. k'.pol = k1.pol /\ k'.sa = k1.sa
  BY <1>2, <1>3, TunnelsDelEffect
<1>5. \A m \in S \ nats : Via(mns[m]).ip = Unspec /\ k.pol[m] = Unspec
  BY <1>1 DEF EncapOK, Via, NoNat
<1>6. Unspec \notin IPv4
  BY AddressAssumption DEF IPv4
<1>7. \A a \in IPv4 : a \in ips <=> \E m \in S : Via(mns[m]).ip = a
  <2>1. \A m \in nats : Via(mns[m]) = mns[m].nat[mns[m].active]
    BY DEF Via
  <2>. QED  BY <1>5, <1>6, <2>1
<1>. HIDE DEF nats, ips
<1>8. nats \subseteq S
  BY DEF nats
<1>9. Unencapsulated(k, k', mns, S)
  BY <1>2, <1>4, <1>5, <1>7, <1>8 DEF Unencapsulated
<1>10. \A m \in S : Via(mns'[m]) = NoNat
  <2>1. \A r \in MnRecord : CleanRecord(r).active = 0
    BY DEF CleanRecord, MnRecord
  <2>2. \A m \in S : mns'[m].active = 0
    BY <1>1, <1>3, <2>1
  <2>. QED  BY <2>2 DEF Via, ViaNat
<1>. QED  BY <1>3, <1>9, <1>10 DEF Stops

-------------------------------------------------------------------------------
(* Probes. *)

\* A probe never changes the endpoint its node is bound through: the slot in
\* use is rewritten only after it has been saved.
LEMMA ProbeKeepsNat ==
  ASSUME TypeOK, NEW m \in MN, NatDistinct(mns[m]),
         NEW x \in Ifindex, NEW c \in CoaV4, NEW e \in Sources[c],
         NatProbe(m, x, c, e)
  PROVE  /\ NatDistinct(mns'[m])
         /\ Via(mns[m]) # NoNat => Via(mns'[m]) = Via(mns[m])
         /\ \A l \in MN : l # m => mns'[l] = mns[l]
<1>. PICK s \in SlotOf(mns[m], x) :
       LET noted == NoteIface(mns[m], x, s)
           saved == SaveActive(noted, s, c, e)
           known == [saved EXCEPT
                       !.coav4 = [saved.coav4 EXCEPT ![s] = c],
                       !.nat   = [saved.nat EXCEPT
                                    ![s] = IF e = Direct(c) THEN NoNat ELSE e]]
       IN  mns' = [mns EXCEPT ![m] = IF s < NIF THEN known ELSE noted]
  BY DEF NatProbe
<1>. DEFINE r     == mns[m]
            noted == NoteIface(mns[m], x, s)
            saved == SaveActive(noted, s, c, e)
            nat   == IF e = Direct(c) THEN NoNat ELSE e
            known == [saved EXCEPT !.coav4 = [saved.coav4 EXCEPT ![s] = c],
                                   !.nat   = [saved.nat EXCEPT ![s] = nat]]
            Kept(a) == NatDistinct(a) /\ (Via(r) # NoNat => Via(a) = Via(r))
<1>1. r \in MnRecord /\ e \in Endpoint /\ s \in 1 .. r.nnif + 1
  BY SlotType DEF TypeOK
<1>2. noted \in MnRecord
  BY <1>1, NoteIfaceType
<1>3. Kept(noted)
  <2>1. noted.active = r.active /\ noted.nat = r.nat /\ noted.coav4 = r.coav4
    BY <1>1 DEF NoteIface, MnRecord
  <2>. HIDE DEF noted, r
  <2>2. NatDistinct(r)
    BY DEF r
  <2>. QED  BY <2>1, <2>2 DEF NatDistinct, Via, ViaNat
<1>4. ASSUME s < NIF PROVE Kept(known)
  <2>. HIDE DEF noted, r
  <2>1. s \in Slot /\ s > 0 /\ s # NIF
    BY <1>1, <1>4 DEF Slot, MnRecord
  <2>2. saved \in MnRecord
    BY <1>2, <2>1, SaveActiveType
  <2>3. noted.active \in Active /\ noted.coav4 \in CoaTab /\ noted.nat \in NatTab
    BY <1>2 DEF MnRecord
  <2>4. /\ known.active = saved.active
        /\ known.coav4 = [saved.coav4 EXCEPT ![s] = c]
        /\ known.nat = [saved.nat EXCEPT ![s] = nat]
    <3>. HIDE DEF saved, nat
    <3>. QED  BY <2>2 DEF MnRecord
  <2>5. nat # NoNat => nat # Direct(c)
    OBVIOUS
  <2>6. CASE /\ noted.active = s
             /\ noted.coav4[s] # c \/ noted.nat[s] \notin {NoNat, e}
    <3>1. saved = [noted EXCEPT
                     !.coav4 = [noted.coav4 EXCEPT ![NIF] = noted.coav4[s]],
                     !.nat   = [noted.nat EXCEPT ![NIF] = noted.nat[s]],
                     !.active = NIF]
      BY <2>6 DEF SaveActive
    <3>2. /\ saved.active = NIF
          /\ saved.coav4 = [noted.coav4 EXCEPT ![NIF] = noted.coav4[s]]
          /\ saved.nat = [noted.nat EXCEPT ![NIF] = noted.nat[s]]
      BY <1>2, <3>1 DEF MnRecord
    <3>. HIDE DEF known, saved, nat
    <3>3. \A i \in Slot :
            /\ known.coav4[i] = IF i = s THEN c ELSE IF i = NIF THEN noted.coav4[s]
                                ELSE noted.coav4[i]
            /\ known.nat[i] = IF i = s THEN nat ELSE IF i = NIF THEN noted.nat[s]
                              ELSE noted.nat[i]
      BY <2>1, <2>3, <2>4, <3>2 DEF CoaTab, NatTab
    <3>4. NatDistinct(known)
      BY <1>3, <2>1, <2>5, <3>3 DEF NatDistinct
    <3>5. NIF \in Slot /\ known.active = NIF
      BY <2>4, <3>2 DEF Slot
    <3>6. known.nat[NIF] = noted.nat[s]
      BY <2>1, <3>3, <3>5
    <3>7. Via(known) = Via(noted)
      BY <2>1, <2>6, <3>5, <3>6 DEF Via, ViaNat
    <3>. QED  BY <1>3, <3>4, <3>7
  <2>7. CASE ~(/\ noted.active = s
               /\ noted.coav4[s] # c \/ noted.nat[s] \notin {NoNat, e})
    <3>1. saved = noted
      BY <2>7 DEF SaveActive
    <3>2. noted.active = s => noted.coav4[s] = c /\ noted.nat[s] \in {NoNat, e}
      BY <2>7
    <3>3. noted.active = s /\ noted.nat[s] # NoNat => nat = noted.nat[s]
      BY <1>3, <2>1, <3>2 DEF NatDistinct
    <3>. HIDE DEF known, saved
    <3>4. \A i \in Slot :
            /\ known.coav4[i] = IF i = s THEN c ELSE noted.coav4[i]
            /\ known.nat[i] = IF i = s THEN nat ELSE noted.nat[i]
      BY <2>1, <2>3, <2>4, <3>1 DEF CoaTab, NatTab
    <3>5. NatDistinct(known)
      BY <1>3, <2>5, <3>4 DEF NatDistinct
    <3>6. noted.active > 0 /\ noted.nat[noted.active] # NoNat =>
            known.nat[noted.active] = noted.nat[noted.active]
      BY <2>3, <3>3, <3>4 DEF Active, Slot
    <3>7. known.active = noted.active
      BY <2>4, <3>1
    <3>8. Via(noted) # NoNat => Via(known) = Via(noted)
      BY <3>6, <3>7 DEF Via, ViaNat
    <3>. QED  BY <1>3, <3>5, <3>8
  <2>. QED  BY <2>6, <2>7
<1>5. mns' = [mns EXCEPT ![m] = IF s < NIF THEN known ELSE noted]
  OBVIOUS
<1>. HIDE DEF noted, known
<1>6. mns'[m] = (IF s < NIF THEN known ELSE noted)
  BY <1>5 DEF TypeOK
<1>7. Kept(mns'[m])
  BY <1>3, <1>4, <1>6
<1>. QED  BY <1>5, <1>7 DEF TypeOK

\* Nothing changes but records that are not bound through a NAT.
LEMMA EncapKept ==
  ASSUME EncapOK(k, mns), k'.pol = k.pol, k'.sa = k.sa,
         \A m \in MN : Via(mns[m]) # NoNat => Via(mns'[m]) = Via(mns[m])
  PROVE  EncapOK(k', mns')
<1>1. \A a \in IPv4 : a # Unspec
  BY AddressAssumption DEF IPv4
<1>2. \A m \in MN : k.pol[m] # Unspec => Via(mns[m]) # NoNat
  BY DEF EncapOK, NoNat
<1>. QED  BY <1>1, <1>2 DEF EncapOK

\* What a binding update and a cleanup do to the table of endpoints.
LEMMA NatKept ==
  ASSUME NEW r \in MnRecord, NatDistinct(r), NEW g, g.nat = r.nat,
         \A s \in Slot : g.coav4[s] \in {r.coav4[s], Unspec}
  PROVE  NatDistinct(g)
<1>1. \A s \in Slot : r.nat[s] # NoNat => r.nat[s].ip # Unspec
  BY AddressAssumption DEF MnRecord, NatTab, Endpoint, IPv4
<1>2. \A s \in Slot : r.nat[s] # NoNat => r.nat[s] # Direct(Unspec)
  BY <1>1 DEF Direct
<1>. QED  BY <1>2 DEF NatDistinct

\* A cleanup keeps endpoints distinct from the addresses they stand for.
LEMMA CleanNat ==
  ASSUME TypeOK, \A m \in MN : NatDistinct(mns[m]), NEW S, CleanAll(S)
  PROVE  \A m \in MN : NatDistinct(mns'[m])
<1>. SUFFICES ASSUME NEW m \in MN, m \in S
              PROVE  NatDistinct(CleanRecord(mns[m]))
  BY DEF CleanAll
<1>1. mns[m] \in MnRecord
  BY DEF TypeOK
<1>2. CleanRecord(mns[m]).nat = mns[m].nat
  BY <1>1 DEF CleanRecord, MnRecord
<1>3. CleanRecord(mns[m]).coav4 =
        [i \in Slot |-> IF i < NIF THEN Unspec ELSE mns[m].coav4[i]]
  BY <1>1 DEF CleanRecord, MnRecord
<1>. QED  BY <1>1, <1>2, <1>3, NatKept

\* So does every binding update.
LEMMA BuNat ==
  ASSUME TypeOK, NEW m \in MN, NatDistinct(mns[m]), NEW q \in SeqNo,
         NEW n, NEW i, NEW c
  PROVE  /\ NatDistinct(Seen(mns[m], q))
         /\ NatDistinct(Seen(BoundV4(mns[m], i, n), q))
         /\ NatDistinct(Seen(BoundV6(mns[m], c, n), q))
         /\ NatDistinct(Seen([mns[m] EXCEPT !.active = 0,
                                             !.tnl = Forgotten(mns[m])], q))
<1>1. mns[m] \in MnRecord
  BY DEF TypeOK
<1>. DEFINE Same(g) == g.nat = mns[m].nat /\ g.coav4 = mns[m].coav4
<1>2. Same(Seen(mns[m], q))
  BY <1>1 DEF Seen, MnRecord
<1>3. Same(Seen(BoundV4(mns[m], i, n), q))
  BY <1>1 DEF Seen, BoundV4, MnRecord
<1>4. Same(Seen(BoundV6(mns[m], c, n), q))
  BY <1>1 DEF Seen, BoundV6, MnRecord
<1>5. Same(Seen([mns[m] EXCEPT !.active = 0, !.tnl = Forgotten(mns[m])], q))
  BY <1>1 DEF Seen, MnRecord
<1>6. \A g : Same(g) => NatDistinct(g)
  BY DEF NatDistinct
<1>. QED  BY <1>2, <1>3, <1>4, <1>5, <1>6

\* The invariant is inductive.
LEMMA EncapStep ==
  ASSUME CacheInv, PathOK(k, mns), EncapInv, [Next]_vars
  PROVE  EncapInv'
<1>. USE DEF CacheInv, EncapInv
<1>0. mns \in [MN -> MnRecord]
  BY DEF TypeOK
<1>1. CASE Select
  <2>1. PICK d \in 0 .. MaxWait :
          mns' = [m \in MN |-> [mns[m] EXCEPT !.age =
                    IF mns[m].age + d > LIFETIME THEN LIFETIME + 1
                    ELSE mns[m].age + d]]
    BY <1>1 DEF Select
  <2>2. \A m \in MN : /\ mns'[m].active = mns[m].active
                      /\ mns'[m].nat = mns[m].nat /\ mns'[m].coav4 = mns[m].coav4
    BY <1>0, <2>1 DEF MnRecord
  <2>3. \A m \in MN : NatDistinct(mns'[m]) /\ Via(mns'[m]) = Via(mns[m])
    BY <2>2 DEF NatDistinct, Via, ViaNat
  <2>4. k' = k
    BY <1>1 DEF Select
  <2>. QED  BY <2>3, <2>4, EncapKept
<1>2. CASE NatSkip \/ BuIgnored \/ UNCHANGED vars
  BY <1>2 DEF NatSkip, BuIgnored, vars
<1>3. CASE Clean
  <2>1. PICK S \in SUBSET MN : S = {m \in MN : mns[m].age > LIFETIME}
    OBVIOUS
  <2>2. CleanAll(S)
    BY <1>3, <2>1 DEF Clean
  <2>. QED  BY <2>2, CleanStops, StopsEncap, CleanNat
<1>4. CASE Exit
  <2>1. CleanAll(MN) /\ MN \in SUBSET MN
    BY <1>4 DEF Exit
  <2>. QED  BY <2>1, CleanStops, StopsEncap, CleanNat
<1>5. ASSUME NEW m \in MN, Nat_(m)
      PROVE  EncapInv'
  <2>1. PICK x \in Ifindex, c \in CoaV4 : \E e \in Sources[c] : NatProbe(m, x, c, e)
    BY <1>5 DEF Nat_
  <2>2. PICK e \in Sources[c] : NatProbe(m, x, c, e)
    BY <2>1
  <2>3. \A l \in MN : /\ NatDistinct(mns'[l])
                      /\ Via(mns[l]) # NoNat => Via(mns'[l]) = Via(mns[l])
    BY <2>2, ProbeKeepsNat
  <2>4. k' = k
    BY <2>2 DEF NatProbe
  <2>. QED  BY <2>3, <2>4, EncapKept
<1>6. ASSUME NEW m \in MN, Bu(m)
      PROVE  EncapInv'
  <2>1. PICK q \in SeqNo :
          \/ BuStale(m, q)
          \/ \E c \in CoaV4 : \/ BuV4Unknown(m, q, c)
                              \/ BuV4Refresh(m, q, c)
                              \/ BuV4Move(m, q, c)
          \/ \E c \in CoaV6 : BuV6Refresh(m, q, c) \/ BuV6Move(m, q, c)
          \/ BuHome(m, q)
    BY <1>6 DEF Bu
  <2>2. CASE BuStale(m, q)
    BY <2>2 DEF BuStale
  <2>3. CASE mns' = [mns EXCEPT ![m] = Seen(@, q)] /\ UNCHANGED k
    <3>1. Via(Seen(mns[m], q)) = Via(mns[m])
      BY <1>0 DEF Seen, Via, ViaNat, MnRecord
    <3>2. \A l \in MN : NatDistinct(mns'[l]) /\ Via(mns'[l]) = Via(mns[l])
      BY <1>0, <2>3, <3>1, BuNat
    <3>. QED  BY <2>3, <3>2, EncapKept
  <2>4. ASSUME NEW c \in CoaV4, BuV4Move(m, q, c)
        PROVE  EncapInv'
    <3>1. PICK i \in 1 .. NIF - 1, n \in [Family -> Dev \union {FAILED}],
               kA \in Kernel : V4Shape(m, q, c, i, n, kA)
      BY <2>4, BuV4MoveShape
    <3>2. mns' = [mns EXCEPT ![m] = Seen(BoundV4(mns[m], i, n), q)]
      BY <3>1 DEF V4Shape
    <3>3. \A l \in MN : NatDistinct(mns'[l])
      BY <1>0, <3>2, BuNat
    <3>. QED  BY <2>4, <3>3, V4MoveEncap
  <2>5. ASSUME NEW c \in CoaV6, BuV6Move(m, q, c)
        PROVE  EncapInv'
    <3>1. PICK n \in [Family -> Dev \union {FAILED}], kA \in Kernel :
            V6Shape(m, q, c, n, kA)
      BY <2>5, BuV6MoveShape
    <3>2. mns' = [mns EXCEPT ![m] = Seen(BoundV6(mns[m], c, n), q)]
      BY <3>1 DEF V6Shape
    <3>3. \A l \in MN : NatDistinct(mns'[l])
      BY <1>0, <3>2, BuNat
    <3>. QED  BY <2>5, <3>3, V6MoveStops, StopsEncap
  <2>6. CASE BuHome(m, q)
    <3>1. mns' = [mns EXCEPT ![m] =
                    Seen([mns[m] EXCEPT !.active = 0,
                                        !.tnl = Forgotten(mns[m])], q)]
      BY <2>6 DEF BuHome
    <3>2. \A l \in MN : NatDistinct(mns'[l])
      BY <1>0, <3>1, BuNat
    <3>. QED  BY <2>6, <3>2, HomeStops, StopsEncap
  <2>. QED  BY <2>1, <2>2, <2>3, <2>4, <2>5, <2>6
            DEF BuV4Unknown, BuV4Refresh, BuV6Refresh
<1>. QED  BY <1>1, <1>2, <1>3, <1>4, <1>5, <1>6 DEF Next, Ended

\* The invariant about encapsulation holds in every reachable state.
LEMMA EncapInvariant == Spec => []EncapInv
<1>1. Init => EncapInv
  <2>. SUFFICES ASSUME Init PROVE EncapInv
    OBVIOUS
  <2>1. EncapOK(k, mns)
    BY DEF Init, KernelInit, EncapOK
  <2>2. ASSUME NEW m \in MN
        PROVE  mns[m].nat = [i \in Slot |-> NoNat]
    <3>1. PICK uptime \in Age :
            mns[m] = [ active |-> 0, coav4 |-> [i \in Slot |-> Unspec],
                       nat |-> [i \in Slot |-> NoNat], nnif |-> 0,
                       nifmap |-> [i \in 1 .. NIF |-> 0], coav6 |-> Unspec,
                       tnl |-> [t \in Kind |-> NoDev], seq |-> 0,
                       age |-> uptime ]
      BY DEF Init
    <3>. QED  BY <3>1
  <2>. QED  BY <2>1, <2>2 DEF EncapInv, NatDistinct
<1>2. CacheInv /\ PathOK(k, mns) /\ EncapInv /\ [Next]_vars => EncapInv'
  BY EncapStep
<1>. QED  BY <1>1, <1>2, CacheInvariant, PathInvariant, PTL DEF Spec

\* UDP encapsulation is only ever installed towards the endpoint that the
\* record of a node bound through it still holds.
THEOREM EncapSafety == Spec => []EncapFollowsBinding
<1>1. CacheInv /\ EncapInv => EncapFollowsBinding
  BY EncapImplies DEF CacheInv, EncapInv
<1>. QED  BY <1>1, CacheInvariant, EncapInvariant, PTL

-------------------------------------------------------------------------------
(* An acknowledged node behind a NAT is encapsulated.                      *)
(*                                                                         *)
(* That needs NAT boxes that keep their mapping, since a probe may write   *)
(* an endpoint into the slot in use without a call of the kernel, and      *)
(* nodes that are not behind the same box at the same time, since          *)
(* start_udp_encap does nothing if there is a state for the box already.   *)

\* No two nodes are bound through the same NAT box.
Apart(f) ==
  \A l, m \in MN : l # m /\ Via(f[l]) # NoNat => Via(f[l]).ip # Via(f[m]).ip

\* The traffic of every node that is bound through a NAT box is encapsulated.
AllEncap(kk, f) ==
  \A m \in MN : Via(f[m]) # NoNat =>
    kk.pol[m] = Via(f[m]).ip /\ kk.sa[Via(f[m]).ip] = Via(f[m]).port

\* A NAT box keeps the port it chose for an address.
Steady == \A c \in CoaV4 : \A d, e \in Sources[c] : d = e

\* What a probe of the slot's address says is in the slot.
SlotSteady(r) ==
  \A i \in Slot : r.coav4[i] \in CoaV4 =>
    \A e \in Sources[r.coav4[i]] :
      r.nat[i] = IF e = Direct(r.coav4[i]) THEN NoNat ELSE e

\* A probe changes nothing of what its node is bound through, if the boxes
\* keep their mapping.
LEMMA ProbeSteady ==
  ASSUME TypeOK, Steady, NEW m \in MN, SlotSteady(mns[m]),
         NEW x \in Ifindex, NEW c \in CoaV4, NEW e \in Sources[c],
         NatProbe(m, x, c, e)
  PROVE  /\ SlotSteady(mns'[m]) /\ Via(mns'[m]) = Via(mns[m])
         /\ \A l \in MN : l # m => mns'[l] = mns[l]
<1>. PICK s \in SlotOf(mns[m], x) :
       LET noted == NoteIface(mns[m], x, s)
           saved == SaveActive(noted, s, c, e)
           known == [saved EXCEPT
                       !.coav4 = [saved.coav4 EXCEPT ![s] = c],
                       !.nat   = [saved.nat EXCEPT
                                    ![s] = IF e = Direct(c) THEN NoNat ELSE e]]
       IN  mns' = [mns EXCEPT ![m] = IF s < NIF THEN known ELSE noted]
  BY DEF NatProbe
<1>. DEFINE r     == mns[m]
            noted == NoteIface(mns[m], x, s)
            saved == SaveActive(noted, s, c, e)
            nat   == IF e = Direct(c) THEN NoNat ELSE e
            known == [saved EXCEPT !.coav4 = [saved.coav4 EXCEPT ![s] = c],
                                   !.nat   = [saved.nat EXCEPT ![s] = nat]]
            Same(a) == SlotSteady(a) /\ Via(a) = Via(r)
<1>1. r \in MnRecord /\ e \in Endpoint /\ s \in 1 .. r.nnif + 1
  BY SlotType DEF TypeOK
<1>2. noted \in MnRecord
  BY <1>1, NoteIfaceType
<1>3. Same(noted)
  <2>1. noted.active = r.active /\ noted.nat = r.nat /\ noted.coav4 = r.coav4
    BY <1>1 DEF NoteIface, MnRecord
  <2>. HIDE DEF noted, r
  <2>2. SlotSteady(r)
    BY DEF r
  <2>. QED  BY <2>1, <2>2 DEF SlotSteady, Via, ViaNat
<1>4. \A d \in Sources[c] : nat = IF d = Direct(c) THEN NoNat ELSE d
  BY DEF Steady
<1>5. ASSUME s < NIF PROVE Same(known)
  <2>. HIDE DEF noted, r
  <2>1. s \in Slot /\ s > 0 /\ s # NIF
    BY <1>1, <1>5 DEF Slot, MnRecord
  <2>2. saved \in MnRecord
    BY <1>2, <2>1, SaveActiveType
  <2>3. noted.active \in Active /\ noted.coav4 \in CoaTab /\ noted.nat \in NatTab
    BY <1>2 DEF MnRecord
  <2>4. /\ known.active = saved.active
        /\ known.coav4 = [saved.coav4 EXCEPT ![s] = c]
        /\ known.nat = [saved.nat EXCEPT ![s] = nat]
    <3>. HIDE DEF saved, nat
    <3>. QED  BY <2>2 DEF MnRecord
  <2>5. CASE /\ noted.active = s
             /\ noted.coav4[s] # c \/ noted.nat[s] \notin {NoNat, e}
    <3>1. saved = [noted EXCEPT
                     !.coav4 = [noted.coav4 EXCEPT ![NIF] = noted.coav4[s]],
                     !.nat   = [noted.nat EXCEPT ![NIF] = noted.nat[s]],
                     !.active = NIF]
      BY <2>5 DEF SaveActive
    <3>2. /\ saved.active = NIF
          /\ saved.coav4 = [noted.coav4 EXCEPT ![NIF] = noted.coav4[s]]
          /\ saved.nat = [noted.nat EXCEPT ![NIF] = noted.nat[s]]
      BY <1>2, <3>1 DEF MnRecord
    <3>. HIDE DEF known, saved, nat
    <3>3. \A i \in Slot :
            /\ known.coav4[i] = IF i = s THEN c ELSE IF i = NIF THEN noted.coav4[s]
                                ELSE noted.coav4[i]
            /\ known.nat[i] = IF i = s THEN nat ELSE IF i = NIF THEN noted.nat[s]
                              ELSE noted.nat[i]
      BY <2>1, <2>3, <2>4, <3>2 DEF CoaTab, NatTab
    <3>4. SlotSteady(known)
      BY <1>3, <1>4, <2>1, <3>3 DEF SlotSteady
    <3>5. NIF \in Slot /\ known.active = NIF
      BY <2>4, <3>2 DEF Slot
    <3>6. known.nat[NIF] = noted.nat[s]
      BY <2>1, <3>3, <3>5
    <3>7. Via(known) = Via(noted)
      BY <2>1, <2>5, <3>5, <3>6 DEF Via, ViaNat
    <3>. QED  BY <1>3, <3>4, <3>7
  <2>6. CASE ~(/\ noted.active = s
               /\ noted.coav4[s] # c \/ noted.nat[s] \notin {NoNat, e})
    <3>1. saved = noted
      BY <2>6 DEF SaveActive
    <3>2. noted.active = s => noted.coav4[s] = c
      BY <2>6
    <3>3. noted.active = s => nat = noted.nat[s]
      <4>. HIDE DEF nat
      <4>1. SlotSteady(noted) /\ c \in CoaV4
        BY <1>3
      <4>. QED  BY <1>4, <2>1, <3>2, <4>1 DEF SlotSteady
    <3>. HIDE DEF known, saved, nat
    <3>4. \A i \in Slot :
            /\ known.coav4[i] = IF i = s THEN c ELSE noted.coav4[i]
            /\ known.nat[i] = IF i = s THEN nat ELSE noted.nat[i]
      BY <2>1, <2>3, <2>4, <3>1 DEF CoaTab, NatTab
    <3>5. SlotSteady(known)
      BY <1>3, <1>4, <3>4 DEF SlotSteady
    <3>6. noted.active > 0 => known.nat[noted.active] = noted.nat[noted.active]
      BY <2>3, <3>3, <3>4 DEF Active, Slot
    <3>7. known.active = noted.active
      BY <2>4, <3>1
    <3>8. Via(known) = Via(noted)
      BY <3>6, <3>7 DEF Via, ViaNat
    <3>. QED  BY <1>3, <3>5, <3>8
  <2>. QED  BY <2>5, <2>6
<1>6. mns' = [mns EXCEPT ![m] = IF s < NIF THEN known ELSE noted]
  OBVIOUS
<1>. HIDE DEF noted, known
<1>7. mns'[m] = (IF s < NIF THEN known ELSE noted)
  BY <1>6 DEF TypeOK
<1>8. Same(mns'[m])
  BY <1>3, <1>5, <1>7
<1>. QED  BY <1>6, <1>8 DEF TypeOK

\* A step leaves the table of slots alone but for addresses that are dropped.
LEMMA SteadyKept ==
  ASSUME NEW r, SlotSteady(r), NEW g, g.nat = r.nat,
         \A i \in Slot : g.coav4[i] \in {r.coav4[i], Unspec}
  PROVE  SlotSteady(g)
<1>1. Unspec \notin CoaV4
  BY AddressAssumption
<1>. QED  BY <1>1 DEF SlotSteady

\* When encapsulations are stopped, that of a node that stays is untouched: it
\* shares no box with those that go.
LEMMA AllEncapStopped ==
  ASSUME NEW f \in [MN -> MnRecord], Apart(f), NEW k0, AllEncap(k0, f),
         NEW S \in SUBSET MN, NEW k1, Unencapsulated(k0, k1, f, S),
         NEW m \in MN \ S, Via(f[m]) # NoNat
  PROVE  k1.pol[m] = Via(f[m]).ip /\ k1.sa[Via(f[m]).ip] = Via(f[m]).port
<1>1. Via(f[m]) \in Endpoint
  BY NatEndpoint DEF Via
<1>2. Via(f[m]).ip \in IPv4
  BY <1>1 DEF Endpoint
<1>3. \A l \in S : Via(f[l]).ip # Via(f[m]).ip
  BY DEF Apart
<1>. QED  BY <1>2, <1>3 DEF Unencapsulated, AllEncap

\* A move to an IPv4 address encapsulates the traffic of its node.
LEMMA V4MoveAllEncap ==
  ASSUME CacheInv, PathOK(k, mns), EncapOK(k, mns), AllEncap(k, mns),
         Apart(mns), Apart(mns'),
         NEW m \in MN, NEW q \in SeqNo, NEW c \in CoaV4, BuV4Move(m, q, c)
  PROVE  AllEncap(k', mns')
<1>1. PICK k3 \in Kernel, e \in Endpoint \union {NoNat} : V4Restarts(m, k3, e)
  BY V4MoveRestarts
<1>2. /\ Unencapsulated(k, k3, mns, {m}) /\ Via(mns'[m]) = e
      /\ \A l \in MN \ {m} : mns'[l] = mns[l]
      /\ k' = IF e # NoNat THEN start_udp_encap(k3, m, e) ELSE k3
  BY <1>1 DEF V4Restarts
<1>3. ASSUME NEW l \in MN \ {m}, Via(mns'[l]) # NoNat
      PROVE  k3.pol[l] = Via(mns'[l]).ip /\ k3.sa[Via(mns'[l]).ip] = Via(mns'[l]).port
  <2>1. mns \in [MN -> MnRecord] /\ {m} \in SUBSET MN
    BY DEF CacheInv, TypeOK
  <2>2. mns'[l] = mns[l]
    BY <1>2
  <2>3. Via(mns[l]) # NoNat /\ Unencapsulated(k, k3, mns, {m}) /\ l \in MN \ {m}
    BY <1>2, <1>3, <2>2
  <2>. DEFINE S == {m}
  <2>4. S \in SUBSET MN /\ Unencapsulated(k, k3, mns, S) /\ l \in MN \ S
    BY <2>1, <2>3
  <2>. HIDE DEF S
  <2>5. k3.pol[l] = Via(mns[l]).ip /\ k3.sa[Via(mns[l]).ip] = Via(mns[l]).port
    BY <2>1, <2>3, <2>4, AllEncapStopped
  <2>. QED  BY <2>2, <2>5
<1>4. CASE e = NoNat
  BY <1>2, <1>3, <1>4 DEF AllEncap
<1>5. CASE e # NoNat
  <2>1. e \in Endpoint /\ e.ip \in IPv4
    BY <1>5 DEF Endpoint
  <2>2. k3.pol[m] = Unspec
    BY <1>2 DEF Unencapsulated
  <2>3. k3.sa[e.ip] = 0
    <3>0. SUFFICES ASSUME k3.sa[e.ip] # 0
                   PROVE  FALSE
      OBVIOUS
    <3>1. EncapOK(k3, mns')
      BY <1>2, EncapReleased
    <3>2. PICK l \in MN : /\ k3.pol[l] = e.ip
                         /\ Via(mns'[l]) = [ip |-> e.ip, port |-> k3.sa[e.ip]]
      BY <2>1, <3>0, <3>1 DEF EncapOK
    <3>2a. Via(mns'[l]).ip = e.ip /\ Via(mns'[l]) # NoNat
      <4>1. e.ip # Unspec
        BY <2>1, AddressAssumption DEF IPv4
      <4>. QED  BY <3>2, <4>1 DEF NoNat
    <3>3. l # m
      BY <2>1, <2>2, <3>2, AddressAssumption DEF IPv4
    <3>. QED  BY <1>2, <1>5, <3>2, <3>2a, <3>3 DEF Apart
  <2>4. /\ k'.pol = [k3.pol EXCEPT ![m] = e.ip]
        /\ k'.sa = [k3.sa EXCEPT ![e.ip] = e.port]
    BY <1>2, <1>5, <2>2, <2>3 DEF start_udp_encap, Kernel
  <2>5. k3.pol \in [MN -> IPv4 \union {Unspec}] /\ k3.sa \in [IPv4 -> Port \union {0}]
    BY DEF Kernel
  <2>6. \A l \in MN \ {m} : Via(mns'[l]) # NoNat => Via(mns'[l]).ip # e.ip
    BY <1>2 DEF Apart
  <2>7. \A l \in MN \ {m} : Via(mns'[l]) # NoNat =>
          k'.pol[l] = Via(mns'[l]).ip /\ k'.sa[Via(mns'[l]).ip] = Via(mns'[l]).port
    <3>1. ASSUME NEW l \in MN \ {m}, Via(mns'[l]) # NoNat
          PROVE  k'.pol[l] = Via(mns'[l]).ip /\ k'.sa[Via(mns'[l]).ip] = Via(mns'[l]).port
      <4>1. k3.pol[l] = Via(mns'[l]).ip /\ k3.sa[Via(mns'[l]).ip] = Via(mns'[l]).port
        BY <1>3, <3>1
      <4>2. Via(mns'[l]).ip \in IPv4
        <5>1. mns'[l] = mns[l] /\ mns[l] \in MnRecord
          BY <1>2 DEF CacheInv, TypeOK
        <5>2. Via(mns[l]) \in Endpoint
          BY <3>1, <5>1, NatEndpoint DEF Via
        <5>. QED  BY <5>1, <5>2 DEF Endpoint
      <4>. QED  BY <2>4, <2>5, <2>6, <3>1, <4>1, <4>2
    <3>. QED  BY <3>1
  <2>8. k'.pol[m] = e.ip /\ k'.sa[e.ip] = e.port
    BY <2>1, <2>4, <2>5
  <2>. QED  BY <1>2, <2>7, <2>8 DEF AllEncap
<1>. QED  BY <1>4, <1>5

SteadyInv == AllEncap(k, mns) /\ \A m \in MN : SlotSteady(mns[m])

\* The invariant is inductive while the nodes stay apart.
LEMMA SteadyStep ==
  ASSUME CacheInv, PathOK(k, mns), EncapInv, SteadyInv, Steady,
         Apart(mns), Apart(mns'), [Next]_vars
  PROVE  SteadyInv'
<1>. USE DEF CacheInv, EncapInv, SteadyInv
<1>0. mns \in [MN -> MnRecord]
  BY DEF TypeOK
<1>. DEFINE Same(g, r) == g.nat = r.nat /\ g.coav4 = r.coav4
<1>1. ASSUME UNCHANGED k, \A m \in MN : Via(mns'[m]) = Via(mns[m])
      PROVE  AllEncap(k', mns')
  BY <1>1 DEF AllEncap
<1>2. ASSUME NEW S \in SUBSET MN, Stops(S)
      PROVE  AllEncap(k', mns')
  <2>1. ASSUME NEW m \in MN \ S, Via(mns[m]) # NoNat
        PROVE  k'.pol[m] = Via(mns[m]).ip /\ k'.sa[Via(mns[m]).ip] = Via(mns[m]).port
    BY <1>0, <1>2, <2>1, AllEncapStopped DEF Stops
  <2>. QED  BY <1>2, <2>1 DEF Stops, AllEncap
<1>3. ASSUME NEW S \in SUBSET MN, CleanAll(S)
      PROVE  SteadyInv'
  <2>1. AllEncap(k', mns')
    BY <1>2, <1>3, CleanStops
  <2>2. ASSUME NEW r \in MnRecord, SlotSteady(r)
        PROVE  SlotSteady(CleanRecord(r))
    <3>1. /\ CleanRecord(r).nat = r.nat
          /\ CleanRecord(r).coav4 = [i \in Slot |-> IF i < NIF THEN Unspec ELSE r.coav4[i]]
      BY DEF CleanRecord, MnRecord
    <3>. QED  BY <2>2, <3>1, SteadyKept
  <2>3. \A m \in MN : SlotSteady(mns'[m])
    BY <1>0, <1>3, <2>2 DEF CleanAll
  <2>. QED  BY <2>1, <2>3
<1>4. ASSUME \A m \in MN : Same(mns'[m], mns[m])
      PROVE  \A m \in MN : SlotSteady(mns'[m])
  BY <1>4 DEF SlotSteady
<1>5. CASE Select
  <2>1. PICK d \in 0 .. MaxWait :
          mns' = [m \in MN |-> [mns[m] EXCEPT !.age =
                    IF mns[m].age + d > LIFETIME THEN LIFETIME + 1
                    ELSE mns[m].age + d]]
    BY <1>5 DEF Select
  <2>2. \A m \in MN : mns'[m].active = mns[m].active /\ Same(mns'[m], mns[m])
    BY <1>0, <2>1 DEF MnRecord
  <2>3. UNCHANGED k /\ \A m \in MN : Via(mns'[m]) = Via(mns[m])
    BY <1>5, <2>2 DEF Select, Via, ViaNat
  <2>4. \A m \in MN : SlotSteady(mns'[m])
    BY <1>4, <2>2
  <2>5. AllEncap(k', mns')
    BY <1>1, <2>3
  <2>. QED  BY <2>4, <2>5
<1>6. CASE NatSkip \/ BuIgnored \/ UNCHANGED vars
  BY <1>6 DEF NatSkip, BuIgnored, vars
<1>7. CASE Clean
  <2>1. PICK S \in SUBSET MN : S = {m \in MN : mns[m].age > LIFETIME}
    OBVIOUS
  <2>2. CleanAll(S)
    BY <1>7, <2>1 DEF Clean
  <2>. QED  BY <1>3, <2>2
<1>8. CASE Exit
  <2>1. CleanAll(MN) /\ MN \in SUBSET MN
    BY <1>8 DEF Exit
  <2>. QED  BY <1>3, <2>1
<1>9. ASSUME NEW m \in MN, Nat_(m)
      PROVE  SteadyInv'
  <2>1. PICK x \in Ifindex, c \in CoaV4 : \E e \in Sources[c] : NatProbe(m, x, c, e)
    BY <1>9 DEF Nat_
  <2>2. PICK e \in Sources[c] : NatProbe(m, x, c, e)
    BY <2>1
  <2>3. \A l \in MN : SlotSteady(mns'[l]) /\ Via(mns'[l]) = Via(mns[l])
    BY <2>2, ProbeSteady
  <2>4. UNCHANGED k
    BY <2>2 DEF NatProbe
  <2>5. AllEncap(k', mns')
    BY <1>1, <2>3, <2>4
  <2>. QED  BY <2>3, <2>5
<1>10. ASSUME NEW m \in MN, Bu(m)
       PROVE  SteadyInv'
  <2>1. PICK q \in SeqNo :
          \/ BuStale(m, q)
          \/ \E c \in CoaV4 : \/ BuV4Unknown(m, q, c)
                              \/ BuV4Refresh(m, q, c)
                              \/ BuV4Move(m, q, c)
          \/ \E c \in CoaV6 : BuV6Refresh(m, q, c) \/ BuV6Move(m, q, c)
          \/ BuHome(m, q)
    BY <1>10 DEF Bu
  <2>0. {m} \in SUBSET MN /\ mns[m] \in MnRecord
    BY <1>0
  <2>2. CASE BuStale(m, q)
    BY <2>2 DEF BuStale
  <2>3. CASE mns' = [mns EXCEPT ![m] = Seen(@, q)] /\ UNCHANGED k
    <3>1. Same(Seen(mns[m], q), mns[m]) /\ Via(Seen(mns[m], q)) = Via(mns[m])
      BY <2>0 DEF Seen, Via, ViaNat, MnRecord
    <3>2. \A l \in MN : Same(mns'[l], mns[l]) /\ Via(mns'[l]) = Via(mns[l])
      BY <1>0, <2>3, <3>1
    <3>3. AllEncap(k', mns')
      BY <1>1, <2>3, <3>2
    <3>. QED  BY <1>4, <3>2, <3>3
  <2>4. ASSUME NEW c \in CoaV4, BuV4Move(m, q, c)
        PROVE  SteadyInv'
    <3>1. PICK i \in 1 .. NIF - 1, n \in [Family -> Dev \union {FAILED}],
               kA \in Kernel : V4Shape(m, q, c, i, n, kA)
      BY <2>4, BuV4MoveShape
    <3>2. mns' = [mns EXCEPT ![m] = Seen(BoundV4(mns[m], i, n), q)]
      BY <3>1 DEF V4Shape
    <3>3. Same(Seen(BoundV4(mns[m], i, n), q), mns[m])
      BY <2>0 DEF Seen, BoundV4, MnRecord
    <3>4. \A l \in MN : Same(mns'[l], mns[l])
      BY <1>0, <3>2, <3>3
    <3>5. AllEncap(k', mns')
      BY <2>4, V4MoveAllEncap
    <3>. QED  BY <1>4, <3>4, <3>5
  <2>5. ASSUME NEW c \in CoaV6, BuV6Move(m, q, c)
        PROVE  SteadyInv'
    <3>1. PICK n \in [Family -> Dev \union {FAILED}], kA \in Kernel :
            V6Shape(m, q, c, n, kA)
      BY <2>5, BuV6MoveShape
    <3>2. mns' = [mns EXCEPT ![m] = Seen(BoundV6(mns[m], c, n), q)]
      BY <3>1 DEF V6Shape
    <3>3. Same(Seen(BoundV6(mns[m], c, n), q), mns[m])
      BY <2>0 DEF Seen, BoundV6, MnRecord
    <3>4. \A l \in MN : Same(mns'[l], mns[l])
      BY <1>0, <3>2, <3>3
    <3>5. AllEncap(k', mns')
      BY <1>2, <2>0, <2>5, V6MoveStops
    <3>. QED  BY <1>4, <3>4, <3>5
  <2>6. CASE BuHome(m, q)
    <3>1. mns' = [mns EXCEPT ![m] =
                    Seen([mns[m] EXCEPT !.active = 0,
                                        !.tnl = Forgotten(mns[m])], q)]
      BY <2>6 DEF BuHome
    <3>2. Same(Seen([mns[m] EXCEPT !.active = 0, !.tnl = Forgotten(mns[m])], q), mns[m])
      BY <2>0 DEF Seen, MnRecord
    <3>3. \A l \in MN : Same(mns'[l], mns[l])
      BY <1>0, <3>1, <3>2
    <3>4. AllEncap(k', mns')
      BY <1>2, <2>0, <2>6, HomeStops
    <3>. QED  BY <1>4, <3>3, <3>4
  <2>. QED  BY <2>1, <2>2, <2>3, <2>4, <2>5, <2>6
            DEF BuV4Unknown, BuV4Refresh, BuV6Refresh
<1>. QED  BY <1>5, <1>6, <1>7, <1>8, <1>9, <1>10 DEF Next, Ended

\* While NAT boxes keep their mapping and no two nodes are bound through the
\* same box, a node whose binding update is acknowledged while its packets
\* come from behind a NAT is encapsulated for that NAT, towards its port.
THEOREM AckedEncapsulated ==
  ASSUME Steady
  PROVE  Spec /\ []Apart(mns) => []AckedIsEncapsulated
<1>1. Init => SteadyInv
  <2>. SUFFICES ASSUME Init PROVE SteadyInv
    OBVIOUS
  <2>1. ASSUME NEW m \in MN
        PROVE  mns[m].active = 0 /\ mns[m].coav4 = [i \in Slot |-> Unspec]
    <3>1. PICK uptime \in Age :
            mns[m] = [ active |-> 0, coav4 |-> [i \in Slot |-> Unspec],
                       nat |-> [i \in Slot |-> NoNat], nnif |-> 0,
                       nifmap |-> [i \in 1 .. NIF |-> 0], coav6 |-> Unspec,
                       tnl |-> [t \in Kind |-> NoDev], seq |-> 0,
                       age |-> uptime ]
      BY DEF Init
    <3>. QED  BY <3>1
  <2>2. \A m \in MN : Via(mns[m]) = NoNat
    <3>1. ASSUME NEW m \in MN
          PROVE  ~ViaNat(mns[m])
      <4>1. mns[m].active = 0
        BY <2>1
      <4>. QED  BY <4>1 DEF ViaNat
    <3>. QED  BY <3>1 DEF Via
  <2>3. Unspec \notin CoaV4
    BY AddressAssumption
  <2>4. \A m \in MN : SlotSteady(mns[m])
    BY <2>1, <2>3 DEF SlotSteady
  <2>. QED  BY <2>2, <2>4 DEF SteadyInv, AllEncap
<1>2. /\ CacheInv /\ PathOK(k, mns) /\ EncapInv /\ Apart(mns) /\ Apart(mns)'
      /\ SteadyInv /\ [Next]_vars
      => SteadyInv'
  BY SteadyStep DEF Apart
<1>3. CacheInv /\ SteadyInv => AckedIsEncapsulated
  <2>. SUFFICES ASSUME CacheInv, SteadyInv, NEW a \in ba, ViaNat(mns[a.mn])
                PROVE  LET e == mns[a.mn].nat[mns[a.mn].active]
                       IN  k.pol[a.mn] = e.ip /\ k.sa[e.ip] = e.port
    BY DEF AckedIsEncapsulated
  <2>1. a.mn \in MN
    BY DEF CacheInv, TypeOK, Ack
  <2>2. Via(mns[a.mn]) = mns[a.mn].nat[mns[a.mn].active]
    BY DEF Via
  <2>3. Via(mns[a.mn]) # NoNat
    BY <2>2 DEF ViaNat
  <2>. QED  BY <2>1, <2>2, <2>3 DEF SteadyInv, AllEncap
<1>. QED  BY <1>1, <1>2, <1>3, CacheInvariant, PathInvariant, EncapInvariant, PTL DEF Spec
===============================================================================
