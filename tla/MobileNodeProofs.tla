--------------------------- MODULE MobileNodeProofs ---------------------------
(***************************************************************************)
(* Proofs about the mobile node daemon, for every value of the constants.  *)
(*                                                                         *)
(* The properties speak of the kernel when a handler has made all its      *)
(* calls; the specification makes them one at a time.  Run relates the two *)
(* without induction: the calls still to be made lead from the kernel as   *)
(* it is to one that agrees with what the daemon has decided.              *)
(***************************************************************************)
EXTENDS MobileNode, FiniteSetTheorems, SequenceTheorems, WellFoundedInduction, TLAPS

-------------------------------------------------------------------------------
(* Runs of calls. *)

Name == Src \union {HoaV6, HoaV4, None}

Calls == ({"rule_add"} \X RuleTable \X Src) \union ({"rule_del"} \X RuleTable \X Name)
           \union ({"route_add"} \X RouteTable \X Family \X Coa)
           \union ({"route_del"} \X RouteTable \X Family \X Name)
           \union ({"encap"} \X CoaV4) \union ({"decap"} \X Name)
           \union ({"dstopt_add"} \X CoaV6) \union {<<"dstopt_del">>}
           \union ({"bu"} \X (Coa \union {HoaV6}))
           \union ({"probe"} \X Ifindex \X CoaV4)
           \union {<<"tnl_cleanup">>}

\* From kernel a to kernel b no traffic that has a tunnel loses it.
Lit(a, b) == \A f \in Family : Path(a, f) # None => Path(b, f) # None

\* The calls s lead from kernel a to kernel b, without a dark moment if lit.
Run(a, s, b, lit) ==
  /\ s \in Seq(Calls)
  /\ \E h \in [0 .. Len(s) -> Kernel] :
       /\ h[0] = a /\ h[Len(s)] = b
       /\ \A n \in 1 .. Len(s) :
            h[n] = Do(h[n - 1], s[n]) /\ (lit => Lit(h[n - 1], h[n]))

LEMMA RunTypes ==
  ASSUME NEW a, NEW s, NEW b, NEW lit, Run(a, s, b, lit)
  PROVE  a \in Kernel /\ b \in Kernel /\ s \in Seq(Calls)
<1>. HIDE DEF Calls, Kernel
<1>. QED  BY DEF Run

\* No call: nothing changes.
LEMMA RunEmpty ==
  ASSUME NEW a \in Kernel, NEW lit
  PROVE  Run(a, << >>, a, lit)
<1>. DEFINE h == [n \in 0 .. 0 |-> a]
<1>. HIDE DEF Calls, Kernel
<1>1. Len(<< >>) = 0 /\ << >> \in Seq(Calls)
  OBVIOUS
<1>2. h \in [0 .. Len(<< >>) -> Kernel] /\ h[0] = a
  BY <1>1
<1>3. \A n \in 1 .. Len(<< >>) : FALSE
  BY <1>1
<1>. HIDE DEF h
<1>. QED  BY <1>1, <1>2, <1>3 DEF Run

\* With no call left the kernel is where the run leads.
LEMMA RunEnd ==
  ASSUME NEW a, NEW b, NEW lit, Run(a, << >>, b, lit)
  PROVE  a = b
BY DEF Run

\* One call.
LEMMA RunOne ==
  ASSUME NEW a \in Kernel, NEW c \in Calls, NEW lit,
         Do(a, c) \in Kernel, lit => Lit(a, Do(a, c))
  PROVE  Run(a, <<c>>, Do(a, c), lit)
<1>. DEFINE b == Do(a, c)
            s == <<c>>
            h == [n \in 0 .. 1 |-> IF n = 0 THEN a ELSE b]
<1>. HIDE DEF Calls, Kernel, b
<1>1. Len(s) = 1 /\ s \in Seq(Calls) /\ s[1] = c
  OBVIOUS
<1>2. h \in [0 .. Len(s) -> Kernel] /\ h[0] = a /\ h[Len(s)] = b
  BY <1>1 DEF b
<1>3. ASSUME NEW n \in 1 .. Len(s)
      PROVE  h[n] = Do(h[n - 1], s[n]) /\ (lit => Lit(h[n - 1], h[n]))
  <2>1. n = 1 /\ h[n] = b /\ h[n - 1] = a /\ s[n] = c
    BY <1>1
  <2>. QED  BY <2>1 DEF b
<1>. HIDE DEF h, s
<1>4. Run(a, s, b, lit)
  BY <1>1, <1>2, <1>3 DEF Run
<1>. QED  BY <1>4 DEF s, b

\* One sequence of calls after the other.
LEMMA RunConcat ==
  ASSUME NEW a, NEW b, NEW c, NEW s, NEW t, NEW lit,
         Run(a, s, b, lit), Run(b, t, c, lit)
  PROVE  Run(a, s \o t, c, lit)
<1>. HIDE DEF Calls, Kernel
<1>0. s \in Seq(Calls) /\ t \in Seq(Calls)
  BY DEF Run
<1>1. PICK g \in [0 .. Len(s) -> Kernel] :
        /\ g[0] = a /\ g[Len(s)] = b
        /\ \A n \in 1 .. Len(s) :
             g[n] = Do(g[n - 1], s[n]) /\ (lit => Lit(g[n - 1], g[n]))
  BY DEF Run
<1>2. PICK h \in [0 .. Len(t) -> Kernel] :
        /\ h[0] = b /\ h[Len(t)] = c
        /\ \A n \in 1 .. Len(t) :
             h[n] = Do(h[n - 1], t[n]) /\ (lit => Lit(h[n - 1], h[n]))
  BY DEF Run
<1>. DEFINE st == s \o t
            j == [n \in 0 .. Len(st) |-> IF n <= Len(s) THEN g[n] ELSE h[n - Len(s)]]
<1>3. /\ st \in Seq(Calls) /\ Len(st) = Len(s) + Len(t)
      /\ Len(s) \in Nat /\ Len(t) \in Nat
      /\ \A n \in 1 .. Len(s) : st[n] = s[n]
      /\ \A n \in Len(s) + 1 .. Len(st) : st[n] = t[n - Len(s)]
  BY <1>0, ConcatProperties
<1>. HIDE DEF st
<1>4. j \in [0 .. Len(st) -> Kernel]
  BY <1>1, <1>2, <1>3
<1>5. j[0] = a /\ j[Len(st)] = c
  <2>1. Len(t) = 0 => b = c
    BY <1>2
  <2>. QED  BY <1>1, <1>2, <1>3, <2>1
<1>6. ASSUME NEW n \in 1 .. Len(st)
      PROVE  j[n] = Do(j[n - 1], st[n]) /\ (lit => Lit(j[n - 1], j[n]))
  <2>1. CASE n <= Len(s)
    <3>1. j[n] = g[n] /\ j[n - 1] = g[n - 1] /\ st[n] = s[n] /\ n \in 1 .. Len(s)
      BY <1>3, <2>1
    <3>. QED  BY <1>1, <3>1
  <2>2. CASE n > Len(s)
    <3>0. n \in Len(s) + 1 .. Len(st) /\ n - Len(s) \in 1 .. Len(t)
      BY <1>3, <2>2
    <3>1. n - Len(s) \in 1 .. Len(t) /\ st[n] = t[n - Len(s)] /\ j[n] = h[n - Len(s)]
      BY <1>3, <2>2, <3>0
    <3>2. j[n - 1] = h[n - Len(s) - 1]
      <4>1. CASE n - 1 = Len(s)
        <5>1. j[n - 1] = g[Len(s)] /\ n - Len(s) - 1 = 0
          BY <1>3, <4>1
        <5>. QED  BY <1>1, <1>2, <5>1
      <4>2. CASE n - 1 > Len(s)
        BY <1>3, <4>2
      <4>. QED  BY <1>3, <2>2, <4>1, <4>2
    <3>. HIDE DEF j
    <3>. QED  BY <1>2, <3>1, <3>2
  <2>. QED  BY <1>3, <2>1, <2>2
<1>. HIDE DEF j
<1>7. Run(a, st, c, lit)
  BY <1>3, <1>4, <1>5, <1>6 DEF Run
<1>. QED  BY <1>7 DEF st

\* The next call.
LEMMA RunStep ==
  ASSUME NEW a, NEW s, NEW b, NEW lit, Run(a, s, b, lit), s # << >>
  PROVE  /\ Run(Do(a, Head(s)), Tail(s), b, lit)
         /\ lit => Lit(a, Do(a, Head(s)))
<1>. HIDE DEF Calls, Kernel
<1>0. s \in Seq(Calls)
  BY DEF Run
<1>1. PICK h \in [0 .. Len(s) -> Kernel] :
        /\ h[0] = a /\ h[Len(s)] = b
        /\ \A n \in 1 .. Len(s) :
             h[n] = Do(h[n - 1], s[n]) /\ (lit => Lit(h[n - 1], h[n]))
  BY DEF Run
<1>. DEFINE t == Tail(s)
            j == [n \in 0 .. Len(t) |-> h[n + 1]]
<1>2. /\ t \in Seq(Calls) /\ Len(t) = Len(s) - 1 /\ Len(s) \in Nat \ {0}
      /\ \A n \in 1 .. Len(t) : t[n] = s[n + 1]
      /\ Head(s) = s[1]
  BY <1>0, HeadTailProperties
<1>3. h[1] = Do(a, Head(s)) /\ (lit => Lit(a, h[1]))
  <2>1. 1 \in 1 .. Len(s) /\ 1 - 1 = 0
    BY <1>2
  <2>2. h[1] = Do(h[1 - 1], s[1]) /\ (lit => Lit(h[1 - 1], h[1]))
    BY <1>1, <2>1
  <2>. QED  BY <1>1, <1>2, <2>1, <2>2
<1>. HIDE DEF t
<1>4. j \in [0 .. Len(t) -> Kernel] /\ j[0] = h[1] /\ j[Len(t)] = b
  BY <1>1, <1>2
<1>5. ASSUME NEW n \in 1 .. Len(t)
      PROVE  j[n] = Do(j[n - 1], t[n]) /\ (lit => Lit(j[n - 1], j[n]))
  <2>1. n + 1 \in 1 .. Len(s) /\ j[n] = h[n + 1] /\ j[n - 1] = h[n] /\ t[n] = s[n + 1]
    BY <1>2
  <2>2. h[n + 1] = Do(h[n + 1 - 1], s[n + 1]) /\ (lit => Lit(h[n + 1 - 1], h[n + 1]))
    BY <1>1, <2>1
  <2>3. n + 1 - 1 = n
    OBVIOUS
  <2>. HIDE DEF j
  <2>. QED  BY <2>1, <2>2, <2>3
<1>. HIDE DEF j
<1>6. Run(h[1], t, b, lit)
  BY <1>2, <1>4, <1>5 DEF Run
<1>. QED  BY <1>3, <1>6 DEF t

\* A run that must not be dark may be.
LEMMA RunDim ==
  ASSUME NEW a, NEW s, NEW b, NEW lit, Run(a, s, b, TRUE)
  PROVE  Run(a, s, b, lit)
<1>. HIDE DEF Calls, Kernel
<1>. QED  BY DEF Run

-------------------------------------------------------------------------------
(* What the calls change. *)

\* Names of the model that are told apart.
LEMMA Apart ==
  /\ "any4" \notin Coa /\ "any6" \notin Coa /\ None \notin Src
  /\ HoaV6 \notin Src /\ HoaV4 \notin Src /\ None \notin Coa
  /\ HoaV6 \notin Coa /\ HoaV4 \notin Coa /\ HoaV6 # None
  /\ CoaV4 \intersect CoaV6 = {} /\ "any6" \notin SrcV4 /\ "any4" \in SrcV4
  /\ \A c \in CoaV6 : c \notin SrcV4
BY AddressAssumption DEF Src, SrcV4, Coa

LEMMA AnySrcIs == /\ AnySrc["v4"] = "any4" /\ AnySrc["v6"] = "any6"
                  /\ \A f \in Family : AnySrc[f] \in Src /\ AnySrc[f] \notin Coa
BY Apart DEF AnySrc, Family, Src, SrcV4

\* The fields a call of a kind leaves alone.
RuleOnly(a, b)  == /\ b.route = a.route /\ b.sa = a.sa /\ b.pol = a.pol
                   /\ b.dstopt = a.dstopt /\ b.said = a.said
RouteOnly(a, b) == /\ b.rule = a.rule /\ b.sa = a.sa /\ b.pol = a.pol
                   /\ b.dstopt = a.dstopt /\ b.said = a.said

\* A kernel whose rules alone are other ones.
LEMMA RuleSet ==
  ASSUME NEW a \in Kernel, NEW y \in RuleTable \X Src, NEW n \in Nat
  PROVE  LET b == [a EXCEPT !.rule[y] = n] IN
         /\ b \in Kernel /\ RuleOnly(a, b) /\ b.rule[y] = n
         /\ \A x \in RuleTable \X Src : x # y => b.rule[x] = a.rule[x]
<1>. DEFINE D == RuleTable \X Src
            b == [a EXCEPT !.rule[y] = n]
<1>1. a.rule \in [D -> Nat]
  BY DEF Kernel
<1>. HIDE DEF D
<1>2. [a.rule EXCEPT ![y] = n] \in [D -> Nat]
  BY <1>1
<1>3. b = [a EXCEPT !.rule = [a.rule EXCEPT ![y] = n]]
  OBVIOUS
<1>4. b.rule = [a.rule EXCEPT ![y] = n] /\ RuleOnly(a, b)
  BY DEF Kernel, RuleOnly
<1>5. b \in Kernel
  BY <1>2, <1>3 DEF Kernel, D
<1>6. y \in D
  BY DEF D
<1>7. b.rule[y] = n /\ \A x \in D : x # y => b.rule[x] = a.rule[x]
  BY <1>1, <1>4, <1>6
<1>. QED  BY <1>4, <1>5, <1>7 DEF D

\* One call of a kind each, field by field.
LEMMA RuleAddEffect ==
  ASSUME NEW a \in Kernel, NEW t \in RuleTable, NEW s \in Src
  PROVE  LET b == RuleAdd(a, t, s) IN
         /\ b \in Kernel /\ RuleOnly(a, b)
         /\ b.rule[<<t, s>>] = IF s \in SrcV4 THEN 1 ELSE a.rule[<<t, s>>] + 1
         /\ \A x \in RuleTable \X Src : x # <<t, s>> => b.rule[x] = a.rule[x]
<1>1. a.rule[<<t, s>>] \in Nat
  BY DEF Kernel
<1>2. RuleAdd(a, t, s) = IF s \in SrcV4 THEN [a EXCEPT !.rule[<<t, s>>] = 1]
                         ELSE [a EXCEPT !.rule[<<t, s>>] = a.rule[<<t, s>>] + 1]
  BY DEF RuleAdd
<1>3. CASE s \in SrcV4
  <2>1. RuleAdd(a, t, s) = [a EXCEPT !.rule[<<t, s>>] = 1]
    BY <1>2, <1>3
  <2>. DEFINE y == <<t, s>>
  <2>2. y \in RuleTable \X Src /\ 1 \in Nat
    OBVIOUS
  <2>3. RuleAdd(a, t, s) = [a EXCEPT !.rule[y] = 1]
    BY <2>1
  <2>. HIDE DEF y
  <2>4. /\ RuleAdd(a, t, s) \in Kernel /\ RuleOnly(a, RuleAdd(a, t, s))
        /\ RuleAdd(a, t, s).rule[y] = 1
        /\ \A x \in RuleTable \X Src : x # y => RuleAdd(a, t, s).rule[x] = a.rule[x]
    BY <2>2, <2>3, RuleSet
  <2>. QED  BY <1>3, <2>4 DEF y
<1>4. CASE s \notin SrcV4
  <2>1. RuleAdd(a, t, s) = [a EXCEPT !.rule[<<t, s>>] = a.rule[<<t, s>>] + 1]
    BY <1>2, <1>4
  <2>. DEFINE n == a.rule[<<t, s>>] + 1
              y == <<t, s>>
  <2>2. n \in Nat /\ y \in RuleTable \X Src
    BY <1>1
  <2>3. RuleAdd(a, t, s) = [a EXCEPT !.rule[y] = n]
    BY <2>1
  <2>. HIDE DEF n, y
  <2>4. /\ RuleAdd(a, t, s) \in Kernel /\ RuleOnly(a, RuleAdd(a, t, s))
        /\ RuleAdd(a, t, s).rule[y] = n
        /\ \A x \in RuleTable \X Src : x # y => RuleAdd(a, t, s).rule[x] = a.rule[x]
    BY <2>2, <2>3, RuleSet
  <2>. QED  BY <1>4, <2>4 DEF n, y
<1>. QED  BY <1>3, <1>4

LEMMA RuleDelEffect ==
  ASSUME NEW a \in Kernel, NEW t \in RuleTable, NEW s
  PROVE  LET b == RuleDel(a, t, s) IN
         /\ b \in Kernel /\ RuleOnly(a, b)
         /\ s \in Src => b.rule[<<t, s>>] =
              IF a.rule[<<t, s>>] > 0 THEN a.rule[<<t, s>>] - 1 ELSE 0
         /\ \A x \in RuleTable \X Src : x # <<t, s>> => b.rule[x] = a.rule[x]
<1>1. CASE s \in Src /\ a.rule[<<t, s>>] > 0
  <2>1. a.rule[<<t, s>>] \in Nat /\ a.rule[<<t, s>>] - 1 \in Nat
    BY <1>1 DEF Kernel
  <2>2. RuleDel(a, t, s) = [a EXCEPT !.rule[<<t, s>>] = a.rule[<<t, s>>] - 1]
    BY <1>1 DEF RuleDel
  <2>. QED  BY <1>1, <2>1, <2>2, RuleSet
<1>2. CASE ~(s \in Src /\ a.rule[<<t, s>>] > 0)
  <2>1. RuleDel(a, t, s) = a
    BY <1>2 DEF RuleDel
  <2>2. s \in Src => a.rule[<<t, s>>] = 0
    BY <1>2 DEF Kernel
  <2>. QED  BY <1>2, <2>1, <2>2 DEF RuleOnly
<1>. QED  BY <1>1, <1>2

LEMMA RouteAddEffect ==
  ASSUME NEW a \in Kernel, NEW t \in RouteTable, NEW f \in Family, NEW x \in Coa
  PROVE  LET b == RouteAdd(a, t, f, x) IN
         /\ b \in Kernel /\ RouteOnly(a, b)
         /\ \A y \in RouteTable \X Family : b.route[y] =
              IF y = <<t, f>> /\ a.route[y] = None THEN x ELSE a.route[y]
BY DEF RouteAdd, Kernel, RouteOnly

LEMMA RouteDelEffect ==
  ASSUME NEW a \in Kernel, NEW t \in RouteTable, NEW f \in Family, NEW x
  PROVE  LET b == RouteDel(a, t, f, x) IN
         /\ b \in Kernel /\ RouteOnly(a, b)
         /\ \A y \in RouteTable \X Family : b.route[y] =
              IF y = <<t, f>> /\ x \in {a.route[y], None} THEN None ELSE a.route[y]
BY DEF RouteDel, Kernel, RouteOnly

-------------------------------------------------------------------------------
(* Runs of one call, and of the four blocks of calls. *)

\* Table t alone would carry the traffic of both home addresses.
Covered(a, t) == \A f \in Family : a.rule[<<t, AnySrc[f]>>] > 0 /\ a.route[<<t, f>>] # None

LEMMA CoveredIsLit ==
  ASSUME NEW a, NEW b, NEW t \in RouteTable, Covered(b, t)
  PROVE  Lit(a, b)
BY DEF Covered, Lit, Path, RouteTable

\* Rules only ever added, routes only ever added: nothing gets dark.
LEMMA GrowthIsLit ==
  ASSUME NEW a, NEW b,
         \A t \in RouteTable, f \in Family :
           /\ a.rule[<<t, AnySrc[f]>>] > 0 => b.rule[<<t, AnySrc[f]>>] > 0
           /\ a.route[<<t, f>>] # None => b.route[<<t, f>>] # None
  PROVE  Lit(a, b)
<1>. SUFFICES ASSUME NEW f \in Family, Path(a, f) # None
              PROVE  Path(b, f) # None
  BY DEF Lit
<1>1. "tmp" \in RouteTable /\ "mobile" \in RouteTable
  BY DEF RouteTable
<1>. QED  BY <1>1 DEF Path

\* Calls that leave rules and routes alone.
LEMMA SameIsLit ==
  ASSUME NEW a, NEW b, b.rule = a.rule, b.route = a.route
  PROVE  Lit(a, b)
BY DEF Lit, Path

\* What one call does to its rule or its route.
RuleAdded(a, b, t, s) ==
  /\ b \in Kernel /\ RuleOnly(a, b)
  /\ b.rule[<<t, s>>] = IF s \in SrcV4 THEN 1 ELSE a.rule[<<t, s>>] + 1
  /\ \A x \in RuleTable \X Src : x # <<t, s>> => b.rule[x] = a.rule[x]

RuleDeleted(a, b, t, s) ==
  /\ b \in Kernel /\ RuleOnly(a, b)
  /\ s \in Src => b.rule[<<t, s>>] =
       IF a.rule[<<t, s>>] > 0 THEN a.rule[<<t, s>>] - 1 ELSE 0
  /\ \A x \in RuleTable \X Src : x # <<t, s>> => b.rule[x] = a.rule[x]

RouteAdded(a, b, t, f, x) ==
  /\ b \in Kernel /\ RouteOnly(a, b)
  /\ \A y \in RouteTable \X Family : b.route[y] =
       IF y = <<t, f>> /\ a.route[y] = None THEN x ELSE a.route[y]

RouteDeleted(a, b, t, f, x) ==
  /\ b \in Kernel /\ RouteOnly(a, b)
  /\ \A y \in RouteTable \X Family : b.route[y] =
       IF y = <<t, f>> /\ x \in {a.route[y], None} THEN None ELSE a.route[y]

LEMMA CallRuleAdd ==
  ASSUME NEW a \in Kernel, NEW t \in RuleTable, NEW s \in Src, NEW lit
  PROVE  \E b : Run(a, << <<"rule_add", t, s>> >>, b, lit) /\ RuleAdded(a, b, t, s)
<1>. DEFINE m == <<"rule_add", t, s>>
            b == RuleAdd(a, t, s)
<1>1. m \in Calls
  BY DEF Calls
<1>2. Do(a, m) = b
  BY DEF Do
<1>3. /\ b \in Kernel /\ RuleOnly(a, b)
      /\ b.rule[<<t, s>>] = IF s \in SrcV4 THEN 1 ELSE a.rule[<<t, s>>] + 1
      /\ \A x \in RuleTable \X Src : x # <<t, s>> => b.rule[x] = a.rule[x]
  BY RuleAddEffect
<1>. HIDE DEF m, b
<1>4. Lit(a, b)
  <2>1. \A x \in RuleTable \X Src : a.rule[x] \in Nat
    BY DEF Kernel
  <2>2. \A x \in RuleTable \X Src : a.rule[x] > 0 => b.rule[x] > 0
    BY <1>3, <2>1
  <2>3. \A u \in RouteTable, f \in Family : <<u, AnySrc[f]>> \in RuleTable \X Src
    BY AnySrcIs DEF RouteTable, RuleTable
  <2>. QED  BY <1>3, <2>2, <2>3, GrowthIsLit DEF RuleOnly
<1>5. Run(a, <<m>>, b, lit)
  BY <1>1, <1>2, <1>3, <1>4, RunOne
<1>. QED  BY <1>3, <1>5 DEF m, RuleAdded

\* Taking a rule away makes nothing dark if another table carries the traffic.
LEMMA CallRuleDel ==
  ASSUME NEW a \in Kernel, NEW t \in RuleTable, NEW s \in Name, NEW lit,
         lit => t \notin RouteTable \/ \E u \in RouteTable \ {t} : Covered(a, u)
  PROVE  \E b : Run(a, << <<"rule_del", t, s>> >>, b, lit) /\ RuleDeleted(a, b, t, s)
<1>. DEFINE m == <<"rule_del", t, s>>
            b == RuleDel(a, t, s)
<1>1. m \in Calls
  BY DEF Calls
<1>2. Do(a, m) = b
  BY DEF Do
<1>3. /\ b \in Kernel /\ RuleOnly(a, b)
      /\ s \in Src => b.rule[<<t, s>>] =
           IF a.rule[<<t, s>>] > 0 THEN a.rule[<<t, s>>] - 1 ELSE 0
      /\ \A x \in RuleTable \X Src : x # <<t, s>> => b.rule[x] = a.rule[x]
  BY RuleDelEffect
<1>. HIDE DEF m, b
<1>4. lit => Lit(a, b)
  <2>1. \A u \in RouteTable, f \in Family :
          <<u, AnySrc[f]>> \in RuleTable \X Src /\ (u # t => <<u, AnySrc[f]>> # <<t, s>>)
    BY AnySrcIs DEF RouteTable, RuleTable
  <2>2. CASE t \notin RouteTable
    BY <1>3, <2>1, <2>2, GrowthIsLit DEF RuleOnly
  <2>3. CASE \E u \in RouteTable \ {t} : Covered(a, u)
    <3>1. PICK u \in RouteTable \ {t} : Covered(a, u)
      BY <2>3
    <3>2. Covered(b, u)
      BY <1>3, <2>1, <3>1 DEF Covered, RuleOnly
    <3>. QED  BY <3>1, <3>2, CoveredIsLit
  <2>. QED  BY <2>2, <2>3
<1>5. Run(a, <<m>>, b, lit)
  BY <1>1, <1>2, <1>3, <1>4, RunOne
<1>. QED  BY <1>3, <1>5 DEF m, RuleDeleted

LEMMA CallRouteAdd ==
  ASSUME NEW a \in Kernel, NEW t \in RouteTable, NEW f \in Family, NEW x \in Coa,
         NEW lit
  PROVE  \E b : Run(a, << <<"route_add", t, f, x>> >>, b, lit) /\ RouteAdded(a, b, t, f, x)
<1>. DEFINE m == <<"route_add", t, f, x>>
            b == RouteAdd(a, t, f, x)
<1>1. m \in Calls
  BY DEF Calls
<1>2. Do(a, m) = b
  BY DEF Do
<1>3. /\ b \in Kernel /\ RouteOnly(a, b)
      /\ \A y \in RouteTable \X Family : b.route[y] =
           IF y = <<t, f>> /\ a.route[y] = None THEN x ELSE a.route[y]
  BY RouteAddEffect
<1>. HIDE DEF m, b
<1>4. Lit(a, b)
  <2>1. \A y \in RouteTable \X Family : a.route[y] # None => b.route[y] # None
    BY <1>3
  <2>. QED  BY <1>3, <2>1, GrowthIsLit DEF RouteOnly
<1>5. Run(a, <<m>>, b, lit)
  BY <1>1, <1>2, <1>3, <1>4, RunOne
<1>. QED  BY <1>3, <1>5 DEF m, RouteAdded

LEMMA CallRouteDel ==
  ASSUME NEW a \in Kernel, NEW t \in RouteTable, NEW f \in Family, NEW x \in Name,
         NEW lit, lit => \E u \in RouteTable \ {t} : Covered(a, u)
  PROVE  \E b : Run(a, << <<"route_del", t, f, x>> >>, b, lit) /\ RouteDeleted(a, b, t, f, x)
<1>. DEFINE m == <<"route_del", t, f, x>>
            b == RouteDel(a, t, f, x)
<1>1. m \in Calls
  BY DEF Calls
<1>2. Do(a, m) = b
  BY DEF Do
<1>3. /\ b \in Kernel /\ RouteOnly(a, b)
      /\ \A y \in RouteTable \X Family : b.route[y] =
           IF y = <<t, f>> /\ x \in {a.route[y], None} THEN None ELSE a.route[y]
  BY RouteDelEffect
<1>. HIDE DEF m, b
<1>4. ASSUME lit
      PROVE  Lit(a, b)
  <2>1. PICK u \in RouteTable \ {t} : Covered(a, u)
    BY <1>4
  <2>2. Covered(b, u)
    BY <1>3, <2>1 DEF Covered, RouteOnly
  <2>. QED  BY <2>1, <2>2, CoveredIsLit
<1>5. Run(a, <<m>>, b, lit)
  BY <1>1, <1>2, <1>3, <1>4, RunOne
<1>. QED  BY <1>3, <1>5 DEF m, RouteDeleted

\* What the blocks do: both default routes of table t into tunnel x, both
\* rules that send everything to table t.
RoutesAdded(a, b, t, x) ==
  /\ b \in Kernel /\ RouteOnly(a, b)
  /\ \A u \in RouteTable, f \in Family : b.route[<<u, f>>] =
       IF u = t /\ a.route[<<u, f>>] = None THEN x ELSE a.route[<<u, f>>]

RoutesDeleted(a, b, t, x) ==
  /\ b \in Kernel /\ RouteOnly(a, b)
  /\ \A u \in RouteTable, f \in Family : b.route[<<u, f>>] =
       IF u = t /\ x \in {a.route[<<u, f>>], None} THEN None ELSE a.route[<<u, f>>]

RulesAdded(a, b, t) ==
  /\ b \in Kernel /\ RuleOnly(a, b)
  /\ b.rule[<<t, "any4">>] = 1
  /\ b.rule[<<t, "any6">>] = a.rule[<<t, "any6">>] + 1
  /\ \A u \in RuleTable, s \in Src :
       u # t \/ s \notin {"any4", "any6"} => b.rule[<<u, s>>] = a.rule[<<u, s>>]

RulesDeleted(a, b, t) ==
  /\ b \in Kernel /\ RuleOnly(a, b)
  /\ \A s \in {"any4", "any6"} : b.rule[<<t, s>>] =
       IF a.rule[<<t, s>>] > 0 THEN a.rule[<<t, s>>] - 1 ELSE 0
  /\ \A u \in RuleTable, s \in Src :
       u # t \/ s \notin {"any4", "any6"} => b.rule[<<u, s>>] = a.rule[<<u, s>>]

LEMMA BlockRoutesAdd ==
  ASSUME NEW a \in Kernel, NEW t \in RouteTable, NEW x \in Coa, NEW lit
  PROVE  \E b : Run(a, RoutesAdd(t, x), b, lit) /\ RoutesAdded(a, b, t, x)
<1>. DEFINE m == << <<"route_add", t, "v4", x>> >>
            n == << <<"route_add", t, "v6", x>> >>
<1>0. "v4" \in Family /\ "v6" \in Family /\ RoutesAdd(t, x) = m \o n
  BY DEF Family, RoutesAdd
<1>. HIDE DEF Kernel
<1>1. PICK c : Run(a, m, c, lit) /\ RouteAdded(a, c, t, "v4", x)
  BY <1>0, CallRouteAdd
<1>2. PICK b : Run(c, n, b, lit) /\ RouteAdded(c, b, t, "v6", x)
  BY <1>0, <1>1, RunTypes, CallRouteAdd
<1>. HIDE DEF m, n
<1>3. Run(a, RoutesAdd(t, x), b, lit)
  BY <1>0, <1>1, <1>2, RunConcat
<1>4. RoutesAdded(a, b, t, x)
  BY <1>1, <1>2 DEF RoutesAdded, RouteAdded, RouteOnly, Family
<1>. QED  BY <1>3, <1>4

LEMMA BlockRoutesDel ==
  ASSUME NEW a \in Kernel, NEW t \in RouteTable, NEW x \in Name, NEW lit,
         lit => \E u \in RouteTable \ {t} : Covered(a, u)
  PROVE  \E b : Run(a, RoutesDel(t, x), b, lit) /\ RoutesDeleted(a, b, t, x)
<1>. DEFINE m == << <<"route_del", t, "v4", x>> >>
            n == << <<"route_del", t, "v6", x>> >>
<1>0. "v4" \in Family /\ "v6" \in Family /\ RoutesDel(t, x) = m \o n
  BY DEF Family, RoutesDel
<1>. HIDE DEF Kernel, Name
<1>1. PICK c : Run(a, m, c, lit) /\ RouteDeleted(a, c, t, "v4", x)
  BY <1>0, CallRouteDel
<1>2. lit => \E u \in RouteTable \ {t} : Covered(c, u)
  BY <1>1 DEF Covered, RouteDeleted, RouteOnly
<1>3. PICK b : Run(c, n, b, lit) /\ RouteDeleted(c, b, t, "v6", x)
  BY <1>0, <1>1, <1>2, RunTypes, CallRouteDel
<1>. HIDE DEF m, n
<1>4. Run(a, RoutesDel(t, x), b, lit)
  BY <1>0, <1>1, <1>3, RunConcat
<1>5. RoutesDeleted(a, b, t, x)
  BY <1>1, <1>3 DEF RoutesDeleted, RouteDeleted, RouteOnly, Family
<1>. QED  BY <1>4, <1>5

LEMMA AnyNames ==
  /\ "any4" \in Src /\ "any6" \in Src /\ "any4" # "any6" /\ Src \subseteq Name
  /\ "any4" \in SrcV4 /\ "any6" \notin SrcV4
  /\ RouteTable \subseteq RuleTable
BY Apart DEF Src, SrcV4, Name, RouteTable, RuleTable

LEMMA BlockRulesAdd ==
  ASSUME NEW a \in Kernel, NEW t \in RouteTable, NEW lit
  PROVE  \E b : Run(a, RulesAdd(t), b, lit) /\ RulesAdded(a, b, t)
<1>. DEFINE m == << <<"rule_add", t, "any4">> >>
            n == << <<"rule_add", t, "any6">> >>
<1>0. RulesAdd(t) = m \o n
  BY DEF RulesAdd
<1>. HIDE DEF Kernel
<1>1. PICK c : Run(a, m, c, lit) /\ RuleAdded(a, c, t, "any4")
  <2>1. t \in RuleTable
    BY AnyNames
  <2>. QED  BY <2>1, AnyNames, CallRuleAdd
<1>2. PICK b : Run(c, n, b, lit) /\ RuleAdded(c, b, t, "any6")
  <2>1. t \in RuleTable
    BY AnyNames
  <2>. QED  BY <1>1, <2>1, AnyNames, RunTypes, CallRuleAdd
<1>. HIDE DEF m, n
<1>3. Run(a, RulesAdd(t), b, lit)
  BY <1>0, <1>1, <1>2, RunConcat
<1>4. RulesAdded(a, b, t)
  <2>1. <<t, "any4">> # <<t, "any6">> /\ t \in RuleTable
    BY AnyNames
  <2>. QED  BY <1>1, <1>2, <2>1, AnyNames DEF RulesAdded, RuleAdded, RuleOnly
<1>. QED  BY <1>3, <1>4

LEMMA BlockRulesDel ==
  ASSUME NEW a \in Kernel, NEW t \in RouteTable, NEW lit,
         lit => \E u \in RouteTable \ {t} : Covered(a, u)
  PROVE  \E b : Run(a, RulesDel(t), b, lit) /\ RulesDeleted(a, b, t)
<1>. DEFINE m == << <<"rule_del", t, "any4">> >>
            n == << <<"rule_del", t, "any6">> >>
<1>0. RulesDel(t) = m \o n
  BY DEF RulesDel
<1>. HIDE DEF Kernel, Name
<1>t. t \in RuleTable /\ "any4" \in Name /\ "any6" \in Name
  BY AnyNames
<1>1. PICK c : Run(a, m, c, lit) /\ RuleDeleted(a, c, t, "any4")
  BY <1>t, AnyNames, CallRuleDel
<1>2. lit => \E u \in RouteTable \ {t} : Covered(c, u)
  <2>1. \A u \in RouteTable \ {t}, f \in Family :
          <<u, AnySrc[f]>> \in RuleTable \X Src /\ <<u, AnySrc[f]>> # <<t, "any4">>
    BY AnySrcIs, AnyNames
  <2>. QED  BY <1>1, <2>1 DEF Covered, RuleDeleted, RuleOnly
<1>3. PICK b : Run(c, n, b, lit) /\ RuleDeleted(c, b, t, "any6")
  BY <1>1, <1>t, <1>2, AnyNames, RunTypes, CallRuleDel
<1>. HIDE DEF m, n
<1>4. Run(a, RulesDel(t), b, lit)
  BY <1>0, <1>1, <1>3, RunConcat
<1>5. RulesDeleted(a, b, t)
  <2>1. <<t, "any4">> # <<t, "any6">>
    BY AnyNames
  <2>. QED  BY <1>1, <1>3, <1>t, <2>1, AnyNames DEF RulesDeleted, RuleDeleted, RuleOnly
<1>. QED  BY <1>4, <1>5

\* The calls that touch neither rules nor routes.
SameWay(a, b) == b.rule = a.rule /\ b.route = a.route

Told(a, b, x) ==
  /\ b \in Kernel /\ SameWay(a, b)
  /\ b.sa = a.sa /\ b.pol = a.pol /\ b.dstopt = a.dstopt /\ b.said = x

Encapped(a, b, x) ==
  /\ b \in Kernel /\ SameWay(a, b) /\ b.dstopt = a.dstopt /\ b.said = a.said
  /\ a.sa = {} /\ a.pol = None => b.sa = {x} /\ b.pol = x

Decapped(a, b, x) ==
  /\ b \in Kernel /\ SameWay(a, b) /\ b.dstopt = a.dstopt /\ b.said = a.said
  /\ b.pol = None /\ b.sa = a.sa \ {x}

OptionOn(a, b, x) ==
  /\ b \in Kernel /\ SameWay(a, b) /\ b.sa = a.sa /\ b.pol = a.pol /\ b.said = a.said
  /\ a.dstopt = None => b.dstopt = x

OptionOff(a, b) ==
  /\ b \in Kernel /\ SameWay(a, b) /\ b.sa = a.sa /\ b.pol = a.pol /\ b.said = a.said
  /\ b.dstopt = None

Cleared(a, b) ==
  /\ b \in Kernel /\ RouteOnly(a, b)
  /\ \A y \in RouteTable \X Family : b.route[y] = None

LEMMA CallBu ==
  ASSUME NEW a \in Kernel, NEW x \in Coa \union {HoaV6}, NEW lit
  PROVE  \E b : Run(a, << <<"bu", x>> >>, b, lit) /\ Told(a, b, x)
<1>. DEFINE m == <<"bu", x>>
            b == [a EXCEPT !.said = x]
<1>1. m \in Calls /\ Do(a, m) = b
  BY DEF Calls, Do
<1>2. /\ b \in Kernel /\ SameWay(a, b)
      /\ b.sa = a.sa /\ b.pol = a.pol /\ b.dstopt = a.dstopt /\ b.said = x
  BY DEF Kernel, SameWay
<1>. HIDE DEF m, b
<1>3. Run(a, <<m>>, b, lit)
  BY <1>1, <1>2, RunOne, SameIsLit DEF SameWay
<1>. QED  BY <1>2, <1>3 DEF m, Told

LEMMA CallProbe ==
  ASSUME NEW a \in Kernel, NEW i \in Ifindex, NEW x \in CoaV4, NEW lit
  PROVE  Run(a, << <<"probe", i, x>> >>, a, lit)
<1>. DEFINE m == <<"probe", i, x>>
<1>1. m \in Calls /\ Do(a, m) = a
  BY DEF Calls, Do
<1>. HIDE DEF m
<1>3. Run(a, <<m>>, a, lit)
  <2>1. Lit(a, a)
    BY DEF Lit
  <2>. QED  BY <1>1, <2>1, RunOne
<1>. QED  BY <1>3 DEF m

LEMMA CallEncap ==
  ASSUME NEW a \in Kernel, NEW x \in CoaV4, NEW lit
  PROVE  \E b : Run(a, << <<"encap", x>> >>, b, lit) /\ Encapped(a, b, x)
<1>. DEFINE m == <<"encap", x>>
            b == start_udp_encap(a, x)
<1>1. m \in Calls /\ Do(a, m) = b
  BY DEF Calls, Do
<1>2. /\ b \in Kernel /\ SameWay(a, b)
      /\ b.dstopt = a.dstopt /\ b.said = a.said
      /\ a.sa = {} /\ a.pol = None => b.sa = {x} /\ b.pol = x
  BY DEF Kernel, SameWay, start_udp_encap, stop_udp_encap
<1>. HIDE DEF m, b
<1>3. Run(a, <<m>>, b, lit)
  BY <1>1, <1>2, RunOne, SameIsLit DEF SameWay
<1>. QED  BY <1>2, <1>3 DEF m, Encapped

LEMMA CallDecap ==
  ASSUME NEW a \in Kernel, NEW x \in Name, NEW lit
  PROVE  \E b : Run(a, << <<"decap", x>> >>, b, lit) /\ Decapped(a, b, x)
<1>. DEFINE m == <<"decap", x>>
            b == stop_udp_encap(a, x)
<1>1. m \in Calls /\ Do(a, m) = b
  BY DEF Calls, Do
<1>2. /\ b \in Kernel /\ SameWay(a, b)
      /\ b.dstopt = a.dstopt /\ b.said = a.said
      /\ b.pol = None /\ b.sa = a.sa \ {x}
  BY DEF Kernel, SameWay, stop_udp_encap
<1>. HIDE DEF m, b
<1>3. Run(a, <<m>>, b, lit)
  BY <1>1, <1>2, RunOne, SameIsLit DEF SameWay
<1>. QED  BY <1>2, <1>3 DEF m, Decapped

LEMMA CallDstoptAdd ==
  ASSUME NEW a \in Kernel, NEW x \in CoaV6, NEW lit
  PROVE  \E b : Run(a, << <<"dstopt_add", x>> >>, b, lit) /\ OptionOn(a, b, x)
<1>. DEFINE m == <<"dstopt_add", x>>
            b == mn_dstopt_policies_add(a, x)
<1>1. m \in Calls /\ Do(a, m) = b
  BY DEF Calls, Do
<1>2. /\ b \in Kernel /\ SameWay(a, b)
      /\ b.sa = a.sa /\ b.pol = a.pol /\ b.said = a.said
      /\ a.dstopt = None => b.dstopt = x
  BY DEF Kernel, SameWay, mn_dstopt_policies_add
<1>. HIDE DEF m, b
<1>3. Run(a, <<m>>, b, lit)
  BY <1>1, <1>2, RunOne, SameIsLit DEF SameWay
<1>. QED  BY <1>2, <1>3 DEF m, OptionOn

LEMMA CallDstoptDel ==
  ASSUME NEW a \in Kernel, NEW lit
  PROVE  \E b : Run(a, << <<"dstopt_del">> >>, b, lit) /\ OptionOff(a, b)
<1>. DEFINE m == <<"dstopt_del">>
            b == [a EXCEPT !.dstopt = None]
<1>1. m \in Calls /\ Do(a, m) = b
  BY DEF Calls, Do
<1>2. /\ b \in Kernel /\ SameWay(a, b)
      /\ b.sa = a.sa /\ b.pol = a.pol /\ b.said = a.said /\ b.dstopt = None
  BY DEF Kernel, SameWay
<1>. HIDE DEF m, b
<1>3. Run(a, <<m>>, b, lit)
  BY <1>1, <1>2, RunOne, SameIsLit DEF SameWay
<1>. QED  BY <1>2, <1>3 DEF m, OptionOff

LEMMA CallTnlCleanup ==
  ASSUME NEW a \in Kernel
  PROVE  \E b : Run(a, << <<"tnl_cleanup">> >>, b, FALSE) /\ Cleared(a, b)
<1>. DEFINE m == <<"tnl_cleanup">>
            b == [a EXCEPT !.route = [x \in RouteTable \X Family |-> None]]
<1>1. m \in Calls /\ Do(a, m) = b
  BY DEF Calls, Do
<1>2. /\ b \in Kernel /\ RouteOnly(a, b)
      /\ \A y \in RouteTable \X Family : b.route[y] = None
  BY DEF Kernel, RouteOnly
<1>. HIDE DEF m, b
<1>3. Run(a, <<m>>, b, FALSE)
  BY <1>1, <1>2, RunOne
<1>. QED  BY <1>2, <1>3 DEF m, Cleared

-------------------------------------------------------------------------------
(* What the daemon has decided, and a kernel that agrees with it. *)

\* The binding of daemon state e is one the handlers can undo.
Bound(e) ==
  /\ e.type \in {"home", "v4", "v6"}
  /\ e.coa6 \in CoaV6 \union {HoaV6, None} /\ e.coa4 \in CoaV4 \union {HoaV4, None}
  /\ e.type = "v6" => e.coa6 \in CoaV6
  /\ e.type = "v4" => e.coa4 \in CoaV4

Using(e) == CASE e.type = "v6" -> e.coa6
              [] e.type = "v4" -> e.coa4
              [] OTHER -> None

\* Killed daemons included: the rules of the mobile table, and the rule of the
\* care-of address.
WeakRules(r, e) ==
  /\ r[<<"mobile", "any4">>] > 0 /\ r[<<"mobile", "any6">>] > 0
  /\ e.type = "v6" => r[<<"main", e.coa6>>] > 0
  /\ e.coa4 \in CoaV4 => r[<<"main", e.coa4>>] > 0

\* Without a kill the rules are those and no other, except rules of IPv4
\* addresses left behind.
StrictRules(r, e) ==
  /\ r[<<"mobile", "any4">>] = 1 /\ r[<<"mobile", "any6">>] = 1
  /\ \A c \in CoaV6 : r[<<"main", c>>] = IF e.type = "v6" /\ c = e.coa6 THEN 1 ELSE 0
  /\ \A c \in CoaV4 : r[<<"main", c>>] <= 1
  /\ \A t \in RuleTable, s \in Src :
       /\ t # "main" \/ s \in {"any4", "any6"}
       /\ t # "mobile" \/ s \notin {"any4", "any6"}
       => r[<<t, s>>] = 0

StrictRoutes(r, e) ==
  \A f \in Family : r[<<"tmp", f>>] = None /\ r[<<"mobile", f>>] = Using(e)

StrictEncap(z, e) ==
  /\ z.sa = IF e.type = "v4" THEN {e.coa4} ELSE {}
  /\ z.pol = IF e.type = "v4" THEN e.coa4 ELSE None
  /\ z.dstopt = IF e.type = "v6" THEN e.coa6 ELSE None
  /\ z.said # None => z.said = IF e.type = "home" THEN HoaV6 ELSE Using(e)

Good(z, e, strict) ==
  /\ WeakRules(z.rule, e)
  /\ strict => StrictRules(z.rule, e) /\ StrictRoutes(z.route, e) /\ StrictEncap(z, e)

\* What LeaveV6 does.
Left(a, b, x) ==
  /\ b \in Kernel
  /\ b.sa = a.sa /\ b.pol = a.pol /\ b.said = a.said /\ b.dstopt = None
  /\ \A u \in RouteTable, f \in Family : b.route[<<u, f>>] =
       IF u = "mobile" /\ x \in {a.route[<<u, f>>], None} THEN None ELSE a.route[<<u, f>>]
  /\ b.rule[<<"main", x>>] =
       IF a.rule[<<"main", x>>] > 0 THEN a.rule[<<"main", x>>] - 1 ELSE 0
  /\ \A y \in RuleTable \X Src : y # <<"main", x>> => b.rule[y] = a.rule[y]

LEMMA BlockLeaveV6 ==
  ASSUME NEW a \in Kernel, NEW e, e.coa6 \in CoaV6, NEW lit, lit => Covered(a, "tmp")
  PROVE  \E b : Run(a, LeaveV6(e), b, lit) /\ Left(a, b, e.coa6)
<1>. DEFINE x == e.coa6
<1>1. /\ x \in Name /\ x \in Src /\ "mobile" \in RouteTable /\ "main" \in RuleTable
      /\ "main" \notin RouteTable /\ "tmp" \in RouteTable \ {"mobile"}
  BY DEF Name, Src, RouteTable, RuleTable
<1>. HIDE DEF x, Name, Src, RouteTable, RuleTable
<1>2. PICK b1 : Run(a, RoutesDel("mobile", x), b1, lit) /\ RoutesDeleted(a, b1, "mobile", x)
  BY <1>1, BlockRoutesDel
<1>3. PICK b2 : Run(b1, << <<"dstopt_del">> >>, b2, lit) /\ OptionOff(b1, b2)
  BY <1>2, RunTypes, CallDstoptDel
<1>4. PICK b3 : Run(b2, << <<"rule_del", "main", x>> >>, b3, lit)
                  /\ RuleDeleted(b2, b3, "main", x)
  BY <1>1, <1>3, RunTypes, CallRuleDel
<1>5. Run(a, LeaveV6(e), b3, lit)
  <2>1. LeaveV6(e) = RoutesDel("mobile", x)
                       \o (<< <<"dstopt_del">> >> \o << <<"rule_del", "main", x>> >>)
    BY DEF LeaveV6, x
  <2>2. Run(b1, << <<"dstopt_del">> >> \o << <<"rule_del", "main", x>> >>, b3, lit)
    BY <1>3, <1>4, RunConcat
  <2>. QED  BY <1>2, <2>1, <2>2, RunConcat
<1>6. Left(a, b3, x)
  BY <1>1, <1>2, <1>3, <1>4
     DEF Left, RoutesDeleted, RouteOnly, OptionOff, SameWay, RuleDeleted, RuleOnly
<1>. QED  BY <1>5, <1>6 DEF x

\* Between the tunnels: the old binding of e is gone.
Between(a, b, e) ==
  /\ b \in Kernel
  /\ b.dstopt = IF e.type = "v6" THEN None ELSE a.dstopt
  /\ \A u \in RouteTable, f \in Family : b.route[<<u, f>>] =
       IF u = "mobile" /\ e.type # "home" /\ a.route[<<u, f>>] = Using(e)
       THEN None ELSE a.route[<<u, f>>]
  /\ e.type = "v6" => b.rule[<<"main", e.coa6>>] =
       IF a.rule[<<"main", e.coa6>>] > 0 THEN a.rule[<<"main", e.coa6>>] - 1 ELSE 0
  /\ \A t \in RuleTable, s \in Src :
       /\ t # "250"
       /\ t # "main" \/ e.type # "v6" \/ s # e.coa6
       => b.rule[<<t, s>>] = a.rule[<<t, s>>]
  /\ \A s \in Src : a.rule[<<"250", s>>] = 0 => b.rule[<<"250", s>>] = 0

\* UDP encapsulation of the old binding is gone.
Uncapped(a, b, e) ==
  /\ b.sa = IF e.type = "v4" THEN a.sa \ {e.coa4} ELSE a.sa
  /\ b.pol = IF e.type = "v4" THEN None ELSE a.pol

LEMMA Tables ==
  /\ "mobile" \in RouteTable /\ "tmp" \in RouteTable /\ "tmp" # "mobile"
  /\ "main" \in RuleTable /\ "250" \in RuleTable
  /\ "mobile" \in RuleTable /\ "tmp" \in RuleTable
  /\ "main" \notin RouteTable /\ "250" \notin RouteTable
  /\ "v4" \in Family /\ "v6" \in Family
BY DEF RouteTable, RuleTable, Family

LEMMA CoaNames ==
  /\ CoaV4 \subseteq Name /\ CoaV6 \subseteq Name /\ Coa \subseteq Name
  /\ CoaV4 \subseteq Src /\ CoaV6 \subseteq Src /\ CoaV4 \subseteq Coa /\ CoaV6 \subseteq Coa
  /\ HoaV6 \in Name /\ HoaV4 \in Name /\ None \in Name
  /\ CoaV4 \subseteq SrcV4
BY DEF Name, Src, SrcV4, Coa

LEMMA LeftIsBetween ==
  ASSUME NEW a, NEW b, NEW e, e.type = "v6", e.coa6 \in CoaV6, Left(a, b, e.coa6)
  PROVE  /\ Between(a, b, e) /\ Uncapped(a, b, e) /\ b.said = a.said
         /\ b.sa = a.sa /\ b.pol = a.pol
<1>1. Using(e) = e.coa6 /\ e.coa6 # None /\ e.coa6 \in Src
  BY Apart, CoaNames DEF Using
<1>2. \A t \in RuleTable, s \in Src : t # "main" \/ s # e.coa6 => b.rule[<<t, s>>] = a.rule[<<t, s>>]
  BY DEF Left
<1>3. \A s \in Src : b.rule[<<"250", s>>] = a.rule[<<"250", s>>]
  BY <1>2, Tables
<1>. QED  BY <1>1, <1>2, <1>3 DEF Left, Between, Uncapped

\* What every handoff does between its tunnels, to IPv6,
MidV6(e) ==
  CASE e.type = "v6" -> LeaveV6(e)
    [] e.type = "v4" ->
         << <<"decap", e.coa4>> >> \o RoutesDel("mobile", e.coa4) \o ForgetV4(e)
    [] OTHER -> << >>

\* to IPv4,
MidV4(e) ==
  CASE e.type = "v6" -> LeaveV6(e)
    [] e.type = "v4" -> RoutesDel("mobile", e.coa4)
    [] OTHER -> << >>

\* and home.
MidHome(e) ==
  CASE e.type = "v6" -> LeaveV6(e)
    [] e.type = "v4" ->
         << <<"bu", HoaV6>> >> \o ForgetV4(e)
           \o << <<"decap", e.coa4>> >> \o RoutesDel("mobile", e.coa4)
    [] OTHER -> << >>

LEMMA HomeIsBetween ==
  ASSUME NEW a \in Kernel, NEW e, e.type = "home"
  PROVE  Between(a, a, e) /\ Uncapped(a, a, e)
BY DEF Between, Uncapped

LEMMA BlockMidV6 ==
  ASSUME NEW a \in Kernel, NEW e, Bound(e), NEW lit, lit => Covered(a, "tmp")
  PROVE  \E b : /\ Run(a, MidV6(e), b, lit)
                /\ Between(a, b, e) /\ Uncapped(a, b, e) /\ b.said = a.said
<1>1. CASE e.type = "v6"
  <2>1. e.coa6 \in CoaV6 /\ MidV6(e) = LeaveV6(e)
    BY <1>1 DEF Bound, MidV6
  <2>2. PICK b : Run(a, LeaveV6(e), b, lit) /\ Left(a, b, e.coa6)
    BY <2>1, BlockLeaveV6
  <2>. QED  BY <1>1, <2>1, <2>2, LeftIsBetween
<1>2. CASE e.type = "v4"
  <2>. DEFINE x == e.coa4
  <2>1. /\ x \in CoaV4 /\ x \in Name /\ x \in Src /\ x # None /\ Using(e) = x
        /\ e.coa6 \in CoaV6 \union {HoaV6, None}
    BY <1>2, Apart, CoaNames DEF Bound, Using
  <2>2. MidV6(e) = << <<"decap", x>> >> \o RoutesDel("mobile", x)
                     \o << <<"rule_del", "250", x>> >>
    BY <1>2 DEF MidV6, ForgetV4
  <2>. HIDE DEF x
  <2>3. PICK b1 : Run(a, << <<"decap", x>> >>, b1, lit) /\ Decapped(a, b1, x)
    BY <2>1, CallDecap
  <2>4. b1 \in Kernel /\ (lit => \E u \in RouteTable \ {"mobile"} : Covered(b1, u))
    BY <2>3, Tables DEF Decapped, SameWay, Covered
  <2>5. PICK b2 : Run(b1, RoutesDel("mobile", x), b2, lit) /\ RoutesDeleted(b1, b2, "mobile", x)
    BY <2>1, <2>4, Tables, BlockRoutesDel
  <2>6. PICK b3 : Run(b2, << <<"rule_del", "250", x>> >>, b3, lit)
                    /\ RuleDeleted(b2, b3, "250", x)
    BY <2>1, <2>5, Tables, RunTypes, CallRuleDel
  <2>7. Run(a, MidV6(e), b3, lit)
    <3>1. Run(a, << <<"decap", x>> >> \o RoutesDel("mobile", x), b2, lit)
      BY <2>3, <2>5, RunConcat
    <3>. QED  BY <2>2, <2>6, <3>1, RunConcat
  <2>8. Between(a, b3, e)
    <3>1. \A t \in RuleTable, s \in Src : t # "250" => b3.rule[<<t, s>>] = a.rule[<<t, s>>]
      BY <2>3, <2>5, <2>6 DEF Decapped, SameWay, RoutesDeleted, RouteOnly, RuleDeleted
    <3>2. \A s \in Src : a.rule[<<"250", s>>] = 0 => b3.rule[<<"250", s>>] = 0
      BY <2>1, <2>3, <2>5, <2>6, Tables
         DEF Decapped, SameWay, RoutesDeleted, RouteOnly, RuleDeleted
    <3>3. b3 \in Kernel /\ b3.dstopt = a.dstopt
      BY <2>3, <2>5, <2>6 DEF Decapped, RoutesDeleted, RouteOnly, RuleDeleted, RuleOnly
    <3>4. \A u \in RouteTable, f \in Family : b3.route[<<u, f>>] =
            IF u = "mobile" /\ a.route[<<u, f>>] = x THEN None ELSE a.route[<<u, f>>]
      <4>1. b3.route = b2.route /\ b1.route = a.route
        BY <2>3, <2>6 DEF Decapped, SameWay, RuleDeleted, RuleOnly
      <4>. QED  BY <2>1, <2>5, <4>1 DEF RoutesDeleted
    <3>. QED  BY <1>2, <2>1, <3>1, <3>2, <3>3, <3>4 DEF Between
  <2>9. Uncapped(a, b3, e) /\ b3.said = a.said
    BY <1>2, <2>3, <2>5, <2>6
       DEF Uncapped, x, Decapped, RoutesDeleted, RouteOnly, RuleDeleted, RuleOnly
  <2>. QED  BY <2>7, <2>8, <2>9
<1>3. CASE e.type = "home"
  <2>1. MidV6(e) = << >>
    BY <1>3 DEF MidV6
  <2>. QED  BY <1>3, <2>1, RunEmpty, HomeIsBetween
<1>. QED  BY <1>1, <1>2, <1>3 DEF Bound

\* UDP encapsulation as it was.
EncapKept(a, b) == b.sa = a.sa /\ b.pol = a.pol

LEMMA BlockMidV4 ==
  ASSUME NEW a \in Kernel, NEW e, Bound(e), NEW lit, lit => Covered(a, "tmp")
  PROVE  \E b : /\ Run(a, MidV4(e), b, lit)
                /\ Between(a, b, e) /\ EncapKept(a, b)
<1>1. CASE e.type = "v6"
  <2>1. e.coa6 \in CoaV6 /\ MidV4(e) = LeaveV6(e)
    BY <1>1 DEF Bound, MidV4
  <2>2. PICK b : Run(a, LeaveV6(e), b, lit) /\ Left(a, b, e.coa6)
    BY <2>1, BlockLeaveV6
  <2>. QED  BY <1>1, <2>1, <2>2, LeftIsBetween DEF EncapKept
<1>2. CASE e.type = "v4"
  <2>. DEFINE x == e.coa4
  <2>1. x \in Name /\ x # None /\ Using(e) = x /\ MidV4(e) = RoutesDel("mobile", x)
    BY <1>2, Apart, CoaNames DEF Bound, Using, MidV4
  <2>. HIDE DEF x
  <2>2. PICK b : Run(a, RoutesDel("mobile", x), b, lit) /\ RoutesDeleted(a, b, "mobile", x)
    BY <2>1, Tables, BlockRoutesDel
  <2>3. Between(a, b, e)
    BY <1>2, <2>1, <2>2 DEF Between, RoutesDeleted, RouteOnly
  <2>4. EncapKept(a, b)
    BY <2>2 DEF RoutesDeleted, RouteOnly, EncapKept
  <2>. QED  BY <2>1, <2>2, <2>3, <2>4
<1>3. CASE e.type = "home"
  <2>1. MidV4(e) = << >>
    BY <1>3 DEF MidV4
  <2>. QED  BY <1>3, <2>1, RunEmpty, HomeIsBetween DEF EncapKept
<1>. QED  BY <1>1, <1>2, <1>3 DEF Bound

LEMMA BlockMidHome ==
  ASSUME NEW a \in Kernel, NEW e, Bound(e)
  PROVE  \E b : /\ Run(a, MidHome(e), b, FALSE)
                /\ Between(a, b, e) /\ Uncapped(a, b, e)
<1>1. CASE e.type = "v6"
  <2>1. e.coa6 \in CoaV6 /\ MidHome(e) = LeaveV6(e)
    BY <1>1 DEF Bound, MidHome
  <2>2. PICK b : Run(a, LeaveV6(e), b, FALSE) /\ Left(a, b, e.coa6)
    BY <2>1, BlockLeaveV6
  <2>. QED  BY <1>1, <2>1, <2>2, LeftIsBetween
<1>2. CASE e.type = "v4"
  <2>. DEFINE x == e.coa4
  <2>1. x \in Name /\ x \in Src /\ x # None /\ Using(e) = x
    BY <1>2, Apart, CoaNames DEF Bound, Using
  <2>2. MidHome(e) = << <<"bu", HoaV6>> >> \o << <<"rule_del", "250", x>> >>
                       \o << <<"decap", x>> >> \o RoutesDel("mobile", x)
    BY <1>2 DEF MidHome, ForgetV4
  <2>. HIDE DEF x
  <2>3. PICK b1 : Run(a, << <<"bu", HoaV6>> >>, b1, FALSE) /\ Told(a, b1, HoaV6)
    BY CallBu
  <2>4. PICK b2 : Run(b1, << <<"rule_del", "250", x>> >>, b2, FALSE)
                    /\ RuleDeleted(b1, b2, "250", x)
    BY <2>1, <2>3, Tables, RunTypes, CallRuleDel
  <2>5. PICK b3 : Run(b2, << <<"decap", x>> >>, b3, FALSE) /\ Decapped(b2, b3, x)
    BY <2>1, <2>4, RunTypes, CallDecap
  <2>6. PICK b4 : Run(b3, RoutesDel("mobile", x), b4, FALSE)
                    /\ RoutesDeleted(b3, b4, "mobile", x)
    BY <2>1, <2>5, Tables, RunTypes, BlockRoutesDel
  <2>7. Run(a, MidHome(e), b4, FALSE)
    <3>1. Run(a, << <<"bu", HoaV6>> >> \o << <<"rule_del", "250", x>> >>, b2, FALSE)
      BY <2>3, <2>4, RunConcat
    <3>2. Run(a, << <<"bu", HoaV6>> >> \o << <<"rule_del", "250", x>> >>
                   \o << <<"decap", x>> >>, b3, FALSE)
      BY <2>5, <3>1, RunConcat
    <3>. QED  BY <2>2, <2>6, <3>2, RunConcat
  <2>8. Between(a, b4, e)
    <3>1. \A t \in RuleTable, s \in Src : t # "250" => b4.rule[<<t, s>>] = a.rule[<<t, s>>]
      BY <2>3, <2>4, <2>5, <2>6
         DEF Told, Decapped, SameWay, RoutesDeleted, RouteOnly, RuleDeleted
    <3>2. \A s \in Src : a.rule[<<"250", s>>] = 0 => b4.rule[<<"250", s>>] = 0
      BY <2>1, <2>3, <2>4, <2>5, <2>6, Tables
         DEF Told, Decapped, SameWay, RoutesDeleted, RouteOnly, RuleDeleted
    <3>3. b4 \in Kernel /\ b4.dstopt = a.dstopt
      BY <2>3, <2>4, <2>5, <2>6
         DEF Told, Decapped, RoutesDeleted, RouteOnly, RuleDeleted, RuleOnly
    <3>4. \A u \in RouteTable, f \in Family : b4.route[<<u, f>>] =
            IF u = "mobile" /\ a.route[<<u, f>>] = x THEN None ELSE a.route[<<u, f>>]
      <4>1. b3.route = a.route
        BY <2>3, <2>4, <2>5 DEF Told, Decapped, SameWay, RuleDeleted, RuleOnly
      <4>. QED  BY <2>1, <2>6, <4>1 DEF RoutesDeleted
    <3>. QED  BY <1>2, <2>1, <3>1, <3>2, <3>3, <3>4 DEF Between
  <2>9. Uncapped(a, b4, e)
    BY <1>2, <2>3, <2>4, <2>5, <2>6
       DEF Uncapped, x, Told, Decapped, RoutesDeleted, RouteOnly, RuleDeleted, RuleOnly
  <2>. QED  BY <2>7, <2>8, <2>9
<1>3. CASE e.type = "home"
  <2>1. MidHome(e) = << >>
    BY <1>3 DEF MidHome
  <2>. QED  BY <1>3, <2>1, RunEmpty, HomeIsBetween
<1>. QED  BY <1>1, <1>2, <1>3 DEF Bound

-------------------------------------------------------------------------------
(* The three moves. *)

\* A table that everything is sent to, once it has its two routes.
LEMMA NowCovered ==
  ASSUME NEW a, NEW b, NEW t \in RouteTable, NEW x \in Coa, RoutesAdded(a, b, t, x),
         a.rule[<<t, "any4">>] > 0, a.rule[<<t, "any6">>] > 0
  PROVE  Covered(b, t)
<1>1. \A f \in Family : b.route[<<t, f>>] # None
  BY Apart DEF RoutesAdded
<1>2. \A f \in Family : AnySrc[f] \in {"any4", "any6"} /\ b.rule = a.rule
  BY AnySrcIs DEF RoutesAdded, RouteOnly, Family
<1>. QED  BY <1>1, <1>2 DEF Covered

LEMMA RulesAreNat ==
  ASSUME NEW a \in Kernel, NEW t \in RuleTable, NEW s \in Src
  PROVE  a.rule[<<t, s>>] \in Nat
BY DEF Kernel

\* What EndTemporary does.
TemporaryEnded(a, b, x) ==
  /\ b \in Kernel
  /\ b.sa = a.sa /\ b.pol = a.pol /\ b.dstopt = a.dstopt /\ b.said = a.said
  /\ \A f \in Family :
       /\ b.route[<<"tmp", f>>] =
            IF a.route[<<"tmp", f>>] = x THEN None ELSE a.route[<<"tmp", f>>]
       /\ b.route[<<"mobile", f>>] = a.route[<<"mobile", f>>]
  /\ \A s \in {"any4", "any6"} : b.rule[<<"tmp", s>>] =
       IF a.rule[<<"tmp", s>>] > 0 THEN a.rule[<<"tmp", s>>] - 1 ELSE 0
  /\ \A u \in RuleTable, s \in Src :
       u # "tmp" \/ s \notin {"any4", "any6"} => b.rule[<<u, s>>] = a.rule[<<u, s>>]

\* From the temporary table back to the mobile one, which has the new tunnel.
LEMMA BlockEndTemporary ==
  ASSUME NEW a \in Kernel, NEW x \in Coa, Covered(a, "mobile")
  PROVE  \E b : Run(a, EndTemporary(x), b, TRUE) /\ TemporaryEnded(a, b, x)
<1>1. x \in Name /\ x # None
  BY Apart, CoaNames
<1>2. PICK c : Run(a, RoutesDel("tmp", x), c, TRUE) /\ RoutesDeleted(a, c, "tmp", x)
  BY <1>1, Tables, BlockRoutesDel
<1>3. c \in Kernel /\ Covered(c, "mobile")
  BY <1>2, Tables DEF RoutesDeleted, RouteOnly, Covered
<1>4. PICK b : Run(c, RulesDel("tmp"), b, TRUE) /\ RulesDeleted(c, b, "tmp")
  BY <1>3, Tables, BlockRulesDel
<1>5. Run(a, EndTemporary(x), b, TRUE)
  BY <1>2, <1>4, RunConcat DEF EndTemporary
<1>6. c.rule = a.rule /\ b.route = c.route
  BY <1>2, <1>4 DEF RoutesDeleted, RouteOnly, RulesDeleted, RuleOnly
<1>7. \A f \in Family :
        /\ b.route[<<"tmp", f>>] =
             IF a.route[<<"tmp", f>>] = x THEN None ELSE a.route[<<"tmp", f>>]
        /\ b.route[<<"mobile", f>>] = a.route[<<"mobile", f>>]
  BY <1>1, <1>2, <1>6, Tables DEF RoutesDeleted
<1>8. /\ b \in Kernel
      /\ b.sa = a.sa /\ b.pol = a.pol /\ b.dstopt = a.dstopt /\ b.said = a.said
  BY <1>2, <1>4 DEF RoutesDeleted, RouteOnly, RulesDeleted, RuleOnly
<1>9. /\ \A s \in {"any4", "any6"} : b.rule[<<"tmp", s>>] =
           IF a.rule[<<"tmp", s>>] > 0 THEN a.rule[<<"tmp", s>>] - 1 ELSE 0
      /\ \A u \in RuleTable, s \in Src :
           u # "tmp" \/ s \notin {"any4", "any6"}
           => b.rule[<<u, s>>] = a.rule[<<u, s>>]
  BY <1>4, <1>6 DEF RulesDeleted
<1>. QED  BY <1>5, <1>7, <1>8, <1>9 DEF TemporaryEnded

\* A move to IPv6 care-of address coa.
LEMMA MoveV6Run ==
  ASSUME NEW a \in Kernel, NEW e, Bound(e), NEW coa \in CoaV6, NEW i, NEW strict,
         Good(a, e, strict), e.type = "v6" => e.coa6 # coa,
         NEW n, n.type = "v6", n.coa6 = coa, n.coa4 = e.coa4
  PROVE  \E z : Run(a, MoveV6(e, coa, i).todo, z, TRUE) /\ Good(z, n, strict)
<1>. DEFINE first == IF e.type = "v4" THEN << <<"bu", coa>> >> ELSE << >>
<1>0. /\ coa \in Coa /\ coa \in Src /\ coa \notin SrcV4 /\ coa # None
      /\ coa # "any4" /\ coa # "any6" /\ coa \notin CoaV4
      /\ "any4" \in Src /\ "any6" \in Src
  BY Apart, CoaNames, AnyNames
<1>1. PICK b1 : /\ Run(a, first, b1, TRUE) /\ SameWay(a, b1) /\ b1 \in Kernel
                /\ b1.sa = a.sa /\ b1.pol = a.pol /\ b1.dstopt = a.dstopt
  <2>1. CASE e.type = "v4"
    <3>1. PICK b : Run(a, << <<"bu", coa>> >>, b, TRUE) /\ Told(a, b, coa)
      BY <1>0, CallBu
    <3>. QED  BY <2>1, <3>1 DEF Told
  <2>2. CASE e.type # "v4"
    BY <2>2, RunEmpty DEF SameWay
  <2>. QED  BY <2>1, <2>2
<1>2. PICK b2 : /\ Run(b1, << <<"rule_add", "main", coa>> >>, b2, TRUE)
                /\ RuleAdded(b1, b2, "main", coa)
  BY <1>0, <1>1, Tables, CallRuleAdd
<1>3. PICK b3 : Run(b2, RoutesAdd("tmp", coa), b3, TRUE) /\ RoutesAdded(b2, b3, "tmp", coa)
  BY <1>0, <1>2, Tables, RunTypes, BlockRoutesAdd
<1>4. PICK b4 : Run(b3, RulesAdd("tmp"), b4, TRUE) /\ RulesAdded(b3, b4, "tmp")
  BY <1>3, Tables, RunTypes, BlockRulesAdd
<1>5. b4 \in Kernel /\ Covered(b4, "tmp")
  <2>1. \A f \in Family : b4.route[<<"tmp", f>>] # None
    BY <1>0, <1>3, <1>4, Tables DEF RoutesAdded, RulesAdded, RuleOnly
  <2>2. b4.rule[<<"tmp", "any4">>] > 0 /\ b4.rule[<<"tmp", "any6">>] > 0
    <3>1. b3.rule[<<"tmp", "any6">>] \in Nat
      BY <1>0, <1>3, Tables, RulesAreNat DEF RoutesAdded
    <3>. QED  BY <1>4, <3>1 DEF RulesAdded
  <2>3. \A f \in Family : AnySrc[f] \in {"any4", "any6"}
    BY AnySrcIs DEF Family
  <2>. QED  BY <1>4, <2>1, <2>2, <2>3 DEF Covered, RulesAdded
<1>6. PICK b5 : /\ Run(b4, MidV6(e), b5, TRUE)
                /\ Between(b4, b5, e) /\ Uncapped(b4, b5, e) /\ b5.said = b4.said
  BY <1>5, BlockMidV6
<1>7. PICK b6 : Run(b5, RoutesAdd("mobile", coa), b6, TRUE) /\ RoutesAdded(b5, b6, "mobile", coa)
  BY <1>0, <1>6, Tables, RunTypes, BlockRoutesAdd
<1>8. PICK b7 : Run(b6, << <<"dstopt_add", coa>> >>, b7, TRUE) /\ OptionOn(b6, b7, coa)
  BY <1>7, RunTypes, CallDstoptAdd
\* The rules as they were when the mobile table has its routes again.
<1>9. /\ b7.rule[<<"main", coa>>] = a.rule[<<"main", coa>>] + 1
      /\ b7.rule[<<"tmp", "any4">>] = 1
      /\ b7.rule[<<"tmp", "any6">>] = a.rule[<<"tmp", "any6">>] + 1
      /\ e.type = "v6" => b7.rule[<<"main", e.coa6>>] =
           IF a.rule[<<"main", e.coa6>>] > 0 THEN a.rule[<<"main", e.coa6>>] - 1 ELSE 0
      /\ \A s \in Src : a.rule[<<"250", s>>] = 0 => b7.rule[<<"250", s>>] = 0
      /\ \A t \in RuleTable, s \in Src :
           /\ t # "250" /\ (t # "main" \/ s # coa)
           /\ t # "main" \/ e.type # "v6" \/ s # e.coa6
           /\ t # "tmp" \/ s \notin {"any4", "any6"}
           => b7.rule[<<t, s>>] = a.rule[<<t, s>>]
  <2>1. b1.rule = a.rule /\ b3.rule = b2.rule /\ b6.rule = b5.rule /\ b7.rule = b6.rule
    BY <1>1, <1>3, <1>7, <1>8 DEF SameWay, RoutesAdded, RouteOnly, OptionOn
  <2>2. /\ b2.rule[<<"main", coa>>] = a.rule[<<"main", coa>>] + 1
        /\ \A t \in RuleTable, s \in Src :
             t # "main" \/ s # coa => b2.rule[<<t, s>>] = a.rule[<<t, s>>]
    BY <1>0, <1>2, <2>1 DEF RuleAdded
  <2>3. /\ b4.rule[<<"tmp", "any4">>] = 1
        /\ b4.rule[<<"tmp", "any6">>] = a.rule[<<"tmp", "any6">>] + 1
        /\ b4.rule[<<"main", coa>>] = a.rule[<<"main", coa>>] + 1
        /\ \A t \in RuleTable, s \in Src :
             /\ t # "main" \/ s # coa
             /\ t # "tmp" \/ s \notin {"any4", "any6"}
             => b4.rule[<<t, s>>] = a.rule[<<t, s>>]
    BY <1>0, <1>4, <2>1, <2>2, Tables DEF RulesAdded
  <2>4. e.type = "v6" => e.coa6 \in Src /\ e.coa6 \notin {"any4", "any6", coa}
    BY Apart, CoaNames DEF Bound
  <2>5. /\ \A t \in RuleTable, s \in Src :
             /\ t # "250" /\ (t # "main" \/ e.type # "v6" \/ s # e.coa6)
             => b7.rule[<<t, s>>] = b4.rule[<<t, s>>]
        /\ e.type = "v6" => b7.rule[<<"main", e.coa6>>] =
             IF b4.rule[<<"main", e.coa6>>] > 0 THEN b4.rule[<<"main", e.coa6>>] - 1 ELSE 0
        /\ \A s \in Src : b4.rule[<<"250", s>>] = 0 => b7.rule[<<"250", s>>] = 0
    BY <1>6, <2>1 DEF Between
  <2>6. /\ b7.rule[<<"tmp", "any4">>] = 1
        /\ b7.rule[<<"tmp", "any6">>] = a.rule[<<"tmp", "any6">>] + 1
        /\ b7.rule[<<"main", coa>>] = a.rule[<<"main", coa>>] + 1
    BY <1>0, <2>3, <2>4, <2>5, Tables
  <2>7. \A s \in Src : b4.rule[<<"250", s>>] = a.rule[<<"250", s>>]
    BY <2>3, Tables
  <2>. QED  BY <2>3, <2>4, <2>5, <2>6, <2>7, Tables
<1>10. Covered(b7, "mobile")
  <2>1. \A s \in {"any4", "any6"} : b7.rule[<<"mobile", s>>] = a.rule[<<"mobile", s>>]
    BY <1>0, <1>9, Tables
  <2>2. b5.rule = b7.rule /\ b6.route = b7.route /\ b6.rule = b7.rule
    BY <1>7, <1>8 DEF RoutesAdded, RouteOnly, OptionOn, SameWay
  <2>3. Covered(b6, "mobile")
    <3>1. b5.rule[<<"mobile", "any4">>] > 0 /\ b5.rule[<<"mobile", "any6">>] > 0
      BY <2>1, <2>2 DEF Good, WeakRules
    <3>. QED  BY <1>0, <1>7, <3>1, Tables, NowCovered
  <2>. QED  BY <2>2, <2>3 DEF Covered
<1>11. PICK b9 : Run(b7, EndTemporary(coa), b9, TRUE) /\ TemporaryEnded(b7, b9, coa)
  BY <1>0, <1>8, <1>10, RunTypes, BlockEndTemporary
<1>12. PICK z : Run(b9, << <<"bu", coa>> >>, z, TRUE) /\ Told(b9, z, coa)
  BY <1>0, <1>11, RunTypes, CallBu
<1>13. Run(a, MoveV6(e, coa, i).todo, z, TRUE)
  <2>. DEFINE up   == RoutesAdd("tmp", coa) \o RulesAdd("tmp")
              over == up \o MidV6(e) \o RoutesAdd("mobile", coa)
              head == first \o << <<"rule_add", "main", coa>> >>
  <2>1. MoveV6(e, coa, i).todo =
          head \o over \o << <<"dstopt_add", coa>> >> \o EndTemporary(coa)
            \o << <<"bu", coa>> >>
    BY DEF MoveV6, Result, ViaTemporary, MidV6
  <2>2. Run(a, head, b2, TRUE)
    BY <1>1, <1>2, RunConcat
  <2>3. Run(b2, up, b4, TRUE)
    BY <1>3, <1>4, RunConcat
  <2>. HIDE DEF up, head
  <2>4. Run(b2, up \o MidV6(e), b5, TRUE)
    BY <1>6, <2>3, RunConcat
  <2>5. Run(b2, over, b6, TRUE)
    BY <1>7, <2>4, RunConcat
  <2>. HIDE DEF over
  <2>6. Run(a, head \o over, b6, TRUE)
    BY <2>2, <2>5, RunConcat
  <2>7. Run(a, head \o over \o << <<"dstopt_add", coa>> >>, b7, TRUE)
    BY <1>8, <2>6, RunConcat
  <2>8. Run(a, head \o over \o << <<"dstopt_add", coa>> >> \o EndTemporary(coa), b9, TRUE)
    BY <1>11, <2>7, RunConcat
  <2>. QED  BY <1>12, <2>1, <2>8, RunConcat
\* The rules when the temporary table is out of use.
<1>14. /\ z.rule[<<"main", coa>>] = a.rule[<<"main", coa>>] + 1
       /\ z.rule[<<"tmp", "any4">>] = 0
       /\ z.rule[<<"tmp", "any6">>] = a.rule[<<"tmp", "any6">>]
       /\ e.type = "v6" => z.rule[<<"main", e.coa6>>] =
            IF a.rule[<<"main", e.coa6>>] > 0 THEN a.rule[<<"main", e.coa6>>] - 1 ELSE 0
       /\ \A s \in Src : a.rule[<<"250", s>>] = 0 => z.rule[<<"250", s>>] = 0
       /\ \A t \in RuleTable, s \in Src :
            /\ t # "250" /\ (t # "main" \/ s # coa)
            /\ t # "main" \/ e.type # "v6" \/ s # e.coa6
            /\ t # "tmp" \/ s \notin {"any4", "any6"}
            => z.rule[<<t, s>>] = a.rule[<<t, s>>]
  <2>1. z.rule = b9.rule
    BY <1>12 DEF Told, SameWay
  <2>2. a.rule[<<"tmp", "any6">>] \in Nat
    BY <1>0, Tables, RulesAreNat
  <2>3. e.type = "v6" => e.coa6 \in Src
    BY CoaNames DEF Bound
  <2>. QED  BY <1>0, <1>9, <1>11, <2>1, <2>2, <2>3, Tables DEF TemporaryEnded
<1>15. WeakRules(z.rule, n)
  <2>1. a.rule[<<"main", coa>>] \in Nat
    BY <1>0, Tables, RulesAreNat
  <2>2. z.rule[<<"main", n.coa6>>] > 0
    BY <1>14, <2>1
  <2>3. ASSUME n.coa4 \in CoaV4
        PROVE  z.rule[<<"main", n.coa4>>] > 0
    <3>1. n.coa4 \in Src /\ n.coa4 # coa /\ (e.type = "v6" => n.coa4 # e.coa6)
      BY <2>3, Apart, CoaNames DEF Bound
    <3>. QED  BY <1>14, <2>3, <3>1, Tables DEF Good, WeakRules
  <2>4. /\ z.rule[<<"mobile", "any4">>] = a.rule[<<"mobile", "any4">>]
        /\ z.rule[<<"mobile", "any6">>] = a.rule[<<"mobile", "any6">>]
    BY <1>0, <1>14, Tables
  <2>. QED  BY <2>2, <2>3, <2>4 DEF Good, WeakRules
<1>16. ASSUME strict
       PROVE  StrictRules(z.rule, n) /\ StrictRoutes(z.route, n) /\ StrictEncap(z, n)
  <2>. USE <1>16
  <2>0. StrictRules(a.rule, e) /\ StrictRoutes(a.route, e) /\ StrictEncap(a, e)
    BY DEF Good
  <2>1. StrictRules(z.rule, n)
    <3>1. z.rule[<<"mobile", "any4">>] = 1 /\ z.rule[<<"mobile", "any6">>] = 1
      BY <1>0, <1>14, <2>0, Tables DEF StrictRules
    <3>2. ASSUME NEW c \in CoaV6
          PROVE  z.rule[<<"main", c>>] = IF c = coa THEN 1 ELSE 0
      <4>1. c \in Src /\ c \notin {"any4", "any6"}
        BY Apart, CoaNames
      <4>2. a.rule[<<"main", c>>] = IF e.type = "v6" /\ c = e.coa6 THEN 1 ELSE 0
        BY <2>0 DEF StrictRules
      <4>. QED  BY <1>14, <4>1, <4>2, Tables
    <3>3. ASSUME NEW c \in CoaV4
          PROVE  z.rule[<<"main", c>>] <= 1
      <4>1. c \in Src /\ c # coa /\ (e.type = "v6" => c # e.coa6)
        BY Apart, CoaNames DEF Bound
      <4>2. a.rule[<<"main", c>>] <= 1
        BY <2>0 DEF StrictRules
      <4>. QED  BY <1>14, <4>1, <4>2, Tables
    <3>4. ASSUME NEW t \in RuleTable, NEW s \in Src,
                 t # "main" \/ s \in {"any4", "any6"},
                 t # "mobile" \/ s \notin {"any4", "any6"}
          PROVE  z.rule[<<t, s>>] = 0
      <4>1. a.rule[<<t, s>>] = 0
        BY <2>0, <3>4 DEF StrictRules
      <4>2. coa \notin {"any4", "any6"} /\ (e.type = "v6" => e.coa6 \notin {"any4", "any6"})
        BY <1>0, Apart, CoaNames DEF Bound
      <4>3. CASE t = "250"
        BY <1>14, <4>1, <4>3
      <4>4. CASE t = "tmp" /\ s \in {"any4", "any6"}
        BY <1>14, <4>1, <4>4
      <4>5. CASE t # "250" /\ ~(t = "tmp" /\ s \in {"any4", "any6"})
        BY <1>14, <3>4, <4>1, <4>2, <4>5
      <4>. QED  BY <4>3, <4>4, <4>5
    <3>. QED  BY <3>1, <3>2, <3>3, <3>4 DEF StrictRules
  <2>2. StrictRoutes(z.route, n)
    <3>1. b2.route = a.route /\ b4.route = b3.route /\ b7.route = b6.route /\ z.route = b9.route
      BY <1>1, <1>2, <1>4, <1>8, <1>12
         DEF SameWay, RuleAdded, RulesAdded, RuleOnly, OptionOn, Told
    <3>2. Using(n) = coa
      BY DEF Using
    <3>3. ASSUME NEW f \in Family
          PROVE  z.route[<<"tmp", f>>] = None /\ z.route[<<"mobile", f>>] = coa
      <4>1. b4.route[<<"tmp", f>>] = coa /\ b4.route[<<"mobile", f>>] = Using(e)
        BY <1>3, <2>0, <3>1, Tables DEF RoutesAdded, StrictRoutes
      <4>2. e.type = "home" => Using(e) = None
        BY DEF Using
      <4>3. b5.route[<<"tmp", f>>] = coa /\ b5.route[<<"mobile", f>>] = None
        BY <1>6, <4>1, <4>2, Tables DEF Between
      <4>4. b7.route[<<"tmp", f>>] = coa /\ b7.route[<<"mobile", f>>] = coa
        BY <1>7, <3>1, <4>3, Tables DEF RoutesAdded
      <4>. QED  BY <1>11, <3>1, <4>4 DEF TemporaryEnded
    <3>. QED  BY <3>2, <3>3 DEF StrictRoutes
  <2>3. StrictEncap(z, n)
    <3>1. b4.sa = a.sa /\ b4.pol = a.pol /\ b4.dstopt = a.dstopt
      BY <1>1, <1>2, <1>3, <1>4 DEF RuleAdded, RoutesAdded, RulesAdded, RuleOnly, RouteOnly
    <3>2. b5.sa = {} /\ b5.pol = None /\ b5.dstopt = None
      BY <1>6, <2>0, <3>1 DEF StrictEncap, Between, Uncapped
    <3>3. b7.sa = {} /\ b7.pol = None /\ b7.dstopt = coa
      BY <1>7, <1>8, <3>2 DEF RoutesAdded, RouteOnly, OptionOn
    <3>4. z.sa = {} /\ z.pol = None /\ z.dstopt = coa /\ z.said = coa
      BY <1>11, <1>12, <3>3 DEF TemporaryEnded, Told
    <3>. QED  BY <3>4 DEF StrictEncap, Using
  <2>. QED  BY <2>1, <2>2, <2>3
<1>. QED  BY <1>13, <1>15, <1>16 DEF Good

\* What BypassV4 does: at most one rule of each IPv4 address, one of coa.
Bypassed(a, b, e, coa) ==
  /\ b \in Kernel /\ RuleOnly(a, b)
  /\ e.coa4 # coa \/ a.rule[<<"main", coa>>] > 0 => b.rule[<<"main", coa>>] > 0
  /\ \A c \in CoaV4 : a.rule[<<"main", c>>] <= 1 => b.rule[<<"main", c>>] <= 1
  /\ \A t \in RuleTable, s \in Src :
       t # "main" \/ s \notin CoaV4 => b.rule[<<t, s>>] = a.rule[<<t, s>>]

LEMMA BlockBypass ==
  ASSUME NEW a \in Kernel, NEW e, Bound(e), NEW coa \in CoaV4
  PROVE  \E b : Run(a, BypassV4(e, coa), b, TRUE) /\ Bypassed(a, b, e, coa)
<1>1. CASE e.coa4 = coa
  <2>1. BypassV4(e, coa) = << >>
    BY <1>1 DEF BypassV4
  <2>. QED  BY <1>1, <2>1, RunEmpty DEF Bypassed, RuleOnly
<1>2. CASE e.coa4 # coa
  <2>. DEFINE x == e.coa4
  <2>1. /\ coa \in Src /\ coa \in SrcV4 /\ x \in Name
        /\ x \in Src => x \in CoaV4
    BY CoaNames, Apart DEF Bound
  <2>2. BypassV4(e, coa) = << <<"rule_add", "main", coa>> >> \o << <<"rule_del", "main", x>> >>
    BY <1>2 DEF BypassV4
  <2>3. x # coa
    BY <1>2
  <2>. HIDE DEF x
  <2>4. PICK b1 : /\ Run(a, << <<"rule_add", "main", coa>> >>, b1, TRUE)
                  /\ RuleAdded(a, b1, "main", coa)
    BY <2>1, Tables, CallRuleAdd
  <2>5. PICK b2 : /\ Run(b1, << <<"rule_del", "main", x>> >>, b2, TRUE)
                  /\ RuleDeleted(b1, b2, "main", x)
    BY <2>1, <2>4, RunTypes, Tables, CallRuleDel
  <2>6. Run(a, BypassV4(e, coa), b2, TRUE)
    BY <2>2, <2>4, <2>5, RunConcat
  <2>7. Bypassed(a, b2, e, coa)
    <3>1. /\ b1.rule[<<"main", coa>>] = 1
          /\ \A t \in RuleTable, s \in Src :
               t # "main" \/ s # coa => b1.rule[<<t, s>>] = a.rule[<<t, s>>]
      BY <2>1, <2>4 DEF RuleAdded
    <3>2. /\ x \in Src => b2.rule[<<"main", x>>] =
               IF b1.rule[<<"main", x>>] > 0 THEN b1.rule[<<"main", x>>] - 1 ELSE 0
          /\ \A t \in RuleTable, s \in Src :
               t # "main" \/ s # x => b2.rule[<<t, s>>] = b1.rule[<<t, s>>]
      BY <2>5 DEF RuleDeleted
    <3>3. b2 \in Kernel /\ RuleOnly(a, b2)
      BY <2>4, <2>5 DEF RuleAdded, RuleDeleted, RuleOnly
    <3>4. b2.rule[<<"main", coa>>] = 1
      BY <2>1, <2>3, <3>1, <3>2, Tables
    <3>5. ASSUME NEW c \in CoaV4, a.rule[<<"main", c>>] <= 1
          PROVE  b2.rule[<<"main", c>>] <= 1
      <4>1. c \in Src /\ b1.rule[<<"main", c>>] \in Nat
        BY <2>4, CoaNames, Tables, RulesAreNat DEF RuleAdded
      <4>2. b1.rule[<<"main", c>>] <= 1
        BY <3>1, <3>5, <4>1, Tables
      <4>. QED  BY <3>2, <4>1, <4>2, Tables
    <3>6. \A t \in RuleTable, s \in Src :
            t # "main" \/ s \notin CoaV4 => b2.rule[<<t, s>>] = a.rule[<<t, s>>]
      BY <2>1, <3>1, <3>2
    <3>. QED  BY <3>3, <3>4, <3>5, <3>6 DEF Bypassed
  <2>. QED  BY <2>6, <2>7
<1>. QED  BY <1>1, <1>2

\* What Encapsulate does.
Encapsulated(a, b, e, coa) ==
  /\ b \in Kernel /\ SameWay(a, b) /\ b.dstopt = a.dstopt /\ b.said = a.said
  /\ StrictEncap(a, e) => b.sa = {coa} /\ b.pol = coa

LEMMA BlockEncapsulate ==
  ASSUME NEW a \in Kernel, NEW e, Bound(e), NEW coa \in CoaV4
  PROVE  \E b : Run(a, Encapsulate(e, coa), b, TRUE) /\ Encapsulated(a, b, e, coa)
<1>. DEFINE first == IF e.type = "v4" THEN << <<"decap", e.coa4>> >> ELSE << >>
<1>1. PICK b1 : /\ Run(a, first, b1, TRUE) /\ SameWay(a, b1)
                /\ b1.dstopt = a.dstopt /\ b1.said = a.said
                /\ StrictEncap(a, e) => b1.sa = {} /\ b1.pol = None
  <2>1. CASE e.type = "v4"
    <3>1. e.coa4 \in Name
      BY <2>1, CoaNames DEF Bound
    <3>2. PICK b : Run(a, << <<"decap", e.coa4>> >>, b, TRUE) /\ Decapped(a, b, e.coa4)
      BY <3>1, CallDecap
    <3>3. StrictEncap(a, e) => b.sa = {} /\ b.pol = None
      BY <2>1, <3>2 DEF Decapped, StrictEncap
    <3>. QED  BY <2>1, <3>2, <3>3 DEF Decapped
  <2>2. CASE e.type # "v4"
    <3>1. StrictEncap(a, e) => a.sa = {} /\ a.pol = None
      BY <2>2 DEF StrictEncap
    <3>. QED  BY <2>2, <3>1, RunEmpty DEF SameWay
  <2>. QED  BY <2>1, <2>2
<1>2. PICK b2 : Run(b1, << <<"encap", coa>> >>, b2, TRUE) /\ Encapped(b1, b2, coa)
  BY <1>1, RunTypes, CallEncap
<1>3. Run(a, Encapsulate(e, coa), b2, TRUE)
  BY <1>1, <1>2, RunConcat DEF Encapsulate
<1>4. Encapsulated(a, b2, e, coa)
  BY <1>1, <1>2 DEF Encapsulated, Encapped, SameWay
<1>. QED  BY <1>3, <1>4

\* A move to IPv4 care-of address coa.
LEMMA MoveV4Run ==
  ASSUME NEW a \in Kernel, NEW e, Bound(e), NEW coa \in CoaV4, NEW i \in Ifindex, NEW strict,
         Good(a, e, strict), e.type = "v4" => e.coa4 # coa,
         NEW n, n.type = "v4", n.coa4 = coa, n.coa6 = e.coa6
  PROVE  \E z : Run(a, MoveV4(e, coa, i).todo, z, TRUE) /\ Good(z, n, strict)
<1>0. /\ coa \in Coa /\ coa \in Src /\ coa \in SrcV4 /\ coa # None
      /\ coa # "any4" /\ coa # "any6" /\ coa \notin CoaV6
      /\ "any4" \in Src /\ "any6" \in Src
      /\ "any4" \notin CoaV4 /\ "any6" \notin CoaV4
  BY Apart, CoaNames, AnyNames
<1>1. PICK b1 : Run(a, BypassV4(e, coa), b1, TRUE) /\ Bypassed(a, b1, e, coa)
  BY BlockBypass
<1>2. PICK b2 : Run(b1, RoutesAdd("tmp", coa), b2, TRUE) /\ RoutesAdded(b1, b2, "tmp", coa)
  BY <1>0, <1>1, Tables, RunTypes, BlockRoutesAdd
<1>3. PICK b3 : Run(b2, Encapsulate(e, coa), b3, TRUE) /\ Encapsulated(b2, b3, e, coa)
  BY <1>2, RunTypes, BlockEncapsulate
<1>4. PICK b4 : Run(b3, RulesAdd("tmp"), b4, TRUE) /\ RulesAdded(b3, b4, "tmp")
  BY <1>3, Tables, RunTypes, BlockRulesAdd
<1>5. b4 \in Kernel /\ Covered(b4, "tmp")
  <2>1. \A f \in Family : b4.route[<<"tmp", f>>] # None
    BY <1>0, <1>2, <1>3, <1>4, Tables
       DEF RoutesAdded, Encapsulated, SameWay, RulesAdded, RuleOnly
  <2>2. b4.rule[<<"tmp", "any4">>] > 0 /\ b4.rule[<<"tmp", "any6">>] > 0
    <3>1. b3.rule[<<"tmp", "any6">>] \in Nat
      BY <1>0, <1>3, Tables, RulesAreNat DEF Encapsulated
    <3>. QED  BY <1>4, <3>1 DEF RulesAdded
  <2>3. \A f \in Family : AnySrc[f] \in {"any4", "any6"}
    BY AnySrcIs DEF Family
  <2>. QED  BY <1>4, <2>1, <2>2, <2>3 DEF Covered, RulesAdded
<1>6. PICK b5 : /\ Run(b4, MidV4(e), b5, TRUE)
                /\ Between(b4, b5, e) /\ EncapKept(b4, b5)
  BY <1>5, BlockMidV4
<1>7. PICK b6 : Run(b5, RoutesAdd("mobile", coa), b6, TRUE) /\ RoutesAdded(b5, b6, "mobile", coa)
  BY <1>0, <1>6, Tables, RunTypes, BlockRoutesAdd
\* The rules as they were when the mobile table has its routes again.
<1>8. /\ b6.rule[<<"main", coa>>] = b1.rule[<<"main", coa>>]
      /\ b6.rule[<<"tmp", "any4">>] = 1
      /\ b6.rule[<<"tmp", "any6">>] = b1.rule[<<"tmp", "any6">>] + 1
      /\ e.type = "v6" => b6.rule[<<"main", e.coa6>>] =
           IF b1.rule[<<"main", e.coa6>>] > 0 THEN b1.rule[<<"main", e.coa6>>] - 1 ELSE 0
      /\ \A s \in Src : b1.rule[<<"250", s>>] = 0 => b6.rule[<<"250", s>>] = 0
      /\ \A t \in RuleTable, s \in Src :
           /\ t # "250"
           /\ t # "main" \/ e.type # "v6" \/ s # e.coa6
           /\ t # "tmp" \/ s \notin {"any4", "any6"}
           => b6.rule[<<t, s>>] = b1.rule[<<t, s>>]
  <2>1. b2.rule = b1.rule /\ b3.rule = b2.rule /\ b6.rule = b5.rule
    BY <1>2, <1>3, <1>7 DEF RoutesAdded, RouteOnly, Encapsulated, SameWay
  <2>3. /\ b4.rule[<<"tmp", "any4">>] = 1
        /\ b4.rule[<<"tmp", "any6">>] = b1.rule[<<"tmp", "any6">>] + 1
        /\ \A t \in RuleTable, s \in Src :
             t # "tmp" \/ s \notin {"any4", "any6"} => b4.rule[<<t, s>>] = b1.rule[<<t, s>>]
    BY <1>4, <2>1 DEF RulesAdded
  <2>4. e.type = "v6" => e.coa6 \in Src /\ e.coa6 \notin {"any4", "any6", coa}
    BY Apart, CoaNames DEF Bound
  <2>5. /\ \A t \in RuleTable, s \in Src :
             /\ t # "250" /\ (t # "main" \/ e.type # "v6" \/ s # e.coa6)
             => b6.rule[<<t, s>>] = b4.rule[<<t, s>>]
        /\ e.type = "v6" => b6.rule[<<"main", e.coa6>>] =
             IF b4.rule[<<"main", e.coa6>>] > 0 THEN b4.rule[<<"main", e.coa6>>] - 1 ELSE 0
        /\ \A s \in Src : b4.rule[<<"250", s>>] = 0 => b6.rule[<<"250", s>>] = 0
    BY <1>6, <2>1 DEF Between
  <2>6. /\ b6.rule[<<"tmp", "any4">>] = 1
        /\ b6.rule[<<"tmp", "any6">>] = b1.rule[<<"tmp", "any6">>] + 1
        /\ b6.rule[<<"main", coa>>] = b1.rule[<<"main", coa>>]
    BY <1>0, <2>3, <2>4, <2>5, Tables
  <2>7. \A s \in Src : b4.rule[<<"250", s>>] = b1.rule[<<"250", s>>]
    BY <2>3, Tables
  <2>. QED  BY <2>3, <2>4, <2>5, <2>6, <2>7, Tables
<1>9. Covered(b6, "mobile")
  <2>1. \A s \in {"any4", "any6"} : b6.rule[<<"mobile", s>>] = b1.rule[<<"mobile", s>>]
    BY <1>0, <1>8, Tables
  <2>2. \A s \in {"any4", "any6"} : b1.rule[<<"mobile", s>>] = a.rule[<<"mobile", s>>]
    BY <1>0, <1>1, Tables DEF Bypassed
  <2>3. b5.rule = b6.rule
    BY <1>7 DEF RoutesAdded, RouteOnly
  <2>4. b5.rule[<<"mobile", "any4">>] > 0 /\ b5.rule[<<"mobile", "any6">>] > 0
    BY <2>1, <2>2, <2>3 DEF Good, WeakRules
  <2>. QED  BY <1>0, <1>7, <2>4, Tables, NowCovered
<1>10. PICK b7 : Run(b6, EndTemporary(coa), b7, TRUE) /\ TemporaryEnded(b6, b7, coa)
  BY <1>0, <1>7, <1>9, RunTypes, BlockEndTemporary
<1>11. Run(b7, << <<"probe", i, coa>> >>, b7, TRUE)
  BY <1>10, RunTypes, CallProbe
<1>12. PICK z : Run(b7, << <<"bu", coa>> >>, z, TRUE) /\ Told(b7, z, coa)
  BY <1>0, <1>10, RunTypes, CallBu
<1>13. Run(a, MoveV4(e, coa, i).todo, z, TRUE)
  <2>. DEFINE one   == BypassV4(e, coa) \o RoutesAdd("tmp", coa)
              two   == one \o Encapsulate(e, coa)
              three == two \o RulesAdd("tmp")
              four  == three \o MidV4(e)
              five  == four \o RoutesAdd("mobile", coa)
              six   == five \o EndTemporary(coa)
              last  == << <<"probe", i, coa>> >> \o << <<"bu", coa>> >>
  <2>1. Announce(i, coa) = last
    BY DEF Announce
  <2>2. MoveV4(e, coa, i).todo = six \o last
    BY <2>1 DEF MoveV4, Result, MidV4
  <2>3. Run(a, one, b2, TRUE)
    BY <1>1, <1>2, RunConcat
  <2>. HIDE DEF one
  <2>4. Run(a, two, b3, TRUE)
    BY <1>3, <2>3, RunConcat
  <2>. HIDE DEF two
  <2>5. Run(a, three, b4, TRUE)
    BY <1>4, <2>4, RunConcat
  <2>. HIDE DEF three
  <2>6. Run(a, four, b5, TRUE)
    BY <1>6, <2>5, RunConcat
  <2>. HIDE DEF four
  <2>7. Run(a, five, b6, TRUE)
    BY <1>7, <2>6, RunConcat
  <2>. HIDE DEF five
  <2>8. Run(a, six, b7, TRUE)
    BY <1>10, <2>7, RunConcat
  <2>9. Run(b7, last, z, TRUE)
    BY <1>11, <1>12, RunConcat
  <2>. HIDE DEF six, last
  <2>. QED  BY <2>2, <2>8, <2>9, RunConcat
\* The rules when the temporary table is out of use.
<1>14. /\ z.rule[<<"main", coa>>] = b1.rule[<<"main", coa>>]
       /\ z.rule[<<"tmp", "any4">>] = 0
       /\ z.rule[<<"tmp", "any6">>] = b1.rule[<<"tmp", "any6">>]
       /\ e.type = "v6" => z.rule[<<"main", e.coa6>>] =
            IF b1.rule[<<"main", e.coa6>>] > 0 THEN b1.rule[<<"main", e.coa6>>] - 1 ELSE 0
       /\ \A s \in Src : b1.rule[<<"250", s>>] = 0 => z.rule[<<"250", s>>] = 0
       /\ \A t \in RuleTable, s \in Src :
            /\ t # "250"
            /\ t # "main" \/ e.type # "v6" \/ s # e.coa6
            /\ t # "tmp" \/ s \notin {"any4", "any6"}
            => z.rule[<<t, s>>] = b1.rule[<<t, s>>]
  <2>1. z.rule = b7.rule
    BY <1>12 DEF Told, SameWay
  <2>2. b1.rule[<<"tmp", "any6">>] \in Nat
    BY <1>0, <1>1, Tables, RulesAreNat DEF Bypassed
  <2>3. e.type = "v6" => e.coa6 \in Src
    BY CoaNames DEF Bound
  <2>. QED  BY <1>0, <1>8, <1>10, <2>1, <2>2, <2>3, Tables DEF TemporaryEnded
<1>15. WeakRules(z.rule, n)
  <2>1. z.rule[<<"main", n.coa4>>] > 0
    BY <1>1, <1>14 DEF Bypassed, Good, WeakRules
  <2>2. /\ z.rule[<<"mobile", "any4">>] = a.rule[<<"mobile", "any4">>]
        /\ z.rule[<<"mobile", "any6">>] = a.rule[<<"mobile", "any6">>]
    BY <1>0, <1>1, <1>14, Tables DEF Bypassed
  <2>. QED  BY <2>1, <2>2 DEF Good, WeakRules
<1>16. ASSUME strict
       PROVE  StrictRules(z.rule, n) /\ StrictRoutes(z.route, n) /\ StrictEncap(z, n)
  <2>. USE <1>16
  <2>0. StrictRules(a.rule, e) /\ StrictRoutes(a.route, e) /\ StrictEncap(a, e)
    BY DEF Good
  <2>1. StrictRules(z.rule, n)
    <3>0. \A t \in RuleTable, s \in Src :
            t # "main" \/ s \notin CoaV4 => b1.rule[<<t, s>>] = a.rule[<<t, s>>]
      BY <1>1 DEF Bypassed
    <3>1. z.rule[<<"mobile", "any4">>] = 1 /\ z.rule[<<"mobile", "any6">>] = 1
      BY <1>0, <1>14, <2>0, <3>0, Tables DEF StrictRules
    <3>2. ASSUME NEW c \in CoaV6
          PROVE  z.rule[<<"main", c>>] = 0
      <4>1. c \in Src /\ c \notin {"any4", "any6"} /\ c \notin CoaV4
        BY Apart, CoaNames
      <4>2. b1.rule[<<"main", c>>] = IF e.type = "v6" /\ c = e.coa6 THEN 1 ELSE 0
        BY <2>0, <3>0, <4>1, Tables DEF StrictRules
      <4>. QED  BY <1>14, <4>1, <4>2, Tables
    <3>3. ASSUME NEW c \in CoaV4
          PROVE  z.rule[<<"main", c>>] <= 1
      <4>1. c \in Src /\ (e.type = "v6" => c # e.coa6)
        BY Apart, CoaNames DEF Bound
      <4>2. b1.rule[<<"main", c>>] <= 1
        BY <1>1, <2>0 DEF StrictRules, Bypassed
      <4>. QED  BY <1>14, <4>1, <4>2, Tables
    <3>4. ASSUME NEW t \in RuleTable, NEW s \in Src,
                 t # "main" \/ s \in {"any4", "any6"},
                 t # "mobile" \/ s \notin {"any4", "any6"}
          PROVE  z.rule[<<t, s>>] = 0
      <4>1. b1.rule[<<t, s>>] = 0
        BY <1>0, <2>0, <3>0, <3>4 DEF StrictRules
      <4>2. e.type = "v6" => e.coa6 \notin {"any4", "any6"}
        BY Apart, CoaNames DEF Bound
      <4>3. CASE t = "250"
        BY <1>14, <4>1, <4>3
      <4>4. CASE t = "tmp" /\ s \in {"any4", "any6"}
        BY <1>14, <4>1, <4>4
      <4>5. CASE t # "250" /\ ~(t = "tmp" /\ s \in {"any4", "any6"})
        BY <1>14, <3>4, <4>1, <4>2, <4>5
      <4>. QED  BY <4>3, <4>4, <4>5
    <3>. QED  BY <3>1, <3>2, <3>3, <3>4 DEF StrictRules
  <2>2. StrictRoutes(z.route, n)
    <3>1. b1.route = a.route /\ b4.route = b2.route /\ z.route = b7.route
      BY <1>1, <1>3, <1>4, <1>12 DEF Bypassed, Encapsulated, SameWay, RulesAdded, RuleOnly, Told
    <3>2. Using(n) = coa
      BY DEF Using
    <3>3. ASSUME NEW f \in Family
          PROVE  z.route[<<"tmp", f>>] = None /\ z.route[<<"mobile", f>>] = coa
      <4>1. b4.route[<<"tmp", f>>] = coa /\ b4.route[<<"mobile", f>>] = Using(e)
        BY <1>2, <2>0, <3>1, Tables DEF RoutesAdded, StrictRoutes
      <4>2. e.type = "home" => Using(e) = None
        BY DEF Using
      <4>3. b5.route[<<"tmp", f>>] = coa /\ b5.route[<<"mobile", f>>] = None
        BY <1>6, <4>1, <4>2, Tables DEF Between
      <4>4. b6.route[<<"tmp", f>>] = coa /\ b6.route[<<"mobile", f>>] = coa
        BY <1>7, <4>3, Tables DEF RoutesAdded
      <4>. QED  BY <1>10, <3>1, <4>4 DEF TemporaryEnded
    <3>. QED  BY <3>2, <3>3 DEF StrictRoutes
  <2>3. StrictEncap(z, n)
    <3>1. StrictEncap(b2, e)
      <4>1. /\ b2.sa = a.sa /\ b2.pol = a.pol /\ b2.dstopt = a.dstopt /\ b2.said = a.said
        BY <1>1, <1>2 DEF Bypassed, RoutesAdded, RuleOnly, RouteOnly
      <4>. QED  BY <2>0, <4>1 DEF StrictEncap
    <3>2. b4.sa = {coa} /\ b4.pol = coa /\ b4.dstopt = b2.dstopt
      BY <1>3, <1>4, <3>1 DEF Encapsulated, RulesAdded, RuleOnly
    <3>3. b5.sa = {coa} /\ b5.pol = coa /\ b5.dstopt = None
      BY <1>6, <3>1, <3>2 DEF StrictEncap, Between, EncapKept
    <3>4. z.sa = {coa} /\ z.pol = coa /\ z.dstopt = None /\ z.said = coa
      BY <1>7, <1>10, <1>12, <3>3 DEF RoutesAdded, RouteOnly, TemporaryEnded, Told
    <3>. QED  BY <3>4 DEF StrictEncap, Using
  <2>. QED  BY <2>1, <2>2, <2>3
<1>. QED  BY <1>13, <1>15, <1>16 DEF Good

\* A move home.
LEMMA MoveHomeRun ==
  ASSUME NEW a \in Kernel, NEW e, Bound(e), NEW i, NEW strict, Good(a, e, strict),
         NEW n, n.type = "home", n.coa4 = HoaV4
  PROVE  \E z : Run(a, MoveHome(e, i).todo, z, FALSE) /\ Good(z, n, strict)
<1>1. PICK b : /\ Run(a, MidHome(e), b, FALSE)
               /\ Between(a, b, e) /\ Uncapped(a, b, e)
  BY BlockMidHome
<1>2. PICK z : Run(b, << <<"bu", HoaV6>> >>, z, FALSE) /\ Told(b, z, HoaV6)
  BY <1>1, RunTypes, CallBu
<1>3. Run(a, MoveHome(e, i).todo, z, FALSE)
  <2>1. MoveHome(e, i).todo = MidHome(e) \o << <<"bu", HoaV6>> >>
    BY DEF MoveHome, MidHome, Result
  <2>. QED  BY <1>1, <1>2, <2>1, RunConcat
<1>4. /\ z.rule = b.rule /\ z.route = b.route /\ z.said = HoaV6
      /\ z.sa = b.sa /\ z.pol = b.pol /\ z.dstopt = b.dstopt
      /\ HoaV4 \notin CoaV4 /\ "any4" \in Src /\ "any6" \in Src
      /\ e.type = "v6" => e.coa6 \in Src /\ e.coa6 \notin {"any4", "any6"}
  BY <1>2, Apart, CoaNames, AnyNames DEF Told, SameWay, Bound
<1>5. WeakRules(z.rule, n)
  BY <1>1, <1>4, Tables DEF Between, Good, WeakRules
<1>6. ASSUME strict
      PROVE  StrictRules(z.rule, n) /\ StrictRoutes(z.route, n) /\ StrictEncap(z, n)
  <2>. USE <1>6
  <2>0. StrictRules(a.rule, e) /\ StrictRoutes(a.route, e) /\ StrictEncap(a, e)
    BY DEF Good
  <2>1. StrictRules(z.rule, n)
    <3>1. z.rule[<<"mobile", "any4">>] = 1 /\ z.rule[<<"mobile", "any6">>] = 1
      BY <1>1, <1>4, <2>0, Tables DEF StrictRules, Between
    <3>2. ASSUME NEW c \in CoaV6
          PROVE  z.rule[<<"main", c>>] = 0
      <4>1. c \in Src
        BY CoaNames
      <4>2. a.rule[<<"main", c>>] = IF e.type = "v6" /\ c = e.coa6 THEN 1 ELSE 0
        BY <2>0 DEF StrictRules
      <4>. QED  BY <1>1, <1>4, <4>1, <4>2, Tables DEF Between
    <3>3. ASSUME NEW c \in CoaV4
          PROVE  z.rule[<<"main", c>>] <= 1
      <4>1. c \in Src /\ (e.type = "v6" => c # e.coa6)
        BY Apart, CoaNames DEF Bound
      <4>2. a.rule[<<"main", c>>] <= 1
        BY <2>0 DEF StrictRules
      <4>. QED  BY <1>1, <1>4, <4>1, <4>2, Tables DEF Between
    <3>4. ASSUME NEW t \in RuleTable, NEW s \in Src,
                 t # "main" \/ s \in {"any4", "any6"},
                 t # "mobile" \/ s \notin {"any4", "any6"}
          PROVE  z.rule[<<t, s>>] = 0
      <4>1. a.rule[<<t, s>>] = 0
        BY <2>0, <3>4 DEF StrictRules
      <4>3. CASE t = "250"
        BY <1>1, <1>4, <4>1, <4>3 DEF Between
      <4>4. CASE t # "250"
        BY <1>1, <1>4, <3>4, <4>1, <4>4 DEF Between
      <4>. QED  BY <4>3, <4>4
    <3>. QED  BY <3>1, <3>2, <3>3, <3>4 DEF StrictRules
  <2>2. StrictRoutes(z.route, n)
    <3>1. Using(n) = None /\ (e.type = "home" => Using(e) = None)
      BY DEF Using
    <3>2. ASSUME NEW f \in Family
          PROVE  z.route[<<"tmp", f>>] = None /\ z.route[<<"mobile", f>>] = None
      <4>1. a.route[<<"tmp", f>>] = None /\ a.route[<<"mobile", f>>] = Using(e)
        BY <2>0 DEF StrictRoutes
      <4>. QED  BY <1>1, <1>4, <3>1, <4>1, Tables DEF Between
    <3>. QED  BY <3>1, <3>2 DEF StrictRoutes
  <2>3. StrictEncap(z, n)
    BY <1>1, <1>4, <2>0 DEF StrictEncap, Between, Uncapped
  <2>. QED  BY <2>1, <2>2, <2>3
<1>. QED  BY <1>3, <1>5, <1>6 DEF Good

\* What ExitClean asks of the kernel once the calls of mn_cleanup are made.
Clean(z, e) ==
  /\ \A x \in RouteTable \X Family : z.route[x] = None
  /\ z.sa = {} /\ z.pol = None /\ z.dstopt = None
  /\ \A x \in RuleTable \X Src :
       z.rule[x] > 0 => x[1] = "main" /\ x[2] \in CoaV4 \ {e.coa4}

\* No rule of b that a does not have.
Fewer(a, b) == \A t \in RuleTable, s \in Src : b.rule[<<t, s>>] <= a.rule[<<t, s>>]

LEMMA FewerTwice ==
  ASSUME NEW a \in Kernel, NEW b \in Kernel, NEW c \in Kernel, Fewer(a, b), Fewer(b, c)
  PROVE  Fewer(a, c)
<1>. SUFFICES ASSUME NEW t \in RuleTable, NEW s \in Src
              PROVE  c.rule[<<t, s>>] <= a.rule[<<t, s>>]
  BY DEF Fewer
<1>1. /\ a.rule[<<t, s>>] \in Nat /\ b.rule[<<t, s>>] \in Nat /\ c.rule[<<t, s>>] \in Nat
  BY RulesAreNat
<1>2. b.rule[<<t, s>>] <= a.rule[<<t, s>>] /\ c.rule[<<t, s>>] <= b.rule[<<t, s>>]
  BY DEF Fewer
<1>. QED  BY <1>1, <1>2

LEMMA DeletedIsFewer ==
  ASSUME NEW a \in Kernel, NEW b, NEW t \in RuleTable, NEW s, RuleDeleted(a, b, t, s)
  PROVE  Fewer(a, b)
<1>. SUFFICES ASSUME NEW u \in RuleTable, NEW v \in Src
              PROVE  b.rule[<<u, v>>] <= a.rule[<<u, v>>]
  BY DEF Fewer
<1>1. a.rule[<<u, v>>] \in Nat
  BY RulesAreNat
<1>2. CASE u = t /\ v = s
  BY <1>1, <1>2 DEF RuleDeleted
<1>3. CASE ~(u = t /\ v = s)
  <2>1. <<u, v>> # <<t, s>> /\ <<u, v>> \in RuleTable \X Src
    BY <1>3
  <2>2. b.rule[<<u, v>>] = a.rule[<<u, v>>]
    BY <2>1 DEF RuleDeleted
  <2>. QED  BY <1>1, <2>2
<1>. QED  BY <1>2, <1>3

LEMMA SameRulesIsFewer ==
  ASSUME NEW a \in Kernel, NEW b, b.rule = a.rule
  PROVE  Fewer(a, b)
<1>. SUFFICES ASSUME NEW t \in RuleTable, NEW s \in Src
              PROVE  b.rule[<<t, s>>] <= a.rule[<<t, s>>]
  BY DEF Fewer
<1>1. a.rule[<<t, s>>] \in Nat
  BY RulesAreNat
<1>. QED  BY <1>1

\* The binding's part of mn_cleanup.
CleanupMid(e) == CASE e.type = "v6" -> LeaveV6(e)
                   [] e.type = "v4" -> RoutesDel("mobile", e.coa4)
                   [] OTHER -> << >>

LEMMA BlockCleanupMid ==
  ASSUME NEW a \in Kernel, NEW e, Bound(e)
  PROVE  \E b : /\ Run(a, CleanupMid(e), b, FALSE) /\ b \in Kernel /\ Fewer(a, b)
                /\ EncapKept(a, b) /\ b.dstopt = IF e.type = "v6" THEN None ELSE a.dstopt
<1>1. CASE e.type = "v6"
  <2>1. e.coa6 \in CoaV6 /\ CleanupMid(e) = LeaveV6(e)
    BY <1>1 DEF Bound, CleanupMid
  <2>2. PICK b : Run(a, LeaveV6(e), b, FALSE) /\ Left(a, b, e.coa6)
    BY <2>1, BlockLeaveV6
  <2>3. Fewer(a, b)
    <3>. SUFFICES ASSUME NEW u \in RuleTable, NEW v \in Src
                  PROVE  b.rule[<<u, v>>] <= a.rule[<<u, v>>]
      BY DEF Fewer
    <3>1. a.rule[<<u, v>>] \in Nat
      BY RulesAreNat
    <3>2. <<u, v>> # <<"main", e.coa6>> => b.rule[<<u, v>>] = a.rule[<<u, v>>]
      BY <2>2 DEF Left
    <3>. QED  BY <2>2, <3>1, <3>2 DEF Left
  <2>. QED  BY <1>1, <2>1, <2>2, <2>3 DEF Left, EncapKept
<1>2. CASE e.type = "v4"
  <2>1. e.coa4 \in Name /\ CleanupMid(e) = RoutesDel("mobile", e.coa4)
    BY <1>2, CoaNames DEF Bound, CleanupMid
  <2>2. PICK b : Run(a, RoutesDel("mobile", e.coa4), b, FALSE)
                   /\ RoutesDeleted(a, b, "mobile", e.coa4)
    BY <2>1, Tables, BlockRoutesDel
  <2>3. Fewer(a, b)
    BY <2>2, SameRulesIsFewer DEF RoutesDeleted, RouteOnly
  <2>. QED  BY <1>2, <2>1, <2>2, <2>3 DEF RoutesDeleted, RouteOnly, EncapKept
<1>3. CASE e.type = "home"
  <2>1. CleanupMid(e) = << >> /\ Fewer(a, a)
    BY <1>3, SameRulesIsFewer DEF CleanupMid
  <2>. QED  BY <1>3, <2>1, RunEmpty DEF EncapKept
<1>. QED  BY <1>1, <1>2, <1>3 DEF Bound

LEMMA TwoCalls ==
  ASSUME NEW x, NEW y
  PROVE  <<x>> \o <<y>> = <<x, y>>
<1>. DEFINE S == {x, y}
            c == <<x>> \o <<y>>
<1>1. <<x>> \in Seq(S) /\ <<y>> \in Seq(S) /\ Len(<<x>>) = 1 /\ Len(<<y>>) = 1
      /\ <<x>>[1] = x /\ <<y>>[1] = y
  OBVIOUS
<1>2. c \in Seq(S) /\ Len(c) = 2 /\ c[1] = x /\ c[2] = y
  BY <1>1, ConcatProperties
<1>. HIDE DEF c
<1>3. c = <<x, y>>
  BY <1>2
<1>. QED  BY <1>3 DEF c

\* mn_cleanup.
LEMMA CleanupRun ==
  ASSUME NEW a \in Kernel, NEW e, Bound(e), NEW strict, Good(a, e, strict)
  PROVE  \E z : Run(a, Cleanup(e), z, FALSE) /\ (strict => Clean(z, e))
<1>. DEFINE last == IF e.type = "v4" THEN << <<"decap", e.coa4>> >> ELSE << >>
<1>0. /\ e.coa4 \in Name /\ e.coa6 \in Name
      /\ e.coa4 \in Src <=> e.coa4 \in CoaV4
      /\ e.coa6 \in Src <=> e.coa6 \in CoaV6
      /\ "any4" \in Src /\ "any6" \in Src
  BY Apart, CoaNames, AnyNames DEF Bound
<1>1. PICK b1 : /\ Run(a, << <<"rule_del", "main", e.coa4>> >>, b1, FALSE)
                /\ RuleDeleted(a, b1, "main", e.coa4)
  BY <1>0, Tables, CallRuleDel
<1>2. PICK b2 : /\ Run(b1, << <<"rule_del", "main", e.coa6>> >>, b2, FALSE)
                /\ RuleDeleted(b1, b2, "main", e.coa6)
  BY <1>0, <1>1, Tables, RunTypes, CallRuleDel
<1>3. PICK b3 : /\ Run(b2, CleanupMid(e), b3, FALSE) /\ b3 \in Kernel /\ Fewer(b2, b3)
                /\ EncapKept(b2, b3)
                /\ b3.dstopt = IF e.type = "v6" THEN None ELSE b2.dstopt
  BY <1>2, RunTypes, BlockCleanupMid
<1>4. PICK b4 : Run(b3, << <<"tnl_cleanup">> >>, b4, FALSE) /\ Cleared(b3, b4)
  BY <1>3, CallTnlCleanup
<1>5. PICK b5 : Run(b4, RulesDel("mobile"), b5, FALSE) /\ RulesDeleted(b4, b5, "mobile")
  BY <1>4, Tables, RunTypes, BlockRulesDel
<1>6. PICK z : /\ Run(b5, last, z, FALSE) /\ SameWay(b5, z) /\ z.dstopt = b5.dstopt
               /\ e.type = "v4" => z.sa = b5.sa \ {e.coa4} /\ z.pol = None
               /\ e.type # "v4" => z.sa = b5.sa /\ z.pol = b5.pol
  <2>1. CASE e.type = "v4"
    <3>1. PICK b : Run(b5, << <<"decap", e.coa4>> >>, b, FALSE) /\ Decapped(b5, b, e.coa4)
      BY <1>0, <1>5, RunTypes, CallDecap
    <3>. QED  BY <2>1, <3>1 DEF Decapped
  <2>2. CASE e.type # "v4"
    BY <1>5, <2>2, RunTypes, RunEmpty DEF SameWay
  <2>. QED  BY <2>1, <2>2
<1>7. Run(a, Cleanup(e), z, FALSE)
  <2>. DEFINE one   == << <<"rule_del", "main", e.coa4>> >> \o << <<"rule_del", "main", e.coa6>> >>
              two   == one \o CleanupMid(e)
              three == two \o << <<"tnl_cleanup">> >>
              four  == three \o RulesDel("mobile")
  <2>1. Cleanup(e) = four \o last
    <3>1. one = << <<"rule_del", "main", e.coa4>>, <<"rule_del", "main", e.coa6>> >>
      BY TwoCalls
    <3>. HIDE DEF one
    <3>2. Cleanup(e) = one \o CleanupMid(e) \o << <<"tnl_cleanup">> >> \o RulesDel("mobile")
                         \o last
      BY <3>1, Zenon DEF Cleanup, CleanupMid
    <3>. QED  BY <3>2
  <2>2. Run(a, one, b2, FALSE)
    BY <1>1, <1>2, RunConcat
  <2>. HIDE DEF one, last
  <2>3. Run(a, two, b3, FALSE)
    BY <1>3, <2>2, RunConcat
  <2>. HIDE DEF two
  <2>4. Run(a, three, b4, FALSE)
    BY <1>4, <2>3, RunConcat
  <2>. HIDE DEF three
  <2>5. Run(a, four, b5, FALSE)
    BY <1>5, <2>4, RunConcat
  <2>. HIDE DEF four
  <2>6. Run(b5, last, z, FALSE)
    BY <1>6 DEF last
  <2>7. Run(a, four \o last, z, FALSE)
    BY <2>5, <2>6, RunConcat
  <2>. QED  BY <2>1, <2>7
<1>8. ASSUME strict
      PROVE  Clean(z, e)
  <2>0. StrictRules(a.rule, e) /\ StrictRoutes(a.route, e) /\ StrictEncap(a, e)
    BY <1>8 DEF Good
  <2>1. /\ b1 \in Kernel /\ b2 \in Kernel /\ b3 \in Kernel /\ b4 \in Kernel /\ b5 \in Kernel
        /\ z \in Kernel
    BY <1>1, <1>2, <1>3, <1>4, <1>5, <1>6, RunTypes
  <2>2. \A x \in RouteTable \X Family : z.route[x] = None
    BY <1>4, <1>5, <1>6 DEF Cleared, RulesDeleted, RuleOnly, SameWay
  <2>3. z.sa = {} /\ z.pol = None /\ z.dstopt = None
    <3>1. b2.sa = a.sa /\ b2.pol = a.pol /\ b2.dstopt = a.dstopt
      BY <1>1, <1>2 DEF RuleDeleted, RuleOnly
    <3>2. b5.sa = a.sa /\ b5.pol = a.pol /\ b5.dstopt = b3.dstopt
      BY <1>3, <1>4, <1>5, <3>1 DEF EncapKept, Cleared, RouteOnly, RulesDeleted, RuleOnly
    <3>3. b5.dstopt = None
      BY <1>3, <2>0, <3>1, <3>2 DEF StrictEncap
    <3>. QED  BY <1>6, <2>0, <3>2, <3>3 DEF StrictEncap
  <2>4. Fewer(a, b1) /\ Fewer(a, b2) /\ Fewer(b2, b4) /\ Fewer(a, b4)
    <3>1. Fewer(a, b1) /\ Fewer(b1, b2)
      BY <1>1, <1>2, <2>1, Tables, DeletedIsFewer
    <3>2. Fewer(b3, b4)
      BY <1>4, <2>1, SameRulesIsFewer DEF Cleared, RouteOnly
    <3>3. Fewer(a, b2) /\ Fewer(b2, b4)
      BY <1>3, <2>1, <3>1, <3>2, FewerTwice
    <3>. QED  BY <2>1, <3>1, <3>3, FewerTwice
  <2>5. ASSUME NEW t \in RuleTable, NEW s \in Src, z.rule[<<t, s>>] > 0
        PROVE  t = "main" /\ s \in CoaV4 \ {e.coa4}
    <3>1. /\ a.rule[<<t, s>>] \in Nat /\ b1.rule[<<t, s>>] \in Nat
          /\ b2.rule[<<t, s>>] \in Nat /\ b4.rule[<<t, s>>] \in Nat
      BY <2>1, RulesAreNat
    <3>2. /\ b1.rule[<<t, s>>] <= a.rule[<<t, s>>] /\ b2.rule[<<t, s>>] <= a.rule[<<t, s>>]
          /\ b4.rule[<<t, s>>] <= b2.rule[<<t, s>>] /\ b4.rule[<<t, s>>] <= a.rule[<<t, s>>]
      BY <2>4 DEF Fewer
    <3>3. z.rule[<<t, s>>] = b5.rule[<<t, s>>]
      BY <1>6 DEF SameWay
    <3>4. CASE t = "mobile" /\ s \in {"any4", "any6"}
      <4>1. a.rule[<<t, s>>] = 1
        BY <2>0, <3>4 DEF StrictRules
      <4>2. b5.rule[<<t, s>>] = IF b4.rule[<<t, s>>] > 0 THEN b4.rule[<<t, s>>] - 1 ELSE 0
        BY <1>5, <3>4 DEF RulesDeleted
      <4>. QED  BY <2>5, <3>1, <3>2, <3>3, <4>1, <4>2
    <3>5. CASE ~(t = "mobile" /\ s \in {"any4", "any6"})
      <4>1. z.rule[<<t, s>>] = b4.rule[<<t, s>>]
        BY <1>5, <3>3, <3>5 DEF RulesDeleted
      <4>2. a.rule[<<t, s>>] > 0 /\ b2.rule[<<t, s>>] > 0
        BY <2>5, <3>1, <3>2, <4>1
      <4>3. t = "main" /\ s \notin {"any4", "any6"}
        BY <2>0, <3>1, <3>5, <4>2 DEF StrictRules
      <4>4. s \in CoaV4 \union CoaV6
        BY <4>3 DEF Src, SrcV4
      <4>5. s \notin CoaV6
        <5>. SUFFICES ASSUME s \in CoaV6
                      PROVE  FALSE
          OBVIOUS
        <5>1. e.type = "v6" /\ s = e.coa6 /\ a.rule[<<t, s>>] = 1
          BY <2>0, <4>2, <4>3 DEF StrictRules
        <5>2. b1.rule[<<t, s>>] <= 1
          BY <3>1, <3>2, <5>1
        <5>3. b2.rule[<<t, s>>] =
                IF b1.rule[<<t, s>>] > 0 THEN b1.rule[<<t, s>>] - 1 ELSE 0
          BY <1>2, <4>3, <5>1 DEF RuleDeleted
        <5>. QED  BY <3>1, <4>2, <5>2, <5>3
      <4>6. s # e.coa4
        <5>. SUFFICES ASSUME s = e.coa4
                      PROVE  FALSE
          OBVIOUS
        <5>1. a.rule[<<t, s>>] <= 1
          BY <2>0, <4>3, <4>4, <4>5 DEF StrictRules
        <5>2. b1.rule[<<t, s>>] =
                IF a.rule[<<t, s>>] > 0 THEN a.rule[<<t, s>>] - 1 ELSE 0
          BY <1>1, <4>3 DEF RuleDeleted
        <5>3. b1.rule[<<t, s>>] = 0
          BY <3>1, <5>1, <5>2
        <5>4. Fewer(b1, b2)
          BY <1>2, <2>1, Tables, DeletedIsFewer
        <5>. QED  BY <3>1, <4>2, <5>3, <5>4 DEF Fewer
      <4>. QED  BY <4>3, <4>4, <4>5, <4>6
    <3>. QED  BY <3>4, <3>5
  <2>. QED  BY <2>2, <2>3, <2>5 DEF Clean
<1>. QED  BY <1>7, <1>8

-------------------------------------------------------------------------------
(* The decisions of the daemon. *)

\* A slot in use that claims a valid address has one.
SlotSound(x) ==
  /\ x \in Iface
  /\ x.ifindex # 0 => (x.ok6 => x.coa6 # None) /\ (x.ok4 => x.coa4 # None)

Sound(e) ==
  /\ e \in Daemon
  /\ e.type = "v6" => e.coa6 \in CoaV6
  /\ e.type = "v4" => e.coa4 \in CoaV4
  /\ \A s \in Slots : SlotSound(e.ifaces[s])

\* A handler's decision r, taken with kernel a: a sound state, and calls that
\* lead to a kernel that agrees with it.
Outcome(a, r, strict) ==
  /\ r = Result(r.d, r.todo) /\ Sound(r.d)
  /\ \E z : Run(a, r.todo, z, r.d.type # "home") /\ Good(z, r.d, strict)

LEMMA SoundIsBound ==
  ASSUME NEW e, Sound(e)
  PROVE  Bound(e)
BY DEF Sound, Bound, Daemon

\* The binding is all that Good looks at.
SameBinding(e, n) == n.type = e.type /\ n.coa6 = e.coa6 /\ n.coa4 = e.coa4

LEMMA GoodSame ==
  ASSUME NEW z, NEW e, NEW n, NEW strict, SameBinding(e, n), Good(z, e, strict)
  PROVE  Good(z, n, strict)
<1>1. Using(n) = Using(e)
  BY DEF SameBinding, Using
<1>. QED  BY <1>1
     DEF SameBinding, Good, WeakRules, StrictRules, StrictRoutes, StrictEncap

LEMMA OutcomeNothing ==
  ASSUME NEW a \in Kernel, NEW e, NEW n, NEW strict,
         Good(a, e, strict), Sound(n), SameBinding(e, n)
  PROVE  Outcome(a, Result(n, << >>), strict)
<1>1. /\ Result(n, << >>).d = n /\ Result(n, << >>).todo = << >>
      /\ Result(n, << >>) = Result(Result(n, << >>).d, Result(n, << >>).todo)
  BY DEF Result
<1>2. Run(a, << >>, a, n.type # "home") /\ Good(a, n, strict)
  BY RunEmpty, GoodSame
<1>. QED  BY <1>1, <1>2 DEF Outcome

\* A later change of the table of interfaces is none of the kernel's business.
LEMMA OutcomeSame ==
  ASSUME NEW a, NEW r, NEW q, NEW strict, Outcome(a, r, strict),
         q = Result(q.d, r.todo), Sound(q.d), SameBinding(r.d, q.d)
  PROVE  Outcome(a, q, strict)
<1>1. PICK z : Run(a, r.todo, z, r.d.type # "home") /\ Good(z, r.d, strict)
  BY DEF Outcome
<1>2. Good(z, q.d, strict) /\ q.d.type = r.d.type
  BY <1>1, GoodSame DEF SameBinding
<1>3. q.todo = r.todo /\ q = Result(q.d, q.todo)
  BY DEF Result
<1>. QED  BY <1>1, <1>2, <1>3 DEF Outcome

\* The least of the slots.
LEMMA MinSlot ==
  ASSUME NEW S \in SUBSET Nat, S # {}
  PROVE  Min(S) \in S /\ \A s \in S : Min(S) <= s
<1>1. PICK m \in S : \A s \in S : <<s, m>> \notin OpToRel(<, Nat)
  BY NatLessThanWellFounded, WFMin
<1>2. \A s \in S : m <= s
  <2>. SUFFICES ASSUME NEW s \in S, ~(m <= s)
                PROVE  FALSE
    OBVIOUS
  <2>1. s < m /\ s \in Nat /\ m \in Nat
    OBVIOUS
  <2>2. <<s, m>> \in OpToRel(<, Nat)
    BY <2>1 DEF OpToRel
  <2>. QED  BY <1>1, <2>2
<1>. QED  BY <1>2 DEF Min

LEMMA SlotFound ==
  ASSUME NEW e, NEW i, SlotOf(e, i) # NIF
  PROVE  SlotOf(e, i) \in Slots /\ e.ifaces[SlotOf(e, i)].ifindex = i
<1>. DEFINE at == {s \in Slots : e.ifaces[s].ifindex = i}
<1>1. at # {} /\ SlotOf(e, i) = Min(at)
  BY DEF SlotOf
<1>2. at \in SUBSET Nat
  BY NodeAssumption DEF Slots
<1>3. Min(at) \in at
  BY <1>1, <1>2, MinSlot
<1>. QED  BY <1>1, <1>3

LEMMA SlotPresent ==
  ASSUME NEW e, NEW s \in Slots
  PROVE  SlotOf(e, e.ifaces[s].ifindex) # NIF
<1>. DEFINE i  == e.ifaces[s].ifindex
            at == {t \in Slots : e.ifaces[t].ifindex = i}
<1>1. s \in at
  OBVIOUS
<1>2. at \in SUBSET Nat /\ NIF \notin at
  BY NodeAssumption DEF Slots
<1>. HIDE DEF at
<1>3. Min(at) \in at
  BY <1>1, <1>2, MinSlot
<1>4. SlotOf(e, i) = IF at = {} THEN NIF ELSE Min(at)
  BY DEF SlotOf, at
<1>. QED  BY <1>1, <1>2, <1>3, <1>4

\* Assignments to the daemon's state that leave it sound.
LEMMA SoundSlot ==
  ASSUME NEW e, Sound(e), NEW s \in Slots, NEW x, SlotSound(x)
  PROVE  LET n == [e EXCEPT !.ifaces[s] = x]
         IN  /\ Sound(n) /\ SameBinding(e, n)
             /\ n.preferred = e.preferred /\ n.current = e.current /\ n.auto = e.auto
             /\ n.ifaces = [e.ifaces EXCEPT ![s] = x]
<1>. DEFINE n == [e EXCEPT !.ifaces[s] = x]
<1>. HIDE DEF SlotSound
<1>0. e \in Daemon /\ x \in Iface /\ e.ifaces \in [Slots -> Iface]
  BY DEF Sound, SlotSound, Daemon
<1>1. [e.ifaces EXCEPT ![s] = x] \in [Slots -> Iface]
  BY <1>0
<1>2. n = [e EXCEPT !.ifaces = [e.ifaces EXCEPT ![s] = x]]
  OBVIOUS
<1>. HIDE DEF Iface
<1>3. /\ n \in Daemon /\ SameBinding(e, n)
      /\ n.preferred = e.preferred /\ n.current = e.current /\ n.auto = e.auto
      /\ n.ifaces = [e.ifaces EXCEPT ![s] = x]
  BY <1>0, <1>1, <1>2 DEF Daemon, SameBinding
<1>4. \A t \in Slots : SlotSound(n.ifaces[t])
  BY <1>0, <1>3 DEF Sound
<1>. HIDE DEF n
<1>5. Sound(n)
  BY <1>3, <1>4 DEF Sound, SameBinding
<1>. QED  BY <1>3, <1>5 DEF n

LEMMA SoundPreferred ==
  ASSUME NEW e, Sound(e), NEW i \in Ifindex \union {0}
  PROVE  LET n == [e EXCEPT !.preferred = i]
         IN  /\ Sound(n) /\ SameBinding(e, n) /\ n.ifaces = e.ifaces
             /\ n.preferred = i /\ n.current = e.current /\ n.auto = e.auto
BY DEF Sound, Daemon, SameBinding

LEMMA SoundAuto ==
  ASSUME NEW e, Sound(e), NEW on \in BOOLEAN
  PROVE  LET n == [e EXCEPT !.auto = on] IN Sound(n) /\ SameBinding(e, n)
BY DEF Sound, Daemon, SameBinding

\* A move sets the interface and the binding.
Moved(e, i, t, x, y) == [e EXCEPT !.current = i, !.type = t, !.coa6 = x, !.coa4 = y]

LEMMA SoundMove ==
  ASSUME NEW e, Sound(e), NEW i \in Ifindex \union {0}, NEW t \in {"home", "v4", "v6"},
         NEW x \in CoaV6 \union {HoaV6, None}, NEW y \in CoaV4 \union {HoaV4, None},
         t = "v6" => x \in CoaV6, t = "v4" => y \in CoaV4
  PROVE  LET n == Moved(e, i, t, x, y)
         IN  Sound(n) /\ n.type = t /\ n.coa6 = x /\ n.coa4 = y
BY DEF Sound, Daemon, Moved

\* do_handoff(coa, i).
LEMMA Handoff ==
  ASSUME NEW a \in Kernel, NEW e, NEW strict, Sound(e), Good(a, e, strict),
         NEW i \in Ifindex \union {0}, NEW f \in Family, NEW coa,
         f = "v6" => coa \in CoaV6 \union {HoaV6},
         f = "v4" => coa \in CoaV4 /\ i # 0
  PROVE  Outcome(a, do_handoff(e, f, coa, i), strict)
<1>. DEFINE s == SlotOf(e, i)
            x == IF f = "v6" THEN [e.ifaces[s] EXCEPT !.coa6 = coa]
                             ELSE [e.ifaces[s] EXCEPT !.coa4 = coa]
            r == IF s = NIF THEN e ELSE [e EXCEPT !.ifaces[s] = x]
<1>1. Sound(r) /\ SameBinding(e, r)
  <2>1. CASE s = NIF
    BY <2>1 DEF SameBinding
  <2>2. CASE s # NIF
    <3>1. s \in Slots /\ SlotSound(e.ifaces[s])
      BY <2>2, SlotFound DEF Sound
    <3>2. SlotSound(x)
      <4>1. CASE f = "v6"
        <5>1. coa \in CoaV6 \union {HoaV6, None} /\ coa # None
          BY <4>1, Apart DEF Coa
        <5>. QED  BY <3>1, <4>1, <5>1 DEF SlotSound, Iface
      <4>2. CASE f # "v6"
        <5>1. coa \in CoaV4 \union {None} /\ coa # None
          BY <4>2, Apart DEF Coa, Family
        <5>. QED  BY <3>1, <4>2, <5>1 DEF SlotSound, Iface
      <4>. QED  BY <4>1, <4>2
    <3>. HIDE DEF s, x
    <3>. QED  BY <2>2, <3>1, <3>2, SoundSlot
  <2>. QED  BY <2>1, <2>2
<1>2. do_handoff(e, f, coa, i) =
        IF s = NIF \/ i # e.preferred \/ Unchanged(e, f, coa) THEN Result(r, << >>)
        ELSE IF f = "v4" THEN MoveV4(r, coa, i)
        ELSE IF coa = HoaV6 THEN MoveHome(r, i) ELSE MoveV6(r, coa, i)
  BY DEF do_handoff
<1>. HIDE DEF s, r
<1>3. /\ Bound(r) /\ Good(a, r, strict)
      /\ r.type \in {"home", "v4", "v6"}
      /\ r.coa6 \in CoaV6 \union {HoaV6, None} /\ r.coa4 \in CoaV4 \union {HoaV4, None}
  BY <1>1, SoundIsBound, GoodSame DEF Bound
<1>4. CASE s = NIF \/ i # e.preferred \/ Unchanged(e, f, coa)
  <2>1. do_handoff(e, f, coa, i) = Result(r, << >>)
    BY <1>2, <1>4
  <2>. QED  BY <1>1, <2>1, OutcomeNothing
<1>5. CASE ~(s = NIF \/ i # e.preferred \/ Unchanged(e, f, coa)) /\ f = "v4"
  <2>. DEFINE n == [r EXCEPT !.current = i, !.type = "v4", !.coa4 = coa]
              m == Moved(r, i, "v4", r.coa6, coa)
  <2>1. /\ do_handoff(e, f, coa, i) = MoveV4(r, coa, i) /\ MoveV4(r, coa, i).d = n
        /\ MoveV4(r, coa, i) = Result(n, MoveV4(r, coa, i).todo)
    BY <1>2, <1>5 DEF MoveV4, Result
  <2>2. Sound(m) /\ m.type = "v4" /\ m.coa6 = r.coa6 /\ m.coa4 = coa
    BY <1>1, <1>3, <1>5, SoundMove
  <2>3. n = m
    BY <1>1 DEF Sound, Daemon, Moved
  <2>. HIDE DEF n, m
  <2>4. r.type = "v4" => r.coa4 # coa
    BY <1>1, <1>5 DEF SameBinding, Unchanged
  <2>5. i \in Ifindex /\ coa \in CoaV4
    BY <1>5
  <2>6. PICK z : Run(a, MoveV4(r, coa, i).todo, z, TRUE) /\ Good(z, n, strict)
    BY <1>3, <2>2, <2>3, <2>4, <2>5, MoveV4Run
  <2>7. Run(a, MoveV4(r, coa, i).todo, z, n.type # "home")
    BY <2>6, RunDim
  <2>. QED  BY <2>1, <2>2, <2>3, <2>6, <2>7 DEF Outcome
<1>6. CASE /\ ~(s = NIF \/ i # e.preferred \/ Unchanged(e, f, coa)) /\ f # "v4"
           /\ coa = HoaV6
  <2>. DEFINE n == Moved(r, i, "home", HoaV6, HoaV4)
  <2>1. /\ do_handoff(e, f, coa, i) = MoveHome(r, i) /\ MoveHome(r, i).d = n
        /\ MoveHome(r, i) = Result(n, MoveHome(r, i).todo)
    BY <1>2, <1>6 DEF MoveHome, Result, Moved
  <2>2. Sound(n) /\ n.type = "home" /\ n.coa6 = HoaV6 /\ n.coa4 = HoaV4
    BY <1>1, SoundMove
  <2>. HIDE DEF n
  <2>3. PICK z : Run(a, MoveHome(r, i).todo, z, FALSE) /\ Good(z, n, strict)
    BY <1>3, <2>2, MoveHomeRun
  <2>4. (n.type # "home") = FALSE
    BY <2>2
  <2>. QED  BY <2>1, <2>2, <2>3, <2>4 DEF Outcome
<1>7. CASE /\ ~(s = NIF \/ i # e.preferred \/ Unchanged(e, f, coa)) /\ f # "v4"
           /\ coa # HoaV6
  <2>. DEFINE n == [r EXCEPT !.current = i, !.type = "v6", !.coa6 = coa]
              m == Moved(r, i, "v6", coa, r.coa4)
  <2>0. f = "v6" /\ coa \in CoaV6
    BY <1>7 DEF Family
  <2>1. /\ do_handoff(e, f, coa, i) = MoveV6(r, coa, i) /\ MoveV6(r, coa, i).d = n
        /\ MoveV6(r, coa, i) = Result(n, MoveV6(r, coa, i).todo)
    BY <1>2, <1>7 DEF MoveV6, Result
  <2>2. Sound(m) /\ m.type = "v6" /\ m.coa6 = coa /\ m.coa4 = r.coa4
    BY <1>1, <1>3, <2>0, SoundMove
  <2>3. n = m
    BY <1>1 DEF Sound, Daemon, Moved
  <2>. HIDE DEF n, m
  <2>4. r.type = "v6" => r.coa6 # coa
    BY <1>1, <1>7, <2>0 DEF SameBinding, Unchanged
  <2>6. PICK z : Run(a, MoveV6(r, coa, i).todo, z, TRUE) /\ Good(z, n, strict)
    BY <1>3, <2>0, <2>2, <2>3, <2>4, MoveV6Run
  <2>7. Run(a, MoveV6(r, coa, i).todo, z, n.type # "home")
    BY <2>6, RunDim
  <2>. QED  BY <2>1, <2>2, <2>3, <2>6, <2>7 DEF Outcome
<1>. QED  BY <1>4, <1>5, <1>6, <1>7

\* A move to the interface of a slot in use.
LEMMA SlotUsed ==
  ASSUME NEW a \in Kernel, NEW e, NEW strict, Sound(e), Good(a, e, strict),
         NEW s \in Slots, e.ifaces[s].ifindex # 0, NEW none, Outcome(a, none, strict)
  PROVE  Outcome(a, UseSlot(e, s, none), strict)
<1>. DEFINE x == e.ifaces[s]
            p == [e EXCEPT !.preferred = x.ifindex]
<1>1. /\ x.ifindex \in Ifindex \union {0} /\ x.ifindex # 0
      /\ x.ok6 => x.coa6 \in CoaV6 \union {HoaV6}
      /\ x.ok4 => x.coa4 \in CoaV4
  BY DEF Sound, SlotSound, Iface
<1>. DEFINE j == x.ifindex
<1>2. Sound(p) /\ SameBinding(e, p)
  <2>1. j \in Ifindex \union {0} /\ p = [e EXCEPT !.preferred = j]
    BY <1>1
  <2>. HIDE DEF j, p
  <2>. QED  BY <2>1, SoundPreferred
<1>. HIDE DEF p
<1>3. Good(a, p, strict)
  BY <1>2, GoodSame
<1>4. "v4" \in Family /\ "v6" \in Family /\ "v4" # "v6"
  BY DEF Family
<1>5. x.ok6 => Outcome(a, do_handoff(p, "v6", x.coa6, x.ifindex), strict)
  BY <1>1, <1>2, <1>3, <1>4, Handoff
<1>6. x.ok4 => Outcome(a, do_handoff(p, "v4", x.coa4, x.ifindex), strict)
  BY <1>1, <1>2, <1>3, <1>4, Handoff
<1>7. UseSlot(e, s, none) =
        IF x.ok6 THEN do_handoff(p, "v6", x.coa6, x.ifindex)
        ELSE IF x.ok4 THEN do_handoff(p, "v4", x.coa4, x.ifindex)
        ELSE none
  BY DEF UseSlot, p
<1>. QED  BY <1>5, <1>6, <1>7

\* A move to the dummy interface.
LEMMA DummyUsed ==
  ASSUME NEW a \in Kernel, NEW e, NEW strict, Sound(e), Good(a, e, strict)
  PROVE  Outcome(a, UseDummy(e), strict)
<1>. DEFINE p == [e EXCEPT !.preferred = 0]
<1>1. Sound(p) /\ SameBinding(e, p)
  BY SoundPreferred
<1>. HIDE DEF p
<1>2. Good(a, p, strict)
  BY <1>1, GoodSame
<1>3. "v6" \in Family /\ "v4" # "v6"
  BY DEF Family
<1>. QED  BY <1>1, <1>2, <1>3, Handoff DEF UseDummy, p

\* The first other interface that is up.
LEMMA FellBack ==
  ASSUME NEW a \in Kernel, NEW e, NEW strict, Sound(e), Good(a, e, strict), NEW i
  PROVE  Outcome(a, FallBack(e, i), strict)
<1>. DEFINE up == {s \in Slots : /\ e.ifaces[s].ifindex \notin {0, i}
                                 /\ e.ifaces[s].flags = "up"}
<1>1. Outcome(a, Result(e, << >>), strict)
  BY OutcomeNothing DEF SameBinding
<1>2. CASE e.auto /\ up # {}
  <2>1. up \in SUBSET Nat
    BY DEF Slots
  <2>2. Min(up) \in up
    BY <1>2, <2>1, MinSlot
  <2>3. Min(up) \in Slots /\ e.ifaces[Min(up)].ifindex # 0
    BY <2>2
  <2>4. FallBack(e, i) = UseSlot(e, Min(up), Result(e, << >>))
    BY <1>2 DEF FallBack
  <2>. HIDE DEF up
  <2>. QED  BY <1>1, <2>3, <2>4, SlotUsed
<1>3. CASE ~(e.auto /\ up # {})
  <2>1. FallBack(e, i) = Result(e, << >>)
    BY <1>3 DEF FallBack
  <2>. QED  BY <1>1, <2>1
<1>. QED  BY <1>2, <1>3

\* The search that looks at slot 0 only.
LEMMA FirstLookedAt ==
  ASSUME NEW a \in Kernel, NEW e, NEW strict, Sound(e), Good(a, e, strict), NEW i
  PROVE  Outcome(a, FirstOnly(e, i), strict)
<1>1. Outcome(a, Result(e, << >>), strict)
  BY OutcomeNothing DEF SameBinding
<1>2. CASE e.auto /\ e.ifaces[0].ifindex \notin {0, i}
  <2>1. 0 \in Slots
    BY NodeAssumption DEF Slots
  <2>2. FirstOnly(e, i) = UseSlot(e, 0, UseDummy(e))
    BY <1>2 DEF FirstOnly
  <2>. QED  BY <1>2, <2>1, <2>2, DummyUsed, SlotUsed
<1>3. CASE ~(e.auto /\ e.ifaces[0].ifindex \notin {0, i})
  <2>1. FirstOnly(e, i) = Result(e, << >>)
    BY <1>3 DEF FirstOnly
  <2>. QED  BY <1>1, <2>1
<1>. QED  BY <1>2, <1>3

\* The preferred interface only.
LEMMA PreferredMoves ==
  ASSUME NEW a \in Kernel, NEW e, NEW strict, Sound(e), Good(a, e, strict),
         NEW i \in Ifindex, NEW f \in Family, NEW coa,
         f = "v6" => coa \in CoaV6 \union {HoaV6}, f = "v4" => coa \in CoaV4
  PROVE  Outcome(a, IfPreferred(e, f, coa, i), strict)
<1>. DEFINE p == [e EXCEPT !.preferred = i]
<1>1. Sound(p) /\ SameBinding(e, p)
  BY SoundPreferred
<1>2. Outcome(a, Result(e, << >>), strict)
  BY OutcomeNothing DEF SameBinding
<1>3. i # 0
  BY IfindexAssumption
<1>. HIDE DEF p
<1>4. Good(a, p, strict)
  BY <1>1, GoodSame
<1>5. Outcome(a, do_handoff(p, f, coa, i), strict)
  BY <1>1, <1>3, <1>4, Handoff
<1>6. IfPreferred(e, f, coa, i) =
        IF e.preferred \in {0, i} THEN do_handoff(p, f, coa, i) ELSE Result(e, << >>)
  BY DEF IfPreferred, p
<1>. QED  BY <1>2, <1>5, <1>6

-------------------------------------------------------------------------------
(* The invariant. *)

\* The calls still to be made lead to a kernel that agrees with the daemon: as
\* far as a daemon goes that may have been killed, and to the letter if none was.
Work ==
  /\ Sound(d)
  /\ pc = "ipfix" => todo = << >>
  /\ \E z : /\ Run(k, todo, z, d.type # "home" /\ pc # "end")
            /\ pc \in {"run", "ipfix"} => Good(z, d, crashes = 0)
            /\ pc = "end" /\ crashes = 0 => Clean(z, d)

\* The host, and the variables beside the daemon's.
Frame ==
  /\ link \in [Ifindex -> Flags \union {"gone"}] /\ has \subseteq Reach
  /\ pc \in {"run", "ipfix", "end", "wild"}
  /\ down \in Ifindex \union {0}
  /\ crashes \in 0 .. MaxCrash

Inv == Frame /\ Work

\* Between two handlers.
LEMMA Between2 ==
  ASSUME Work, pc \in {"run", "ipfix"}, todo = << >>
  PROVE  k \in Kernel /\ Sound(d) /\ Good(k, d, crashes = 0)
<1>1. PICK z : /\ Run(k, << >>, z, d.type # "home" /\ pc # "end")
               /\ Good(z, d, crashes = 0)
  BY DEF Work
<1>2. k \in Kernel /\ z = k
  BY <1>1, RunTypes, RunEnd
<1>. QED  BY <1>1, <1>2 DEF Work

\* A handler's decision is taken.
LEMMA ActWork ==
  ASSUME Outcome(k, Result(d', todo'), crashes = 0),
         k' = k, crashes' = crashes, pc' \in {"run", "wild"}
  PROVE  Work'
<1>. DEFINE r == Result(d', todo')
<1>1. r.d = d' /\ r.todo = todo'
  BY DEF Result
<1>2. PICK z : Run(k, todo', z, d'.type # "home") /\ Good(z, d', crashes = 0)
  BY <1>1 DEF Outcome
<1>3. (d'.type # "home" /\ pc' # "end") = (d'.type # "home")
  OBVIOUS
<1>4. Run(k', todo', z, d'.type # "home" /\ pc' # "end")
  BY <1>2, <1>3
<1>5. Sound(d')
  BY <1>1 DEF Outcome
<1>. QED  BY <1>2, <1>4, <1>5 DEF Work

LEMMA ActDone ==
  ASSUME NEW r, Outcome(k, r, crashes = 0), Act(r),
         k' = k, crashes' = crashes, pc' \in {"run", "wild"}
  PROVE  Work'
<1>1. Outcome(k, Result(d', todo'), crashes = 0)
  BY DEF Outcome, Act
<1>. QED  BY <1>1, ActWork

\* The daemon takes note, and makes no call.
LEMMA ActQuiet ==
  ASSUME Work, pc \in {"run", "ipfix"}, todo = << >>,
         Sound(d'), SameBinding(d, d'), todo' = << >>,
         k' = k, crashes' = crashes, pc' \in {"run", "ipfix", "wild"}
  PROVE  Work'
<1>1. k \in Kernel /\ Good(k, d', crashes = 0)
  BY Between2, GoodSame
<1>2. Run(k', todo', k, d'.type # "home" /\ pc' # "end")
  BY <1>1, RunEmpty
<1>. QED  BY <1>1, <1>2 DEF Work

LEMMA SameIsSame ==
  ASSUME NEW e
  PROVE  SameBinding(e, e)
BY DEF SameBinding

LEMMA EmptySound ==
  /\ SlotSound(Empty) /\ Empty \in Iface /\ Empty.ifindex = 0
  /\ Empty.coa6 = None /\ Empty.coa4 = None
BY DEF SlotSound, Iface, Empty, Flags

-------------------------------------------------------------------------------
(* The actions. *)

LEMMA FlaggedFrame ==
  ASSUME Frame, NEW i \in Ifindex, NEW f \in Flags, Flagged(i, f),
         pc' \in {"run", "ipfix", "wild"}, down' \in Ifindex \union {0}, crashes' = crashes
  PROVE  Frame'
BY DEF Frame, Flagged

LEMMA FlagsSound ==
  ASSUME Sound(d), NEW i \in Ifindex, NEW f \in Flags, Known(i), SlotFlags(i, f)
  PROVE  Sound(d') /\ SameBinding(d, d')
<1>. DEFINE s == SlotOf(d, i)
            x == [d.ifaces[s] EXCEPT !.flags = f]
<1>1. s \in Slots /\ SlotSound(d.ifaces[s])
  BY SlotFound DEF Known, Sound
<1>2. SlotSound(x)
  BY <1>1 DEF SlotSound, Iface
<1>3. d' = [d EXCEPT !.ifaces[s] = x]
  BY DEF SlotFlags
<1>. HIDE DEF s, x
<1>. QED  BY <1>1, <1>2, <1>3, SoundSlot

LEMMA WlanStep ==
  ASSUME Inv, NEW i \in Ifindex, NEW f \in Flags, WlanChanged(i, f)
  PROVE  Inv'
<1>1. Frame'
  BY FlaggedFrame DEF Inv, WlanChanged
<1>2. Sound(d') /\ SameBinding(d, d')
  BY FlagsSound DEF Inv, Work, WlanChanged
<1>3. Work'
  BY <1>2, ActQuiet DEF Inv, WlanChanged, Flagged, Idle
<1>. QED  BY <1>1, <1>3 DEF Inv

LEMMA GprsStep ==
  ASSUME Inv, NEW i \in Ifindex, NEW f \in Flags, GprsChanged(i, f)
  PROVE  Inv'
<1>1. Frame'
  BY FlaggedFrame DEF Inv, Frame, GprsChanged, Flagged, Idle
<1>2. Sound(d') /\ SameBinding(d, d')
  BY FlagsSound DEF Inv, Work, GprsChanged
<1>3. Work'
  BY <1>2, ActQuiet DEF Inv, GprsChanged, Flagged, Idle
<1>. QED  BY <1>1, <1>3 DEF Inv

LEMMA AddedStep ==
  ASSUME Inv, NEW i \in Ifindex, LinkAdded(i)
  PROVE  Inv'
<1>. DEFINE x == [Empty EXCEPT !.ifindex = i, !.flags = "up", !.ok6 = FALSE, !.ok4 = FALSE]
            s == SlotOf(d, 0)
<1>1. Frame'
  <2>1. "up" \in Flags
    BY DEF Flags
  <2>. QED  BY <2>1, FlaggedFrame DEF Inv, Frame, LinkAdded, Flagged, Idle
<1>2. SlotSound(x)
  BY EmptySound DEF SlotSound, Iface, Flags
<1>3. s \in Slots
  BY SlotFound DEF LinkAdded, Room
<1>4. d' = [d EXCEPT !.ifaces[s] = x]
  BY DEF LinkAdded
<1>. HIDE DEF s, x
<1>5. Sound(d') /\ SameBinding(d, d')
  BY <1>2, <1>3, <1>4, SoundSlot DEF Inv, Work
<1>6. Work'
  BY <1>5, ActQuiet DEF Inv, LinkAdded, Flagged, Idle
<1>. QED  BY <1>1, <1>6 DEF Inv

\* Events that change nothing of the daemon, or go past the end of ifaces.
LEMMA QuietWork ==
  ASSUME Work, Idle, Nothing \/ Overrun
  PROVE  Work' /\ pc' \in {"run", "wild"} /\ UNCHANGED <<down, crashes>>
<1>1. /\ d' = d /\ k' = k /\ todo' = todo /\ crashes' = crashes /\ down' = down
      /\ pc' \in {"run", "wild"}
  BY DEF Idle, Nothing, Overrun
<1>2. Sound(d') /\ SameBinding(d, d')
  BY <1>1, SameIsSame DEF Work
<1>. QED  BY <1>1, <1>2, ActQuiet DEF Idle

LEMMA IgnoredStep ==
  ASSUME Inv, NEW i \in Ifindex, NEW f \in Flags, LinkIgnored(i, f) \/ LinkOverrun(i, f)
  PROVE  Inv'
<1>1. Flagged(i, f) /\ Idle /\ (Nothing \/ Overrun)
  BY DEF LinkIgnored, LinkOverrun, Flagged
<1>2. Work' /\ pc' \in {"run", "wild"} /\ UNCHANGED <<down, crashes>>
  BY <1>1, QuietWork DEF Inv
<1>3. Frame'
  BY <1>1, <1>2, FlaggedFrame DEF Inv, Frame
<1>. QED  BY <1>2, <1>3 DEF Inv

LEMMA ForeignStep ==
  ASSUME Inv, ForeignAddr
  PROVE  Inv'
<1>1. Idle /\ (Nothing \/ Overrun) /\ UNCHANGED <<link, has>>
  BY DEF ForeignAddr
<1>2. Work' /\ pc' \in {"run", "wild"} /\ UNCHANGED <<down, crashes>>
  BY <1>1, QuietWork DEF Inv
<1>. QED  BY <1>1, <1>2 DEF Inv, Frame

LEMMA ConfiguredFrame ==
  ASSUME Frame, NEW i, NEW a, Configured(i, a),
         pc' \in {"run", "wild"}, UNCHANGED <<down, crashes>>
  PROVE  /\ Frame' /\ i \in Ifindex /\ a \in Coa \union {HoaV6}
         /\ <<i, a>> \in Reach
BY NodeAssumption DEF Frame, Configured

LEMMA AddrOverrunStep ==
  ASSUME Inv, NEW i, NEW a, AddrOverrun(i, a)
  PROVE  Inv'
<1>1. Configured(i, a) /\ Idle /\ (Nothing \/ Overrun)
  BY DEF AddrOverrun, Configured
<1>2. Work' /\ pc' \in {"run", "wild"} /\ UNCHANGED <<down, crashes>>
  BY <1>1, QuietWork DEF Inv
<1>. QED  BY <1>1, <1>2, ConfiguredFrame DEF Inv

LEMMA AutoStep ==
  ASSUME Inv, NEW on \in BOOLEAN, CmdAuto(on)
  PROVE  Inv'
<1>1. Sound(d') /\ SameBinding(d, d')
  BY SoundAuto DEF Inv, Work, CmdAuto
<1>2. Work'
  BY <1>1, ActQuiet DEF Inv, CmdAuto, Idle
<1>. QED  BY <1>2 DEF Inv, Frame, CmdAuto

\* The slot of a lost interface.
LEMMA InvalidSound ==
  ASSUME NEW e, Sound(e), NEW i
  PROVE  Sound(Invalid(e, i)) /\ SameBinding(e, Invalid(e, i))
<1>. DEFINE s == SlotOf(e, i)
            x == [e.ifaces[s] EXCEPT !.ok6 = FALSE, !.ok4 = FALSE]
            n == [e EXCEPT !.ifaces[s] = x]
<1>1. Invalid(e, i) = n
  BY DEF Invalid
<1>2. CASE s # NIF
  <2>1. s \in Slots /\ SlotSound(e.ifaces[s])
    BY <1>2, SlotFound DEF Sound
  <2>2. SlotSound(x)
    BY <2>1 DEF SlotSound, Iface
  <2>. HIDE DEF s, x
  <2>. QED  BY <1>1, <2>1, <2>2, SoundSlot
<1>3. CASE s = NIF
  <2>1. s \notin Slots
    BY <1>3, NodeAssumption DEF Slots
  <2>2. e.ifaces \in [Slots -> Iface] /\ e \in Daemon
    BY DEF Sound, Daemon
  <2>. HIDE DEF s, x
  <2>3. [e.ifaces EXCEPT ![s] = x] = e.ifaces
    BY <2>1, <2>2
  <2>4. n = [e EXCEPT !.ifaces = e.ifaces]
    BY <2>3
  <2>5. n = e
    BY <2>2, <2>4 DEF Daemon
  <2>. QED  BY <1>1, <2>5, SameIsSame
<1>. QED  BY <1>2, <1>3

LEMMA AnsweredStep ==
  ASSUME Inv, Answered
  PROVE  Inv'
<1>1. k \in Kernel /\ Sound(d) /\ Good(k, d, crashes = 0)
  BY Between2 DEF Inv, Work, Answered
<1>2. Outcome(k, Result(d, << >>), crashes = 0)
  BY <1>1, SameIsSame, OutcomeNothing
<1>3. Outcome(k, FallBack(Invalid(d, down), down), crashes = 0)
  <2>1. Sound(Invalid(d, down)) /\ Good(k, Invalid(d, down), crashes = 0)
    BY <1>1, InvalidSound, GoodSame
  <2>. QED  BY <1>1, <2>1, FellBack
<1>4. Work'
  <2>1. CASE down = 0
    BY <1>2, <2>1, ActDone DEF Answered
  <2>2. CASE down # 0
    BY <1>3, <2>2, ActDone DEF Answered
  <2>. QED  BY <2>1, <2>2
<1>. QED  BY <1>4 DEF Inv, Frame, Answered

\* A slot of the decision's table is written.
LEMMA OutcomeSlot ==
  ASSUME NEW a, NEW r, NEW strict, Outcome(a, r, strict), NEW s \in Slots,
         NEW x, SlotSound(x)
  PROVE  Outcome(a, [r EXCEPT !.d.ifaces[s] = x], strict)
<1>. DEFINE n == [r.d EXCEPT !.ifaces[s] = x]
            q == [r EXCEPT !.d.ifaces[s] = x]
<1>1. Sound(n) /\ SameBinding(r.d, n)
  BY SoundSlot DEF Outcome
<1>. HIDE DEF n
<1>2. q = [r EXCEPT !.d = n]
  BY DEF n
<1>3. q = Result(n, r.todo)
  BY <1>2 DEF Outcome, Result
<1>. HIDE DEF q
<1>4. q.d = n
  BY <1>3 DEF Result
<1>5. Outcome(a, q, strict)
  BY <1>1, <1>3, <1>4, OutcomeSame
<1>. QED  BY <1>5 DEF q

LEMMA DelLinkStep ==
  ASSUME Inv, NEW i \in Ifindex, DelLink(i)
  PROVE  Inv'
<1>. DEFINE other == {s \in Slots : d.ifaces[s].ifindex \notin {0, i}}
            seen  == Known(i) /\ \A s \in other : SlotOf(d, i) < s
            m     == Min(other)
            j     == d.ifaces[m].ifindex
            p     == [d EXCEPT !.preferred = j]
            r     == IF other = {} THEN UseDummy(d)
                     ELSE UseSlot(d, m, do_handoff(p, "v6", HoaV6, j))
<1>1. /\ Idle /\ link' = [link EXCEPT ![i] = "gone"]
      /\ Act(IF seen THEN [r EXCEPT !.d.ifaces[SlotOf(d, i)] = Empty] ELSE r)
      /\ pc' \in {"run", "wild"} /\ UNCHANGED <<has, k, down, crashes>>
  BY DEF DelLink
<1>2. k \in Kernel /\ Sound(d) /\ Good(k, d, crashes = 0)
  BY <1>1, Between2 DEF Inv, Idle
<1>3. Outcome(k, r, crashes = 0)
  <2>1. CASE other = {}
    BY <1>2, <2>1, DummyUsed
  <2>2. CASE other # {}
    <3>1. other \in SUBSET Nat
      BY DEF Slots
    <3>2. m \in other
      BY <2>2, <3>1, MinSlot
    <3>3. m \in Slots /\ j # 0
      BY <3>2
    <3>4. j \in Ifindex \union {0}
      BY <1>2, <3>3 DEF Sound, SlotSound, Iface
    <3>. HIDE DEF other, m
    <3>5. Sound(p) /\ SameBinding(d, p)
      <4>. HIDE DEF j
      <4>. QED  BY <1>2, <3>4, SoundPreferred
    <3>6. Outcome(k, do_handoff(p, "v6", HoaV6, j), crashes = 0)
      <4>1. "v6" \in Family /\ "v6" # "v4"
        BY DEF Family
      <4>2. Good(k, p, crashes = 0)
        BY <1>2, <3>5, GoodSame
      <4>. HIDE DEF p, j
      <4>. QED  BY <1>2, <3>4, <3>5, <4>1, <4>2, Handoff
    <3>7. r = UseSlot(d, m, do_handoff(p, "v6", HoaV6, j))
      BY <2>2
    <3>. HIDE DEF p
    <3>. QED  BY <1>2, <3>3, <3>6, <3>7, SlotUsed
  <2>. QED  BY <2>1, <2>2
<1>. HIDE DEF r
<1>4. Work'
  <2>1. CASE seen
    <3>1. SlotOf(d, i) \in Slots
      BY <2>1, SlotFound DEF Known
    <3>2. Outcome(k, [r EXCEPT !.d.ifaces[SlotOf(d, i)] = Empty], crashes = 0)
      BY <1>3, <3>1, EmptySound, OutcomeSlot
    <3>. QED  BY <1>1, <2>1, <3>2, ActDone
  <2>2. CASE ~seen
    BY <1>1, <1>3, <2>2, ActDone
  <2>. QED  BY <2>1, <2>2
<1>5. Frame'
  BY <1>1 DEF Inv, Frame
<1>. QED  BY <1>4, <1>5 DEF Inv

\* The slot an address event of i writes is one of the table.
LEMMA EventSlotIs ==
  ASSUME NEW i, Known(i) \/ Room
  PROVE  EventSlot(i) \in Slots
BY SlotFound DEF EventSlot, Known, Room

LEMMA NewAddrV6Step ==
  ASSUME Inv, NEW i, NEW a, NewAddrV6(i, a)
  PROVE  Inv'
<1>. DEFINE s == EventSlot(i)
            x == IF Known(i) THEN d.ifaces[s]
                 ELSE [Empty EXCEPT !.ifindex = i, !.flags = "up", !.ok4 = FALSE]
            y == [x EXCEPT !.ok6 = TRUE, !.coa6 = a]
            j == IF d.auto THEN i ELSE d.preferred
            e == [d EXCEPT !.ifaces[s] = y, !.preferred = j]
<1>1. /\ Configured(i, a) /\ a \notin CoaV4 /\ (Known(i) \/ Room) /\ Idle
      /\ UNCHANGED <<k, pc, down, crashes>>
      /\ IF x.flags # "up" THEN UNCHANGED <<d, todo>> ELSE Act(IfPreferred(e, "v6", a, i))
  BY DEF NewAddrV6, Configured
<1>2. Frame' /\ i \in Ifindex /\ a \in Coa \union {HoaV6}
  BY <1>1, ConfiguredFrame DEF Inv, Idle
<1>3. k \in Kernel /\ Sound(d) /\ Good(k, d, crashes = 0)
  BY <1>1, Between2 DEF Inv, Idle
<1>4. s \in Slots /\ a \in CoaV6 \union {HoaV6} /\ a # None
  BY <1>1, <1>2, EventSlotIs, Apart DEF Coa
<1>5. SlotSound(y)
  <2>1. CASE Known(i)
    <3>1. SlotSound(x)
      BY <1>3, <1>4, <2>1 DEF Sound
    <3>. HIDE DEF x
    <3>. QED  BY <1>4, <3>1 DEF SlotSound, Iface
  <2>2. CASE ~Known(i)
    <3>1. x = [Empty EXCEPT !.ifindex = i, !.flags = "up", !.ok4 = FALSE]
      BY <2>2
    <3>. HIDE DEF x
    <3>. QED  BY <1>2, <1>4, <3>1, EmptySound DEF SlotSound, Iface, Flags
  <2>. QED  BY <2>1, <2>2
<1>6. j \in Ifindex \union {0}
  BY <1>2, <1>3 DEF Sound, Daemon
<1>. HIDE DEF s, x, y, j
<1>7. Sound(e) /\ SameBinding(d, e)
  <2>. DEFINE c == [d EXCEPT !.ifaces[s] = y]
  <2>1. Sound(c) /\ SameBinding(d, c)
    BY <1>3, <1>4, <1>5, SoundSlot
  <2>2. e = [c EXCEPT !.preferred = j]
    OBVIOUS
  <2>. HIDE DEF c, e
  <2>3. Sound(e) /\ SameBinding(c, e)
    BY <1>6, <2>1, <2>2, SoundPreferred
  <2>. QED  BY <2>1, <2>3 DEF SameBinding
<1>. HIDE DEF e
<1>8. Outcome(k, IfPreferred(e, "v6", a, i), crashes = 0)
  <2>1. "v6" \in Family /\ "v6" # "v4" /\ Good(k, e, crashes = 0)
    BY <1>3, <1>7, GoodSame DEF Family
  <2>. QED  BY <1>2, <1>3, <1>4, <1>7, <2>1, PreferredMoves
<1>9. Work'
  <2>1. CASE x.flags # "up"
    BY <1>1, <1>3, <2>1, SameIsSame, ActQuiet DEF Inv, Idle
  <2>2. CASE x.flags = "up"
    BY <1>1, <1>8, <2>2, ActDone DEF Idle
  <2>. QED  BY <2>1, <2>2
<1>. QED  BY <1>2, <1>9 DEF Inv

LEMMA NewAddrV4Step ==
  ASSUME Inv, NEW i, NEW a, NewAddrV4(i, a)
  PROVE  Inv'
<1>. DEFINE s == EventSlot(i)
            x == IF Known(i) THEN d.ifaces[s]
                 ELSE [d.ifaces[s] EXCEPT !.ifindex = i, !.ok6 = FALSE]
            y == [x EXCEPT !.ok4 = TRUE, !.flags = "up", !.coa4 = a]
            j == IF d.preferred = 0 \/ (i \in Wlan /\ d.auto) THEN i ELSE d.preferred
            e == [d EXCEPT !.ifaces[s] = y, !.preferred = j]
            r == IF y.ok6 THEN IfPreferred(e, "v6", y.coa6, i) ELSE IfPreferred(e, "v4", a, i)
            probe == << <<"probe", i, a>> >>
<1>1. /\ Configured(i, a) /\ a \in CoaV4 /\ (Known(i) \/ Room) /\ Idle
      /\ UNCHANGED <<k, pc, down, crashes>>
      /\ Act([r EXCEPT !.todo = probe \o @])
  BY DEF NewAddrV4, Configured
<1>2. Frame' /\ i \in Ifindex /\ i # 0
  BY <1>1, ConfiguredFrame, IfindexAssumption DEF Inv, Idle
<1>3. k \in Kernel /\ Sound(d) /\ Good(k, d, crashes = 0)
  BY <1>1, Between2 DEF Inv, Idle
<1>4. s \in Slots /\ a # None /\ a \in CoaV4
  BY <1>1, EventSlotIs, Apart DEF Coa
<1>5. SlotSound(y) /\ y.ifindex = i /\ (y.ok6 => y.coa6 \in CoaV6 \union {HoaV6})
  <2>1. SlotSound(d.ifaces[s])
    BY <1>3, <1>4 DEF Sound
  <2>2. x \in Iface /\ x.ifindex = i /\ (x.ok6 => x.coa6 # None)
    <3>1. CASE Known(i)
      <4>1. x = d.ifaces[s] /\ s = SlotOf(d, i)
        BY <3>1 DEF EventSlot
      <4>2. d.ifaces[s].ifindex = i
        BY <3>1, <4>1, SlotFound DEF Known
      <4>. HIDE DEF x
      <4>. QED  BY <1>2, <2>1, <4>1, <4>2 DEF SlotSound
    <3>2. CASE ~Known(i)
      <4>1. x = [d.ifaces[s] EXCEPT !.ifindex = i, !.ok6 = FALSE]
        BY <3>2
      <4>. HIDE DEF x
      <4>. QED  BY <1>2, <2>1, <4>1 DEF SlotSound, Iface
    <3>. QED  BY <3>1, <3>2
  <2>. HIDE DEF x
  <2>. QED  BY <1>4, <2>2 DEF SlotSound, Iface, Flags
<1>6. j \in Ifindex \union {0}
  BY <1>2, <1>3 DEF Sound, Daemon
<1>. HIDE DEF s, y
<1>7. Sound(e) /\ SameBinding(d, e)
  <2>. DEFINE c == [d EXCEPT !.ifaces[s] = y]
  <2>1. Sound(c) /\ SameBinding(d, c)
    BY <1>3, <1>4, <1>5, SoundSlot
  <2>. HIDE DEF j
  <2>2. e = [c EXCEPT !.preferred = j]
    OBVIOUS
  <2>. HIDE DEF c, e
  <2>3. Sound(e) /\ SameBinding(c, e)
    BY <1>6, <2>1, <2>2, SoundPreferred
  <2>. QED  BY <2>1, <2>3 DEF SameBinding
<1>. HIDE DEF e
<1>8. Outcome(k, r, crashes = 0)
  <2>1. "v6" \in Family /\ "v4" \in Family /\ "v6" # "v4" /\ Good(k, e, crashes = 0)
    BY <1>3, <1>7, GoodSame DEF Family
  <2>2. y.ok6 => Outcome(k, IfPreferred(e, "v6", y.coa6, i), crashes = 0)
    BY <1>2, <1>3, <1>5, <1>7, <2>1, PreferredMoves
  <2>3. Outcome(k, IfPreferred(e, "v4", a, i), crashes = 0)
    BY <1>2, <1>3, <1>4, <1>7, <2>1, PreferredMoves
  <2>. QED  BY <2>2, <2>3
<1>. HIDE DEF r
<1>9. Outcome(k, [r EXCEPT !.todo = probe \o @], crashes = 0)
  <2>. DEFINE q == [r EXCEPT !.todo = probe \o @]
  <2>1. q = Result(r.d, probe \o r.todo)
    <3>. DEFINE w == probe \o r.todo
    <3>1. q = [r EXCEPT !.todo = w]
      OBVIOUS
    <3>2. r = [d |-> r.d, todo |-> r.todo]
      BY <1>8 DEF Outcome, Result
    <3>. HIDE DEF q, w
    <3>3. q = Result(r.d, w)
      BY <3>1, <3>2 DEF Result
    <3>. QED  BY <3>3 DEF w
  <2>2. PICK z : Run(k, r.todo, z, r.d.type # "home") /\ Good(z, r.d, crashes = 0)
    BY <1>8 DEF Outcome
  <2>3. Run(k, probe, k, r.d.type # "home")
    BY <1>2, <1>3, <1>4, CallProbe
  <2>. HIDE DEF probe
  <2>4. Run(k, probe \o r.todo, z, r.d.type # "home")
    BY <2>2, <2>3, RunConcat
  <2>. HIDE DEF q
  <2>5. q.d = r.d /\ q.todo = probe \o r.todo /\ Sound(r.d)
    BY <1>8, <2>1 DEF Outcome, Result
  <2>6. Outcome(k, q, crashes = 0)
    BY <2>1, <2>2, <2>4, <2>5 DEF Outcome
  <2>. QED  BY <2>6 DEF q, probe
<1>10. Work'
  BY <1>1, <1>9, ActDone DEF Idle
<1>. QED  BY <1>2, <1>10 DEF Inv

LEMMA DelAddrStep ==
  ASSUME Inv, NEW i, NEW a, DelAddr(i, a)
  PROVE  Inv'
<1>. DEFINE f     == IF a \in CoaV4 THEN "v4" ELSE "v6"
            inuse == Unchanged(d, f, a) /\ d.current = i
            r     == IF inuse THEN FirstOnly(d, i) ELSE Result(d, << >>)
            s     == SlotOf(d, i)
            q6    == [r EXCEPT !.d.ifaces[s] = [@ EXCEPT !.coa6 = None, !.ok6 = FALSE]]
            q4    == [r EXCEPT !.d.ifaces[s] = [@ EXCEPT !.coa4 = None, !.ok4 = FALSE]]
            act   == IF s = NIF THEN r
                     ELSE IF f = "v6" /\ r.d.ifaces[s].coa6 = a THEN q6
                     ELSE IF f = "v4" /\ r.d.ifaces[s].coa4 = a THEN q4
                     ELSE r
<1>1. /\ Idle /\ has' = has \ {<<i, a>>} /\ Act(act)
      /\ UNCHANGED <<link, k, pc, down, crashes>>
  BY DEF DelAddr
<1>2. Frame'
  BY <1>1 DEF Inv, Frame
<1>3. k \in Kernel /\ Sound(d) /\ Good(k, d, crashes = 0)
  BY <1>1, Between2 DEF Inv, Idle
<1>4. Outcome(k, r, crashes = 0)
  <2>1. Outcome(k, FirstOnly(d, i), crashes = 0)
    BY <1>3, FirstLookedAt
  <2>2. Outcome(k, Result(d, << >>), crashes = 0)
    BY <1>3, SameIsSame, OutcomeNothing
  <2>. QED  BY <2>1, <2>2
<1>. HIDE DEF r
<1>5. s # NIF => Outcome(k, q6, crashes = 0) /\ Outcome(k, q4, crashes = 0)
  <2>. SUFFICES ASSUME s # NIF
                PROVE  Outcome(k, q6, crashes = 0) /\ Outcome(k, q4, crashes = 0)
    OBVIOUS
  <2>1. s \in Slots
    BY SlotFound
  <2>. HIDE DEF s
  <2>. DEFINE x  == r.d.ifaces[s]
              x6 == [x EXCEPT !.coa6 = None, !.ok6 = FALSE]
              x4 == [x EXCEPT !.coa4 = None, !.ok4 = FALSE]
  <2>2. SlotSound(x)
    BY <1>4, <2>1 DEF Outcome, Sound
  <2>. HIDE DEF x
  <2>3. SlotSound(x6) /\ SlotSound(x4)
    BY <2>2 DEF SlotSound, Iface
  <2>4. q6 = [r EXCEPT !.d.ifaces[s] = x6] /\ q4 = [r EXCEPT !.d.ifaces[s] = x4]
    BY DEF x
  <2>. HIDE DEF x6, x4, q6, q4
  <2>. QED  BY <1>4, <2>1, <2>3, <2>4, OutcomeSlot
<1>. HIDE DEF q6, q4, s
<1>6. Outcome(k, act, crashes = 0)
  BY <1>4, <1>5
<1>. HIDE DEF act
<1>7. Work'
  BY <1>1, <1>6, ActDone DEF Idle
<1>. QED  BY <1>2, <1>7 DEF Inv

LEMMA CmdHandoffStep ==
  ASSUME Inv, NEW i \in Ifindex, CmdHandoff(i)
  PROVE  Inv'
<1>. DEFINE e == [d EXCEPT !.preferred = i]
            s == SlotOf(d, i)
            r == IF d.current = i \/ d.auto \/ s = NIF THEN Result(e, << >>)
                 ELSE UseSlot(e, s, Result(e, << >>))
<1>1. Idle /\ Act(r) /\ UNCHANGED <<link, has, k, pc, down, crashes>>
  BY DEF CmdHandoff
<1>2. k \in Kernel /\ Sound(d) /\ Good(k, d, crashes = 0)
  BY <1>1, Between2 DEF Inv, Idle
<1>3. Sound(e) /\ SameBinding(d, e) /\ e.ifaces = d.ifaces
  BY <1>2, SoundPreferred
<1>4. s # NIF => s \in Slots /\ d.ifaces[s].ifindex # 0
  BY SlotFound, IfindexAssumption
<1>. HIDE DEF e, s
<1>5. Good(k, e, crashes = 0) /\ Outcome(k, Result(e, << >>), crashes = 0)
  BY <1>2, <1>3, GoodSame, OutcomeNothing
<1>6. s # NIF => Outcome(k, UseSlot(e, s, Result(e, << >>)), crashes = 0)
  BY <1>2, <1>3, <1>4, <1>5, SlotUsed
<1>7. Outcome(k, r, crashes = 0)
  BY <1>5, <1>6
<1>. HIDE DEF r
<1>8. Work'
  BY <1>1, <1>7, ActDone DEF Idle
<1>. QED  BY <1>1, <1>8 DEF Inv, Frame

LEMMA BuStep ==
  ASSUME Inv, bu_worker
  PROVE  Inv'
<1>. DEFINE x == IF d.type = "v6" THEN d.coa6 ELSE d.coa4
<1>1. /\ Idle /\ d.type # "home" /\ todo' = << <<"bu", x>> >>
      /\ UNCHANGED <<link, has, d, k, pc, down, crashes>>
  BY DEF bu_worker
<1>2. k \in Kernel /\ Sound(d) /\ Good(k, d, crashes = 0)
  BY <1>1, Between2 DEF Inv, Idle
<1>3. x \in Coa /\ x = Using(d)
  BY <1>1, <1>2 DEF Sound, Daemon, Using, Coa
<1>. HIDE DEF x
<1>4. PICK z : Run(k, << <<"bu", x>> >>, z, d'.type # "home") /\ Told(k, z, x)
  BY <1>2, <1>3, CallBu
<1>5. Good(z, d, crashes = 0)
  <2>1. z.rule = k.rule /\ z.route = k.route /\ z.said = Using(d)
    BY <1>3, <1>4 DEF Told, SameWay
  <2>. QED  BY <1>1, <1>2, <1>4, <2>1 DEF Good, StrictEncap, Told
<1>6. Outcome(k, Result(d', todo'), crashes = 0)
  <2>1. d' = d /\ Result(d', todo').d = d' /\ Result(d', todo').todo = todo'
    BY <1>1 DEF Result
  <2>. QED  BY <1>1, <1>2, <1>4, <1>5, <2>1 DEF Outcome
<1>7. Work'
  BY <1>1, <1>6, ActWork DEF Idle
<1>. QED  BY <1>1, <1>7 DEF Inv, Frame

LEMMA ProbeStep ==
  ASSUME Inv, nat_probe_worker
  PROVE  Inv'
<1>. DEFINE i == d.preferred
            s == SlotOf(d, i)
            x == d.ifaces[s].coa4
<1>1. /\ Idle /\ i # 0 /\ s # NIF /\ d.ifaces[s].ok4
      /\ todo' = << <<"probe", i, x>> >>
      /\ UNCHANGED <<link, has, d, k, pc, down, crashes>>
  BY DEF nat_probe_worker
<1>2. k \in Kernel /\ Sound(d) /\ Good(k, d, crashes = 0)
  BY <1>1, Between2 DEF Inv, Idle
<1>3. i \in Ifindex /\ x \in CoaV4
  <2>1. s \in Slots /\ d.ifaces[s].ifindex = i
    BY <1>1, SlotFound
  <2>2. SlotSound(d.ifaces[s])
    BY <1>2, <2>1 DEF Sound
  <2>3. i \in Ifindex
    BY <1>1, <1>2 DEF Sound, Daemon
  <2>. QED  BY <1>1, <2>1, <2>2, <2>3 DEF SlotSound, Iface
<1>. HIDE DEF i, x
<1>4. Run(k, << <<"probe", i, x>> >>, k, d'.type # "home")
  BY <1>2, <1>3, CallProbe
<1>5. Outcome(k, Result(d', todo'), crashes = 0)
  <2>1. d' = d /\ Result(d', todo').d = d' /\ Result(d', todo').todo = todo'
    BY <1>1 DEF Result
  <2>. QED  BY <1>1, <1>2, <1>4, <2>1 DEF Outcome
<1>6. Work'
  BY <1>1, <1>5, ActWork DEF Idle
<1>. QED  BY <1>1, <1>6 DEF Inv, Frame

LEMMA ExitStep ==
  ASSUME Inv, Exit
  PROVE  Inv'
<1>1. /\ Idle /\ pc' = "end" /\ todo' = Cleanup(d)
      /\ UNCHANGED <<link, has, d, k, down, crashes>>
  BY DEF Exit
<1>2. k \in Kernel /\ Sound(d) /\ Good(k, d, crashes = 0)
  BY <1>1, Between2 DEF Inv, Idle
<1>3. PICK z : Run(k, Cleanup(d), z, FALSE) /\ (crashes = 0 => Clean(z, d))
  BY <1>2, SoundIsBound, CleanupRun
<1>4. (d'.type # "home" /\ pc' # "end") = FALSE
  BY <1>1
<1>5. Work'
  BY <1>1, <1>2, <1>3, <1>4 DEF Work
<1>. QED  BY <1>1, <1>5 DEF Inv, Frame

LEMMA InitSound == Sound(DaemonInit) /\ DaemonInit.type = "home" /\ DaemonInit.coa4 \notin CoaV4
<1>. HIDE DEF Iface, Empty
<1>1. \A s \in Slots : DaemonInit.ifaces[s] = Empty
  BY DEF DaemonInit
<1>2. DaemonInit \in Daemon
  BY EmptySound DEF DaemonInit, Daemon
<1>3. DaemonInit.type = "home" /\ DaemonInit.coa4 = None
  BY DEF DaemonInit
<1>. QED  BY <1>1, <1>2, <1>3, EmptySound, Apart, CoaNames DEF Sound

\* A new start takes the mobile table into use.
LEMMA StartWeak ==
  ASSUME NEW a \in Kernel, NEW b, RulesAdded(a, b, "mobile")
  PROVE  WeakRules(b.rule, DaemonInit)
<1>1. a.rule[<<"mobile", "any6">>] \in Nat
  BY AnyNames, Tables, RulesAreNat
<1>2. b.rule[<<"mobile", "any4">>] > 0 /\ b.rule[<<"mobile", "any6">>] > 0
  BY <1>1 DEF RulesAdded
<1>. QED  BY <1>2, InitSound DEF WeakRules

LEMMA KilledStep ==
  ASSUME Inv, Killed
  PROVE  Inv'
<1>1. /\ crashes < MaxCrash /\ crashes' = crashes + 1
      /\ d' = DaemonInit /\ todo' = RulesAdd("mobile") /\ pc' = "run" /\ down' = 0
      /\ UNCHANGED <<link, has, k>>
  BY DEF Killed
<1>2. crashes' \in 0 .. MaxCrash /\ crashes' # 0
  BY <1>1, NodeAssumption DEF Inv, Frame
<1>3. k \in Kernel
  BY RunTypes DEF Inv, Work
<1>4. PICK z : /\ Run(k, RulesAdd("mobile"), z, d'.type # "home" /\ pc' # "end")
               /\ RulesAdded(k, z, "mobile")
  BY <1>3, Tables, BlockRulesAdd
<1>5. Good(z, d', crashes' = 0)
  BY <1>1, <1>2, <1>3, <1>4, StartWeak DEF Good
<1>6. Work'
  BY <1>1, <1>4, <1>5, InitSound DEF Work
<1>. QED  BY <1>1, <1>2, <1>6 DEF Inv, Frame

LEMMA CallStep ==
  ASSUME Inv, Call
  PROVE  /\ Inv'
         /\ d'.type # "home" /\ pc' # "end" => Lit(k, k')
<1>1. /\ todo # << >> /\ k' = Do(k, Head(todo)) /\ todo' = Tail(todo)
      /\ UNCHANGED <<link, has, d, pc, down, crashes>>
  BY DEF Call
<1>. DEFINE lit == d.type # "home" /\ pc # "end"
<1>2. PICK z : /\ Run(k, todo, z, lit)
               /\ pc \in {"run", "ipfix"} => Good(z, d, crashes = 0)
               /\ pc = "end" /\ crashes = 0 => Clean(z, d)
  BY DEF Inv, Work
<1>3. Run(k', todo', z, lit) /\ (lit => Lit(k, k'))
  BY <1>1, <1>2, RunStep
<1>4. lit = (d'.type # "home" /\ pc' # "end")
  BY <1>1
<1>5. pc # "ipfix" /\ Sound(d)
  BY <1>1 DEF Inv, Work
<1>. HIDE DEF lit
<1>6. Work'
  BY <1>1, <1>2, <1>3, <1>4, <1>5 DEF Work
<1>. QED  BY <1>1, <1>3, <1>4, <1>6 DEF Inv, Frame

LEMMA InitInv ==
  ASSUME Init
  PROVE  Inv
<1>1. /\ link = [i \in Ifindex |-> "gone"] /\ has = {}
      /\ d = DaemonInit /\ k = KernelInit /\ todo = RulesAdd("mobile")
      /\ pc = "run" /\ down = 0 /\ crashes = 0
  BY DEF Init
<1>2. KernelInit \in Kernel
  BY DEF KernelInit, Kernel
<1>3. PICK z : /\ Run(KernelInit, RulesAdd("mobile"), z, d.type # "home" /\ pc # "end")
               /\ RulesAdded(KernelInit, z, "mobile")
  BY <1>2, Tables, BlockRulesAdd
<1>4. Good(z, DaemonInit, crashes = 0)
  <2>1. WeakRules(z.rule, DaemonInit)
    BY <1>2, <1>3, StartWeak
  <2>2. \A t \in RuleTable, s \in Src : KernelInit.rule[<<t, s>>] = 0
    BY DEF KernelInit
  <2>3. z.rule[<<"mobile", "any4">>] = 1 /\ z.rule[<<"mobile", "any6">>] = 1
    BY <1>3, <2>2, Tables, AnyNames DEF RulesAdded
  <2>4. \A t \in RuleTable, s \in Src :
          t # "mobile" \/ s \notin {"any4", "any6"} => z.rule[<<t, s>>] = 0
    BY <1>3, <2>2 DEF RulesAdded
  <2>5. DaemonInit.type = "home"
    BY InitSound
  <2>6. StrictRules(z.rule, DaemonInit)
    <3>1. \A c \in CoaV4 \union CoaV6 : z.rule[<<"main", c>>] = 0
      BY <2>4, CoaNames, Tables
    <3>. QED  BY <2>3, <2>4, <2>5, <3>1 DEF StrictRules
  <2>7. StrictRoutes(z.route, DaemonInit)
    <3>1. z.route = [x \in RouteTable \X Family |-> None]
      BY <1>3 DEF RulesAdded, RuleOnly, KernelInit
    <3>2. Using(DaemonInit) = None
      BY <2>5 DEF Using
    <3>. QED  BY <3>1, <3>2, Tables DEF StrictRoutes
  <2>8. StrictEncap(z, DaemonInit)
    BY <1>3, <2>5 DEF RulesAdded, RuleOnly, KernelInit, StrictEncap
  <2>. QED  BY <2>1, <2>6, <2>7, <2>8 DEF Good
<1>5. Work
  BY <1>1, <1>3, <1>4, InitSound DEF Work
<1>6. Frame
  BY <1>1, NodeAssumption DEF Frame
<1>. QED  BY <1>5, <1>6 DEF Inv

\* Every action but a call leaves the kernel alone.
LEMMA NextInv ==
  ASSUME Inv, [Next]_vars
  PROVE  Inv' /\ (k' = k \/ Call)
<1>1. CASE UNCHANGED vars
  BY <1>1 DEF vars, Inv, Frame, Work
<1>2. ASSUME NEW i \in Ifindex, NEW f \in Flags,
             WlanChanged(i, f) \/ GprsChanged(i, f) \/ LinkIgnored(i, f) \/ LinkOverrun(i, f)
      PROVE  Inv' /\ k' = k
  <2>1. Inv'
    BY <1>2, WlanStep, GprsStep, IgnoredStep
  <2>2. k' = k
    BY <1>2 DEF WlanChanged, GprsChanged, LinkIgnored, LinkOverrun, Nothing, Overrun
  <2>. QED  BY <2>1, <2>2
<1>3. ASSUME NEW i \in Ifindex, LinkAdded(i) \/ DelLink(i) \/ CmdHandoff(i)
      PROVE  Inv' /\ k' = k
  <2>1. Inv'
    BY <1>3, AddedStep, DelLinkStep, CmdHandoffStep
  <2>2. k' = k
    BY <1>3 DEF LinkAdded, DelLink, CmdHandoff
  <2>. QED  BY <2>1, <2>2
<1>4. ASSUME NEW x \in Reach, \/ NewAddrV6(x[1], x[2]) \/ NewAddrV4(x[1], x[2])
                              \/ AddrOverrun(x[1], x[2]) \/ DelAddr(x[1], x[2])
      PROVE  Inv' /\ k' = k
  <2>1. Inv'
    BY <1>4, NewAddrV6Step, NewAddrV4Step, AddrOverrunStep, DelAddrStep
  <2>2. k' = k
    BY <1>4 DEF NewAddrV6, NewAddrV4, AddrOverrun, DelAddr, Nothing, Overrun
  <2>. QED  BY <2>1, <2>2
<1>5. CASE ForeignAddr
  BY <1>5, ForeignStep DEF ForeignAddr, Nothing, Overrun
<1>6. CASE Answered
  BY <1>6, AnsweredStep DEF Answered
<1>7. ASSUME NEW on \in BOOLEAN, CmdAuto(on)
      PROVE  Inv' /\ k' = k
  BY <1>7, AutoStep DEF CmdAuto
<1>8. CASE bu_worker
  BY <1>8, BuStep DEF bu_worker
<1>9. CASE nat_probe_worker
  BY <1>9, ProbeStep DEF nat_probe_worker
<1>10. CASE Exit
  BY <1>10, ExitStep DEF Exit
<1>11. CASE Killed
  BY <1>11, KilledStep DEF Killed
<1>12. CASE Call
  BY <1>12, CallStep
<1>13. CASE Stopped
  BY <1>13, <1>1 DEF Stopped
<1>. QED  BY <1>1, <1>2, <1>3, <1>4, <1>5, <1>6, <1>7, <1>8, <1>9, <1>10, <1>11, <1>12,
             <1>13 DEF Next

\* The invariant, of which the theorems below are consequences.
THEOREM DaemonInv == Spec => []Inv
<1>1. Init => Inv
  BY InitInv
<1>2. Inv /\ [Next]_vars => Inv'
  BY NextInv
<1>. QED  BY <1>1, <1>2, PTL DEF Spec

-------------------------------------------------------------------------------
(* The properties. *)

LEMMA SettledIs ==
  ASSUME Inv, Settled
  PROVE  Sound(d) /\ Good(k, d, TRUE) /\ InUse = Using(d)
<1>1. Good(k, d, crashes = 0) /\ Sound(d) /\ crashes = 0
  BY Between2 DEF Inv, Settled
<1>2. Good(k, d, TRUE)
  BY <1>1 DEF Good
<1>. QED  BY <1>1, <1>2 DEF InUse, Using

\* Every variable of the daemon, every kernel table and every call under way
\* stays in its range.
THEOREM NodeTypeCorrect == Spec => []TypeOK
<1>1. \A c \in Calls : c[1] \in CallName
  <2>1. \A c \in {"rule_add"} \X RuleTable \X Src : c[1] = "rule_add"
    OBVIOUS
  <2>2. \A c \in {"rule_del"} \X RuleTable \X Name : c[1] = "rule_del"
    OBVIOUS
  <2>3. \A c \in {"route_add"} \X RouteTable \X Family \X Coa : c[1] = "route_add"
    OBVIOUS
  <2>4. \A c \in {"route_del"} \X RouteTable \X Family \X Name : c[1] = "route_del"
    OBVIOUS
  <2>5. /\ \A c \in {"encap"} \X CoaV4 : c[1] = "encap"
        /\ \A c \in {"decap"} \X Name : c[1] = "decap"
        /\ \A c \in {"dstopt_add"} \X CoaV6 : c[1] = "dstopt_add"
        /\ \A c \in {"bu"} \X (Coa \union {HoaV6}) : c[1] = "bu"
    OBVIOUS
  <2>6. /\ \A c \in {"probe"} \X Ifindex \X CoaV4 : c[1] = "probe"
        /\ <<"dstopt_del">>[1] = "dstopt_del" /\ <<"tnl_cleanup">>[1] = "tnl_cleanup"
    OBVIOUS
  <2>. QED  BY <2>1, <2>2, <2>3, <2>4, <2>5, <2>6 DEF Calls, CallName
<1>2. Inv => TypeOK
  <2>. SUFFICES ASSUME Inv
                PROVE  TypeOK
    OBVIOUS
  <2>1. k \in Kernel /\ todo \in Seq(Calls)
    BY RunTypes DEF Inv, Work
  <2>2. \A n \in DOMAIN todo : todo[n][1] \in CallName
    BY <1>1, <2>1
  <2>. QED  BY <2>1, <2>2 DEF Inv, Frame, Work, Sound, TypeOK
<1>. QED  BY <1>2, DaemonInv, PTL

\* Whatever sequence of moves led here, the traffic goes into the tunnel of the
\* care-of address in use, and nothing is left of the temporary table.
THEOREM TrafficIsRight == Spec => []TrafficFollowsBinding
<1>1. Inv => TrafficFollowsBinding
  <2>. SUFFICES ASSUME Inv, Settled, NEW f \in Family
                PROVE  /\ Path(k, f) = InUse /\ k.route[<<"mobile", f>>] = InUse
                       /\ k.rule[<<"tmp", AnySrc[f]>>] = 0 /\ k.route[<<"tmp", f>>] = None
    BY DEF TrafficFollowsBinding
  <2>1. StrictRules(k.rule, d) /\ StrictRoutes(k.route, d) /\ InUse = Using(d)
    BY SettledIs DEF Good
  <2>2. AnySrc[f] \in {"any4", "any6"} /\ "any4" \in Src /\ "any6" \in Src
    BY AnySrcIs, AnyNames DEF Family
  <2>3. k.rule[<<"tmp", AnySrc[f]>>] = 0 /\ k.rule[<<"mobile", AnySrc[f]>>] = 1
    BY <2>1, <2>2, Tables DEF StrictRules
  <2>. QED  BY <2>1, <2>3 DEF StrictRoutes, Path
<1>. QED  BY <1>1, DaemonInv, PTL

\* UDP encapsulation is on for the IPv4 care-of address in use and for no
\* other, the destination option for the IPv6 one.
THEOREM EncapIsRight == Spec => []EncapFollowsBinding
<1>1. Inv => EncapFollowsBinding
  BY SettledIs DEF EncapFollowsBinding, Good, StrictEncap
<1>. QED  BY <1>1, DaemonInv, PTL

\* What the home agent was told last is what the node uses.
THEOREM ToldTheTruth == Spec => []Announced
<1>1. Inv => Announced
  BY SettledIs DEF Announced, Good, StrictEncap
<1>. QED  BY <1>1, DaemonInv, PTL

\* The care-of address in use has its rule for the main table, even after the
\* daemon was killed and started again.
THEOREM TunnelsDoNotLoop == Spec => []NoLoop
<1>1. Inv => NoLoop
  <2>. SUFFICES ASSUME Inv, pc \in {"run", "ipfix"}, todo = << >>, d.type # "home"
                PROVE  k.rule[<<"main", InUse>>] > 0
    BY DEF NoLoop
  <2>1. Sound(d) /\ WeakRules(k.rule, d)
    BY Between2 DEF Inv, Good
  <2>. QED  BY <2>1 DEF Sound, Daemon, WeakRules, InUse
<1>. QED  BY <1>1, DaemonInv, PTL

\* No rule of an IPv6 care-of address outlives its use, and none is doubled.
THEOREM V6RulesAreExact == Spec => []RulesV6Exact
<1>1. Inv => RulesV6Exact
  <2>. SUFFICES ASSUME Inv, Settled, NEW c \in CoaV6
                PROVE  k.rule[<<"main", c>>] = IF c = InUse THEN 1 ELSE 0
    BY DEF RulesV6Exact
  <2>1. Sound(d) /\ StrictRules(k.rule, d) /\ InUse = Using(d)
    BY SettledIs DEF Good
  <2>2. c = InUse <=> d.type = "v6" /\ c = d.coa6
    BY <2>1, Apart, CoaNames DEF Sound, Daemon, Using
  <2>. QED  BY <2>1, <2>2 DEF StrictRules
<1>. QED  BY <1>1, DaemonInv, PTL

\* After mn_cleanup nothing is left but rules of IPv4 care-of addresses the
\* node went home from.
THEOREM ExitLeavesLittle == Spec => []ExitClean
<1>1. Inv => ExitClean
  <2>. SUFFICES ASSUME Inv, pc = "end", todo = << >>, crashes = 0
                PROVE  Clean(k, d)
    BY DEF ExitClean, Clean
  <2>1. PICK z : Run(k, << >>, z, d.type # "home" /\ pc # "end") /\ Clean(z, d)
    BY DEF Inv, Work
  <2>2. z = k
    BY <2>1, RunEnd
  <2>. QED  BY <2>1, <2>2
<1>. QED  BY <1>1, DaemonInv, PTL

\* Make before break: no call of a handler leaves the traffic of a node that
\* moves from tunnel to tunnel without a tunnel, killed daemons included.
THEOREM MoveIsNeverDark == Spec => NeverDark
<1>. DEFINE P == \A f \in Family :
                   Path(k, f) # None /\ d'.type # "home" /\ pc' # "end" => Path(k', f) # None
<1>1. Inv /\ [Next]_vars => [P]_vars
  <2>. SUFFICES ASSUME Inv, [Next]_vars
                PROVE  P
    OBVIOUS
  <2>1. CASE k' = k
    BY <2>1 DEF Path
  <2>2. CASE Call
    BY <2>2, CallStep DEF Lit
  <2>. QED  BY <2>1, <2>2, NextInv
<1>. QED  BY <1>1, DaemonInv, PTL DEF Spec, NeverDark

-------------------------------------------------------------------------------
(* Falling back to the other interface.                                    *)
(*                                                                         *)
(* do_handoff does nothing for an address that is in use already.  That    *)
(* the other interface's is not follows from where addresses come from:    *)
(* each is one that its interface had, so that two interfaces that share   *)
(* none in Reach share none in the table.                                  *)

\* The valid addresses of a slot in use are some its interface had, or home.
SlotPlaced(x) ==
  x.ifindex # 0 =>
    /\ x.ok6 => x.coa6 = HoaV6 \/ <<x.ifindex, x.coa6>> \in Reach
    /\ x.ok4 => <<x.ifindex, x.coa4>> \in Reach

\* So is the address in use; and no interface has two slots.
Placed(e) ==
  /\ \A s, t \in Slots :
       e.ifaces[s].ifindex = e.ifaces[t].ifindex /\ e.ifaces[s].ifindex # 0 => s = t
  /\ \A s \in Slots : SlotPlaced(e.ifaces[s])
  /\ e.type = "v6" => <<e.current, e.coa6>> \in Reach
  /\ e.type = "v4" => <<e.current, e.coa4>> \in Reach

Sane(e) == Sound(e) /\ Placed(e)

\* An interface without a slot is in none.
LEMMA SlotAbsent ==
  ASSUME NEW e, NEW i, SlotOf(e, i) = NIF
  PROVE  \A t \in Slots : e.ifaces[t].ifindex # i
BY SlotPresent

\* The slot found is the only one.
LEMMA SlotAlone ==
  ASSUME NEW e, Placed(e), NEW i, i # 0, SlotOf(e, i) # NIF
  PROVE  \A t \in Slots \ {SlotOf(e, i)} : e.ifaces[t].ifindex # i
BY SlotFound DEF Placed

\* Assignments to the daemon's state that leave it sane.
LEMMA SaneSlot ==
  ASSUME NEW e, Sane(e), NEW s \in Slots, NEW x, SlotSound(x), SlotPlaced(x),
         x.ifindex # 0 => \A t \in Slots \ {s} : e.ifaces[t].ifindex # x.ifindex
  PROVE  LET n == [e EXCEPT !.ifaces[s] = x]
         IN  Sane(n) /\ SameBinding(e, n) /\ n.preferred = e.preferred
             /\ n.current = e.current /\ n.auto = e.auto
             /\ n.ifaces = [e.ifaces EXCEPT ![s] = x]
<1>. DEFINE n == [e EXCEPT !.ifaces[s] = x]
<1>1. /\ Sound(n) /\ SameBinding(e, n)
      /\ n.preferred = e.preferred /\ n.current = e.current /\ n.auto = e.auto
      /\ n.ifaces = [e.ifaces EXCEPT ![s] = x]
  BY SoundSlot DEF Sane
<1>. HIDE DEF n
<1>2. e.ifaces \in [Slots -> Iface]
  BY DEF Sane, Sound, Daemon
<1>3. \A t \in Slots : n.ifaces[t] = IF t = s THEN x ELSE e.ifaces[t]
  BY <1>1, <1>2
<1>4. \A t, u \in Slots :
        n.ifaces[t].ifindex = n.ifaces[u].ifindex /\ n.ifaces[t].ifindex # 0 => t = u
  BY <1>3 DEF Sane, Placed
<1>5. \A t \in Slots : SlotPlaced(n.ifaces[t])
  BY <1>3 DEF Sane, Placed
<1>6. Placed(n)
  BY <1>1, <1>4, <1>5 DEF Sane, Placed, SameBinding
<1>7. Sane(n)
  BY <1>1, <1>6 DEF Sane
<1>. QED  BY <1>1, <1>7 DEF n

LEMMA SaneSame ==
  ASSUME NEW e, Sane(e), NEW n, Sound(n), SameBinding(e, n),
         n.ifaces = e.ifaces, n.current = e.current
  PROVE  Sane(n)
BY DEF Sane, Placed, SameBinding

LEMMA SanePreferred ==
  ASSUME NEW e, Sane(e), NEW i \in Ifindex \union {0}
  PROVE  LET n == [e EXCEPT !.preferred = i]
         IN  Sane(n) /\ SameBinding(e, n) /\ n.ifaces = e.ifaces
             /\ n.preferred = i /\ n.current = e.current
<1>. DEFINE n == [e EXCEPT !.preferred = i]
<1>1. /\ Sound(n) /\ SameBinding(e, n) /\ n.ifaces = e.ifaces
      /\ n.preferred = i /\ n.current = e.current
  BY SoundPreferred DEF Sane
<1>. HIDE DEF n
<1>2. Sane(n)
  BY <1>1, SaneSame
<1>. QED  BY <1>1, <1>2 DEF n

LEMMA SaneMove ==
  ASSUME NEW e, Sane(e), NEW i \in Ifindex \union {0}, NEW t \in {"home", "v4", "v6"},
         NEW x \in CoaV6 \union {HoaV6, None}, NEW y \in CoaV4 \union {HoaV4, None},
         t = "v6" => x \in CoaV6 /\ <<i, x>> \in Reach,
         t = "v4" => y \in CoaV4 /\ <<i, y>> \in Reach
  PROVE  Sane(Moved(e, i, t, x, y)) /\ Moved(e, i, t, x, y).current = i
<1>. DEFINE n == Moved(e, i, t, x, y)
<1>0. Sound(e)
  BY DEF Sane
<1>1. Sound(n) /\ n.type = t /\ n.coa6 = x /\ n.coa4 = y
  BY <1>0, SoundMove
<1>2. n.ifaces = e.ifaces /\ n.current = i
  BY DEF Moved, Sane, Sound, Daemon
<1>. HIDE DEF n
<1>3. Placed(n)
  BY <1>1, <1>2 DEF Sane, Placed
<1>4. Sane(n) /\ n.current = i
  BY <1>1, <1>2, <1>3 DEF Sane
<1>. QED  BY <1>4 DEF n

\* do_handoff(coa, i): the interface had the address.
LEMMA SaneHandoff ==
  ASSUME NEW e, Sane(e), NEW i \in Ifindex \union {0}, NEW f \in Family, NEW coa,
         f = "v6" => coa = HoaV6 \/ (coa \in CoaV6 /\ <<i, coa>> \in Reach),
         f = "v4" => coa \in CoaV4 /\ <<i, coa>> \in Reach
  PROVE  LET q == do_handoff(e, f, coa, i)
         IN  /\ Sane(q.d)
             /\ SlotOf(e, i) # NIF /\ i = e.preferred /\ ~Unchanged(e, f, coa)
                => q.d.current = i
<1>. DEFINE s == SlotOf(e, i)
            x == IF f = "v6" THEN [e.ifaces[s] EXCEPT !.coa6 = coa]
                             ELSE [e.ifaces[s] EXCEPT !.coa4 = coa]
            r == IF s = NIF THEN e ELSE [e EXCEPT !.ifaces[s] = x]
<1>1. Sane(r) /\ SameBinding(e, r)
  <2>1. CASE s = NIF
    BY <2>1 DEF SameBinding
  <2>2. CASE s # NIF
    <3>1. /\ s \in Slots /\ SlotSound(e.ifaces[s]) /\ SlotPlaced(e.ifaces[s])
          /\ e.ifaces[s].ifindex = i
      BY <2>2, SlotFound DEF Sane, Sound, Placed
    <3>2. SlotSound(x) /\ SlotPlaced(x) /\ x.ifindex = i
      <4>1. CASE f = "v6"
        <5>1. coa \in CoaV6 \union {HoaV6, None} /\ coa # None
          BY <4>1, Apart DEF Coa
        <5>. QED  BY <3>1, <4>1, <5>1 DEF SlotSound, SlotPlaced, Iface
      <4>2. CASE f # "v6"
        <5>1. coa \in CoaV4 \union {None} /\ coa # None /\ <<i, coa>> \in Reach
          BY <4>2, Apart DEF Coa, Family
        <5>. QED  BY <3>1, <4>2, <5>1 DEF SlotSound, SlotPlaced, Iface
      <4>. QED  BY <4>1, <4>2
    <3>3. x.ifindex # 0 => \A t \in Slots \ {s} : e.ifaces[t].ifindex # x.ifindex
      <4>. HIDE DEF x
      <4>. QED  BY <2>2, <3>2, SlotAlone DEF Sane
    <3>. HIDE DEF s, x
    <3>. QED  BY <2>2, <3>1, <3>2, <3>3, SaneSlot
  <2>. QED  BY <2>1, <2>2
<1>2. do_handoff(e, f, coa, i) =
        IF s = NIF \/ i # e.preferred \/ Unchanged(e, f, coa) THEN Result(r, << >>)
        ELSE IF f = "v4" THEN MoveV4(r, coa, i)
        ELSE IF coa = HoaV6 THEN MoveHome(r, i) ELSE MoveV6(r, coa, i)
  BY DEF do_handoff
<1>. DEFINE still == s = NIF \/ i # e.preferred \/ Unchanged(e, f, coa)
<1>. HIDE DEF s, r
<1>3. /\ r \in Daemon
      /\ r.coa6 \in CoaV6 \union {HoaV6, None} /\ r.coa4 \in CoaV4 \union {HoaV4, None}
  BY <1>1 DEF Sane, Sound, Daemon
<1>4. CASE still
  <2>1. do_handoff(e, f, coa, i).d = r
    BY <1>2, <1>4 DEF Result
  <2>. QED  BY <1>1, <1>4, <2>1 DEF s
<1>5. CASE ~still /\ f = "v4"
  <2>1. do_handoff(e, f, coa, i).d = [r EXCEPT !.current = i, !.type = "v4", !.coa4 = coa]
    BY <1>2, <1>5 DEF MoveV4, Result
  <2>2. do_handoff(e, f, coa, i).d = Moved(r, i, "v4", r.coa6, coa)
    BY <1>3, <2>1 DEF Daemon, Moved
  <2>3. "v4" \in {"home", "v4", "v6"} /\ "v4" # "v6" /\ coa \in CoaV4 /\ <<i, coa>> \in Reach
    BY <1>5
  <2>. DEFINE x6 == r.coa6
  <2>4. x6 \in CoaV6 \union {HoaV6, None} /\ coa \in CoaV4 \union {HoaV4, None}
    BY <1>3, <2>3
  <2>. HIDE DEF x6
  <2>5. /\ Sane(Moved(r, i, "v4", x6, coa))
        /\ Moved(r, i, "v4", x6, coa).current = i
    BY <1>1, <2>3, <2>4, SaneMove
  <2>. QED  BY <2>2, <2>5 DEF x6
<1>6. CASE ~still /\ f # "v4" /\ coa = HoaV6
  <2>1. do_handoff(e, f, coa, i).d = Moved(r, i, "home", HoaV6, HoaV4)
    BY <1>2, <1>6 DEF MoveHome, Result, Moved
  <2>2. "home" \in {"home", "v4", "v6"} /\ "home" # "v4" /\ "home" # "v6"
    OBVIOUS
  <2>3. /\ Sane(Moved(r, i, "home", HoaV6, HoaV4))
        /\ Moved(r, i, "home", HoaV6, HoaV4).current = i
    BY <1>1, <2>2, SaneMove
  <2>. QED  BY <2>1, <2>3
<1>7. CASE ~still /\ f # "v4" /\ coa # HoaV6
  <2>1. f = "v6" /\ coa \in CoaV6 /\ <<i, coa>> \in Reach
    BY <1>7 DEF Family
  <2>2. do_handoff(e, f, coa, i).d = [r EXCEPT !.current = i, !.type = "v6", !.coa6 = coa]
    BY <1>2, <1>7 DEF MoveV6, Result
  <2>3. do_handoff(e, f, coa, i).d = Moved(r, i, "v6", coa, r.coa4)
    BY <1>3, <2>2 DEF Daemon, Moved
  <2>. QED  BY <1>1, <1>3, <2>1, <2>3, SaneMove
<1>. QED  BY <1>4, <1>5, <1>6, <1>7

\* What a slot in use offers do_handoff.
LEMMA SlotOffers ==
  ASSUME NEW e, Sane(e), NEW s \in Slots, e.ifaces[s].ifindex # 0
  PROVE  LET x == e.ifaces[s]
         IN  /\ x.ifindex \in Ifindex
             /\ x.ok6 => x.coa6 = HoaV6 \/ (x.coa6 \in CoaV6 /\ <<x.ifindex, x.coa6>> \in Reach)
             /\ x.ok4 => x.coa4 \in CoaV4 /\ <<x.ifindex, x.coa4>> \in Reach
BY DEF Sane, Sound, SlotSound, Iface, Placed, SlotPlaced

LEMMA SaneUse ==
  ASSUME NEW e, Sane(e), NEW s \in Slots, e.ifaces[s].ifindex # 0,
         NEW none, Sane(none.d)
  PROVE  Sane(UseSlot(e, s, none).d)
<1>. DEFINE x == e.ifaces[s]
            p == [e EXCEPT !.preferred = x.ifindex]
<1>1. /\ x.ifindex \in Ifindex
      /\ x.ok6 => x.coa6 = HoaV6 \/ (x.coa6 \in CoaV6 /\ <<x.ifindex, x.coa6>> \in Reach)
      /\ x.ok4 => x.coa4 \in CoaV4 /\ <<x.ifindex, x.coa4>> \in Reach
  BY SlotOffers
<1>2. UseSlot(e, s, none) =
        IF x.ok6 THEN do_handoff(p, "v6", x.coa6, x.ifindex)
        ELSE IF x.ok4 THEN do_handoff(p, "v4", x.coa4, x.ifindex)
        ELSE none
  BY DEF UseSlot
<1>. DEFINE i == x.ifindex
<1>3. Sane(p)
  <2>1. i \in Ifindex \union {0} /\ p = [e EXCEPT !.preferred = i]
    BY <1>1
  <2>. HIDE DEF i, p
  <2>. QED  BY <2>1, SanePreferred
<1>4. "v4" \in Family /\ "v6" \in Family /\ "v4" # "v6"
  BY DEF Family
<1>. HIDE DEF p
<1>5. x.ok6 => Sane(do_handoff(p, "v6", x.coa6, x.ifindex).d)
  BY <1>1, <1>3, <1>4, SaneHandoff
<1>6. x.ok4 => Sane(do_handoff(p, "v4", x.coa4, x.ifindex).d)
  BY <1>1, <1>3, <1>4, SaneHandoff
<1>. QED  BY <1>2, <1>5, <1>6

LEMMA SaneDummy ==
  ASSUME NEW e, Sane(e)
  PROVE  Sane(UseDummy(e).d)
<1>. DEFINE p == [e EXCEPT !.preferred = 0]
<1>1. Sane(p)
  BY SanePreferred
<1>. HIDE DEF p
<1>2. "v6" \in Family /\ "v4" # "v6"
  BY DEF Family
<1>. QED  BY <1>1, <1>2, SaneHandoff DEF UseDummy, p

LEMMA SaneFallBack ==
  ASSUME NEW e, Sane(e), NEW i
  PROVE  Sane(FallBack(e, i).d)
<1>. DEFINE up == {s \in Slots : /\ e.ifaces[s].ifindex \notin {0, i}
                                 /\ e.ifaces[s].flags = "up"}
<1>1. Result(e, << >>).d = e
  BY DEF Result
<1>2. CASE e.auto /\ up # {}
  <2>1. up \in SUBSET Nat
    BY DEF Slots
  <2>2. Min(up) \in up
    BY <1>2, <2>1, MinSlot
  <2>3. Min(up) \in Slots /\ e.ifaces[Min(up)].ifindex # 0
    BY <2>2
  <2>4. FallBack(e, i) = UseSlot(e, Min(up), Result(e, << >>))
    BY <1>2 DEF FallBack
  <2>. HIDE DEF up
  <2>. QED  BY <1>1, <2>3, <2>4, SaneUse
<1>3. CASE ~(e.auto /\ up # {})
  <2>1. FallBack(e, i) = Result(e, << >>)
    BY <1>3 DEF FallBack
  <2>. QED  BY <1>1, <2>1
<1>. QED  BY <1>2, <1>3

LEMMA SaneFirst ==
  ASSUME NEW e, Sane(e), NEW i
  PROVE  Sane(FirstOnly(e, i).d)
<1>1. Result(e, << >>).d = e
  BY DEF Result
<1>2. CASE e.auto /\ e.ifaces[0].ifindex \notin {0, i}
  <2>1. 0 \in Slots
    BY NodeAssumption DEF Slots
  <2>2. FirstOnly(e, i) = UseSlot(e, 0, UseDummy(e))
    BY <1>2 DEF FirstOnly
  <2>. QED  BY <1>2, <2>1, <2>2, SaneDummy, SaneUse
<1>3. CASE ~(e.auto /\ e.ifaces[0].ifindex \notin {0, i})
  <2>1. FirstOnly(e, i) = Result(e, << >>)
    BY <1>3 DEF FirstOnly
  <2>. QED  BY <1>1, <2>1
<1>. QED  BY <1>2, <1>3

LEMMA SaneIfPreferred ==
  ASSUME NEW e, Sane(e), NEW i \in Ifindex, NEW f \in Family, NEW coa,
         f = "v6" => coa = HoaV6 \/ (coa \in CoaV6 /\ <<i, coa>> \in Reach),
         f = "v4" => coa \in CoaV4 /\ <<i, coa>> \in Reach
  PROVE  Sane(IfPreferred(e, f, coa, i).d)
<1>. DEFINE p == [e EXCEPT !.preferred = i]
<1>1. Sane(p)
  BY SanePreferred
<1>. HIDE DEF p
<1>2. Sane(do_handoff(p, f, coa, i).d)
  BY <1>1, SaneHandoff
<1>3. IfPreferred(e, f, coa, i) =
        IF e.preferred \in {0, i} THEN do_handoff(p, f, coa, i) ELSE Result(e, << >>)
  BY DEF IfPreferred, p
<1>. QED  BY <1>2, <1>3 DEF Result

\* Every step leaves the daemon's state sane.
LEMMA SaneFlags ==
  ASSUME Sane(d), NEW i \in Ifindex, NEW f \in Flags, Known(i), SlotFlags(i, f)
  PROVE  Sane(d')
<1>. DEFINE s == SlotOf(d, i)
            x == [d.ifaces[s] EXCEPT !.flags = f]
<1>1. /\ s \in Slots /\ SlotSound(d.ifaces[s]) /\ SlotPlaced(d.ifaces[s])
      /\ d.ifaces[s].ifindex = i
  BY SlotFound DEF Known, Sane, Sound, Placed
<1>2. SlotSound(x) /\ SlotPlaced(x) /\ x.ifindex = i
  BY <1>1 DEF SlotSound, SlotPlaced, Iface
<1>3. \A t \in Slots \ {s} : d.ifaces[t].ifindex # i
  BY IfindexAssumption, SlotAlone DEF Sane, Known
<1>4. d' = [d EXCEPT !.ifaces[s] = x]
  BY DEF SlotFlags
<1>. HIDE DEF s, x
<1>. QED  BY <1>1, <1>2, <1>3, <1>4, SaneSlot

LEMMA SaneAdded ==
  ASSUME Sane(d), NEW i \in Ifindex, LinkAdded(i)
  PROVE  Sane(d')
<1>. DEFINE x == [Empty EXCEPT !.ifindex = i, !.flags = "up", !.ok6 = FALSE, !.ok4 = FALSE]
            s == SlotOf(d, 0)
<1>1. SlotSound(x) /\ x.ifindex = i /\ x.ok6 = FALSE /\ x.ok4 = FALSE
  BY EmptySound DEF SlotSound, Iface, Flags
<1>2. s \in Slots
  BY SlotFound DEF LinkAdded, Room
<1>3. \A t \in Slots : d.ifaces[t].ifindex # i
  BY SlotAbsent DEF LinkAdded, Known
<1>4. d' = [d EXCEPT !.ifaces[s] = x]
  BY DEF LinkAdded
<1>. HIDE DEF s, x
<1>5. SlotPlaced(x)
  BY <1>1 DEF SlotPlaced
<1>. QED  BY <1>1, <1>2, <1>3, <1>4, <1>5, SaneSlot

\* A slot of the decision's table loses an address.
LEMMA SaneCleared ==
  ASSUME NEW e, Sane(e), NEW s \in Slots, NEW x, SlotSound(x),
         x.ifindex = e.ifaces[s].ifindex,
         x.ok6 => e.ifaces[s].ok6 /\ x.coa6 = e.ifaces[s].coa6,
         x.ok4 => e.ifaces[s].ok4 /\ x.coa4 = e.ifaces[s].coa4
  PROVE  Sane([e EXCEPT !.ifaces[s] = x])
<1>1. SlotPlaced(x)
  BY DEF Sane, Placed, SlotPlaced
<1>2. x.ifindex # 0 => \A t \in Slots \ {s} : e.ifaces[t].ifindex # x.ifindex
  BY DEF Sane, Placed
<1>. QED  BY <1>1, <1>2, SaneSlot

LEMMA SaneInvalid ==
  ASSUME NEW e, Sane(e), NEW i
  PROVE  Sane(Invalid(e, i))
<1>. DEFINE s == SlotOf(e, i)
            x == [e.ifaces[s] EXCEPT !.ok6 = FALSE, !.ok4 = FALSE]
            n == [e EXCEPT !.ifaces[s] = x]
<1>1. Invalid(e, i) = n
  BY DEF Invalid
<1>2. CASE s # NIF
  <2>1. s \in Slots /\ SlotSound(e.ifaces[s])
    BY <1>2, SlotFound DEF Sane, Sound
  <2>2. SlotSound(x) /\ x.ifindex = e.ifaces[s].ifindex /\ x.ok6 = FALSE /\ x.ok4 = FALSE
    BY <2>1 DEF SlotSound, Iface
  <2>. HIDE DEF s, x
  <2>. QED  BY <1>1, <2>1, <2>2, SaneCleared
<1>3. CASE s = NIF
  <2>1. s \notin Slots
    BY <1>3, NodeAssumption DEF Slots
  <2>2. e.ifaces \in [Slots -> Iface] /\ e \in Daemon
    BY DEF Sane, Sound, Daemon
  <2>. HIDE DEF s, x
  <2>3. [e.ifaces EXCEPT ![s] = x] = e.ifaces
    BY <2>1, <2>2
  <2>4. n = [e EXCEPT !.ifaces = e.ifaces]
    BY <2>3
  <2>5. n = e
    BY <2>2, <2>4 DEF Daemon
  <2>. QED  BY <1>1, <2>5
<1>. QED  BY <1>2, <1>3

LEMMA SaneDelLink ==
  ASSUME Sane(d), NEW i \in Ifindex, DelLink(i)
  PROVE  Sane(d')
<1>. DEFINE other == {s \in Slots : d.ifaces[s].ifindex \notin {0, i}}
            seen  == Known(i) /\ \A s \in other : SlotOf(d, i) < s
            m     == Min(other)
            j     == d.ifaces[m].ifindex
            p     == [d EXCEPT !.preferred = j]
            r     == IF other = {} THEN UseDummy(d)
                     ELSE UseSlot(d, m, do_handoff(p, "v6", HoaV6, j))
<1>1. Act(IF seen THEN [r EXCEPT !.d.ifaces[SlotOf(d, i)] = Empty] ELSE r)
  BY DEF DelLink
<1>2. Sane(r.d)
  <2>1. CASE other = {}
    BY <2>1, SaneDummy
  <2>2. CASE other # {}
    <3>1. other \in SUBSET Nat
      BY DEF Slots
    <3>2. m \in other
      BY <2>2, <3>1, MinSlot
    <3>3. m \in Slots /\ j # 0
      BY <3>2
    <3>. HIDE DEF other, m
    <3>4. j \in Ifindex \union {0}
      BY <3>3, SlotOffers
    <3>5. Sane(p)
      <4>. HIDE DEF j
      <4>. QED  BY <3>4, SanePreferred
    <3>6. Sane(do_handoff(p, "v6", HoaV6, j).d)
      <4>1. "v6" \in Family /\ "v6" # "v4"
        BY DEF Family
      <4>. HIDE DEF p, j
      <4>. QED  BY <3>4, <3>5, <4>1, SaneHandoff
    <3>7. r = UseSlot(d, m, do_handoff(p, "v6", HoaV6, j))
      BY <2>2
    <3>. HIDE DEF p
    <3>. QED  BY <3>3, <3>6, <3>7, SaneUse
  <2>. QED  BY <2>1, <2>2
<1>. HIDE DEF r
<1>3. CASE seen
  <2>1. SlotOf(d, i) \in Slots
    BY <1>3, SlotFound DEF Known
  <2>2. SlotPlaced(Empty) /\ Empty.ifindex = 0
    BY EmptySound DEF SlotPlaced
  <2>3. Sane([r.d EXCEPT !.ifaces[SlotOf(d, i)] = Empty])
    BY <1>2, <2>1, <2>2, EmptySound, SaneSlot
  <2>4. d' = [r EXCEPT !.d.ifaces[SlotOf(d, i)] = Empty].d
    BY <1>1, <1>3 DEF Act
  <2>. QED  BY <2>3, <2>4
<1>4. CASE ~seen
  <2>1. d' = r.d
    BY <1>1, <1>4 DEF Act
  <2>. QED  BY <1>2, <2>1
<1>. QED  BY <1>3, <1>4

LEMMA SaneNewV6 ==
  ASSUME Sane(d), NEW i, NEW a, NewAddrV6(i, a)
  PROVE  Sane(d')
<1>. DEFINE s == EventSlot(i)
            x == IF Known(i) THEN d.ifaces[s]
                 ELSE [Empty EXCEPT !.ifindex = i, !.flags = "up", !.ok4 = FALSE]
            y == [x EXCEPT !.ok6 = TRUE, !.coa6 = a]
            j == IF d.auto THEN i ELSE d.preferred
            e == [d EXCEPT !.ifaces[s] = y, !.preferred = j]
<1>1. /\ <<i, a>> \in Reach /\ a \notin CoaV4 /\ (Known(i) \/ Room)
      /\ IF x.flags # "up" THEN UNCHANGED <<d, todo>> ELSE Act(IfPreferred(e, "v6", a, i))
  BY DEF NewAddrV6, Configured
<1>2. i \in Ifindex /\ i # 0 /\ a \in Coa \union {HoaV6}
  BY <1>1, NodeAssumption, IfindexAssumption
<1>3. s \in Slots /\ a \in CoaV6 \union {HoaV6} /\ a # None
  BY <1>1, <1>2, EventSlotIs, Apart DEF Coa
<1>4. /\ SlotSound(y) /\ SlotPlaced(y) /\ y.ifindex = i
      /\ \A t \in Slots \ {s} : d.ifaces[t].ifindex # i
  <2>1. CASE Known(i)
    <3>1. x = d.ifaces[s] /\ s = SlotOf(d, i)
      BY <2>1 DEF EventSlot
    <3>2. /\ SlotSound(d.ifaces[s]) /\ SlotPlaced(d.ifaces[s])
          /\ d.ifaces[s].ifindex = i
      BY <1>3, <2>1, <3>1, SlotFound DEF Sane, Sound, Placed, Known
    <3>3. \A t \in Slots \ {s} : d.ifaces[t].ifindex # i
      BY <1>2, <2>1, <3>1, SlotAlone DEF Sane, Known
    <3>. HIDE DEF x
    <3>. QED  BY <1>1, <1>3, <3>1, <3>2, <3>3 DEF SlotSound, SlotPlaced, Iface
  <2>2. CASE ~Known(i)
    <3>1. x = [Empty EXCEPT !.ifindex = i, !.flags = "up", !.ok4 = FALSE]
      BY <2>2
    <3>2. \A t \in Slots : d.ifaces[t].ifindex # i
      BY <2>2, SlotAbsent DEF Known
    <3>3. Empty \in Iface
      BY EmptySound
    <3>. HIDE DEF x, s
    <3>4. /\ y \in Iface /\ y.ifindex = i /\ y.ok6 = TRUE /\ y.coa6 = a
          /\ y.ok4 = FALSE
      BY <1>2, <1>3, <3>1, <3>3 DEF Iface, Flags
    <3>. HIDE DEF y
    <3>. QED  BY <1>1, <1>3, <3>2, <3>4 DEF SlotSound, SlotPlaced
  <2>. QED  BY <2>1, <2>2
<1>5. j \in Ifindex \union {0}
  BY <1>2 DEF Sane, Sound, Daemon
<1>. HIDE DEF s, x, y, j
<1>6. Sane(e)
  <2>. DEFINE c == [d EXCEPT !.ifaces[s] = y]
  <2>1. Sane(c)
    BY <1>3, <1>4, SaneSlot
  <2>2. e = [c EXCEPT !.preferred = j]
    OBVIOUS
  <2>. HIDE DEF c, e
  <2>. QED  BY <1>5, <2>1, <2>2, SanePreferred
<1>. HIDE DEF e
<1>7. Sane(IfPreferred(e, "v6", a, i).d)
  <2>1. "v6" \in Family /\ "v6" # "v4"
    BY DEF Family
  <2>. QED  BY <1>1, <1>2, <1>3, <1>6, <2>1, SaneIfPreferred
<1>. QED  BY <1>1, <1>7 DEF Act

LEMMA SaneNewV4 ==
  ASSUME Sane(d), NEW i, NEW a, NewAddrV4(i, a)
  PROVE  Sane(d')
<1>. DEFINE s == EventSlot(i)
            x == IF Known(i) THEN d.ifaces[s]
                 ELSE [d.ifaces[s] EXCEPT !.ifindex = i, !.ok6 = FALSE]
            y == [x EXCEPT !.ok4 = TRUE, !.flags = "up", !.coa4 = a]
            j == IF d.preferred = 0 \/ (i \in Wlan /\ d.auto) THEN i ELSE d.preferred
            e == [d EXCEPT !.ifaces[s] = y, !.preferred = j]
            r == IF y.ok6 THEN IfPreferred(e, "v6", y.coa6, i) ELSE IfPreferred(e, "v4", a, i)
<1>1. /\ <<i, a>> \in Reach /\ a \in CoaV4 /\ (Known(i) \/ Room)
      /\ d' = [r EXCEPT !.todo = << <<"probe", i, a>> >> \o @].d
  BY DEF NewAddrV4, Configured, Act
<1>2. i \in Ifindex /\ i # 0
  BY <1>1, NodeAssumption, IfindexAssumption
<1>3. s \in Slots /\ a # None
  BY <1>1, EventSlotIs, Apart DEF Coa
<1>4. /\ SlotSound(y) /\ SlotPlaced(y) /\ y.ifindex = i
      /\ \A t \in Slots \ {s} : d.ifaces[t].ifindex # i
  <2>1. SlotSound(d.ifaces[s]) /\ SlotPlaced(d.ifaces[s])
    BY <1>3 DEF Sane, Sound, Placed
  <2>2. /\ x \in Iface /\ x.ifindex = i
        /\ x.ok6 => x.coa6 # None /\ (x.coa6 = HoaV6 \/ <<i, x.coa6>> \in Reach)
        /\ \A t \in Slots \ {s} : d.ifaces[t].ifindex # i
    <3>1. CASE Known(i)
      <4>1. x = d.ifaces[s] /\ s = SlotOf(d, i)
        BY <3>1 DEF EventSlot
      <4>2. d.ifaces[s].ifindex = i
        BY <3>1, <4>1, SlotFound DEF Known
      <4>3. \A t \in Slots \ {s} : d.ifaces[t].ifindex # i
        BY <1>2, <3>1, <4>1, SlotAlone DEF Sane, Known
      <4>. HIDE DEF x, s
      <4>. QED  BY <1>2, <2>1, <4>1, <4>2, <4>3 DEF SlotSound, SlotPlaced
    <3>2. CASE ~Known(i)
      <4>1. x = [d.ifaces[s] EXCEPT !.ifindex = i, !.ok6 = FALSE]
        BY <3>2
      <4>2. \A t \in Slots : d.ifaces[t].ifindex # i
        BY <3>2, SlotAbsent DEF Known
      <4>. HIDE DEF x, s
      <4>. QED  BY <1>2, <2>1, <4>1, <4>2 DEF SlotSound, Iface
    <3>. QED  BY <3>1, <3>2
  <2>. HIDE DEF x, s
  <2>3. /\ y \in Iface /\ y.ifindex = i /\ y.ok6 = x.ok6 /\ y.coa6 = x.coa6
        /\ y.coa4 = a
    BY <1>1, <2>2 DEF Iface, Flags
  <2>. HIDE DEF y
  <2>. QED  BY <1>1, <1>3, <2>2, <2>3 DEF SlotSound, SlotPlaced
<1>5. j \in Ifindex \union {0}
  BY <1>2 DEF Sane, Sound, Daemon
<1>. HIDE DEF s, y, j
<1>6. Sane(e)
  <2>. DEFINE c == [d EXCEPT !.ifaces[s] = y]
  <2>1. Sane(c)
    BY <1>3, <1>4, SaneSlot
  <2>2. e = [c EXCEPT !.preferred = j]
    OBVIOUS
  <2>. HIDE DEF c, e
  <2>. QED  BY <1>5, <2>1, <2>2, SanePreferred
<1>. HIDE DEF e
<1>7. "v6" \in Family /\ "v4" \in Family /\ "v6" # "v4"
  BY DEF Family
<1>8. y.ok6 => y.coa6 = HoaV6 \/ (y.coa6 \in CoaV6 /\ <<i, y.coa6>> \in Reach)
  BY <1>2, <1>4 DEF SlotSound, SlotPlaced, Iface
<1>9. Sane(r.d)
  <2>1. y.ok6 => Sane(IfPreferred(e, "v6", y.coa6, i).d)
    BY <1>2, <1>6, <1>7, <1>8, SaneIfPreferred
  <2>2. Sane(IfPreferred(e, "v4", a, i).d)
    BY <1>1, <1>2, <1>6, <1>7, SaneIfPreferred
  <2>. QED  BY <2>1, <2>2
<1>. HIDE DEF r
<1>10. d' = r.d
  BY <1>1
<1>. QED  BY <1>9, <1>10

LEMMA SaneDelAddr ==
  ASSUME Sane(d), NEW i, NEW a, DelAddr(i, a)
  PROVE  Sane(d')
<1>. DEFINE f     == IF a \in CoaV4 THEN "v4" ELSE "v6"
            inuse == Unchanged(d, f, a) /\ d.current = i
            r     == IF inuse THEN FirstOnly(d, i) ELSE Result(d, << >>)
            s     == SlotOf(d, i)
            x     == r.d.ifaces[s]
            x6    == [x EXCEPT !.coa6 = None, !.ok6 = FALSE]
            x4    == [x EXCEPT !.coa4 = None, !.ok4 = FALSE]
<1>1. \/ d' = r.d
      \/ s # NIF /\ d' = [r.d EXCEPT !.ifaces[s] = x6]
      \/ s # NIF /\ d' = [r.d EXCEPT !.ifaces[s] = x4]
  BY DEF DelAddr, Act
<1>2. Sane(r.d)
  BY SaneFirst DEF Result
<1>. HIDE DEF r
<1>3. s # NIF => s \in Slots
  BY SlotFound
<1>. HIDE DEF s
<1>4. s # NIF => SlotSound(x)
  BY <1>2, <1>3 DEF Sane, Sound
<1>5. s # NIF =>
        /\ SlotSound(x6) /\ x6.ifindex = x.ifindex /\ x6.ok6 = FALSE
        /\ x6.ok4 = x.ok4 /\ x6.coa4 = x.coa4
        /\ SlotSound(x4) /\ x4.ifindex = x.ifindex /\ x4.ok4 = FALSE
        /\ x4.ok6 = x.ok6 /\ x4.coa6 = x.coa6
  <2>. HIDE DEF x
  <2>. QED  BY <1>4 DEF SlotSound, Iface
<1>. HIDE DEF x6, x4
<1>6. s # NIF => /\ Sane([r.d EXCEPT !.ifaces[s] = x6])
                 /\ Sane([r.d EXCEPT !.ifaces[s] = x4])
  BY <1>2, <1>3, <1>5, SaneCleared
<1>. QED  BY <1>1, <1>2, <1>6

LEMMA SaneCmdHandoff ==
  ASSUME Sane(d), NEW i \in Ifindex, CmdHandoff(i)
  PROVE  Sane(d')
<1>. DEFINE e == [d EXCEPT !.preferred = i]
            s == SlotOf(d, i)
            r == IF d.current = i \/ d.auto \/ s = NIF THEN Result(e, << >>)
                 ELSE UseSlot(e, s, Result(e, << >>))
<1>1. d' = r.d
  BY DEF CmdHandoff, Act
<1>2. Sane(e) /\ e.ifaces = d.ifaces
  BY SanePreferred
<1>3. s # NIF => s \in Slots /\ d.ifaces[s].ifindex # 0
  BY SlotFound, IfindexAssumption
<1>. HIDE DEF e, s
<1>4. Result(e, << >>).d = e
  BY DEF Result
<1>5. s # NIF => Sane(UseSlot(e, s, Result(e, << >>)).d)
  BY <1>2, <1>3, <1>4, SaneUse
<1>. QED  BY <1>1, <1>2, <1>4, <1>5

LEMMA SaneInit == Sane(DaemonInit)
<1>. HIDE DEF Iface, Empty
<1>1. \A s \in Slots : DaemonInit.ifaces[s] = Empty
  BY DEF DaemonInit
<1>. QED  BY <1>1, InitSound, EmptySound DEF Sane, Placed, SlotPlaced

LEMMA SaneStep ==
  ASSUME Sane(d), [Next]_vars
  PROVE  Sane(d')
<1>1. CASE UNCHANGED d
  BY <1>1
<1>2. ASSUME NEW i \in Ifindex, NEW f \in Flags,
             WlanChanged(i, f) \/ GprsChanged(i, f) \/ LinkIgnored(i, f) \/ LinkOverrun(i, f)
      PROVE  Sane(d')
  <2>1. CASE WlanChanged(i, f) \/ GprsChanged(i, f)
    BY <2>1, SaneFlags DEF WlanChanged, GprsChanged
  <2>2. CASE LinkIgnored(i, f) \/ LinkOverrun(i, f)
    BY <1>1, <2>2 DEF LinkIgnored, LinkOverrun, Nothing, Overrun
  <2>. QED  BY <1>2, <2>1, <2>2
<1>3. ASSUME NEW i \in Ifindex, LinkAdded(i) \/ DelLink(i) \/ CmdHandoff(i)
      PROVE  Sane(d')
  BY <1>3, SaneAdded, SaneDelLink, SaneCmdHandoff
<1>4. ASSUME NEW i, NEW a, \/ NewAddrV6(i, a) \/ NewAddrV4(i, a)
                           \/ AddrOverrun(i, a) \/ DelAddr(i, a)
      PROVE  Sane(d')
  <2>1. CASE AddrOverrun(i, a)
    BY <1>1, <2>1 DEF AddrOverrun, Nothing, Overrun
  <2>. QED  BY <1>4, <2>1, SaneNewV6, SaneNewV4, SaneDelAddr
<1>5. CASE ForeignAddr
  BY <1>1, <1>5 DEF ForeignAddr, Nothing, Overrun
<1>6. CASE Answered
  <2>1. d' = (IF down = 0 THEN Result(d, << >>) ELSE FallBack(Invalid(d, down), down)).d
    BY <1>6 DEF Answered, Act
  <2>2. CASE down = 0
    BY <1>1, <2>1, <2>2 DEF Result
  <2>3. CASE down # 0
    <3>1. Sane(FallBack(Invalid(d, down), down).d)
      BY SaneInvalid, SaneFallBack
    <3>. QED  BY <2>1, <2>3, <3>1
  <2>. QED  BY <2>2, <2>3
<1>7. ASSUME NEW on \in BOOLEAN, CmdAuto(on)
      PROVE  Sane(d')
  <2>1. d' = [d EXCEPT !.auto = on]
    BY <1>7 DEF CmdAuto
  <2>2. Sound(d') /\ SameBinding(d, d')
    BY <2>1, SoundAuto DEF Sane
  <2>3. d'.ifaces = d.ifaces /\ d'.current = d.current
    BY <2>1 DEF Sane, Sound, Daemon
  <2>. QED  BY <2>2, <2>3, SaneSame
<1>8. CASE bu_worker \/ nat_probe_worker \/ Exit \/ Call \/ Stopped \/ UNCHANGED vars
  BY <1>1, <1>8 DEF bu_worker, nat_probe_worker, Exit, Call, Stopped, vars
<1>9. CASE Killed
  BY <1>9, SaneInit DEF Killed
<1>. QED  BY <1>2, <1>3, <1>4, <1>5, <1>6, <1>7, <1>8, <1>9 DEF Next

\* No address may be configured on two interfaces, but for the home address.
OneHolder == \A x, y \in Reach : x[2] = y[2] /\ x[2] \in Coa => x[1] = y[1]

\* The answer of the controller takes a node that has lost the interface it
\* uses to the other.
LEMMA AnsweredFallsBack ==
  ASSUME Sane(d), Answered, OneHolder, NEW s \in Slots,
         down # 0, down = d.current, down \in Ifindex, d.type # "home", d.auto,
         \A i, j \in Ifindex : i # down /\ j # down => i = j,
         d.ifaces[s].ifindex \notin {0, down}, d.ifaces[s].flags = "up",
         d.ifaces[s].ok6 \/ d.ifaces[s].ok4
  PROVE  d'.current = d.ifaces[s].ifindex
<1>. DEFINE e  == Invalid(d, down)
            up == {t \in Slots : e.ifaces[t].ifindex \notin {0, down} /\ e.ifaces[t].flags = "up"}
            i  == d.ifaces[s].ifindex
<1>1. d' = FallBack(e, down).d
  BY DEF Answered, Act
<1>2. /\ Sane(e) /\ SameBinding(d, e) /\ e.current = d.current /\ e.auto = d.auto
      /\ e.ifaces[s] = d.ifaces[s]
      /\ \A t \in Slots : e.ifaces[t].ifindex = d.ifaces[t].ifindex
  <2>. DEFINE u == SlotOf(d, down)
              x == [d.ifaces[u] EXCEPT !.ok6 = FALSE, !.ok4 = FALSE]
  <2>1. Sane(e) /\ SameBinding(d, e)
    BY SaneInvalid, InvalidSound DEF Sane
  <2>2. e = [d EXCEPT !.ifaces[u] = x]
    BY DEF Invalid
  <2>3. d \in Daemon /\ d.ifaces \in [Slots -> Iface]
    BY DEF Sane, Sound, Daemon
  <2>4. u # s /\ (u \in Slots => d.ifaces[u] \in Iface)
    BY <2>3, SlotFound, NodeAssumption DEF Slots
  <2>. HIDE DEF u
  <2>5. u \in Slots => x.ifindex = d.ifaces[u].ifindex
    BY <2>4 DEF Iface
  <2>. HIDE DEF x, e
  <2>6. e.ifaces = [d.ifaces EXCEPT ![u] = x] /\ e.current = d.current /\ e.auto = d.auto
    BY <2>2, <2>3 DEF Daemon
  <2>. QED  BY <2>1, <2>3, <2>4, <2>5, <2>6
<1>. HIDE DEF e
<1>3. i \in Ifindex /\ i # 0 /\ i # down
  BY <1>2, SlotOffers
<1>4. up = {s}
  <2>1. \A t \in up : e.ifaces[t].ifindex = i
    <3>1. ASSUME NEW t \in up
          PROVE  e.ifaces[t].ifindex = i
      <4>1. e.ifaces[t].ifindex \in Ifindex
        BY <1>2, SlotOffers
      <4>. QED  BY <1>3, <4>1
    <3>. QED  BY <3>1
  <2>2. \A t \in up : t = s
    BY <1>2, <1>3, <2>1 DEF Sane, Placed
  <2>3. s \in up
    BY <1>2, <1>3
  <2>. QED  BY <2>2, <2>3
<1>5. Min(up) = s
  <2>1. up \in SUBSET Nat /\ up # {}
    BY <1>4 DEF Slots
  <2>. QED  BY <1>4, <2>1, MinSlot
<1>6. FallBack(e, down) = UseSlot(e, s, Result(e, << >>))
  BY <1>2, <1>4, <1>5 DEF FallBack
<1>. DEFINE y == e.ifaces[s]
            p == [e EXCEPT !.preferred = i]
<1>7. y = d.ifaces[s] /\ y.ifindex = i
  BY <1>2
<1>8. UseSlot(e, s, Result(e, << >>)) =
        IF y.ok6 THEN do_handoff(p, "v6", y.coa6, i)
        ELSE IF y.ok4 THEN do_handoff(p, "v4", y.coa4, i)
        ELSE Result(e, << >>)
  BY <1>7 DEF UseSlot
<1>9. /\ y.ok6 => y.coa6 = HoaV6 \/ (y.coa6 \in CoaV6 /\ <<i, y.coa6>> \in Reach)
      /\ y.ok4 => y.coa4 \in CoaV4 /\ <<i, y.coa4>> \in Reach
  BY <1>2, <1>3, <1>7, SlotOffers
<1>. HIDE DEF y
<1>10. /\ Sane(p) /\ SameBinding(e, p) /\ p.ifaces = e.ifaces
       /\ p.preferred = i /\ p.current = down
  <2>. HIDE DEF i
  <2>. QED  BY <1>2, <1>3, SanePreferred
<1>. HIDE DEF p
<1>11. SlotOf(p, i) # NIF
  BY <1>7, <1>10, SlotPresent DEF y
<1>12. ~(p.type = "home")
  BY <1>2, <1>10 DEF SameBinding
<1>13. y.ok6 => ~Unchanged(p, "v6", y.coa6)
  <2>. SUFFICES ASSUME y.ok6, Unchanged(p, "v6", y.coa6)
                PROVE  FALSE
    OBVIOUS
  <2>1. p.type = "v6" /\ p.coa6 = y.coa6 /\ p.coa6 \in CoaV6 /\ <<down, p.coa6>> \in Reach
    BY <1>10, <1>12 DEF Unchanged, Sane, Sound, Placed
  <2>2. y.coa6 \in Coa /\ <<i, y.coa6>> \in Reach /\ <<down, y.coa6>> \in Reach
    BY <1>9, <2>1, Apart DEF Coa
  <2>3. i = down
    BY <2>2 DEF OneHolder
  <2>. QED  BY <1>3, <2>3
<1>14. y.ok4 => ~Unchanged(p, "v4", y.coa4)
  <2>. SUFFICES ASSUME y.ok4, Unchanged(p, "v4", y.coa4)
                PROVE  FALSE
    OBVIOUS
  <2>1. p.type = "v4" /\ p.coa4 = y.coa4 /\ <<down, p.coa4>> \in Reach
    BY <1>10 DEF Unchanged, Sane, Placed
  <2>2. y.coa4 \in Coa /\ <<i, y.coa4>> \in Reach /\ <<down, y.coa4>> \in Reach
    BY <1>9, <2>1 DEF Coa
  <2>3. i = down
    BY <2>2 DEF OneHolder
  <2>. QED  BY <1>3, <2>3
<1>15. "v6" \in Family /\ "v4" \in Family /\ "v6" # "v4"
  BY DEF Family
<1>16. y.ok6 => do_handoff(p, "v6", y.coa6, i).d.current = i
  BY <1>3, <1>9, <1>10, <1>11, <1>13, <1>15, SaneHandoff
<1>17. y.ok4 => do_handoff(p, "v4", y.coa4, i).d.current = i
  BY <1>3, <1>9, <1>10, <1>11, <1>14, <1>15, SaneHandoff
<1>. QED  BY <1>1, <1>6, <1>7, <1>8, <1>16, <1>17

\* Of two interfaces one is the other's other.
LEMMA TwoOnly ==
  ASSUME NEW S, IsFiniteSet(S), Cardinality(S) = 2, NEW x \in S
  PROVE  \A i, j \in S : i # x /\ j # x => i = j
<1>1. IsFiniteSet(S \ {x}) /\ Cardinality(S \ {x}) = 1
  BY FS_RemoveElement
<1>2. PICK y : S \ {x} = {y}
  BY <1>1, FS_Singleton
<1>. QED  BY <1>2

\* When the node may choose by itself and loses the WLAN it uses, it moves to
\* the other interface if that is up and has an address, unless the daemon is
\* killed before the controller has answered (process_link).
THEOREM LostWlanFallsBack ==
  ASSUME OneHolder, IsFiniteSet(Ifindex), "kill" \notin MayMove
  PROVE  Spec => FallsBack
<1>. DEFINE P(s) ==
       /\ pc = "ipfix" /\ pc' = "run" /\ down # 0 /\ down = d.current
       /\ d.type # "home" /\ d.auto /\ Cardinality(Ifindex) = 2
       /\ d.ifaces[s].ifindex \notin {0, down} /\ d.ifaces[s].flags = "up"
       /\ d.ifaces[s].ok6 \/ d.ifaces[s].ok4
       => d'.current = d.ifaces[s].ifindex
<1>1. Init => Sane(d)
  BY SaneInit DEF Init
<1>2. Sane(d) /\ [Next]_vars => Sane(d)'
  BY SaneStep DEF Sane, Sound, Placed
<1>3. Inv /\ Sane(d) /\ [Next]_vars => [\A s \in Slots : P(s)]_vars
  <2>. SUFFICES ASSUME Inv, Sane(d), [Next]_vars, NEW s \in Slots,
                       pc = "ipfix", pc' = "run", down # 0, down = d.current,
                       d.type # "home", d.auto, Cardinality(Ifindex) = 2,
                       d.ifaces[s].ifindex \notin {0, down}, d.ifaces[s].flags = "up",
                       d.ifaces[s].ok6 \/ d.ifaces[s].ok4
                PROVE  d'.current = d.ifaces[s].ifindex
    OBVIOUS
  <2>1. Answered
    BY DEF Next, vars, WlanChanged, GprsChanged, LinkIgnored, LinkOverrun, LinkAdded, DelLink,
           CmdHandoff, NewAddrV6, NewAddrV4, AddrOverrun, DelAddr, ForeignAddr, CmdAuto,
           bu_worker, nat_probe_worker, Exit, Killed, Call, Stopped, Flagged, Configured, Idle
  <2>2. down \in Ifindex
    BY DEF Inv, Frame
  <2>3. \A i, j \in Ifindex : i # down /\ j # down => i = j
    BY <2>2, TwoOnly
  <2>. QED  BY <2>1, <2>2, <2>3, AnsweredFallsBack
<1>. QED  BY <1>1, <1>2, <1>3, DaemonInv, PTL DEF Spec, FallsBack
===============================================================================
