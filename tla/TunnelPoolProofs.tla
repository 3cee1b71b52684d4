--------------------------- MODULE TunnelPoolProofs ---------------------------
(***************************************************************************)
(* The pool of any size, for any addresses, interfaces and devices: no     *)
(* tunnel has two slots, no device is leaked, and, when an address belongs *)
(* to one interface, no slot names a device that is gone.                  *)
(***************************************************************************)
EXTENDS TunnelPool, TLAPS

USE PoolAssumption
USE DEF NoDev, FAILED

\* What tunnelXX_add returns is a device with the right end, a device nobody
\* had, or -1; NoDev is none of them.
LEMMA AddResultsType ==
  ASSUME NEW f, NEW c, NEW d \in AddResults(f, c)
  PROVE  \/ d = FAILED
         \/ d \in Dev /\ f[d] = c
         \/ d \in Dev /\ f[d] = None /\ \A i \in Slots : slot[i].ifindex # d
BY DEF AddResults, Remembered

\* Every acquisition either touches a slot that has the tunnel, or fills the
\* slot the search yields.
Acquired(c, l) ==
  /\ Asked(c, l)
  /\ \E i \in Slots :
       \/ /\ FirstFit(i, c, l) /\ slot[i] # Empty
          /\ slot' = [slot EXCEPT ![i] = Touched(@, now')]
          /\ used' = slot[i].ifindex /\ dev' = dev
       \/ /\ FirstFit(i, c, l) /\ slot[i] = Empty /\ Fill(i, c, l, dev)
       \/ /\ Replaced(i, c, l)
          /\ \E ds \in Named(slot[i].ifindex) : Fill(i, c, l, DevDel(dev, ds))

LEMMA Acquisition ==
  ASSUME NEW c, NEW l, Reuse(c, l) \/ Create(c, l) \/ Replace(c, l)
  PROVE  Acquired(c, l)
<1>1. CASE Reuse(c, l)
  BY <1>1 DEF Reuse, Acquired
<1>2. CASE Create(c, l)
  BY <1>2 DEF Create, Acquired
<1>3. CASE Replace(c, l)
  BY <1>3 DEF Replace, Acquired
<1>. QED  BY <1>1, <1>2, <1>3

-------------------------------------------------------------------------------
(* Types. *)

\* A filled slot holds an entry for the tunnel asked for.
LEMMA FillType ==
  ASSUME TypeOK, NEW i \in Slots, NEW c \in Coa, NEW l \in Link,
         NEW f \in [Dev -> Coa \union {None}],
         now' \in 1 .. MaxTime, Fill(i, c, l, f)
  PROVE  /\ slot' \in [Slots -> Entry \union {Empty}]
         /\ dev' \in [Dev -> Coa \union {None}]
         /\ used' \in Dev \union {NoDev, FAILED}
<1>1. PICK d, n :
         /\ d \in AddResults(f, c) /\ n \in Returned(d)
         /\ dev' = DevAdd(f, d, c)
         /\ slot' = [slot EXCEPT ![i] = [coa |-> c, link |-> l, ifindex |-> n,
                                         last_access |-> now']]
         /\ used' = n
  BY DEF Fill
<1>2. d \in Dev \union {FAILED} /\ n \in Dev \union {FAILED}
  BY <1>1, AddResultsType DEF Returned
<1>. QED  BY <1>1, <1>2 DEF TypeOK, Entry, DevAdd

LEMMA DevDelType ==
  ASSUME NEW f \in [Dev -> Coa \union {None}], NEW ds
  PROVE  DevDel(f, ds) \in [Dev -> Coa \union {None}]
BY DEF DevDel

\* An acquisition keeps every variable in its type.
LEMMA AcquiredType ==
  ASSUME TypeOK, NEW c \in Coa, NEW l \in Link, Acquired(c, l)
  PROVE  TypeOK'
<1>1. now' \in 1 .. MaxTime /\ ended' \in BOOLEAN
  BY DEF Acquired, Asked, TypeOK
<1>2. PICK i \in Slots :
       \/ /\ FirstFit(i, c, l) /\ slot[i] # Empty
          /\ slot' = [slot EXCEPT ![i] = Touched(@, now')]
          /\ used' = slot[i].ifindex /\ dev' = dev
       \/ Fill(i, c, l, dev)
       \/ \E ds : Fill(i, c, l, DevDel(dev, ds))
  BY DEF Acquired
<1>3. CASE /\ slot[i] # Empty
           /\ slot' = [slot EXCEPT ![i] = Touched(@, now')]
           /\ used' = slot[i].ifindex /\ dev' = dev
  <2>1. slot[i] \in Entry
    BY <1>3 DEF TypeOK
  <2>2. Touched(slot[i], now') \in Entry
    BY <1>1, <2>1 DEF Touched, Entry
  <2>. QED  BY <1>1, <1>3, <2>1, <2>2 DEF TypeOK, Entry
<1>4. CASE Fill(i, c, l, dev)
  BY <1>1, <1>4, FillType DEF TypeOK
<1>5. ASSUME NEW ds, Fill(i, c, l, DevDel(dev, ds))
      PROVE  TypeOK'
  <2>1. DevDel(dev, ds) \in [Dev -> Coa \union {None}]
    BY DevDelType DEF TypeOK
  <2>. QED  BY <1>1, <1>5, <2>1, FillType DEF TypeOK
<1>. QED  BY <1>2, <1>3, <1>4, <1>5

\* Every variable keeps its type, for pools of any size.
THEOREM PoolTypeCorrect == Spec => []TypeOK
<1>1. ASSUME Init PROVE TypeOK
  <2>1. slot \in [Slots -> Entry \union {Empty}]
    BY <1>1 DEF Init
  <2>2. dev \in [Dev -> Coa \union {None}]
    BY <1>1 DEF Init
  <2>3. used \in Dev \union {NoDev, FAILED} /\ now \in 0 .. MaxTime
    BY <1>1 DEF Init
  <2>4. ended \in BOOLEAN
    BY <1>1 DEF Init
  <2>. QED  BY <2>1, <2>2, <2>3, <2>4 DEF TypeOK
<1>2. TypeOK /\ [Next]_vars => TypeOK'
  <2>. SUFFICES ASSUME TypeOK, [Next]_vars PROVE TypeOK'
    OBVIOUS
  <2>1. ASSUME NEW c \in Coa, NEW l \in Link,
               Reuse(c, l) \/ Create(c, l) \/ Replace(c, l)
        PROVE  TypeOK'
    BY <2>1, Acquisition, AcquiredType
  <2>2. CASE Leave
    BY <2>2 DEF Leave, TypeOK
  <2>3. CASE Exit
    BY <2>3, DevDelType DEF Exit, TypeOK
  <2>4. CASE UNCHANGED vars
    BY <2>4 DEF vars, TypeOK
  <2>. QED  BY <2>1, <2>2, <2>3, <2>4 DEF Next, Ended
<1>. QED  BY <1>1, <1>2, PTL DEF Spec

-------------------------------------------------------------------------------
(* The segment as a table.  The search stops at the first free slot, which *)
(* is right only because the free slots are the last ones.                 *)

Prefix == \A i, j \in Slots : (i <= j /\ slot[j] # Empty) => slot[i] # Empty

\* Occupied slots hold pairs the node may get.
InUses == \A i \in Slots : slot[i] # Empty => <<slot[i].coa, slot[i].link>> \in Uses

\* What an acquisition writes: entry e to slot i, the only slot for its tunnel.
Written(i, e, c, l) ==
  /\ slot' = [slot EXCEPT ![i] = e]
  /\ e.coa = c /\ e.link = l /\ e.last_access = now' /\ e.ifindex = used'
  /\ \A j \in Slots \ {i} : ~(slot[j].coa = c /\ slot[j].link = l)
  /\ \A j \in Slots : j < i => slot[j] # Empty

\* An acquisition has that form.
LEMMA AcquiredWrites ==
  ASSUME TypeOK, TypeOK', Prefix, SlotsDistinct,
         NEW c \in Coa, NEW l \in Link, Acquired(c, l)
  PROVE  \E i \in Slots, e \in Entry : Written(i, e, c, l)
<1>0. Empty.coa = None /\ c # None /\ now' \in 1 .. MaxTime
  BY DEF Empty, Acquired, Asked, TypeOK
<1>1. PICK i \in Slots :
       \/ /\ FirstFit(i, c, l) /\ slot[i] # Empty
          /\ slot' = [slot EXCEPT ![i] = Touched(@, now')]
          /\ used' = slot[i].ifindex /\ dev' = dev
       \/ /\ FirstFit(i, c, l) /\ slot[i] = Empty /\ Fill(i, c, l, dev)
       \/ /\ Replaced(i, c, l)
          /\ \E ds \in Named(slot[i].ifindex) : Fill(i, c, l, DevDel(dev, ds))
  BY DEF Acquired
<1>2. FirstFit(i, c, l) => \A j \in Slots : j < i => slot[j] # Empty
  BY DEF FirstFit, Found, Slots
<1>3. CASE /\ FirstFit(i, c, l) /\ slot[i] # Empty
           /\ slot' = [slot EXCEPT ![i] = Touched(@, now')]
           /\ used' = slot[i].ifindex
  <2>1. slot[i] \in Entry /\ slot[i].coa = c /\ slot[i].link = l
    BY <1>3 DEF TypeOK, FirstFit, Found
  <2>2. \A j \in Slots \ {i} : ~(slot[j].coa = c /\ slot[j].link = l)
    BY <1>3, <2>1 DEF SlotsDistinct
  <2>. DEFINE e == Touched(slot[i], now')
  <2>3. /\ e \in Entry /\ e.coa = c /\ e.link = l /\ e.last_access = now'
        /\ e.ifindex = slot[i].ifindex
    BY <1>0, <2>1 DEF Touched, Entry
  <2>4. slot' = [slot EXCEPT ![i] = e]
    BY <1>3
  <2>. HIDE DEF e
  <2>. QED  BY <1>2, <1>3, <2>2, <2>3, <2>4 DEF Written
<1>4. ASSUME NEW f, Fill(i, c, l, f),
             \A j \in Slots \ {i} : ~(slot[j].coa = c /\ slot[j].link = l),
             \A j \in Slots : j < i => slot[j] # Empty
      PROVE  \E e \in Entry : Written(i, e, c, l)
  <2>1. PICK d, n :
         /\ d \in AddResults(f, c) /\ n \in Returned(d)
         /\ slot' = [slot EXCEPT ![i] = [coa |-> c, link |-> l, ifindex |-> n,
                                         last_access |-> now']]
         /\ used' = n
    BY <1>4 DEF Fill
  <2>2. n \in Dev \union {FAILED}
    BY <2>1, AddResultsType DEF Returned
  <2>. DEFINE e == [coa |-> c, link |-> l, ifindex |-> n, last_access |-> now']
  <2>3. e \in Entry
    BY <1>0, <2>2 DEF Entry
  <2>. QED  BY <1>4, <2>1, <2>3 DEF Written
<1>5. CASE FirstFit(i, c, l) /\ slot[i] = Empty /\ Fill(i, c, l, dev)
  <2>1. \A j \in Slots \ {i} : ~(slot[j].coa = c /\ slot[j].link = l)
    <3>. SUFFICES ASSUME NEW j \in Slots, j # i, slot[j].coa = c, slot[j].link = l
                  PROVE  FALSE
      OBVIOUS
    <3>1. i <= j /\ slot[j] # Empty
      BY <1>0, <1>5 DEF FirstFit, Found
    <3>. QED  BY <1>5, <3>1 DEF Prefix
  <2>. QED  BY <1>2, <1>4, <1>5, <2>1
<1>6. CASE Replaced(i, c, l) /\ \E ds : Fill(i, c, l, DevDel(dev, ds))
  <2>1. \A j \in Slots : slot[j] # Empty /\ ~(slot[j].coa = c /\ slot[j].link = l)
    BY <1>6 DEF Replaced, Found
  <2>. QED  BY <1>4, <1>6, <2>1
<1>. QED  BY <1>1, <1>3, <1>5, <1>6

\* Hence the table stays one.
LEMMA WrittenTable ==
  ASSUME TypeOK, Prefix, SlotsDistinct, InUses,
         NEW c \in Coa, NEW l \in Link, <<c, l>> \in Uses,
         NEW i \in Slots, NEW e \in Entry, Written(i, e, c, l)
  PROVE  Prefix' /\ SlotsDistinct' /\ InUses'
<1>1. /\ slot'[i] = e /\ e # Empty
      /\ \A j \in Slots : j # i => slot'[j] = slot[j]
  BY DEF Written, TypeOK, Entry, Empty
<1>2. Prefix'
  BY <1>1 DEF Prefix, Written, Slots
<1>3. SlotsDistinct'
  BY <1>1 DEF SlotsDistinct, Written
<1>4. InUses'
  BY <1>1 DEF InUses, Written
<1>. QED  BY <1>2, <1>3, <1>4

\* An acquisition leaks no device: one that is replaced is deleted first.
LEMMA AcquiredLeaksNone ==
  ASSUME "flags" \notin MayFail, TypeOK, NoLeakedDevice,
         NEW c \in Coa, NEW l \in Link, Acquired(c, l)
  PROVE  NoLeakedDevice'
<1>. SUFFICES ASSUME NEW d \in Dev, Live(dev', d)
              PROVE  \E i \in Slots : slot'[i].ifindex = d
  BY DEF NoLeakedDevice, Acquired, Asked
<1>0. Live(dev, d) => \E j \in Slots : slot[j].ifindex = d
  BY DEF NoLeakedDevice
<1>1. PICK i \in Slots :
       \/ /\ slot[i] # Empty
          /\ slot' = [slot EXCEPT ![i] = Touched(@, now')]
          /\ dev' = dev
       \/ /\ slot[i] = Empty /\ Fill(i, c, l, dev)
       \/ \E ds \in Named(slot[i].ifindex) : Fill(i, c, l, DevDel(dev, ds))
  BY DEF Acquired
<1>2. CASE /\ slot[i] # Empty
           /\ slot' = [slot EXCEPT ![i] = Touched(@, now')]
           /\ dev' = dev
  <2>1. slot[i] \in Entry
    BY <1>2 DEF TypeOK
  <2>2. Touched(slot[i], now').ifindex = slot[i].ifindex
    BY <2>1 DEF Touched, Entry
  <2>. QED  BY <1>0, <1>2, <2>2 DEF TypeOK
<1>3. ASSUME NEW f, Fill(i, c, l, f),
             Live(f, d) => \E j \in Slots \ {i} : slot[j].ifindex = d
      PROVE  \E j \in Slots : slot'[j].ifindex = d
  <2>1. PICK n \in AddResults(f, c) :
         /\ dev' = DevAdd(f, n, c)
         /\ slot' = [slot EXCEPT ![i] = [coa |-> c, link |-> l, ifindex |-> n,
                                         last_access |-> now']]
    BY <1>3 DEF Fill, Returned
  <2>2. d = n \/ Live(f, d)
    BY <2>1 DEF Live, DevAdd
  <2>. QED  BY <1>3, <2>1, <2>2 DEF TypeOK
<1>4. CASE slot[i] = Empty /\ Fill(i, c, l, dev)
  BY <1>0, <1>3, <1>4 DEF Empty
<1>5. ASSUME NEW ds \in Named(slot[i].ifindex), Fill(i, c, l, DevDel(dev, ds))
      PROVE  \E j \in Slots : slot'[j].ifindex = d
  <2>1. Live(DevDel(dev, ds), d) => Live(dev, d) /\ d \notin ds
    BY DEF DevDel, Live
  <2>2. (Live(dev, d) /\ slot[i].ifindex = d) => ds = {d}
    BY DEF Named
  <2>. QED  BY <1>0, <1>3, <1>5, <2>1, <2>2
<1>. QED  BY <1>1, <1>2, <1>4, <1>5

-------------------------------------------------------------------------------
(* The invariants. *)

\* The table, and what it holds, in every reachable state.
LEMMA PoolInvariant == Spec => [](TypeOK /\ Prefix /\ SlotsDistinct /\ InUses)
<1>. DEFINE Inv == TypeOK /\ Prefix /\ SlotsDistinct /\ InUses
<1>1. ASSUME Init PROVE Prefix /\ SlotsDistinct /\ InUses
  <2>1. \A i \in Slots : slot[i] = Empty
    BY <1>1 DEF Init
  <2>. QED  BY <2>1 DEF Prefix, SlotsDistinct, InUses
<1>2. ASSUME Inv, TypeOK', [Next]_vars PROVE Inv'
  <2>1. ASSUME NEW c \in Coa, NEW l \in Link,
               Reuse(c, l) \/ Create(c, l) \/ Replace(c, l)
        PROVE  Inv'
    <3>1. Acquired(c, l) /\ <<c, l>> \in Uses
      BY <2>1, Acquisition DEF Acquired, Asked
    <3>2. PICK i \in Slots, e \in Entry : Written(i, e, c, l)
      BY <1>2, <3>1, AcquiredWrites
    <3>. QED  BY <1>2, <3>1, <3>2, WrittenTable
  <2>2. CASE Leave
    BY <1>2, <2>2 DEF Leave, Prefix, SlotsDistinct, InUses
  <2>3. CASE Exit
    BY <1>2, <2>3 DEF Exit, Prefix, SlotsDistinct, InUses
  <2>4. CASE UNCHANGED vars
    BY <1>2, <2>4 DEF vars, Prefix, SlotsDistinct, InUses
  <2>. QED  BY <1>2, <2>1, <2>2, <2>3, <2>4 DEF Next, Ended
<1>. QED  BY <1>1, <1>2, PoolTypeCorrect, PTL DEF Spec

\* No tunnel has two slots, whatever the kernel refuses and whatever the
\* uninitialized name of a device to delete is.
THEOREM PoolDistinct == Spec => []SlotsDistinct
BY PoolInvariant, PTL

\* Every device is in the pool until the daemon exits, even if the kernel
\* refuses to create some, provided it brings up those it creates.
THEOREM PoolLeaksNone ==
  ASSUME "flags" \notin MayFail
  PROVE  Spec => []NoLeakedDevice
<1>1. ASSUME Init PROVE NoLeakedDevice
  <2>1. \A d \in Dev : ~Live(dev, d)
    BY <1>1 DEF Init, Live
  <2>. QED  BY <2>1 DEF NoLeakedDevice
<1>2. ASSUME TypeOK, NoLeakedDevice, [Next]_vars PROVE NoLeakedDevice'
  <2>1. ASSUME NEW c \in Coa, NEW l \in Link,
               Reuse(c, l) \/ Create(c, l) \/ Replace(c, l)
        PROVE  NoLeakedDevice'
    BY <1>2, <2>1, Acquisition, AcquiredLeaksNone
  <2>2. CASE Leave
    BY <1>2, <2>2 DEF Leave, NoLeakedDevice
  <2>3. CASE Exit
    <3>1. ASSUME NEW d \in Dev PROVE ~Live(dev', d)
      <4>1. CASE Live(dev, d)
        BY <1>2, <2>3, <4>1 DEF Exit, NoLeakedDevice, DevDel, Live
      <4>2. CASE ~Live(dev, d)
        BY <2>3, <4>2 DEF Exit, DevDel, Live
      <4>. QED  BY <4>1, <4>2
    <3>. QED  BY <3>1 DEF NoLeakedDevice
  <2>4. CASE UNCHANGED vars
    BY <1>2, <2>4 DEF vars, NoLeakedDevice
  <2>. QED  BY <2>1, <2>2, <2>3, <2>4, <1>2 DEF Next, Ended
<1>. QED  BY <1>1, <1>2, PoolTypeCorrect, PTL DEF Spec

-------------------------------------------------------------------------------
(* When an address belongs to one interface and the kernel creates every   *)
(* tunnel, a slot's index is that of its tunnel.                           *)

OneLink == \A u, v \in Uses : u[1] = v[1] => u = v

\* Then an address has one slot.
LEMMA OneSlotEach ==
  ASSUME OneLink, SlotsDistinct, InUses
  PROVE  \A i, j \in Slots :
           (i # j /\ slot[i] # Empty /\ slot[j] # Empty) => slot[i].coa # slot[j].coa
<1>. SUFFICES ASSUME NEW i \in Slots, NEW j \in Slots,
                     i # j, slot[i] # Empty, slot[j] # Empty
              PROVE  slot[i].coa # slot[j].coa
  OBVIOUS
<1>1. <<slot[i].coa, slot[i].link>> # <<slot[j].coa, slot[j].link>>
  BY DEF SlotsDistinct
<1>2. /\ <<slot[i].coa, slot[i].link>> \in Uses
      /\ <<slot[j].coa, slot[j].link>> \in Uses
  BY DEF InUses
<1>. QED  BY <1>1, <1>2 DEF OneLink

\* And after a step as well.
LEMMA OneSlotEachNext ==
  ASSUME OneLink, SlotsDistinct', InUses'
  PROVE  \A i, j \in Slots :
           (i # j /\ slot'[i] # Empty /\ slot'[j] # Empty) =>
             slot'[i].coa # slot'[j].coa
<1>. SUFFICES ASSUME NEW i \in Slots, NEW j \in Slots,
                     i # j, slot'[i] # Empty, slot'[j] # Empty
              PROVE  slot'[i].coa # slot'[j].coa
  OBVIOUS
<1>1. <<slot'[i].coa, slot'[i].link>> # <<slot'[j].coa, slot'[j].link>>
  BY DEF SlotsDistinct
<1>2. /\ <<slot'[i].coa, slot'[i].link>> \in Uses
      /\ <<slot'[j].coa, slot'[j].link>> \in Uses
  BY DEF InUses
<1>. QED  BY <1>1, <1>2 DEF OneLink

\* Filling a slot leaves the devices of the other slots alone.
LEMMA FillLive ==
  ASSUME OneLink, MayFail = {}, TypeOK, SlotsDistinct', InUses', ~ended,
         NEW c \in Coa, NEW l \in Link, NEW i \in Slots,
         NEW f \in [Dev -> Coa \union {None}], Fill(i, c, l, f),
         \A j \in Slots \ {i} :
           slot[j] # Empty => slot[j].ifindex \in Dev /\ f[slot[j].ifindex] = slot[j].coa
  PROVE  SlotsLive'
<1>1. PICK d, n :
         /\ d \in AddResults(f, c) /\ n \in Returned(d)
         /\ dev' = DevAdd(f, d, c)
         /\ slot' = [slot EXCEPT ![i] = [coa |-> c, link |-> l, ifindex |-> n,
                                         last_access |-> now']]
  BY DEF Fill
<1>2. n = d /\ d \in Dev /\ (f[d] = c \/ f[d] = None) /\ c # None
  BY <1>1 DEF AddResults, Returned
<1>3. /\ slot'[i].coa = c /\ slot'[i].ifindex = d /\ slot'[i] # Empty
      /\ \A j \in Slots \ {i} : slot'[j] = slot[j]
  BY <1>1, <1>2 DEF TypeOK, Empty
<1>. SUFFICES ASSUME NEW j \in Slots, slot'[j] # Empty
              PROVE  slot'[j].ifindex \in Dev /\ dev'[slot'[j].ifindex] = slot'[j].coa
  BY DEF SlotsLive
<1>4. CASE j = i
  BY <1>1, <1>2, <1>3, <1>4 DEF DevAdd
<1>5. CASE j # i
  <2>1. slot[j].coa # c
    BY <1>3, <1>5, OneSlotEachNext
  <2>2. slot[j].coa # None
    BY <1>3, <1>5 DEF TypeOK, Entry
  <2>3. slot[j].ifindex # d
    BY <1>2, <1>3, <1>5, <2>1, <2>2
  <2>. QED  BY <1>1, <1>3, <1>5, <2>3 DEF DevAdd
<1>. QED  BY <1>4, <1>5

\* A slot names the device of its tunnel, in pools of any size.
THEOREM PoolLive ==
  ASSUME OneLink, MayFail = {}
  PROVE  Spec => []SlotsLive
<1>. DEFINE Inv == TypeOK /\ Prefix /\ SlotsDistinct /\ InUses
<1>1. Init => SlotsLive
  BY DEF Init, SlotsLive
<1>2. ASSUME Inv, Inv', SlotsLive, [Next]_vars PROVE SlotsLive'
  <2>1. ASSUME NEW c \in Coa, NEW l \in Link,
               Reuse(c, l) \/ Create(c, l) \/ Replace(c, l)
        PROVE  SlotsLive'
    <3>0. ~ended
      BY <2>1, Acquisition DEF Acquired, Asked
    <3>1. PICK i \in Slots :
            \/ /\ slot[i] # Empty
               /\ slot' = [slot EXCEPT ![i] = Touched(@, now')]
               /\ dev' = dev
            \/ Fill(i, c, l, dev)
            \/ /\ Replaced(i, c, l)
               /\ \E ds \in Named(slot[i].ifindex) : Fill(i, c, l, DevDel(dev, ds))
      BY <2>1, Acquisition DEF Acquired
    <3>2. \A j \in Slots : slot[j] # Empty =>
            slot[j].ifindex \in Dev /\ dev[slot[j].ifindex] = slot[j].coa
      BY <1>2, <3>0 DEF SlotsLive
    <3>3. CASE /\ slot[i] # Empty
               /\ slot' = [slot EXCEPT ![i] = Touched(@, now')]
               /\ dev' = dev
      <4>1. slot[i] \in Entry
        BY <1>2, <3>3 DEF TypeOK
      <4>2. /\ Touched(slot[i], now').ifindex = slot[i].ifindex
            /\ Touched(slot[i], now').coa = slot[i].coa
        BY <4>1 DEF Touched, Entry
      <4>. QED  BY <1>2, <3>2, <3>3, <4>2 DEF TypeOK, SlotsLive
    <3>4. CASE Fill(i, c, l, dev)
      BY <1>2, <3>0, <3>2, <3>4, FillLive DEF TypeOK
    <3>5. ASSUME NEW ds \in Named(slot[i].ifindex), Replaced(i, c, l),
                 Fill(i, c, l, DevDel(dev, ds))
          PROVE  SlotsLive'
      <4>1. slot[i] # Empty
        BY <3>5 DEF Replaced, Found
      <4>2. slot[i].coa # None /\ Live(dev, slot[i].ifindex)
        BY <1>2, <3>2, <4>1 DEF TypeOK, Entry, Live
      <4>3. ds = {slot[i].ifindex}
        BY <4>2 DEF Named
      <4>4. \A j \in Slots \ {i} : slot[j] # Empty => slot[j].ifindex # slot[i].ifindex
        BY <1>2, <3>2, <4>1, OneSlotEach
      <4>5. \A j \in Slots \ {i} : slot[j] # Empty =>
              slot[j].ifindex \in Dev /\ DevDel(dev, ds)[slot[j].ifindex] = slot[j].coa
        BY <3>2, <4>3, <4>4 DEF DevDel
      <4>6. DevDel(dev, ds) \in [Dev -> Coa \union {None}]
        BY <1>2, DevDelType DEF TypeOK
      <4>. QED  BY <1>2, <3>0, <3>5, <4>5, <4>6, FillLive
    <3>. QED  BY <3>1, <3>3, <3>4, <3>5
  <2>2. CASE Leave
    BY <1>2, <2>2 DEF Leave, SlotsLive
  <2>3. CASE Exit
    BY <2>3 DEF Exit, SlotsLive
  <2>4. CASE UNCHANGED vars
    BY <1>2, <2>4 DEF vars, SlotsLive
  <2>. QED  BY <1>2, <2>1, <2>2, <2>3, <2>4 DEF Next, Ended
<1>. QED  BY <1>1, <1>2, PoolInvariant, PTL DEF Spec

-------------------------------------------------------------------------------
(* The tunnel in use is the one asked for last, and the one replaced is    *)
(* the one asked for longest ago: two slots keep them apart.               *)

Recent ==
  /\ \A i \in Slots : slot[i] # Empty => slot[i].last_access \in 1 .. now
  /\ \A i, j \in Slots :
       (i # j /\ slot[i] # Empty /\ slot[j] # Empty) =>
         slot[i].last_access # slot[j].last_access
  /\ used \in Dev =>
       \E i \in Slots : /\ slot[i] # Empty /\ slot[i].ifindex = used
                       /\ slot[i].last_access = now

\* An acquisition makes its slot the most recent one.
LEMMA WrittenRecent ==
  ASSUME TypeOK, TypeOK', Recent, NEW c \in Coa, NEW l \in Link, Asked(c, l),
         NEW i \in Slots, NEW e \in Entry, Written(i, e, c, l)
  PROVE  Recent'
<1>1. /\ slot'[i] = e /\ e # Empty /\ e.last_access = now' /\ e.ifindex = used'
      /\ \A j \in Slots : j # i => slot'[j] = slot[j]
  BY DEF Written, TypeOK, Entry, Empty
<1>2. now \in Nat /\ now' = now + 1
  BY DEF Asked, TypeOK
<1>3. \A j \in Slots : slot'[j] # Empty => slot'[j].last_access \in 1 .. now'
  BY <1>1, <1>2 DEF Recent
<1>4. \A j \in Slots : (j # i /\ slot[j] # Empty) => slot[j].last_access # now'
  BY <1>2 DEF Recent
<1>5. \A j, k \in Slots :
        (j # k /\ slot'[j] # Empty /\ slot'[k] # Empty) =>
          slot'[j].last_access # slot'[k].last_access
  BY <1>1, <1>4 DEF Recent
<1>. QED  BY <1>1, <1>3, <1>5 DEF Recent

\* The invariant behind it.
LEMMA PoolRecent == Spec => []Recent
<1>. DEFINE Inv == TypeOK /\ Prefix /\ SlotsDistinct /\ InUses
<1>1. Init => Recent
  BY DEF Init, Recent
<1>2. ASSUME Inv, Inv', Recent, [Next]_vars PROVE Recent'
  <2>1. ASSUME NEW c \in Coa, NEW l \in Link,
               Reuse(c, l) \/ Create(c, l) \/ Replace(c, l)
        PROVE  Recent'
    <3>1. Acquired(c, l) /\ Asked(c, l)
      BY <2>1, Acquisition DEF Acquired
    <3>2. PICK i \in Slots, e \in Entry : Written(i, e, c, l)
      BY <1>2, <3>1, AcquiredWrites
    <3>. QED  BY <1>2, <3>1, <3>2, WrittenRecent
  <2>2. CASE Leave
    BY <1>2, <2>2 DEF Leave, Recent
  <2>3. CASE Exit
    BY <1>2, <2>3 DEF Exit, Recent
  <2>4. CASE UNCHANGED vars
    BY <1>2, <2>4 DEF vars, Recent
  <2>. QED  BY <1>2, <2>1, <2>2, <2>3, <2>4 DEF Next, Ended
<1>. QED  BY <1>1, <1>2, PoolInvariant, PTL DEF Spec

\* A tunnel that is added leaves the end of every existing device as it is.
LEMMA FillKeeps ==
  ASSUME NEW i \in Slots, NEW c \in Coa, NEW l \in Link, NEW f, Fill(i, c, l, f),
         NEW d \in Dev, f[d] # None
  PROVE  dev'[d] = f[d]
<1>1. PICK n \in AddResults(f, c) : dev' = DevAdd(f, n, c)
  BY DEF Fill
<1>2. n = FAILED \/ f[n] = c \/ f[n] = None
  BY AddResultsType
<1>. QED  BY <1>1, <1>2 DEF DevAdd

\* The tunnel in use is never deleted to make room for another, in pools of
\* any size above one.
THEOREM PoolInUseSurvives ==
  ASSUME OneLink, MayFail = {}, SLOTS > 1
  PROVE  Spec => InUseSurvives
<1>. DEFINE Inv == TypeOK /\ Prefix /\ SlotsDistinct /\ InUses
<1>1. ASSUME Inv, SlotsLive, Recent, [Next]_vars, Live(dev, used), ~ended'
      PROVE  dev'[used] = dev[used]
  <2>0. used \in Dev /\ dev[used] # None
    BY <1>1 DEF Live
  <2>1. ASSUME NEW c \in Coa, NEW l \in Link, Reuse(c, l)
        PROVE  dev'[used] = dev[used]
    BY <2>1 DEF Reuse
  <2>2. ASSUME NEW c \in Coa, NEW l \in Link, Create(c, l)
        PROVE  dev'[used] = dev[used]
    BY <2>0, <2>2, FillKeeps DEF Create
  <2>3. ASSUME NEW c \in Coa, NEW l \in Link, Replace(c, l)
        PROVE  dev'[used] = dev[used]
    <3>1. PICK i \in Slots :
            /\ Replaced(i, c, l)
            /\ \E ds \in Named(slot[i].ifindex) : Fill(i, c, l, DevDel(dev, ds))
      BY <2>3 DEF Replace
    <3>2. PICK ds \in Named(slot[i].ifindex) : Fill(i, c, l, DevDel(dev, ds))
      BY <3>1
    <3>3. \A j \in Slots : slot[j] # Empty /\ slot[i].last_access <= slot[j].last_access
      <4>1. \A j \in Slots : slot[j].last_access \in Nat
        BY <1>1 DEF TypeOK, Entry, Empty
      <4>. QED  BY <3>1, <4>1 DEF Replaced, Found, Older
    <3>4. /\ ~ended
          /\ slot[i].ifindex \in Dev /\ dev[slot[i].ifindex] = slot[i].coa
          /\ slot[i].coa # None
      <4>1. slot[i] \in Entry /\ ~ended
        BY <1>1, <2>3, <3>3 DEF TypeOK, Replace, Asked
      <4>. QED  BY <1>1, <3>3, <4>1 DEF SlotsLive, Entry
    <3>5. ds = {slot[i].ifindex}
      BY <3>2, <3>4 DEF Named, Live
    <3>6. PICK k \in Slots : slot[k].ifindex = used /\ slot[k].last_access = now
      BY <1>1, <2>0 DEF Recent
    <3>7. PICK j \in Slots : j # i
      BY DEF Slots
    <3>8. slot[i].last_access < now
      <4>1. /\ slot[j].last_access \in 1 .. now /\ slot[i].last_access \in 1 .. now
            /\ slot[i].last_access # slot[j].last_access /\ now \in Nat
        BY <1>1, <3>3, <3>7 DEF Recent, TypeOK
      <4>. QED  BY <3>3, <4>1
    <3>9. slot[i].ifindex # used
      <4>1. now \in Nat /\ i # k
        BY <1>1, <3>6, <3>8 DEF TypeOK
      <4>2. slot[i].coa # slot[k].coa
        BY <1>1, <3>3, <4>1, OneSlotEach
      <4>. QED  BY <1>1, <3>3, <3>4, <3>6, <4>2 DEF SlotsLive
    <3>10. DevDel(dev, ds)[used] = dev[used]
      BY <2>0, <3>5, <3>9 DEF DevDel
    <3>. QED  BY <2>0, <3>2, <3>10, FillKeeps
  <2>4. CASE Leave
    BY <2>4 DEF Leave
  <2>5. CASE Exit
    BY <1>1, <2>5 DEF Exit
  <2>6. CASE UNCHANGED vars
    BY <2>6 DEF vars
  <2>. QED  BY <1>1, <2>1, <2>2, <2>3, <2>4, <2>5, <2>6 DEF Next, Ended
<1>2. (Inv /\ SlotsLive /\ Recent /\ [Next]_vars) =>
        [(Live(dev, used) /\ ~ended') => dev'[used] = dev[used]]_vars
  BY <1>1
<1>. QED  BY <1>2, PoolInvariant, PoolLive, PoolRecent, PTL DEF Spec, InUseSurvives
===============================================================================
