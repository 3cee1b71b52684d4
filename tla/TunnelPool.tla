------------------------------ MODULE TunnelPool ------------------------------
(***************************************************************************)
(* The tunnel pool of the mobile node (tunlctl.h): a cache of the tunnels  *)
(* to the home agent, one per care-of address and interface, so that a     *)
(* handoff back to an address finds its tunnel.  tunnelXX_del does         *)
(* nothing; a tunnel goes when a full pool needs its slot, or at exit.     *)
(*                                                                         *)
(* The array has a segment of 25 slots for each type of tunnel.  They are  *)
(* used by three copies of the same code and share nothing but the counter *)
(* the kernel takes indexes from: this module is one segment, with the     *)
(* devices of its type.                                                    *)
(***************************************************************************)
EXTENDS Integers

CONSTANTS
  SLOTS,      \* slots of a segment (25)
  Coa,        \* care-of addresses, the near ends of the tunnels
  Link,       \* interface indexes
  Uses,       \* the pairs of address and interface the node may get
  Dev,        \* interface indexes tunnel devices get
  MayFail,    \* what the kernel may refuse: "create" to create a device,
              \* "flags" to bring up a device it has created
  None,       \* no address, no interface
  MaxTime     \* bound: acquisitions of a behaviour

ASSUME PoolAssumption ==
  /\ SLOTS \in Nat \ {0} /\ MaxTime \in Nat
  /\ Uses \subseteq Coa \X Link
  /\ Dev \subseteq Nat \ {0}
  /\ MayFail \subseteq {"create", "flags"}
  /\ None \notin Coa \union Link

VARIABLES
  slot,    \* the segment of tunnel_pool
  dev,     \* dev[d]: near end of device d, None if there is no such device
  used,    \* tnlXX_ifindex of mn.c: the tunnel the current binding uses
  now,     \* time(0) of the last acquisition
  ended    \* the daemon has exited

vars == <<slot, dev, used, now, ended>>

NoDev  == 0
FAILED == -1

Slots == 0 .. SLOTS - 1
Empty == [coa |-> None, link |-> None, ifindex |-> NoDev, last_access |-> 0]
Entry == [coa : Coa, link : Link, ifindex : Dev \union {FAILED},
          last_access : 1 .. MaxTime]

TypeOK ==
  /\ slot \in [Slots -> Entry \union {Empty}]
  /\ dev \in [Dev -> Coa \union {None}]
  /\ used \in Dev \union {NoDev, FAILED}
  /\ now \in 0 .. MaxTime
  /\ ended \in BOOLEAN

\* tnl_init
Init ==
  /\ slot = [i \in Slots |-> Empty]
  /\ dev = [d \in Dev |-> None]
  /\ used = NoDev /\ now = 0 /\ ended = FALSE

-------------------------------------------------------------------------------
(* find_tunnel *)

\* Mutant: only free slots are looked for.
Found_Free(i, c, l) == slot[i] = Empty

Found(i, c, l) == slot[i] = Empty \/ (slot[i].coa = c /\ slot[i].link = l)

\* The search stops at the first slot that is free or has the tunnel.
FirstFit(i, c, l) == Found(i, c, l) /\ \A j \in Slots : Found(j, c, l) => i <= j

Older(i, j) == \/ slot[i].last_access < slot[j].last_access
               \/ slot[i].last_access = slot[j].last_access /\ i <= j

\* With no such slot: the one asked for longest ago.
Replaced(i, c, l) == /\ \A j \in Slots : ~Found(j, c, l)
                     /\ \A j \in Slots : Older(i, j)

-------------------------------------------------------------------------------
(* The kernel: _tunnelXX_add and _tunnelXX_del.  The kernel looks for a    *)
(* device by the ends of the tunnel, not by the interface below it.        *)

Live(f, d) == d \in Dev /\ f[d] # None

Remembered == {slot[i].ifindex : i \in Slots} \union {used}

\* Mutant: an error yields 0.
AddResults_Zero(f, c) ==
  {d \in Dev : f[d] = None /\ d \notin Remembered} \union {NoDev}

AddResults(f, c) ==
  LET same   == {d \in Dev : f[d] = c}
      unused == {d \in Dev : f[d] = None /\ d \notin Remembered}
  IN  (IF same # {} THEN same ELSE {d \in unused : \A e \in unused : d <= e})
        \union (IF "create" \in MayFail THEN {FAILED} ELSE {})

\* What _tunnelXX_add returns for device d.
Returned(d) == {d} \union (IF "flags" \in MayFail THEN {FAILED} ELSE {})

DevAdd(f, d, c) == [e \in Dev |-> IF e = d THEN c ELSE f[e]]

\* Mutant: the tunnel that is replaced stays.
DevDel_Nothing(f, ds) == f

DevDel(f, ds) == [e \in Dev |-> IF e \in ds THEN None ELSE f[e]]

\* What deleting index d deletes.  The name of the device is looked up first;
\* when there is none, its buffer is used uninitialized: it names no device,
\* or the one an earlier call left on the stack.
Named(d) == IF Live(dev, d) THEN {{d}} ELSE {{}} \union {{e} : e \in Dev}

-------------------------------------------------------------------------------
(* tunnelXX_add(coa, home agent, link), called when a handoff begins; its  *)
(* result becomes tnlXX_ifindex.                                           *)

\* Mutant: last_access is set only when the tunnel is created.
Touched_Never(e, t) == e

Touched(e, t) == [e EXCEPT !.last_access = t]

\* Handoffs fall into different seconds of a clock that is not set back.
Asked(c, l) == /\ ~ended /\ <<c, l>> \in Uses
               /\ now < MaxTime /\ now' = now + 1
               /\ UNCHANGED ended

\* The tunnel is in the pool, or its creation failed before.
Reuse(c, l) ==
  /\ Asked(c, l)
  /\ \E i \in Slots :
       /\ FirstFit(i, c, l) /\ slot[i] # Empty
       /\ slot' = [slot EXCEPT ![i] = Touched(@, now')]
       /\ used' = slot[i].ifindex
  /\ UNCHANGED dev

\* Slot i gets the tunnel, which is created once f holds the devices.
Fill(i, c, l, f) ==
  \E d \in AddResults(f, c) : \E index \in Returned(d) :
    /\ dev' = DevAdd(f, d, c)
    /\ slot' = [slot EXCEPT ![i] = [coa |-> c, link |-> l, ifindex |-> index,
                                    last_access |-> now']]
    /\ used' = index

Create(c, l) ==
  /\ Asked(c, l)
  /\ \E i \in Slots : /\ FirstFit(i, c, l) /\ slot[i] = Empty
                      /\ Fill(i, c, l, dev)

\* Mutant: the type of the slot is not reset, so that nothing is created.
Replace_KeepsType(c, l) ==
  /\ Asked(c, l)
  /\ \E i \in Slots : /\ Replaced(i, c, l)
                      /\ dev' = DevDel(dev, {slot[i].ifindex})
                      /\ slot' = [slot EXCEPT ![i] = Touched(@, now')]
                      /\ used' = slot[i].ifindex

Replace(c, l) ==
  /\ Asked(c, l)
  /\ \E i \in Slots :
       /\ Replaced(i, c, l)
       /\ \E ds \in Named(slot[i].ifindex) : Fill(i, c, l, DevDel(dev, ds))

\* The node goes home or to an address that needs another type of tunnel:
\* tunnelXX_del does nothing, and the index is forgotten.
Leave ==
  /\ ~ended /\ used # NoDev /\ used' = NoDev
  /\ UNCHANGED <<slot, dev, now, ended>>

\* mn_cleanup, tnl_cleanup.  Every device is in the pool (NoLeakedDevice), so
\* an uninitialized name adds nothing to what is deleted.
Exit ==
  /\ ~ended /\ ended' = TRUE
  /\ dev' = DevDel(dev, {slot[i].ifindex : i \in Slots})
  /\ used' = NoDev
  /\ UNCHANGED <<slot, now>>

\* No acquisition is left within the bound, or the daemon has exited.
Ended == (ended \/ now = MaxTime) /\ UNCHANGED vars

Next ==
  \/ \E c \in Coa, l \in Link : Reuse(c, l) \/ Create(c, l) \/ Replace(c, l)
  \/ Leave \/ Exit \/ Ended

Spec == Init /\ [][Next]_vars

-------------------------------------------------------------------------------
(* Properties. *)

\* No tunnel has two slots: the search, which stops at the first free slot,
\* never misses a tunnel behind it.
SlotsDistinct ==
  \A i, j \in Slots :
    (i # j /\ slot[i] # Empty) =>
      <<slot[i].coa, slot[i].link>> # <<slot[j].coa, slot[j].link>>

\* Every device is in the pool, so that it is deleted at the latest at exit.
NoLeakedDevice ==
  \A d \in Dev : Live(dev, d) => ~ended /\ \E i \in Slots : slot[i].ifindex = d

\* A slot names the device of its tunnel: what a handoff gets from the pool
\* after any number of replacements is not the index of a device deleted
\* meanwhile.
SlotsLive ==
  \A i \in Slots :
    (~ended /\ slot[i] # Empty) =>
      slot[i].ifindex \in Dev /\ dev[slot[i].ifindex] = slot[i].coa

\* The tunnel in use is never deleted to make room for another: a handoff
\* keeps the old tunnel until its successor carries the traffic.
InUseSurvives ==
  [][(Live(dev, used) /\ ~ended') => dev'[used] = dev[used]]_vars
===============================================================================
