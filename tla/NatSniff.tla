------------------------------- MODULE NatSniff -------------------------------
(***************************************************************************)
(* How the home agent learns the address a NAT gives to a mobile node      *)
(* (getnatsrc in ha.c).  The probe itself does not tell: it comes from     *)
(* another port.  So for every probe the daemon opens a packet socket and  *)
(* waits for the next packet to UDP port 666, the port of encapsulated     *)
(* traffic, and takes its source.  Meanwhile it handles nothing else.      *)
(*                                                                         *)
(* Addresses in use, bindings and the kernel are the subject of HomeAgent; *)
(* here the table has what the probe handler writes.                       *)
(***************************************************************************)
EXTENDS Integers, Sequences

CONSTANTS
  Node,        \* home addresses in the table
  Stranger,    \* home addresses that are not
  Behind,      \* the memory behind the table, taken as an element of it
  Iface,       \* interface indexes of the nodes
  Endpoint,    \* addresses and ports of NATs
  Null,        \* no endpoint
  Other,       \* source of any other IPv4 packet the host receives
  NIF,         \* size of the arrays of struct _mn (30)
  FdMax,       \* sockets the daemon may open (RLIMIT_NOFILE)
  PASSTIME,    \* PASSTIME_USEC, in ticks
  Cap,         \* bound: packets in a socket, updates waiting
  MaxProbe     \* bound: probes

ASSUME SniffAssumption ==
  /\ NIF \in Nat /\ FdMax \in Nat /\ PASSTIME \in Nat /\ Cap \in Nat /\ MaxProbe \in Nat
  /\ Null \notin Endpoint /\ Other \notin Endpoint
  /\ Behind \notin Node /\ Stranger \cap Node = {}

VARIABLES
  pc,       \* where the daemon is
  junk,     \* what lies behind the table is nothing like an element
  ready,    \* select also reported an update
  probe,    \* the probe it has read
  raw,      \* packets in the packet socket
  fds,      \* packet sockets opened
  waited,   \* time since the last one was opened
  got,      \* what getnatsrc returns
  mns,      \* the table
  keep,     \* keepworking
  natq,     \* probes in nat_sock
  mhq,      \* updates in mh_sock
  where,    \* the endpoint each interface of a node has now
  held      \* those held since the probe was read

vars == <<pc, junk, ready, probe, raw, fds, waited, got, mns, keep, natq, mhq, where, held>>
daemon == <<pc, junk, ready, probe, fds, got, mns>>

Probe   == [hoa : Node \union Stranger, ifindex : Iface]
IfMap   == UNION {[1 .. n -> Iface] : n \in 0 .. NIF}
Element == [ifs : IfMap,                                    \* NIF_MAP, nnif
            nat : [1 .. NIF -> Endpoint \union {Null}]]     \* natv4, nat_port
Holding == [mn : Node, ifindex : Iface, at : Endpoint]

\* The type invariant.
TypeOK ==
  /\ pc \in {"select", "socket", "look", "recv", "store", "update", "end", "wild"}
  /\ junk \in BOOLEAN /\ ready \in BOOLEAN /\ keep \in BOOLEAN
  /\ probe \in Probe /\ natq \in Seq(Probe)
  /\ raw \in Seq(Endpoint \union {Other}) /\ got \in Endpoint \union {Null}
  /\ fds \in 0 .. FdMax /\ waited \in 0 .. PASSTIME + 1 /\ mhq \in 0 .. Cap
  /\ mns \in [Node \union {Behind} -> Element]
  /\ where \in [Node -> [Iface -> Endpoint]] /\ held \subseteq Holding

\* Nothing is known of the memory behind the table.  It may look like an element,
\* with any interfaces, or not: its nnif may be negative, or beyond NIF.
Init ==
  /\ pc = "select" /\ junk \in BOOLEAN /\ ready = FALSE /\ probe \in Probe
  /\ raw = << >> /\ fds = 0 /\ waited = 0 /\ got = Null
  /\ \E left \in IfMap :
       mns = [m \in Node \union {Behind} |->
               [ifs |-> IF m = Behind THEN left ELSE << >>,
                nat |-> [s \in 1 .. NIF |-> Null]]]
  /\ keep = TRUE /\ natq = << >> /\ mhq = 0
  /\ where \in [Node -> [Iface -> Endpoint]]
  /\ \A m, n \in Node, i, j \in Iface :
       where[m][i] = where[n][j] => m = n /\ i = j
  /\ held = {}

-------------------------------------------------------------------------------
(* The daemon. *)

\* The probe is done with.
After(more) ==
  pc' = (IF more THEN "update" ELSE "select") /\ got' = Null /\ held' = {}

\* Who has which endpoint now.
Holders == {h \in Holding : h.at = where[h.mn][h.ifindex]}

\* Mutant: keepworking is only looked at when nothing waits.
Select_Ever ==
  /\ pc = "select"
  /\ natq # << >> \/ mhq > 0
  /\ ready' = (mhq > 0)
  /\ IF natq # << >>
     THEN /\ probe' = Head(natq) /\ natq' = Tail(natq) /\ pc' = "socket"
          /\ held' = Holders
     ELSE pc' = "update" /\ UNCHANGED <<probe, natq, held>>
  /\ UNCHANGED <<junk, raw, fds, waited, got, mns, keep, mhq, where>>

\* select reports what waits; a probe is read first.
Select ==
  /\ pc = "select" /\ keep
  /\ natq # << >> \/ mhq > 0
  /\ ready' = (mhq > 0)
  /\ IF natq # << >>
     THEN /\ probe' = Head(natq) /\ natq' = Tail(natq) /\ pc' = "socket"
          /\ held' = Holders
     ELSE pc' = "update" /\ UNCHANGED <<probe, natq, held>>
  /\ UNCHANGED <<junk, raw, fds, waited, got, mns, keep, mhq, where>>

\* Mutant: the socket of the last probe is used again.
OpenSocket_Once ==
  /\ pc = "socket" /\ fds < FdMax
  /\ fds' = 1 /\ waited' = 0 /\ pc' = "look"
  /\ UNCHANGED <<junk, ready, probe, raw, got, mns, keep, natq, mhq, where, held>>

\* A new packet socket; none is closed.  If there is none left it is tried
\* again (goto resock), which changes nothing.
OpenSocket ==
  /\ pc = "socket" /\ fds < FdMax
  /\ fds' = fds + 1 /\ raw' = << >> /\ waited' = 0 /\ pc' = "look"
  /\ UNCHANGED <<junk, ready, probe, got, mns, keep, natq, mhq, where, held>>

LookOn == pc' = "recv" /\ UNCHANGED <<got, held>>

\* Mutant: the daemon waits until there is a packet to port 666.
Look_Ever ==
  /\ pc = "look" /\ LookOn
  /\ UNCHANGED <<junk, ready, probe, raw, fds, waited, mns, keep, natq, mhq, where>>

\* The clock is looked at before each recvfrom, which has no timeout.
Look ==
  /\ pc = "look"
  /\ IF waited > PASSTIME THEN After(ready) ELSE LookOn
  /\ UNCHANGED <<junk, ready, probe, raw, fds, waited, mns, keep, natq, mhq, where>>

\* Mutant: any packet will do.
Matches_Any(p) == TRUE

\* A packet to this host's UDP port 666.
Matches(p) == p # Other

Receive ==
  /\ pc = "recv" /\ raw # << >> /\ raw' = Tail(raw)
  /\ IF Matches(Head(raw)) THEN got' = Head(raw) /\ pc' = "store"
                           ELSE pc' = "look" /\ UNCHANGED got
  /\ UNCHANGED <<junk, ready, probe, fds, waited, mns, keep, natq, mhq, where, held>>

Found(h) == IF h \in Node THEN h ELSE Behind

Listed(ifs, x) == {s \in 1 .. Len(ifs) : ifs[s] = x}

\* nif_map and what follows: a new interface is noted if there is room.
Noted(ifs, x) ==
  IF Listed(ifs, x) = {} /\ Len(ifs) < NIF THEN Append(ifs, x) ELSE ifs

\* The endpoint is stored for the interface in the probe.  The element is read,
\* and the interface noted, before the search is known to have failed.
Store ==
  /\ pc = "store" /\ (Found(probe.hoa) = Behind => ~junk)
  /\ LET m     == Found(probe.hoa)
         noted == Noted(mns[m].ifs, probe.ifindex)
         slots == {s \in Listed(noted, probe.ifindex) : m # Behind /\ s < NIF}
     IN  mns' = [mns EXCEPT ![m] =
                   [ifs |-> noted,
                    nat |-> [s \in 1 .. NIF |->
                              IF s \in slots THEN got ELSE mns[m].nat[s]]]]
  /\ After(ready)
  /\ UNCHANGED <<junk, ready, probe, raw, fds, waited, keep, natq, mhq, where>>

\* So it is if the element is none.  With a large nnif the search leaves the
\* NIF_MAP; it may come back and write nothing.  With a negative one the interface
\* is written in front of it.  What becomes of the daemon then is not followed.
Stray ==
  /\ pc = "store" /\ Found(probe.hoa) = Behind /\ junk
  /\ After(ready) \/ (pc' = "wild" /\ UNCHANGED <<got, held>>)
  /\ UNCHANGED <<junk, ready, probe, raw, fds, waited, mns, keep, natq, mhq, where>>

\* A waiting update is handled.
Update ==
  /\ pc = "update" /\ mhq > 0 /\ mhq' = mhq - 1 /\ pc' = "select"
  /\ UNCHANGED <<junk, ready, probe, raw, fds, waited, got, mns, keep, natq, where, held>>

\* The loop ends when keepworking is looked at.
Leave ==
  /\ pc = "select" /\ ~keep /\ pc' = "end"
  /\ UNCHANGED <<junk, ready, probe, raw, fds, waited, got, mns, keep, natq, mhq, where, held>>

-------------------------------------------------------------------------------
(* The rest of the world. *)

\* The daemon has ended, or nothing can be said of it.
Over == {"end", "wild"}

\* The socket opened last is the one that is read.
Queued(p) == raw' = IF fds > 0 /\ Len(raw) < Cap THEN Append(raw, p) ELSE raw

Probes == fds + Len(natq) + (IF pc = "socket" THEN 1 ELSE 0)

\* A probe, which is a packet to another port.
SendProbe(p) ==
  /\ pc \notin Over /\ Probes < MaxProbe /\ Len(natq) < Cap
  /\ natq' = Append(natq, p) /\ Queued(Other)
  /\ UNCHANGED <<daemon, waited, keep, mhq, where, held>>

\* Encapsulated traffic of a node.
Traffic(n, i) ==
  /\ pc \notin Over /\ Queued(where[n][i])
  /\ UNCHANGED <<daemon, waited, keep, natq, mhq, where, held>>

OtherPacket ==
  /\ pc \notin Over /\ Queued(Other)
  /\ UNCHANGED <<daemon, waited, keep, natq, mhq, where, held>>

SendUpdate ==
  /\ pc \notin Over /\ mhq < Cap /\ mhq' = mhq + 1
  /\ UNCHANGED <<daemon, raw, waited, keep, natq, where, held>>

\* A NAT gives an interface another endpoint, or the node has moved.
Rebind(n, i, e) ==
  /\ pc \notin Over /\ \A m \in Node, j \in Iface : where[m][j] # e
  /\ where' = [where EXCEPT ![n][i] = e]
  /\ held' = IF held = {} THEN {}
             ELSE held \union {[mn |-> n, ifindex |-> i, at |-> e]}
  /\ UNCHANGED <<daemon, raw, waited, keep, natq, mhq>>

\* Time counts while the daemon sniffs.
Tick ==
  /\ pc \in {"look", "recv"} /\ waited <= PASSTIME /\ waited' = waited + 1
  /\ UNCHANGED <<daemon, raw, keep, natq, mhq, where, held>>

\* SIGINT.  It does not end recvfrom (signal() restarts it).
Interrupt ==
  /\ keep /\ keep' = FALSE
  /\ UNCHANGED <<daemon, raw, waited, natq, mhq, where, held>>

Daemon == Select \/ OpenSocket \/ Look \/ Receive \/ Store \/ Stray \/ Update \/ Leave

Next ==
  \/ Daemon
  \/ \E p \in Probe : SendProbe(p)
  \/ \E n \in Node, i \in Iface : Traffic(n, i)
  \/ OtherPacket \/ SendUpdate
  \/ \E n \in Node, i \in Iface, e \in Endpoint : Rebind(n, i, e)
  \/ Tick \/ Interrupt

Spec == Init /\ [][Next]_vars

\* The daemon runs, the clock goes on, and some IPv4 packet always comes.
Fairness == WF_vars(Daemon) /\ WF_vars(Tick) /\ WF_vars(OtherPacket)

LiveSpec == Spec /\ Fairness

-------------------------------------------------------------------------------
(* Properties. *)

Stored(n, i) ==
  {mns[n].nat[s] : s \in {t \in Listed(mns[n].ifs, i) : t <= NIF}} \ {Null}

Known(n, i) == {h.at : h \in {x \in held : x.mn = n /\ x.ifindex = i}}

\* What a probe adds to the table is an endpoint that somebody had after the
\* probe was read: nothing an old socket still held (getnatsrc).
NatIsCurrent ==
  [][\A n \in Node, i \in Iface :
       (Stored(n, i))' \ Stored(n, i) \subseteq {h.at : h \in held}]_vars

\* "struct in_addr natv4[NIF+1]; //mn's v4 nat server address" (ha.c:44): it is
\* the node itself, at this interface, that had it.
NatIsOwn ==
  [][\A n \in Node, i \in Iface :
       (Stored(n, i))' \ Stored(n, i) \subseteq Known(n, i)]_vars

\* "nat probe: Invalid MN's HOA" (ha.c:988): such a probe changes nothing.
UnknownIsRefused == [][mns'[Behind] = mns[Behind]]_vars

\* However many probes have to be given up, waiting updates are read (NAT_SKIP).
UpdatesAreRead == (mhq = Cap) ~> (mhq < Cap \/ pc \in Over)

\* After SIGINT the daemon reaches its cleanup, unless it has strayed.
StopIsSeen == ~keep ~> pc \in Over
===============================================================================
