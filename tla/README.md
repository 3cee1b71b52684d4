# Verification of the DSMIPv6 implementation

This directory holds TLA+ modules, TLC configurations and TLAPS proofs for the
dual-stack mobile IPv6 implementation of this repository: a **home agent** (HA)
under `src/dsmip-ha/dual-stack-mobile-ipv6-lh`, a **mobile node** (MN) under
`src/mn`, and the **connection controller** `src/cngictrl`.  It covers the home
agent's daemon, packet sniffer and packet buffer, the mobile node's daemon and
tunnel pool, the two daemons together over an unreliable network, and the
controller with its threads and its handshake with the mobile node.

Paths below are relative to `src/`; `HA/` is `dsmip-ha/dual-stack-mobile-ipv6-lh/`.

## 1. The system

| component | code | state | operations | interacts with |
|---|---|---|---|---|
| HA daemon | `HA/ha.c` `ha_working` | `mns[]`: per node the active slot, IPv4 addresses and NAT endpoints per slot, interface map, IPv6 address, tunnel indexes, last sequence number and time | handle a NAT probe, handle a binding update (BU), expire, shut down | probes (UDP 667), BUs (mobility header socket), kernel calls, sniffer |
| HA kernel calls | `HA/tunlctl.h`, `rtnl.h`, `ha-xfrm.h` | tunnel devices, routes in tables 252 and 251, rules of priority 887, xfrm states and policies | add and delete each of them | called by the daemon, results ignored |
| HA sniffer | `HA/ha.c` `getnatsrc` | a packet socket per call | wait for a packet to port 666, at most `PASSTIME_USEC` | called inside the probe handler |
| HA messages | `HA/ha.c` `recvbu`, `sendba`, `get_mobopts` | none | parse a BU, build a binding acknowledgement (BA) | daemon |
| HA configuration | `HA/ha.c` `mn_list_init`, `ha_conf` | the table of nodes | read two files | start-up |
| packet buffer | `HA/databuff/databuff.c` | per node a queue of copied packets | copy a packet, release, add a node | netfilter hook and netlink handler; compiled out of the daemon (`__DO_DATABUFF__` is 0) |
| MN daemon | `mn/mn.c` | interfaces, current and preferred interface, care-of address in use, sequence number, counters | link and address events, handoff, periodic BU and probe, commands | HA (messages), kernel, cngictrl and mn-ctrl (UDP 7776, 7777) |
| MN tunnel pool | `mn/tunlctl.h` | 25 slots per tunnel type | find, add with replacement, clean up | MN daemon |
| MN kernel calls | `mn/rtnl.h`, `mn-xfrm.h` | routes, rules, policies | add, delete | MN daemon |
| control socket | `mn/mn.c`, `mn/mn-ctrl`, `cngictrl.c` | pending handshake | LSCOA, HANDOFF, AUTO_ON/OFF, ipfix handshake | MN daemon, both clients |
| connection controller | `cngictrl/cngictrl.c`, `.h` | switches, two threads and their flags | commands, beacon-miss thread, ping thread | MN daemon, system tools |
| UDP encapsulation module | `mn/udpencap` | one configuration | wrap and unwrap packets | kernel packet path |
| kernel tunnel modules | `HA/tnls` | tunnel devices | `SIOCADDTUNNEL`, `SIOCDELTUNNEL` | HA kernel calls |

A mobile node sends a **NAT probe** for every IPv4 address it gets; the HA
compares the address in it with the source of an encapsulated packet it sniffs
and stores both in the slot of the node's interface.  A **BU** then moves the
node's binding to one of these addresses, to an IPv6 address, or home.  A move
creates tunnels, puts temporary routes in table 251 in force with two rules,
deletes the old tunnels (with them the old routes), creates the main routes,
removes the temporary ones, and installs UDP encapsulation when the new address
is behind a NAT.  A binding that was not refreshed for 60 s is removed.

### What is hard

* **Stale facts.**  Probes rewrite the slot a binding came from while the tunnels
  and the encapsulation of the binding still have to be found again to be
  removed.  The handler saves the old facts to a spare slot (`ha.c:995-1008`).  The
  node remembers `current_coav4` beyond the binding (`mn.c:722`).
* **Shared kernel state.**  Tunnels are found by their ends and xfrm states by
  their addresses, so that nodes with one care-of address, or behind one NAT box,
  share them: what one node removes is gone for the other.
* **Order of kernel calls.**  A handoff is some twenty calls on either side.  Routes
  are refused if one exists for the same address; routes die with their tunnel.
* **Failure.**  No result of a kernel call is looked at, and the creation of a tunnel can fail
  half way, with the device there and its index lost.
* **Messages** are lost, repeated and reordered; probes carry a number nobody
  looks at, BUs one that is compared in a window of ten.  Nothing is acknowledged
  to any effect: both ends rely on repetition and on a minute of silence.
* **Crash and restart.**  A killed node leaves its kernel state and starts with
  sequence number 1; a restarted agent starts with an empty table.
* **Time.**  The sniffer waits inside the loop; a stale BU skips the expiry sweep.
* **Two processes, one datagram.**  The node's daemon blocks for an answer of the
  controller and takes any datagram for it; the controller answers only in some modes.
* **Threads without locks.**  The controller's ping and beacon threads share plain
  flags with the main loop and are signalled without the mutex they sleep with.
* **Interrupts.**  The packet buffer's list is used by a hook and a process, unlocked: the
  hook can free the cell the process has just looked at.

The full list, each item at its line with the properties that cover it or the
reason why none does, is `hazards` in `PROJECT.json`.

### What makes each component correct

* HA daemon: bindings change only by acceptable BUs, expiry and shutdown; the
  kernel sends a node's traffic only to the address it is bound to; no device,
  route, rule or encapsulation outlives its binding; an acknowledged node is
  reachable.
* Sniffer: the endpoint stored for a node is that node's; it returns.
* Messages: an option that is built is parsed back; padding is right for each length.
* Packet buffer: a packet that is dropped while its list is sent was copied, and is sent with it,
  in order, if it is no older than a second; no freed cell is used.
* MN daemon: the kernel holds what the address in use needs and nothing else, at each
  moment of a handoff the traffic has a tunnel, and what was announced is what is used.
* Both together: after addresses stop changing, the HA is bound to the address of the
  preferred interface.
* Tunnel pool: a tunnel in use is never deleted; an index handed out is live.
* Control socket and controller: no command waits for ever, no thread misses its stop.

## 2. Modules

| module | what it is |
|---|---|
| `HaKernel` | the kernel of the HA's host: one record, one operator per call |
| `HomeAgent` | the HA daemon: loop position, table of nodes, kernel, acknowledgements; one action per handler branch |
| `BindingCache` | abstract specification: what a home agent promises |
| `NatSniff` | `getnatsrc` call by call inside the probe handler: sockets, packets, the clock |
| `DataBuff` | the kernel packet buffer: the netfilter hook between any two statements of the release |
| `MnKernel` | the kernel of the node's host: rules, routes, encapsulation, one operator per call |
| `MobileNode` | the MN daemon: link and address events, handoffs with their calls one by one, commands, exit, kill |
| `TunnelPool` | the MN's cache of tunnels, one segment of it |
| `Dsmip` | `MobileNode` and `HomeAgent` composed over a network that loses, repeats and reorders; faults; liveness |
| `Controller` | cngictrl's main loop and the control side of the node's daemon: the ipfix handshake |
| `CtlThreads` | cngictrl's threads, flag by flag |
| `MC...` | constants of the runs that are more than model values |
| `...Proofs`, `HomeAgentSafety` | theorems, section 6 |

`Dsmip` instantiates `MobileNode` (with the kernel calls left out, since they do not
change what is sent) and `HomeAgent` (with one node).  `Controller` has its own, smaller
view of the node's daemon: what it does with links and the control socket.
`CtlThreads` explains when the main loop of `Controller` is away.  `NatSniff` refines
what `HomeAgent` takes from `Sources` (an endpoint) and `NatSkip` (none came).

### HomeAgent and the code

The thread is at `pc`: `select`, `nat`, `bu`, `clean`, `end`.  `Select` is the call of
`select` with the time that passed; `more` remembers that the other socket was
readable too.  One message of each kind is handled in an iteration, the probe
first, as in the code.

| action | code |
|---|---|
| `NatProbe`, `NatSkip` | `ha.c:952-1033` with `getnatsrc` 848-908 |
| `BuIgnored`, `BuStale` | `ha.c:1044-1061`; `BuStale` goes back to `select` (`continue`) |
| `BuV4Unknown`, `BuV4Refresh`, `BuV4Move` | `ha.c:1064-1291`; lines 1086-1155 follow a `goto` and are dead |
| `BuHome` | `ha.c:1306-1357` |
| `BuV6Refresh`, `BuV6Move` | `ha.c:1358-1469` |
| `Clean` | `ha.c:1486-1491` with `mn_state_cleanup` 778-838 |
| `Exit` | `ha.c:1493-1497` |

A handler is one action because the daemon is one thread and nothing reads the
kernel tables in between except packets; the order of its calls is kept inside
the action (`Move`, `EndMove`), since it decides which routes are refused.

Abstractions, each with its reason:

* **The network.**  A message that is read is *any* message a node may have sent:
  every order, loss and repetition is included.  Inputs are well-formed messages
  of listed nodes; the endpoint a probe is matched with is one of `Sources[c]`,
  the endpoints packets sent from `c` may come from.
* **natv4, nat_port, in_nat** of a slot are one value, `NoNat` when `in_nat` is 0:
  the code reads the other two only if it is 1.
* **Failures.**  `MayFail` names the calls of a tunnel's creation that may fail (`tunlctl.h`
  84-262): `"create"` is `SIOCADDTUNNEL`, which then leaves nothing; `"flags"` is any call
  after it, which leaves the device while the daemon gets -1 (`Returned`).
* **Interface indexes of tunnels.**  The kernel never reuses one.  The model hands
  out the least index that no device has and no record remembers, so that a
  dead index a record still holds stays dead.
* **Deleting a dead index** does nothing.  `tunnelXX_del` (`tunlctl.h:264-335`) does
  not look at the result of `if_indextoname` and passes an uninitialised buffer
  to the ioctl.  In the compiled daemon this buffer is empty or holds the name
  deleted by the call before; both fail with ENODEV.  This was established by
  running the daemon's own code on a stubbed kernel, and is an assumption.
* **The rules of table 252** are installed once at start and are constant; the
  xfrm states for incoming messages too.
* **The spare encapsulation address** (`hav4_2`) only selects the near end.
* **`recover_count`** is never set to 1, so the recovery thread does nothing.
* **`last_natv4_t`, `nat_probe_ack`** are written and never read.

### TunnelPool and the code

`mn/tunlctl.h` keeps the tunnels a handoff leaves: `tunnelXX_del` does nothing, and a
handoff back to an address finds its tunnel in `tunnel_pool`.  The pool has a
segment per tunnel type (66, 44, 64), used by three copies of one piece of code;
the module is one segment, with the devices of its type.

| action | code |
|---|---|
| `Reuse`, `Create`, `Replace` | the three outcomes of `tunnelXX_add` (216-236, 306-330, 398-419) with `find_tunnel` 53-94 and `_tunnelXX_add`, called by `do_handoff` (`mn.c:569`, 742, 744) |
| `Leave` | `tunnelXX_del` and the reset of the index (`mn.c:607-609` and its likes) |
| `Exit` | `tnl_cleanup` 112-129, called by `mn_cleanup` (`mn.c:1642`) |

Abstractions: the far end is always the home agent and is left out; `last_access` is
the count of acquisitions, which assumes that **the clock advances between two
handoffs** and is not set back; `MayFail` names the calls the kernel may refuse,
`"create"` for `SIOCADDTUNNEL`, `"flags"` for what follows it.  A slot whose index names
no device is deleted by a name that was never written: `Named` lets that hit nothing
or any device of the type.

### MobileNode and the code

The daemon is one thread.  Netlink events arrive in order and it reads nothing else
of the host, so that an action is an event together with what its handler decides:
it sets `d`, the daemon's static variables, and `todo`, the kernel calls the handler
makes.  `Call` executes them one at a time; `Killed` may come between any two.

| action | code (`mn/mn.c`) |
|---|---|
| `WlanChanged`, `GprsChanged`, `LinkAdded`, `LinkIgnored`, `LinkOverrun` | `process_link` 914-1081 |
| `Answered` | the rest of `process_link` once `cngictrl_ipfix` (2164-2237) returned, with `FallBack` 1011-1029 |
| `DelLink` | 1083-1121 |
| `NewAddrV6`, `NewAddrV4`, `AddrOverrun`, `ForeignAddr`, `DelAddr` | `process_addr` 1133-1395 |
| `MoveHome`, `MoveV6`, `MoveV4` (the calls of an action) | `do_handoff` 368-879 |
| `CmdHandoff`, `CmdAuto` | `ctrl_fd_check` 2029-2084 |
| `bu_worker`, `nat_probe_worker` | 1878-1910, 1818-1851 |
| `Exit` | `mn_cleanup` 1583-1664 |
| `Killed` | a kill and a new start, which keeps the kernel's tables |

Assumptions: the creation of a tunnel succeeds (its failures are `TunnelPool`'s);
rules of IPv4 sources are added with `NLM_F_EXCL`, those of IPv6 sources pile up, as
the requests in `rtnl.h` say.  Accesses behind `ifaces` (`mn.c:965`, 1115) are undefined:
either they hit nothing the daemon uses, or anything may follow (`pc = "wild"`, about
which nothing is promised).

### Dsmip and the code

`net` is a set of messages.  Until `calm`, a message may be lost when it is sent,
stay when it is read, and be read at any time; links and addresses change; the node is
killed, the agent stopped and started (`Restart` fills the table as `mn_list_init`).
When it is calm, what is sent arrives before the node repeats itself: the period is
5 s, the agent's patience (`LIFETIME`) 60 s, so that several repetitions fit; in the
model `LIFETIME` is 1 period, the least in which one fits.  `sent` bounds each worker to one
message of a kind per period then; before, the node repeats itself as often as it likes.  `Emit` sends what the node's handlers say with the next
`__BU_SEQ__`, modulo `SEQMOD`.  The bound on moves
allows one more after a kill, so that a new daemon gets its address again.

### Controller and the code

| action | code |
|---|---|
| `CtlReceive` | `cngictrl.c` 391-436: a request of the daemon, `ipfix` (`cngictrl.h` 575-633), the answer |
| `CmdAuto`, `CmdHandoff`, `CmdWifiOn/Off`, `CmdLink`, `CmdTo`, `CmdRmnet`, `CmdMnOn/Off` | the branches of `cngictrl.c` 434-1165 that change what the daemon or the routes depend on |
| `BmissSwitch` | the choice of another network in `bmisscntDetect`, 171-229 |
| `MnSelect`, `MnLink`, `MnAnswered`, `MnSkip`, `MnCommand`, `MnExit` | the daemon's loop, `mn.c` 2277-2345, with `CngictrlIpfix` 2164-2193 |
| `WlanUp`, `WlanDown`, `RmnetUp`, `RmnetDown` | the host |

`wnum` is whether `linknumwlan` is known (it is 0 until `wifi on` or `link fix`, and
`handoff wlan` is refused till then); `route` whether `rmnet_route` was ever saved, without
which `ip route add` gets an empty line and fails; `seq` is `__SEQNO__`, modulo `SEQMOD`
instead of 2^16.  Requests of the daemon carry number 0, so that one that comes when
`__SEQNO__` is 1 is taken for the answer to command 0 (`Mistaken`, `cngictrl.c:402`).

Assumptions: the loopback loses nothing and keeps the order; addresses are static
(`ipfixway static`); `ip route add` fails if there is a default route of that kind; the
network selected at first is `newid`.

### CtlThreads and the code

An action is one access to a shared flag or one call of the threads library.
`PingThread` is `ping()` with `ping_halt` (`ping.c` 586-625, `cngictrl.h` 763-810), `Monitor`
`bmisscntDetect` (`cngictrl.c` 141-279), `Main` the commands.  A signal wakes who
sleeps at that moment.  A join of a thread that was joined, or of thread 0, returns at
once (ESRCH).  `pthread_cond_timedwait` may return for no reason, and it fails when line 250
makes a `tv_nsec` of a second or more, which it does in one wait of ten with the default
interval of 100 ms; either ends the thread (`SpuriousWake`).  `socks` is which threads have
their socket open.

### DataBuff and the code

`Packet` is the hook (`HA/databuff/databuff.c` 187-224), `Report` and `Moved` the netlink
handler (229-273), the actions of `SendBufferedData` the statements of `send_buffered_data`
(88-114).  The hook may come between any two of them.  A cell that was freed may still be
read or written (`bad` notes it), but is not handed out again while the process points to it.
`kmalloc` and `skb_copy` may fail: a packet without a copy is dropped all the same, and
`dropped` notes it with `copied` false.

`halted` says where the model gives up.  `Race` is a hook that runs in the middle of a
statement, or on two processors at once: a data race, after which anything may follow.
`Oops` is a cell whose copy was never made and that is sent, `okfn (NULL)`.  Nothing is
said of what comes after either, or after a freed cell was used.  `Sound` says that this has
not happened and that the cell the process points to has not been freed by the hook: the
properties of packets speak of sound states, and `OnlyHeadIsStolen` says how they
become unsound.

`__DO_DATABUFF__` is 0 in `ha.c`, so that this build of the daemon never reports anything; the
module is the buffer's own.

### NatSniff and the code

The probe handler `ha.c` 934-1061 with `getnatsrc` 848-908, step by step: the socket it
opens and never closes, the clock it looks at before each `recvfrom`, the packets that
wait in the socket opened last.  `Behind` is the element behind the table, which a probe
of an unknown home address reaches (983).  That memory may look like an element, with any
`NIF_MAP`, or not at all (`junk`): its `nnif` may then be anything, and the probe writes
nothing or makes the daemon stray (`Stray`, `pc = "wild"`), after which nothing is said.
`held` is a history variable: who had which endpoint since the probe was read.

## 3. Properties

| property | module | says |
|---|---|---|
| `TypeOK` | each | types and ranges; in `HomeAgent` that slots and interface counts never pass the spare slot, in `CtlThreads` that the threads with an open socket are those that have not ended |
| `NoOrphanTunnel` | `HomeAgent` | every device belongs to a binding that can delete it, unless a call after `SIOCADDTUNNEL` failed |
| `TrafficFollowsBinding` | `HomeAgent` | every route for a home address leads into the tunnel the node's record names, which ends at the address it is bound to |
| `EncapFollowsBinding` | `HomeAgent` | encapsulation is installed only towards the endpoint of a node bound through it |
| `ImplementsCache` | `HomeAgent` | the daemon implements `BindingCache` (refinement) |
| `AckedIsEncapsulated` | `HomeAgent` | with steady NAT boxes an acknowledged node behind one is encapsulated to its port |
| `MoveIsRouted` | `HomeAgent` | a move to another address leaves main routes for both home addresses (action property) |
| `AckedIsRouted` | `HomeAgent` | an acknowledged node has main routes; **violated** |
| `SlotsDistinct`, `NoLeakedDevice`, `SlotsLive` | `TunnelPool` | no tunnel has two slots; every device is named by a slot; a slot's index is the live device of its tunnel |
| `InUseSurvives` | `TunnelPool` | a replacement never deletes the tunnel in use (action property) |
| `TrafficFollowsBinding`, `EncapFollowsBinding` | `MobileNode` | between two handlers the traffic of both families enters the tunnel of the address in use, nothing temporary is left, and exactly this address is encapsulated |
| `Announced` | `MobileNode` | what the agent was told last is what the node uses |
| `ExitClean` | `MobileNode` | after exit nothing is left but rules of former IPv4 addresses |
| `FallsBack` | `MobileNode` | after losing WLAN the node is on the other interface if that has an address |
| `NoLoop` | `MobileNode` | packets of the tunnel never enter the tunnel, after a kill too |
| `RulesV6Exact` | `MobileNode` | no rule of an IPv6 address is left or doubled |
| `NeverDark` | `MobileNode` | no single call of a handoff leaves traffic without a tunnel |
| `Connected` | `Dsmip` | in the end a node whose address and interface stay is bound there, for good |
| `HomeIsUnbound` | `Dsmip` | in the end a node at home is bound nowhere |
| `LoopGoesOn` | `Controller` | the daemon never reads an empty control socket |
| `HandshakeEnds` | `Controller` | a daemon that waits for the controller goes on, unless both `wifi` and `mn` were switched off or its request is taken for an answer |
| `RmnetRouteKept` | `Controller` | wlan coming up leaves rmnet its route where it should carry the traffic |
| `OffIsOff` | `CtlThreads` | no ping thread runs while ping is off: two never share ping's globals |
| `MonitorLives` | `CtlThreads` | while the flag is on, the thread started last watches the beacons, unless a wakeup nobody sent ended it |
| `MonJoined` | `CtlThreads` | the main loop never waits for a beacon thread for ever |
| `DroppedIsKept`, `RecentIsSent` | `DataBuff` | in sound states: what was copied and dropped during a release is sent with it, too old, or came after its last look and waits; what was in the list and is recent is sent by this release |
| `InOrder` | `DataBuff` | in sound states: packets are sent in the order they came |
| `OnlyHeadIsStolen` | `DataBuff` | a freed cell is used only by the process, and only the one the hook freed while the process pointed to it (action property) |
| `NatIsCurrent` | `NatSniff` | an endpoint that is stored was somebody's after the probe was read |
| `UpdatesAreRead`, `StopIsSeen` | `NatSniff` | while sockets last, updates are read in the end and SIGINT ends the daemon, unless it has strayed |

`AckedIsEncapsulated` and `MoveIsRouted` are checked for one node.  Both are proved for any
number of them (section 6), `AckedIsEncapsulated` for nodes behind different NAT boxes: two
nodes that share a box break each other's encapsulation.  A shared care-of address does
not harm a move at the time it is made, but a deleted device is gone for both nodes later;
what remains true then is checked in `ha_two`.  `NoOrphanTunnel` and `EncapFollowsBinding` are
checked for one node and proved for any number.

The modules also state properties that no run checks, under a header that says so: they
are the statements of section 5 that the code does not keep.  `FreshFlags` (`CtlThreads`)
and `NatIsOwn` (`NatSniff`) are the subject of theorems.

## 4. Runs

| run | constants | shows |
|---|---|---|
| `ha_one` | 1 node, 2 IPv4 and 1 IPv6 addresses, a NAT box that rebinds and one that comes and goes, `MayFail` `{"create"}`, numbers 0..2, iterations of up to 2 s | types, no device left behind, encapsulation, the refinement |
| `ha_two` | 2 symmetric nodes, 1 IPv4 and 1 IPv6 address, no NAT, `MayFail` `{"flags"}` | routes when nodes share devices and indexes get lost |
| `ha_steady` | 3 interfaces, 2 IPv4 and 2 IPv6 addresses, steady NAT boxes | the two properties of acknowledged moves |
| `ha_rebind` | a NAT box that chooses another port | the finding of section 5 |
| `pool_steady` | 3 slots, 4 addresses, each on one of 2 interfaces | all five properties of the pool |
| `node_two` | WLAN that is home at times, GPRS, 3 slots, commands, no kill | the binding and the kernel agree after every handler |
| `node_full` | 1 slot for 2 interfaces, both always foreign links that may also be up and not running, foreign addresses, 1 kill | the same where table and life of the daemon end |
| `ctl_operate` | 2 networks, every command and event, 2 commands, 3 events, `SEQMOD` 3 | the handshake and the routes around it |
| `thr_all` | every command, 3 beacon threads, 6 commands, waits that fail | threads and flags |
| `dsmip_fault` | WLAN with home, IPv6 and IPv4 address, 2 changes, 1 more after a kill, 1 kill or restart | the two ends agree in the end |
| `buff_send` | 1 node, 2 care-of addresses, 4 cells, 4 packets, 3 s, `kmalloc` and `skb_copy` may fail | the list under interruption |
| `sniff_live` | 1 node, 1 stranger, 2 endpoints, 3 sockets for 3 probes, any memory behind the table | the sniffer |

**Bounds of the home agent.**  A record has a slot in use, one being rewritten
and the spare one: `NIF` 2 gives one usable slot, 3 gives two.  (`NIF` is 30
in the code; a slot above the second is treated like the second.)  A node
remembers at most three devices and adds two, and indexes nobody remembers are
reused: 4 suffice for one node, 6 for two (devices whose index is lost are found again by
their ends, of which `ha_two` has three); the single addresses of `dsmip_fault` need 3.  `LIFETIME` is 0 in the runs where
time does not matter: then any wait expires a binding and no wait does not,
which is all the handlers see.  `RuleCap` bounds the one counter that grows
without limit, the rules left behind by a move to IPv6 (section 5).  Symmetry is used in
`ha_two` (nodes) and `buff_send` (cells), which check invariants only.

**Bounds of the others.**  The pool has more tunnels than slots, so that replacements
are chosen among three, and 7 acquisitions: enough to fill it, replace every slot and
come back.  `node_two` and `node_full` have no bound on moves: the state space is finite.
`MayMove` names the kinds of event of a run: links that are up and not running (`"idle"`)
are handled like links that are down, the change from one to the other being one more
event, and only `node_full` has them.
A third interface is treated like the second; `FallsBack` speaks of two.  Two commands
and three events of `ctl_operate` suffice for a command inside a handshake after another
change, and for `__SEQNO__`, which starts at 2, to come to 1 with `SEQMOD` 3; every refuted
statement of section 5 is refuted within these.  `thr_all`'s six
commands start, stop and restart both kinds of thread.  In `dsmip_fault`, `Cap` 1 bounds
the messages under way of a lossy network, since a lost and repeated message covers
overtaking; `SEQMOD` 3 with `SEQWIN` 2 lets numbers wrap and be refused.  `buff_send`:
two packets in the list, one sent and one that comes are four; a packet expires after
one unit of time.

**Deadlock** is checked except where a run is bounded by its inputs (`ctl_operate`, `thr_all`,
`dsmip_fault`, `buff_send`, `sniff_live`): there the system stops when they are used up.

**Fairness.**  `HandshakeEnds`: the controller's loop and the daemon's turn
(`WF` of `CtlReceive` and `Daemon`); operator and links owe nothing.  `MonJoined`: the main
loop, the ping thread and each beacon thread are scheduled.  `Connected`,
`HomeIsUnbound`: weak fairness of the loops of both daemons, which run for ever, and of
the node's timers, and strong fairness of `SelectLater`, since the clock goes on however often
select reports something first; the changes end (`CalmDown`).  `UpdatesAreRead`,
`StopIsSeen`: the daemon runs, time passes, and some IPv4 packet always comes
(`OtherPacket`): `recvfrom` has no timeout, and without any packet it does block.

Each property of a passing run has a mutant: a plausible bug in a mapped
definition that the run catches (the spare slot not written, a tunnel not deleted,
encapsulation left by a cleanup, the fixed port instead of the probed one, routes
added before the old ones are gone, a join that does not wait, an answer that
depends on one switch only, a socket used again, ...).

## 5. Finding and observations

The finding the runs reproduce:

**`ha_rebind` / `AckedIsRouted`.**  When a NAT box chooses another port for the
address in use, the next BU is handled as a move to the same address: the
tunnels it "adds" are the existing ones, which it then deletes as the old
ones (`ha.c:1219-1220`); the main routes (1231, 1236) cannot be added; the BA is
sent (1290).  The node stays unreachable until it moves or its binding expires.

Other statements of the sources that the models refute.  No run is kept for them; each
is stated in its module and TLC refutes it with the constants given (those of the
module's run otherwise).

| statement | where | how it fails |
|---|---|---|
| `NoOrphanTunnel` with `"flags"` in `MayFail` | `HA/tunlctl.h:111` | the device is there, -1 is returned, no record ever has its index (`ha_one`'s other constants) |
| `NoTemporaryResidue`: temporary rules and routes are deleted (`ha.c:1242`, 1445) | `ha.c:1434` | a move from behind a NAT to IPv6 removes the encapsulation *instead of* them (`ha_rebind`'s constants) |
| `AckedIsEncapsulated` with two nodes | `HA/ha-xfrm.h:610` | they share the xfrm state behind one NAT box |
| `InUseSurvives` when an address comes back on another interface | `mn/tunlctl.h:223` | two slots name one device; replacing the older deletes it for the newer (`Uses` with an address on two interfaces) |
| `FallsBack` when both interfaces have had the same address | `mn.c:425` | `do_handoff` compares addresses only and does nothing; the lost interface stays current (`Reach` with an address on two interfaces) |
| `UpIsTracked`: "at most ten interfaces are supported" (`mn.c:194`) | `mn.c:193` | `NIF` is 3 (four interfaces, no address) |
| `HomeIsClean`: "delete all routes and rules" (`mn.c:1334`) | `mn.c:512` | an IPv4 rule is added to table 254 and deleted from 250 |
| `DeletedIsLeft`: "delete the routes and tunnels if the deleted coa is in use" (`mn.c:1307`) | `mn.c:1336` | the search for another interface ends after slot 0 |
| `RefusedIsRefused`: "You must firstly disable auto_handoff" (`mn.c:2033`) | `mn.c:2031` | the preferred interface has changed already |
| `Reachable`: "MAKE SURE THAT nat probes are sent before the coav4 is used" (`mn.c:2436`) | `mn.c:1832` | only the preferred interface is probed; after a refused command and a restart of the agent every update is refused (two interfaces, `MayMove` `{"ctrl"}`) |
| `AnsweredFirst`: the answer ends the handshake (`mn.c:2117`) | `mn.c:2233` | any datagram ends it (`Commands` `{"auto"}`) |
| `RefusedOnlyInAuto` | `mn.c:2233` | `auto off` during a handshake is dropped (`{"auto", "handoff"}`) |
| `AnswersIfOn`: a controller that drives the card or the daemon answers (`cngictrl.c:411`) | `cngictrl.c:402` | the request carries number 0, as did the last command, and is taken for an answer (`{"auto"}`; 65534 commands in the program) |
| `StopStops`: "STOP signal caught." (`mn.c:1472`) | `cngictrl.c:411` | `wifi off`, `mn off`: nobody answers and `recvfrom` is restarted (`{"wifi", "mn off"}`) |
| `OneDaemon`: "mn already start!" (`cngictrl.c:539`) | `cngictrl.c:525` | the flag is cleared before the daemon has ended (`{"mn off", "mn on again"}`) |
| `ChoiceStands`: "Can not set wifi when auto off on rmnet" (`cngictrl/readme:15`) | `cngictrl.c:228` | `newid` is assigned before the check |
| `GatewayFollows` | `cngictrl.h:584` | a flap of rmnet or `handoff wlan` leaves the gateway of an earlier network |
| `JoinedIsConfigured` | `cngictrl.c:553` | events are lost while no daemon runs |
| `MainReturns`: every `ping` command ends | `cngictrl.c:680` | `ping cont` signals without the mutex; the thread misses it and `ping off` joins for ever |
| `ZeroDisables`: "0 - Disable bmiss control" (`cngictrl.c:112`) | `cngictrl.c:478` | `wifi off` leaves a thread, `setbmisscnt <n>` starts another, `setbmisscnt 0` ends one |
| `Watched`: ">0 - Enable" bmiss control (`cngictrl.c:113`) | `cngictrl.c:250` | `tv_nsec` may come to a second or more; the wait fails, the thread ends and leaves the flag on, and `setbmisscnt <n>` then starts none |
| `[]~bad`: no cell is used after it was freed | `databuff.c:99` | the hook frees the head the handler has looked at |
| `RecentIsSent` without `Sound` | `databuff.c:99` | the same |
| `DroppedIsKept` without its second alternative | `databuff.c:113` | a packet that comes after the last look at the list is dropped and not sent before the next move |
| `TableInBounds` | `databuff.c:77` | `mncount > MAX_MN_COUNT` admits one entry too many (more nodes than `MAX`) |
| `NatIsOwn` with two nodes | `ha.c:897` | the next packet to port 666 is taken, whoever sent it |
| `UnknownIsRefused` with a stranger | `ha.c:983` | the element behind the table is written before the address is refused |
| `UpdatesAreRead` with fewer sockets than probes | `ha.c:860` | `goto resock` for ever |

Two things that hold for reasons one would not guess: `Connected` survives a restart
of the agent only because an update that is *refused* counts as a sign of life, without
which the next probe's facts would be wiped before the next update; and while the main
loop of the controller waits for a thread, the node's daemon waits with it, in the
middle of a link change.

## 6. Proofs

For every number of nodes, addresses, ports and slots, and whatever calls may fail unless the
table says otherwise, TLAPS checks:

| theorem | module | statement |
|---|---|---|
| `TypeCorrect` | `HomeAgentProofs` | `Spec => []TypeOK` |
| `CacheInvariant` | `HomeAgentProofs` | `Spec => []CacheInv` |
| `Implements` | `HomeAgentProofs` | `Spec => ImplementsCache` |
| `PathSafety` | `HomeAgentSafety` | `Spec => []TrafficFollowsBinding` |
| `NoOrphans` | `HomeAgentSafety` | `Spec => []NoOrphanTunnel`, if `"flags" \notin MayFail` |
| `CreatedIsRouted` | `HomeAgentSafety` | `Spec => [][NewIsRouted]_vars` |
| `MovesRouted` | `HomeAgentSafety` | `Spec => MoveIsRouted`, if `MayFail = {}` |
| `EncapSafety` | `HomeAgentSafety` | `Spec => []EncapFollowsBinding` |
| `AckedEncapsulated` | `HomeAgentSafety` | `Spec /\ []Apart(mns) => []AckedIsEncapsulated`, if `Steady` |
| `PoolTypeCorrect` | `TunnelPoolProofs` | `Spec => []TypeOK` |
| `PoolDistinct` | `TunnelPoolProofs` | `Spec => []SlotsDistinct` |
| `PoolLeaksNone` | `TunnelPoolProofs` | `Spec => []NoLeakedDevice`, if `"flags" \notin MayFail` |
| `PoolLive` | `TunnelPoolProofs` | `Spec => []SlotsLive`, if `OneLink` and `MayFail = {}` |
| `PoolInUseSurvives` | `TunnelPoolProofs` | `Spec => InUseSurvives`, if moreover `SLOTS > 1` |
| `ThreadsTypeCorrect` | `CtlThreadsProofs` | `Spec => []TypeOK` |
| `PingOffIsOff`, `PingStartsFresh` | `CtlThreadsProofs` | `Spec => []OffIsOff`, `Spec => []FreshFlags` |
| `BeaconsWatched` | `CtlThreadsProofs` | `Spec => []MonitorLives` |
| `SniffTypeCorrect` | `NatSniffProofs` | `Spec => []TypeOK` |
| `NatStaysCurrent` | `NatSniffProofs` | `Spec => NatIsCurrent` |
| `NatIsOwnAlone` | `NatSniffProofs` | `Spec => NatIsOwn`, for one node with one interface |
| `ControllerTypeCorrect` | `ControllerProofs` | `Spec => []TypeOK` |
| `CommandsWait` | `ControllerProofs` | `Spec => []LoopGoesOn` |
| `RmnetStays` | `ControllerProofs` | `Spec => RmnetRouteKept` |
| `DaemonInv` | `MobileNodeProofs` | `Spec => []Inv`, the invariant the others follow from |
| `NodeTypeCorrect` | `MobileNodeProofs` | `Spec => []TypeOK` |
| `TrafficIsRight` | `MobileNodeProofs` | `Spec => []TrafficFollowsBinding` |
| `EncapIsRight`, `ToldTheTruth` | `MobileNodeProofs` | `Spec => []EncapFollowsBinding`, `Spec => []Announced` |
| `TunnelsDoNotLoop` | `MobileNodeProofs` | `Spec => []NoLoop` |
| `V6RulesAreExact` | `MobileNodeProofs` | `Spec => []RulesV6Exact` |
| `ExitLeavesLittle` | `MobileNodeProofs` | `Spec => []ExitClean` |
| `MoveIsNeverDark` | `MobileNodeProofs` | `Spec => NeverDark` |
| `LostWlanFallsBack` | `MobileNodeProofs` | `Spec => FallsBack`, if `OneHolder`, `Ifindex` is finite and `"kill" \notin MayMove` |
| `BuffInv` | `DataBuffProofs` | `Spec => []SoundUntilUse`, which the others follow from |
| `BuffHeadStolen` | `DataBuffProofs` | `Spec => OnlyHeadIsStolen` |
| `BuffInOrder` | `DataBuffProofs` | `Spec => []InOrder` |
| `BuffKeepsDropped`, `BuffSendsRecent` | `DataBuffProofs` | `Spec => []DroppedIsKept`, `Spec => []RecentIsSent` |

Assumptions are those named in `HaKernel` and `HomeAgent`: the address sets are
disjoint and do not contain the unspecified address, ports and device indexes are
positive, `NIF > 1`, and `Sources` yields endpoints; in `TunnelPool`, at least one
slot and positive device indexes; in `CtlThreads`, that `None` is no thread; in
`NatSniff`, that endpoints differ from the other values; in `Controller`, that `None` is no
network and `SEQMOD > 2`; in `MobileNode`, that the address sets are disjoint and contain none of the
names of the model (`"any4"`, `"home4"`, ...); in `DataBuff`, that memory is finite and `Null` no
cell.  The runs evaluate them.

The hypotheses beyond these are in the table.  `Steady` says that a NAT box maps an address to
one endpoint for good, unlike the box of `ha_rebind`.  `[]Apart(mns)` says that no
two nodes are bound through the same box at the same time; with a single node it is a
tautology.  `OneHolder` says that no care-of address may be configured on two interfaces; a
killed daemon does not fall back since it forgets all.

*Refinement.*  The handler looks for an address from slot 0 on, but slot 0 is never
written (`nif_map` plus one): `HomeSlotEmpty`.  Without this a found slot might be
0, which means "home".  `CacheInv` is `TypeOK /\ HomeSlotEmpty`.  The one step
that needs an argument of its own is the probe: `ProbeKeepsBinding` shows that
the rewrite of a slot, with the save to the spare slot, leaves `Binding` alone.

*Routes and devices.*  `TrafficFollowsBinding` holds whatever fails; `NoOrphanTunnel`
needs every device created to be known, which is `"flags" \notin MayFail`, and `PathOK` states
it under this condition.  Neither property is inductive: a move deletes only the
devices its kind of binding uses (`tnl66` *or* `tnl44` and `tnl64`), so an unrelated live
device would survive.  `PathOK` adds that every route leads to a live device of the
kind its family's binding calls for, and that every live device is accounted for
by a record of that kind (`Carries`).  Two lemmas carry the proof: `PathReleased`
(nodes released, their devices deleted for everybody) and `PathRebound` (one node
rebound to devices `n`); every handler is an instance of one of them.  The case
that makes it delicate is the rebinding of `ha_rebind`, where new and old devices
are the same.

*Moves.*  `AddResultGot` and `AddPairGot` say what the creation of tunnels returns: an existing
device with the ends asked for, a new one with these ends, or a refusal.  A device that
another node already uses for the same ends is not created again, so the tunnels of a move
may be old ones, and the question is whether the deletions that follow take them.  They
do not: `EndsOK` says that a live device that some record lists as old leads to that record's
binding, while the new ones lead to another address (`MoveIsNew`, `MoveEnds`).  The step forms
(`Keeps`, `Releases`, `MoveForm`, `StepForms`) bring every action into one of three shapes, so
that the invariants about routes are each proved for three cases.

*Encapsulation.*  `EncapOK` is the property with `Via`, the endpoint a record is
bound through.  A probe that shows the address in use to have no NAT any more
would erase that endpoint in place; that the code never loses it rests on
`NatDistinct`: a recorded endpoint is never the node itself, so such a probe
always differs from what is recorded and the slot is saved first
(`ProbeKeepsNat`).  The converse, that a bound node *is* encapsulated, is `AllEncap`.  It
fails as soon as a probe finds another port (the slot is written without a call of the kernel) or
another node behind the same box unbinds (the state is shared); `SlotSteady`, that a slot
holds what a probe of its address says, excludes the first under `Steady`, and `Apart` the second.

*Pool.*  The search stops at the first free slot, so `SlotsDistinct` needs `Prefix`: the
free slots are the last ones.  `Written` is the form all three outcomes of an
acquisition have.  `SlotsLive` needs `OneLink`, the assumption that an address belongs
to one interface, which is exactly what the observation on `InUseSurvives` drops.  `InUseSurvives` rests on
`Recent`: occupied slots were asked for at different times, and the index in use
belongs to the latest; the one replaced is the earliest, hence another if there
are two.

*Threads.*  The sockets open are those of the threads that have not ended because every way out
of the loop comes by `close` (`Ends`).  `OffIsOff` relates `pingstatus`, which the main loop sets last, to the place of
the ping thread: the invariant says for each place of the main loop (signal, join,
create, reset) what `status`, the thread and the two flags are.  `FreshFlags` follows since
`exiting` is set only while the main loop waits in `join`, and `halting` only while `status`
says that there is a thread.

*Sniffer.*  A daemon that strays is not followed.  `NatIsCurrent` rests on the socket that is opened anew for each probe: what
waits in it came after it was opened, hence after `held` began to be recorded.  The
invariant relates every packet that waits, and the endpoint got, to `held`.

*Controller.*  `LoopGoesOn` follows from `LoopInv`, which says for each place of the daemon's
loop which of its two queues cannot be empty: what `select` reported stays there,
since others only add to a queue (`NotifyAdds`).  `RmnetRouteKept` is an action property;
it rests on `HostOK`, what kinds of default route a host can have.

*Mobile node.*  Handlers leave a list of calls, so that a property between handlers is one
about what the list will have done.  `Inv` says that the calls still to be made lead from the
kernel as it is to one that is right for what the daemon has decided (`Run`, `Good`); `Call`
keeps this since it takes the first call off.  The work is in the handlers, whose lists
are executed symbolically, a piece at a time: `Run` asks for the kernels in between and
composes, so that no induction is needed.  The `Outcome` lemmas say what each kind of
handoff leaves of rules, routes and encapsulation.  `Good` has a part that survives kills
(`WeakRules`, from which `NoLoop` follows) and parts that hold while no daemon was killed.
`NeverDark` comes from the same runs: each of their steps keeps the traffic in a tunnel (`Lit`).
`FallsBack` needs to know where addresses come from (`Placed`): a valid address in the table,
and the one in use, is one its interface had, and no interface has two slots.  Otherwise
the slot found need not be that of the other interface, and `do_handoff` could take its address for
the one in use and do nothing.

*Packet buffer.*  The hook can free the cell the process points to, between the look at the
head of the list and its removal or use.  The invariant is `SoundUntilUse`: a freed cell was
used (`bad`), or the hook has freed that cell and nothing of it has been used (`Stolen`), or
`Inv`.  `OnlyHeadIsStolen` follows, since a step from `Inv` leads to `Inv` or `Stolen`, and so
do the properties of sound states.  That a list is what its links say is a statement about a recursive function
(`Chain`), for lists of any length, and the library's induction theorems take an operator
as a parameter, which no installed prover instantiates.  Two lemmas stand in for them:
`Least`, that a nonempty set of naturals has a least element, from the
well-foundedness of `<`; and `ChainIs`, that the function returns the list, by the least
place at which it would not.  `Inv` has: `Linked` (each list is a sequence of live cells in the
order of their packets, and lists share none), `Numbered` (a live cell holds a packet that
came), `Forwarding` (only the list being sent is not forwarded), `TempHeld` (the cell in the
hands of the process is the head it looked at, or live and in no list), `Debts` (what was copied
and dropped, or in the list, and is recent, is sent or still held), `InTurn` (what was sent
precedes what will be).
The number of elements is at most `MAX + 1`, one more than the table has: the
off-by-one of section 5; a `TypeOK` that had `mncount <= MAX` would be wrong.

Only model-checked: everything under fairness (`MonJoined`, `HandshakeEnds`, `Connected`,
`HomeIsUnbound`, `UpdatesAreRead`, `StopIsSeen`; liveness and ENABLED are out of the prover's
reach), and the violation.

## 7. Not modelled, and the plan

In order of importance:

1. `MobilityOptions` (`recvbu`, `get_mobopts`, `sendba`, `ha.c:600-660`): what a BU without an
   alternate care-of option does (`ha.c:624` dereferences nothing); pure operators against a
   reference definition.
2. What ping counts (`ping.c`): missed answers and the choice of the interval.
3. `Controller` with DHCP instead of static addresses.
4. That the agent's steps in `Dsmip` are steps of `HomeAgent` or restarts, proved, so that the
   theorems about `HomeAgent` carry over to the composition.

Parts of modelled components that are left out: the parsing of configuration
(`mn_list_init`, which writes without a bound at `ha.c:1524`, `ha_conf`, `mn_conf`), of
command output (one buffer for two threads, `cngictrl.h:47`), commands that only print or
pass a line on, `LSCOA`, and what the daemon answers to commands, which the controller prints.

Left out for good: packet transformation (`udpencap`, which keeps one configuration and
no other state), the ICMP client, the driving of `wpa_cli`, `pppd` and `ifconfig` through
`system`, vendored kernel code (`tnls`: Linux's `ipip`, `sit` and `ip6_tunnel`, some
thousand lines each) beyond what `HaKernel` and `MnKernel` say of it, and the backup copies of
sources.  These make up most of the repository's lines.
