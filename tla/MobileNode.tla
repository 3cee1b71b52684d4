------------------------------ MODULE MobileNode ------------------------------
(***************************************************************************)
(* The mobile node daemon (mn.c): one thread that reads netlink events of  *)
(* links and addresses and commands from its control socket, decides which *)
(* care-of address the node uses, and moves tunnels, routes, rules and     *)
(* encapsulation over to it.                                               *)
(*                                                                         *)
(* Netlink events arrive in order and the daemon reads nothing else of the *)
(* host, so an action is an event together with the decision its handler   *)
(* takes.  The kernel calls of the handler are then executed one by one    *)
(* (todo); the daemon may be killed between two of them.                   *)
(***************************************************************************)
EXTENDS MnKernel, FiniteSetsExt

CONSTANTS
  NIF,         \* size of ifaces (3)
  Wlan,        \* the interfaces whose names begin with wlan; the others
               \* begin with rmnet
  Reach,       \* the pairs of interface and address that may be configured
  MayMove,     \* the kinds of event of a behaviour: "kill", "foreign", "ctrl",
               \* "idle" (a link that is up but not running)
  MaxCrash     \* bound: times the daemon is killed

ASSUME NodeAssumption ==
  /\ NIF \in Nat \ {0} /\ MaxCrash \in Nat
  /\ Wlan \subseteq Ifindex
  /\ Reach \subseteq Ifindex \X (Coa \union {HoaV6})
  /\ MayMove \subseteq {"kill", "foreign", "ctrl", "idle"}

VARIABLES
  link,     \* link[i]: what the host says of interface i
  has,      \* the pairs of interface and address the host has
  d,        \* the daemon's static variables
  k,        \* the kernel
  todo,     \* the calls the current handler has yet to make
  pc,       \* what the daemon is doing
  down,     \* the interface whose loss waits for the connection controller
  crashes   \* times the daemon was killed

vars == <<link, has, d, k, todo, pc, down, crashes>>

\* IFF_UP and IFF_RUNNING: both, only the first, none.
Flags == {"up", "idle", "down"}
Slots == 0 .. NIF - 1

\* One element of ifaces.  A zeroed one claims valid addresses.
Iface == [ifindex : Ifindex \union {0}, flags : Flags,
          coa6 : CoaV6 \union {HoaV6, None}, ok6 : BOOLEAN,
          coa4 : CoaV4 \union {None}, ok4 : BOOLEAN]
Empty == [ifindex |-> 0, flags |-> "down",
          coa6 |-> None, ok6 |-> TRUE, coa4 |-> None, ok4 |-> TRUE]

Daemon ==
  [ ifaces    : [Slots -> Iface],
    preferred : Ifindex \union {0},
    current   : Ifindex \union {0},
    type      : {"home", "v4", "v6"},      \* current_coa_type; home is initial
    coa6      : CoaV6 \union {HoaV6, None},
    coa4      : CoaV4 \union {HoaV4, None},
    auto      : BOOLEAN ]

DaemonInit ==
  [ ifaces |-> [s \in Slots |-> Empty], preferred |-> 0, current |-> 0,
    type |-> "home", coa6 |-> None, coa4 |-> None, auto |-> TRUE ]

CallName == {"rule_add", "rule_del", "route_add", "route_del", "encap", "decap",
             "dstopt_add", "dstopt_del", "probe", "bu", "tnl_cleanup"}

\* The type invariant: every variable of the daemon, every kernel table and
\* every call under way stays in its range.
TypeOK ==
  /\ link \in [Ifindex -> Flags \union {"gone"}] /\ has \subseteq Reach
  /\ d \in Daemon /\ k \in Kernel
  /\ \A n \in DOMAIN todo : todo[n][1] \in CallName
  /\ pc \in {"run", "ipfix", "end", "wild"}
  /\ down \in Ifindex \union {0}
  /\ crashes \in 0 .. MaxCrash

\* mn_init: every variable is cleared and the mobile table comes into use.
Init ==
  /\ link = [i \in Ifindex |-> "gone"] /\ has = {}
  /\ d = DaemonInit /\ k = KernelInit
  /\ todo = RulesAdd("mobile")
  /\ pc = "run" /\ down = 0 /\ crashes = 0

-------------------------------------------------------------------------------
(* The table of interfaces. *)

\* The first slot with interface index i (0: the first free one); NIF if none.
SlotOf(e, i) ==
  LET at == {s \in Slots : e.ifaces[s].ifindex = i}
  IN  IF at = {} THEN NIF ELSE Min(at)

\* A handler's decision: the new daemon state and the calls to make.
Result(e, calls) == [d |-> e, todo |-> calls]

-------------------------------------------------------------------------------
(* do_handoff(coa, i): the interface i has the address coa.                *)

\* The coa of the interface is the one in use.
Unchanged(e, f, coa) ==
  IF f = "v6" THEN e.type \in {"v6", "home"} /\ e.coa6 = coa
              ELSE e.type = "v4" /\ e.coa4 = coa

\* Mutant: the rule of the address left behind stays.
LeaveV6_KeepsRule(e) ==
  RoutesDel("mobile", e.coa6) \o << <<"dstopt_del">> >>

\* Mutant: the routes stay.
LeaveV6_KeepsRoutes(e) ==
  << <<"dstopt_del">>, <<"rule_del", "main", e.coa6>> >>

\* What the IPv6 binding had.
LeaveV6(e) ==
  RoutesDel("mobile", e.coa6)
    \o << <<"dstopt_del">>, <<"rule_del", "main", e.coa6>> >>

\* Mutant: the rule is looked for in the table it is in.
ForgetV4_Main(e) == << <<"rule_del", "main", e.coa4>> >>

\* The rule of the IPv4 address is looked for in table 250, where none is.
ForgetV4(e) == << <<"rule_del", "250", e.coa4>> >>

\* Go home from wherever the node is.
MoveHome(e, i) ==
  Result([e EXCEPT !.current = i, !.type = "home", !.coa6 = HoaV6, !.coa4 = HoaV4],
         (CASE e.type = "v6" -> LeaveV6(e)
            [] e.type = "v4" ->
                 << <<"bu", HoaV6>> >> \o ForgetV4(e)
                   \o << <<"decap", e.coa4>> >> \o RoutesDel("mobile", e.coa4)
            [] OTHER -> << >>)
           \o << <<"bu", HoaV6>> >>)

\* Mutant: the temporary table is not used.
ViaTemporary_Never(coa, calls) == calls \o RoutesAdd("mobile", coa)

\* While the old binding is taken down the temporary table carries the traffic.
ViaTemporary(coa, calls) ==
  RoutesAdd("tmp", coa) \o RulesAdd("tmp") \o calls \o RoutesAdd("mobile", coa)

EndTemporary(coa) == RoutesDel("tmp", coa) \o RulesDel("tmp")

MoveV6(e, coa, i) ==
  Result([e EXCEPT !.current = i, !.type = "v6", !.coa6 = coa],
         (IF e.type = "v4" THEN << <<"bu", coa>> >> ELSE << >>)
           \o << <<"rule_add", "main", coa>> >>
           \o ViaTemporary(coa,
                CASE e.type = "v6" -> LeaveV6(e)
                  [] e.type = "v4" ->
                       << <<"decap", e.coa4>> >> \o RoutesDel("mobile", e.coa4)
                         \o ForgetV4(e)
                  [] OTHER -> << >>)
           \o << <<"dstopt_add", coa>> >> \o EndTemporary(coa)
           \o << <<"bu", coa>> >>)

Encapsulate(e, coa) ==
  (IF e.type = "v4" THEN << <<"decap", e.coa4>> >> ELSE << >>)
    \o << <<"encap", coa>> >>

\* The rule follows the last IPv4 address used, whatever came in between.
BypassV4(e, coa) ==
  IF e.coa4 = coa THEN << >>
  ELSE << <<"rule_add", "main", coa>>, <<"rule_del", "main", e.coa4>> >>

\* Mutant: the update is left to bu_worker.
Announce_ProbeOnly(i, coa) == << <<"probe", i, coa>> >>

\* k rounds of probe and update, one or ten; they differ in number only.
Announce(i, coa) == << <<"probe", i, coa>>, <<"bu", coa>> >>

MoveV4(e, coa, i) ==
  Result([e EXCEPT !.current = i, !.type = "v4", !.coa4 = coa],
         BypassV4(e, coa) \o RoutesAdd("tmp", coa) \o Encapsulate(e, coa)
           \o RulesAdd("tmp")
           \o (CASE e.type = "v6" -> LeaveV6(e)
                 [] e.type = "v4" -> RoutesDel("mobile", e.coa4)
                 [] OTHER -> << >>)
           \o RoutesAdd("mobile", coa) \o EndTemporary(coa)
           \o Announce(i, coa))

\* No caller passes hoav4: process_addr drops it.
do_handoff(e, f, coa, i) ==
  LET s == SlotOf(e, i)
      r == IF s = NIF THEN e
           ELSE IF f = "v6" THEN [e EXCEPT !.ifaces[s].coa6 = coa]
                            ELSE [e EXCEPT !.ifaces[s].coa4 = coa]
  IN  IF s = NIF \/ i # e.preferred \/ Unchanged(e, f, coa) THEN Result(r, << >>)
      ELSE IF f = "v4" THEN MoveV4(r, coa, i)
      ELSE IF coa = HoaV6 THEN MoveHome(r, i) ELSE MoveV6(r, coa, i)

\* Move to the interface of slot s, by IPv6 if it has a valid address, else by
\* IPv4; without either the outcome is none.
UseSlot(e, s, none) ==
  LET x == e.ifaces[s]
      p == [e EXCEPT !.preferred = x.ifindex]
  IN  IF x.ok6 THEN do_handoff(p, "v6", x.coa6, x.ifindex)
      ELSE IF x.ok4 THEN do_handoff(p, "v4", x.coa4, x.ifindex)
      ELSE none

\* Handoff "to a dummy card", interface 0: the first free slot stands for it.
UseDummy(e) == do_handoff([e EXCEPT !.preferred = 0], "v6", HoaV6, 0)

-------------------------------------------------------------------------------
(* Netlink events. *)

Idle == pc = "run" /\ todo = << >>

Known(i) == SlotOf(d, i) # NIF
Room     == SlotOf(d, 0) # NIF

Act(r) == d' = r.d /\ todo' = r.todo

\* Nothing of the daemon or the kernel changes.
Nothing == UNCHANGED <<d, k, todo, pc, down, crashes>>

\* An access past either end of ifaces: it hits nothing the model has, or it
\* hits other variables, and what follows is not modelled.
Overrun == /\ pc' \in {"run", "wild"}
           /\ UNCHANGED <<d, k, todo, down, crashes>>

\* process_link, RTM_NEWLINK: link i changes to the flags f.
Flagged(i, f) == /\ Idle /\ link[i] # f /\ (f = "idle" => "idle" \in MayMove)
                 /\ link' = [link EXCEPT ![i] = f] /\ UNCHANGED has

SlotFlags(i, f) == d' = [d EXCEPT !.ifaces[SlotOf(d, i)].flags = f]

\* The daemon tells the connection controller and waits for its answer.
WlanChanged(i, f) ==
  /\ Flagged(i, f) /\ i \in Wlan
  /\ Known(i) /\ d.ifaces[SlotOf(d, i)].flags # f
  /\ SlotFlags(i, f)
  /\ pc' = "ipfix" /\ down' = IF f = "up" THEN 0 ELSE i
  /\ UNCHANGED <<k, todo, crashes>>

\* cngictrl_gprsfix waits for nothing; a loss is only recorded.
GprsChanged(i, f) ==
  /\ Flagged(i, f) /\ i \notin Wlan
  /\ Known(i) /\ d.ifaces[SlotOf(d, i)].flags # f
  /\ SlotFlags(i, f)
  /\ UNCHANGED <<k, todo, pc, down, crashes>>

LinkAdded(i) ==
  /\ Flagged(i, "up") /\ ~Known(i) /\ Room
  /\ d' = [d EXCEPT !.ifaces[SlotOf(d, 0)] =
             [Empty EXCEPT !.ifindex = i, !.flags = "up", !.ok6 = FALSE, !.ok4 = FALSE]]
  /\ UNCHANGED <<k, todo, pc, down, crashes>>

LinkIgnored(i, f) ==
  /\ Flagged(i, f)
  /\ IF Known(i) THEN d.ifaces[SlotOf(d, i)].flags = f ELSE Room /\ f # "up"
  /\ Nothing

LinkOverrun(i, f) == Flagged(i, f) /\ ~Known(i) /\ ~Room /\ Overrun

\* Mutant: only slot 0 is looked at, as for a deleted address.
FallBack_First(e, i) ==
  IF e.auto /\ e.ifaces[0].ifindex \notin {0, i} /\ e.ifaces[0].flags = "up"
  THEN UseSlot(e, 0, Result(e, << >>)) ELSE Result(e, << >>)

\* The first other interface that is up, if the node may choose by itself.
FallBack(e, i) ==
  LET up == {s \in Slots : /\ e.ifaces[s].ifindex \notin {0, i}
                           /\ e.ifaces[s].flags = "up"}
  IN  IF e.auto /\ up # {} THEN UseSlot(e, Min(up), Result(e, << >>))
      ELSE Result(e, << >>)

Invalid(e, i) ==
  [e EXCEPT !.ifaces[SlotOf(e, i)] = [@ EXCEPT !.ok6 = FALSE, !.ok4 = FALSE]]

\* The rest of the handler, once any datagram has arrived at the control
\* socket (cngictrl_ipfix).
Answered ==
  /\ pc = "ipfix" /\ pc' = "run" /\ down' = 0
  /\ Act(IF down = 0 THEN Result(d, << >>) ELSE FallBack(Invalid(d, down), down))
  /\ UNCHANGED <<link, has, k, crashes>>

\* RTM_DELLINK: the loop stops at the first slot of another interface, so it
\* sees the slot of i (id) only if that comes before; else id is -1.
DelLink(i) ==
  LET other == {s \in Slots : d.ifaces[s].ifindex \notin {0, i}}
      seen  == Known(i) /\ \A s \in other : SlotOf(d, i) < s
      r     == IF other = {} THEN UseDummy(d)
               ELSE UseSlot(d, Min(other),
                      do_handoff([d EXCEPT !.preferred = d.ifaces[Min(other)].ifindex],
                                 "v6", HoaV6, d.ifaces[Min(other)].ifindex))
  IN  /\ Idle /\ link[i] = "down" /\ \A x \in has : x[1] # i
      /\ link' = [link EXCEPT ![i] = "gone"]
      /\ Act(IF seen THEN [r EXCEPT !.d.ifaces[SlotOf(d, i)] = Empty] ELSE r)
      /\ IF seen THEN pc' = "run" ELSE pc' \in {"run", "wild"}
      /\ UNCHANGED <<has, k, down, crashes>>

-------------------------------------------------------------------------------
(* process_addr. *)

\* A handoff to interface i for its new address, if it is the preferred one.
IfPreferred(e, f, coa, i) ==
  IF e.preferred \in {0, i} THEN do_handoff([e EXCEPT !.preferred = i], f, coa, i)
  ELSE Result(e, << >>)

Configured(i, a) == /\ Idle /\ link[i] # "gone" /\ <<i, a>> \in Reach
                    /\ has' = has \union {<<i, a>>} /\ UNCHANGED link

\* The slot an address event of i writes.
EventSlot(i) == IF Known(i) THEN SlotOf(d, i) ELSE SlotOf(d, 0)

NewAddrV6(i, a) ==
  LET s == EventSlot(i)
      x == IF Known(i) THEN d.ifaces[s]
           ELSE [Empty EXCEPT !.ifindex = i, !.flags = "up", !.ok4 = FALSE]
  IN  /\ Configured(i, a) /\ a \notin CoaV4
      /\ Known(i) \/ Room
      /\ IF x.flags # "up" THEN UNCHANGED <<d, todo>>
         ELSE Act(IfPreferred(
                [d EXCEPT !.ifaces[s] = [x EXCEPT !.ok6 = TRUE, !.coa6 = a],
                          !.preferred = IF d.auto THEN i ELSE @], "v6", a, i))
      /\ UNCHANGED <<k, pc, down, crashes>>

\* An IPv4 address takes the place of a home of the daemon's own making, or of
\* nothing; it counts as proof that the link is up.
NewAddrV4(i, a) ==
  LET s == EventSlot(i)
      x == IF Known(i) THEN d.ifaces[s]
           ELSE [d.ifaces[s] EXCEPT !.ifindex = i, !.ok6 = FALSE]
      y == [x EXCEPT !.ok4 = TRUE, !.flags = "up", !.coa4 = a]
      e == [d EXCEPT !.ifaces[s] = y,
                     !.preferred = IF @ = 0 \/ (i \in Wlan /\ d.auto) THEN i ELSE @]
      r == IF y.ok6 THEN IfPreferred(e, "v6", y.coa6, i)
                    ELSE IfPreferred(e, "v4", a, i)
  IN  /\ Configured(i, a) /\ a \in CoaV4
      /\ Known(i) \/ Room
      /\ Act([r EXCEPT !.todo = << <<"probe", i, a>> >> \o @])
      /\ UNCHANGED <<k, pc, down, crashes>>

\* Without a slot an IPv4 address is ignored; an IPv6 address is not.
AddrOverrun(i, a) ==
  /\ Configured(i, a) /\ ~Known(i) /\ ~Room
  /\ IF a \in CoaV4 THEN Nothing ELSE Overrun

\* An IPv6 address on an interface that is neither wlan nor rmnet, such as the
\* home address that a handoff puts on its tunnel.
ForeignAddr ==
  /\ "foreign" \in MayMove /\ Idle /\ UNCHANGED <<link, has>>
  /\ IF Room THEN Nothing ELSE Overrun

\* The search for another address looks at slot 0 only.
FirstOnly(e, i) ==
  IF e.auto /\ e.ifaces[0].ifindex \notin {0, i}
  THEN UseSlot(e, 0, UseDummy(e)) ELSE Result(e, << >>)

\* RTM_DELADDR
DelAddr(i, a) ==
  LET f     == IF a \in CoaV4 THEN "v4" ELSE "v6"
      inuse == Unchanged(d, f, a) /\ d.current = i
      r     == IF inuse THEN FirstOnly(d, i) ELSE Result(d, << >>)
      s     == SlotOf(d, i)
  IN  /\ Idle /\ <<i, a>> \in has
      /\ has' = has \ {<<i, a>>}
      /\ Act(IF s = NIF THEN r
             ELSE IF f = "v6" /\ r.d.ifaces[s].coa6 = a
                  THEN [r EXCEPT !.d.ifaces[s] = [@ EXCEPT !.coa6 = None, !.ok6 = FALSE]]
             ELSE IF f = "v4" /\ r.d.ifaces[s].coa4 = a
                  THEN [r EXCEPT !.d.ifaces[s] = [@ EXCEPT !.coa4 = None, !.ok4 = FALSE]]
             ELSE r)
      /\ UNCHANGED <<link, k, pc, down, crashes>>

-------------------------------------------------------------------------------
(* Commands of the control socket (ctrl_fd_check) and periodic work. *)

\* CTRL_CMD_HANDOFF.  The interface becomes the preferred one in every case, also
\* one that is gone.  Number 0, which a zeroed slot would match, is never sent: both
\* clients refuse it (mn-ctrl.c:97, cngictrl.c:1006).
CmdHandoff(i) ==
  LET e == [d EXCEPT !.preferred = i]
      s == SlotOf(d, i)
  IN  /\ Idle /\ "ctrl" \in MayMove
      /\ Act(IF d.current = i \/ d.auto \/ s = NIF THEN Result(e, << >>)
             ELSE UseSlot(e, s, Result(e, << >>)))
      /\ UNCHANGED <<link, has, k, pc, down, crashes>>

\* CTRL_CMD_AUTO_HANDOFF_ON and _OFF
CmdAuto(on) ==
  /\ Idle /\ "ctrl" \in MayMove
  /\ d' = [d EXCEPT !.auto = on]
  /\ UNCHANGED <<link, has, k, todo, pc, down, crashes>>

\* At home nothing is sent.
bu_worker ==
  /\ Idle /\ d.type # "home"
  /\ todo' = << <<"bu", IF d.type = "v6" THEN d.coa6 ELSE d.coa4>> >>
  /\ UNCHANGED <<link, has, d, k, pc, down, crashes>>

nat_probe_worker ==
  LET s == SlotOf(d, d.preferred)
  IN  /\ Idle /\ d.preferred # 0 /\ s # NIF
      /\ d.ifaces[s].flags = "up" /\ d.ifaces[s].ok4
      /\ todo' = << <<"probe", d.preferred, d.ifaces[s].coa4>> >>
      /\ UNCHANGED <<link, has, d, k, pc, down, crashes>>

\* Mutant: encapsulation is left running.
Cleanup_KeepsEncap(e) ==
  << <<"rule_del", "main", e.coa4>>, <<"rule_del", "main", e.coa6>>,
     <<"tnl_cleanup">> >> \o RulesDel("mobile")

\* mn_cleanup
Cleanup(e) ==
  << <<"rule_del", "main", e.coa4>>, <<"rule_del", "main", e.coa6>> >>
    \o (CASE e.type = "v6" -> LeaveV6(e)
          [] e.type = "v4" -> RoutesDel("mobile", e.coa4)
          [] OTHER -> << >>)
    \o << <<"tnl_cleanup">> >> \o RulesDel("mobile")
    \o (IF e.type = "v4" THEN << <<"decap", e.coa4>> >> ELSE << >>)

\* SIGINT is looked at between two rounds of mn_worker.
Exit ==
  /\ Idle /\ pc' = "end" /\ todo' = Cleanup(d)
  /\ UNCHANGED <<link, has, d, k, down, crashes>>

\* SIGKILL at any time, and a new start that knows nothing of the addresses
\* the host has.
Killed ==
  /\ "kill" \in MayMove /\ pc # "wild" /\ crashes < MaxCrash
  /\ crashes' = crashes + 1
  /\ d' = DaemonInit /\ todo' = RulesAdd("mobile") /\ pc' = "run" /\ down' = 0
  /\ UNCHANGED <<link, has, k>>

\* The next call of the handler.
Call ==
  /\ todo # << >> /\ k' = Do(k, Head(todo)) /\ todo' = Tail(todo)
  /\ UNCHANGED <<link, has, d, pc, down, crashes>>

Stopped == /\ pc \in {"end", "wild"} /\ todo = << >>
           /\ UNCHANGED vars

Next ==
  \/ \E i \in Ifindex :
       \/ \E f \in Flags : \/ WlanChanged(i, f) \/ GprsChanged(i, f)
                           \/ LinkIgnored(i, f) \/ LinkOverrun(i, f)
       \/ LinkAdded(i) \/ DelLink(i) \/ CmdHandoff(i)
  \/ \E x \in Reach : \/ NewAddrV6(x[1], x[2]) \/ NewAddrV4(x[1], x[2])
                      \/ AddrOverrun(x[1], x[2]) \/ DelAddr(x[1], x[2])
  \/ ForeignAddr
  \/ Answered
  \/ \E on \in BOOLEAN : CmdAuto(on)
  \/ bu_worker \/ nat_probe_worker
  \/ Exit \/ Killed \/ Call \/ Stopped

Spec == Init /\ [][Next]_vars

-------------------------------------------------------------------------------
(* Properties. *)

\* The daemon is between two handlers and has not been killed since the host
\* came up.
Settled == pc \in {"run", "ipfix"} /\ todo = << >> /\ crashes = 0

\* The care-of address in use; none at home.
InUse == CASE d.type = "v6" -> d.coa6
           [] d.type = "v4" -> d.coa4
           [] OTHER -> None

\* Whatever sequence of moves led here, the traffic of both home addresses
\* goes into the tunnel of the care-of address in use, and nothing is left of
\* the temporary table: every handler undoes what the binding before had
\* installed and what it installed in passing (do_handoff).
TrafficFollowsBinding ==
  Settled =>
    /\ \A f \in Family : Path(k, f) = InUse /\ k.route[<<"mobile", f>>] = InUse
    /\ \A f \in Family : k.rule[<<"tmp", AnySrc[f]>>] = 0 /\ k.route[<<"tmp", f>>] = None

\* UDP encapsulation is on for the IPv4 care-of address in use and for no
\* other, the destination option for the IPv6 one: both are found again by the
\* address of the binding before, which must still be remembered.
EncapFollowsBinding ==
  Settled =>
    /\ k.sa = IF d.type = "v4" THEN {d.coa4} ELSE {}
    /\ k.pol = IF d.type = "v4" THEN d.coa4 ELSE None
    /\ k.dstopt = IF d.type = "v6" THEN d.coa6 ELSE None

\* The packets of the tunnel itself never enter the tunnel: the care-of address
\* in use has its rule for the main table, even after the daemon was killed and
\* started again.
NoLoop == pc \in {"run", "ipfix"} /\ todo = << >> /\ d.type # "home"
            => k.rule[<<"main", InUse>>] > 0

\* No rule of an IPv6 care-of address outlives its use, and none is doubled.
RulesV6Exact ==
  Settled => \A c \in CoaV6 : k.rule[<<"main", c>>] = IF c = InUse THEN 1 ELSE 0

\* Make before break: while the node moves from tunnel to tunnel no call of the
\* handler leaves its traffic without a tunnel, killed daemons included.
NeverDark ==
  [][\A f \in Family :
       Path(k, f) # None /\ d'.type # "home" /\ pc' # "end" => Path(k', f) # None]_vars

\* What the home agent was told last is what the node uses.
Announced ==
  Settled /\ k.said # None => k.said = IF d.type = "home" THEN HoaV6 ELSE InUse

\* When the node may choose by itself and loses the WLAN it uses, it moves to
\* the other interface if that is up and has an address.
FallsBack ==
  [][\A s \in Slots :
       /\ pc = "ipfix" /\ pc' = "run" /\ down # 0 /\ down = d.current
       /\ d.type # "home" /\ d.auto /\ Cardinality(Ifindex) = 2
       /\ d.ifaces[s].ifindex \notin {0, down} /\ d.ifaces[s].flags = "up"
       /\ d.ifaces[s].ok6 \/ d.ifaces[s].ok4
       => d'.current = d.ifaces[s].ifindex]_vars

\* After mn_cleanup nothing is left but rules of IPv4 care-of addresses the
\* node went home from.
ExitClean ==
  pc = "end" /\ todo = << >> /\ crashes = 0 =>
    /\ \A x \in RouteTable \X Family : k.route[x] = None
    /\ k.sa = {} /\ k.pol = None /\ k.dstopt = None
    /\ \A x \in RuleTable \X Src :
         k.rule[x] > 0 => x[1] = "main" /\ x[2] \in CoaV4 \ {d.coa4}

\* mn.c:194 "at most ten interfaces are supported": the daemon keeps track of
\* every interface that came up.
UpIsTracked == Settled => \A i \in Ifindex : link[i] = "up" => Known(i)

\* mn.c:1334 "handoff to home link, delete all routes and rules"
HomeIsClean ==
  Settled /\ d.type = "home" => \A c \in Coa : k.rule[<<"main", c>>] = 0

\* mn.c:1307 "delete the routes and tunnels if the deleted coa is in use": when
\* the node may choose and another interface has an address, it does not keep
\* a care-of address that is deleted.
DeletedIsLeft ==
  [][\A x \in has \ has' :
       /\ d.type # "home" /\ x = <<d.current, InUse>> /\ d.auto
       /\ \E s \in Slots : /\ d.ifaces[s].ifindex \notin {0, d.current}
                           /\ d.ifaces[s].ok6 \/ d.ifaces[s].ok4
       => InUse' # InUse]_vars

\* mn.c:2033 "You must firstly disable auto_handoff": a refused command does
\* not change what the daemon does next.
RefusedIsRefused ==
  [][\A i \in Ifindex : d.auto /\ d.current # i /\ CmdHandoff(i) => d' = d]_vars
===============================================================================
