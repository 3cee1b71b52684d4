------------------------------ MODULE Controller ------------------------------
(***************************************************************************)
(* The connection controller (cngictrl.c, cngictrl.h) and the control side *)
(* of the mobile node daemon (mn.c) that runs beside it.                   *)
(*                                                                         *)
(* The two processes talk over UDP on the loopback.  When the wlan link    *)
(* changes, the daemon asks the controller to configure it (ACK_IPFIX) and *)
(* blocks in recvfrom; the controller changes addresses and the default    *)
(* route and answers.  The operator's commands take the same way to the    *)
(* daemon: the blocked daemon takes whatever comes first for the answer.   *)
(*                                                                         *)
(* The host is modelled from what both processes do with it: the default   *)
(* routes of the main table, and the netlink events the daemon gets, in    *)
(* order.  Addresses are IPv4 and static (ipfixway static).                *)
(***************************************************************************)
EXTENDS Integers, Sequences, SequencesExt

CONSTANTS
  Nets,        \* the access points; each has its address and its gateway
  None,        \* no access point, no interface, no route
  Commands,    \* the kinds of command the operator gives
  Events,      \* the kinds of link event that happen
  SEQMOD,      \* one more than the largest __SEQNO__ (65536)
  MaxCmd,      \* bound: commands of a behaviour
  MaxEvent     \* bound: link events of a behaviour

ASSUME ControllerAssumption ==
  /\ MaxCmd \in Nat /\ MaxEvent \in Nat /\ SEQMOD \in Nat /\ SEQMOD > 2
  /\ None \notin Nets \union {"wlan", "rmnet"} /\ "rmnet" \notin Nets
  /\ Commands \subseteq {"auto", "handoff", "wifi", "link", "to", "rmnet",
                         "mn off", "mn on", "mn on again"}
  /\ Events \subseteq {"wlan", "rmnet", "beacons"}

VARIABLES
  ctl,      \* the controller's static variables
  mn,       \* the daemon
  toMn,     \* datagrams at port 7777, the daemon's
  toCtl,    \* datagrams at port 7776, the controller's
  host,     \* the host: default routes, links, addresses
  evts,     \* netlink events the daemon has yet to read
  cmds,     \* commands given
  happened  \* link events that happened

vars == <<ctl, mn, toMn, toCtl, host, evts, cmds, happened>>

Link == {"wlan", "rmnet"}
Route == Nets \union {"rmnet"}     \* a wlan route is named by its gateway

Ctl == [mnswitch : BOOLEAN, wifi : BOOLEAN, auto : BOOLEAN,
        cur : Link \union {None},              \* currentlinknum
        rmnet : BOOLEAN,                       \* rmnet_flag
        route : BOOLEAN,                       \* rmnet_route is not empty
        wnum : BOOLEAN,                        \* linknumwlan is not 0
        status : {"on", "off", "fix"},         \* rmnetstatus
        wroute : Nets \union {None},           \* wlan_route
        newid : Nets,
        seq : 0 .. SEQMOD - 1]                 \* __SEQNO__

Mn == [pc : {"off", "select", "link", "ack", "ctrl", "two"},
       rc : BOOLEAN,           \* ctrl_fd is in the set select returned
       skip : BOOLEAN,         \* skip_ctrl_fd is not 0
       keep : BOOLEAN,         \* keepworking
       auto : BOOLEAN,         \* auto_handoff_enabled
       pref : Link \union {None}, cur : Link \union {None},
       valid : SUBSET Link,    \* interfaces whose IPv4 address is valid
       lost : BOOLEAN,         \* the request under way says the link is down
       said : {"none", "moved", "disable auto"}]   \* the last answer to HANDOFF

Host == [dflt : SUBSET Route, rmnet : BOOLEAN,
         sel : Nets,                       \* the selected network
         assoc : Nets \union {None},       \* the access point wlan0 is joined to
         addr : SUBSET Nets]               \* whose addresses wlan0 has

Msg == ({"ipfix"} \X BOOLEAN \X BOOLEAN \X (Link \union {None}))
         \union {<<"rmnet">>}
Cmd == ({"handoff"} \X Link) \union {<<"auto", b>> : b \in BOOLEAN}
         \union {<<"done">>}
Event == {<<"up">>, <<"down">>, <<"rmnet up">>}
           \union ({"new", "del"} \X Link)

\* The type invariant: flags, routes and datagrams stay in their range.
TypeOK ==
  /\ ctl \in Ctl /\ mn \in Mn /\ host \in Host
  /\ toMn \in Seq(Cmd) /\ toCtl \in Seq(Msg) /\ evts \in Seq(Event)
  /\ cmds \in 0 .. MaxCmd /\ happened \in 0 .. MaxEvent

MnInit == [pc |-> "select", rc |-> FALSE, skip |-> FALSE, keep |-> TRUE,
           auto |-> TRUE, pref |-> None, cur |-> None, valid |-> {},
           lost |-> FALSE, said |-> "none"]

\* The controller finds the wlan driver loaded and the daemon started; the
\* selected network is the one of newid.  It learns the number of wlan0 by
\* `wifi on` or `link fix`, which may have been given.
Init ==
  /\ ctl \in {c \in Ctl : /\ c.mnswitch /\ c.wifi /\ c.auto /\ c.cur = None
                          /\ ~c.rmnet /\ ~c.route /\ c.status = "fix"
                          /\ c.wroute = None /\ c.seq = 2}
  /\ mn = MnInit
  /\ host = [dflt |-> {}, rmnet |-> FALSE, sel |-> ctl.newid, assoc |-> None,
             addr |-> {}]
  /\ toMn = << >> /\ toCtl = << >> /\ evts = << >>
  /\ cmds = 0 /\ happened = 0

-------------------------------------------------------------------------------
(* The host: what the controller's ip commands do.                         *)

\* `ip route add default` fails when there is a default route.
AddDefault(h, r) ==
  IF h.dflt = {} /\ (r = "rmnet" => h.rmnet) THEN [h EXCEPT !.dflt = {r}] ELSE h

DelDefault(h, r) == [h EXCEPT !.dflt = @ \ {r}]

Running == mn.pc \notin {"off", "two"}

\* The netlink events a daemon that runs gets.
Notify(es) == evts' = IF Running THEN evts \o es ELSE evts

ipaddrdel(h) == [h EXCEPT !.addr = {}]
iproutedel(h) == [h EXCEPT !.dflt = {}]
staticwayfix(c, h) == AddDefault([h EXCEPT !.addr = @ \union {c.newid}], c.newid)

\* The wlan address came or went.
AddrEvents(h, g) ==
  CASE g.addr = h.addr -> << >>
    [] g.addr = {} -> << <<"del", "wlan">> >>
    [] OTHER -> << <<"new", "wlan">> >>

rmnetcheck(c, h) ==
  IF c.status = "fix" /\ "rmnet" \in h.dflt
  THEN [c EXCEPT !.rmnet = TRUE, !.route = TRUE, !.status = "on"] ELSE c

\* The ip command fails if no route was ever saved.
rmnet_route_add(c, h) ==
  IF c.rmnet /\ c.route THEN AddDefault(h, "rmnet") ELSE h
rmnet_route_del(c, h) ==
  IF c.rmnet /\ c.route THEN DelDefault(h, "rmnet") ELSE h
wlan_route_add(c, h) ==
  IF c.wifi /\ c.wroute # None THEN AddDefault(h, c.wroute) ELSE h

\* Mutant: any default route is taken for the wlan one.
wlancheck_AnyDevice(c, h) ==
  IF h.dflt = {} THEN c ELSE [c EXCEPT !.wroute = CHOOSE n \in h.dflt : TRUE]

\* The wlan default route of the table, the one remembered if there is none.
wlancheck(c, h) ==
  IF h.dflt \intersect Nets = {} THEN c
  ELSE [c EXCEPT !.wroute = CHOOSE n \in Nets : n \in h.dflt]

-------------------------------------------------------------------------------
(* ipfix: the controller configures the host for a wlan link that came up  *)
(* or went down; au and cur are what the daemon says of itself.            *)

Outcome(c, h) == [ctl |-> c, host |-> h]

IpfixDown(c, h, au, cur) ==
  LET g == ipaddrdel(h)
  IN  IF cur = "rmnet" THEN Outcome([c EXCEPT !.cur = cur], g)
      ELSE IF au THEN Outcome([c EXCEPT !.cur = "rmnet"],
                              rmnet_route_add(c, iproutedel(g)))
      ELSE Outcome([c EXCEPT !.cur = cur], iproutedel(g))

\* Mutant: the version before the fix of 2012.03.29.
IpfixUp_Unfixed(c, h, au, cur) ==
  LET g == IF cur = "rmnet" THEN rmnet_route_del(c, h) ELSE h
      w == IF c.wifi THEN staticwayfix(c, g) ELSE g
  IN  Outcome([wlancheck(c, w) EXCEPT !.cur = "wlan"], w)

IpfixUp(c, h, au, cur) ==
  LET g == IF cur = "rmnet" THEN rmnet_route_del(c, h) ELSE h
      w == IF c.wifi THEN staticwayfix(c, g) ELSE g
      e == wlancheck(c, w)
  IN  IF ~au /\ cur = "rmnet"
      THEN Outcome([e EXCEPT !.cur = "rmnet"],
                   rmnet_route_add(e, DelDefault(w, e.wroute)))
      ELSE Outcome([e EXCEPT !.cur = "wlan"], w)

ipfix(up, au, cur) ==
  LET c == rmnetcheck(ctl, host)
  IN  IF up THEN IpfixUp(c, host, au, cur) ELSE IpfixDown(c, host, au, cur)

\* Mutant: a controller whose wlan card is off does not answer.
Answers_WifiOnly == ctl.wifi

Answers == ctl.wifi \/ ctl.mnswitch

\* A request carries seqno 0.  It is taken for the answer to the last command if
\* that one had 0, too.
Mistaken == ctl.seq = 1

Reply(m) == m[1] = "ipfix" /\ Answers /\ ~Mistaken

\* Datagrams to a port nobody is bound to are dropped.
Send(c) == toMn' = IF Running THEN Append(toMn, c) ELSE toMn

\* A datagram at port 7776: the main loop looks at it before the terminal.
CtlReceive ==
  /\ toCtl # << >>
  /\ LET m == Head(toCtl) IN
       /\ toCtl' = Tail(toCtl)
       /\ \/ /\ m[1] = "rmnet" /\ ~Mistaken
             /\ ctl' = [ctl EXCEPT !.status = "fix"]
             /\ UNCHANGED <<host, evts>>
          \/ /\ Reply(m)
             /\ LET r == ipfix(m[2], m[3], m[4]) IN
                  /\ ctl' = r.ctl /\ host' = r.host
                  /\ Notify(AddrEvents(host, r.host))
          \/ /\ Mistaken \/ (m[1] = "ipfix" /\ ~Answers)
             /\ UNCHANGED <<ctl, host, evts>>
       /\ IF Reply(m) THEN Send(<<"done">>) ELSE UNCHANGED toMn
  /\ UNCHANGED <<mn, cmds, happened>>

-------------------------------------------------------------------------------
(* The operator's commands, one line each.                                 *)

\* What is sent to the daemon is numbered.
Numbered(c) == [c EXCEPT !.seq = (@ + 1) % SEQMOD]

\* select reports the terminal only when no datagram waits.
Command(kind) ==
  /\ kind \in Commands /\ toCtl = << >> /\ cmds < MaxCmd
  /\ cmds' = cmds + 1
  /\ UNCHANGED <<toCtl, happened>>

CmdAuto(b) ==
  /\ Command("auto")
  /\ ctl' = Numbered([ctl EXCEPT !.auto = b])
  /\ Send(<<"auto", b>>)
  /\ UNCHANGED <<mn, host, evts>>

CmdHandoff(i) ==
  /\ Command("handoff") /\ ~ctl.auto /\ (i = "wlan" => ctl.wnum)
  /\ LET c == [rmnetcheck(ctl, host) EXCEPT !.cur = i]
         h == iproutedel(host)
     IN  /\ ctl' = Numbered(c)
         /\ host' = IF i = "rmnet" THEN rmnet_route_add(c, h)
                                   ELSE wlan_route_add(c, h)
  /\ Send(<<"handoff", i>>)
  /\ UNCHANGED <<mn, evts>>

\* The driver is unloaded: the interface, its address and its routes go.
CmdWifiOff ==
  /\ Command("wifi") /\ ctl.wifi
  /\ ctl' = [ctl EXCEPT !.wifi = FALSE, !.wroute = None]
  /\ host' = [host EXCEPT !.assoc = None, !.addr = {}, !.dflt = @ \ Nets]
  /\ Notify(AddrEvents(host, host')
              \o IF host.assoc # None THEN << <<"down">> >> ELSE << >>)
  /\ UNCHANGED <<mn, toMn>>

\* The driver may be loaded already; then the command only finds its number.
CmdWifiOn ==
  /\ Command("wifi") /\ (ctl.wifi => ~ctl.wnum)
  /\ ctl' = [ctl EXCEPT !.wifi = TRUE, !.wnum = TRUE]
  /\ UNCHANGED <<mn, host, toMn, evts>>

\* `link fix` with the right numbers.
CmdLink ==
  /\ Command("link") /\ ctl' = [ctl EXCEPT !.wnum = TRUE]
  /\ UNCHANGED <<mn, host, toMn, evts>>

\* The node does not sit on rmnet by the operator's choice.
MaySwitch == ~(ctl.cur = "rmnet" /\ ~ctl.auto)

\* select_network: the card leaves its access point and joins the other.
CmdTo(n) ==
  /\ Command("to") /\ ctl.wifi /\ MaySwitch
  /\ ctl' = [ctl EXCEPT !.newid = n]
  /\ LET h == [host EXCEPT !.assoc = n, !.sel = n]
     IN  host' = IF ctl.mnswitch THEN h ELSE staticwayfix(ctl', ipaddrdel(h))
  /\ Notify((IF host.assoc # None THEN << <<"down">> >> ELSE << >>)
              \o << <<"up">> >> \o AddrEvents(host, host'))
  /\ UNCHANGED <<mn, toMn>>

CmdRmnet(s) ==
  /\ Command("rmnet")
  /\ ctl' = [ctl EXCEPT !.status = s,
                        !.rmnet = CASE s = "on" -> TRUE [] s = "off" -> FALSE
                                    [] OTHER -> @]
  /\ UNCHANGED <<mn, host, toMn, evts>>

\* SIGINT: the handler only clears keepworking.
CmdMnOff ==
  /\ Command("mn off") /\ ctl.mnswitch
  /\ ctl' = [ctl EXCEPT !.mnswitch = FALSE, !.status = "fix", !.rmnet = FALSE]
  /\ mn' = [mn EXCEPT !.keep = FALSE]
  /\ UNCHANGED <<host, toMn, evts>>

\* The controller looks at its own flag, not at the process.
CmdMnOn ==
  /\ Command(IF mn.pc = "off" THEN "mn on" ELSE "mn on again")
  /\ ~ctl.mnswitch /\ mn.pc # "two"
  /\ ctl' = [ctl EXCEPT !.mnswitch = TRUE]
  /\ mn' = IF mn.pc = "off" THEN MnInit ELSE [mn EXCEPT !.pc = "two"]
  /\ UNCHANGED <<host, toMn, evts>>

Operator ==
  \/ \E b \in BOOLEAN : CmdAuto(b)
  \/ \E i \in Link : CmdHandoff(i)
  \/ CmdWifiOff \/ CmdWifiOn \/ CmdLink
  \/ \E n \in Nets : CmdTo(n)
  \/ \E s \in {"on", "off", "fix"} : CmdRmnet(s)
  \/ CmdMnOff \/ CmdMnOn

-------------------------------------------------------------------------------
(* The daemon: mn_worker, one descriptor after the other.                  *)

\* The loop ends: mn_cleanup, and the socket goes with the process.
MnExit ==
  /\ mn.pc = "select" /\ ~mn.keep
  /\ mn' = [MnInit EXCEPT !.pc = "off", !.keep = FALSE]
  /\ toMn' = << >> /\ evts' = << >>
  /\ UNCHANGED <<ctl, toCtl, host, cmds, happened>>

MnSelect ==
  /\ mn.pc = "select" /\ mn.keep
  /\ evts # << >> \/ toMn # << >>
  /\ mn' = [mn EXCEPT !.rc = toMn # << >>,
                      !.pc = IF evts # << >> THEN "link" ELSE "ctrl"]
  /\ UNCHANGED <<ctl, toMn, toCtl, host, evts, cmds, happened>>

\* The interface of the care-of address in use, if that address is valid.
CurrentIfindex == IF mn.cur \in mn.valid THEN mn.cur ELSE None

\* Mutant: the blocked daemon still reads its control socket afterwards.
CngictrlIpfix_NoSkip(up) ==
  /\ toCtl' = Append(toCtl, <<"ipfix", up, mn.auto, CurrentIfindex>>)
  /\ mn' = [mn EXCEPT !.pc = "ack", !.lost = ~up]

\* cngictrl_ipfix up to its recvfrom.
CngictrlIpfix(up) ==
  /\ toCtl' = Append(toCtl, <<"ipfix", up, mn.auto, CurrentIfindex>>)
  /\ mn' = [mn EXCEPT !.pc = "ack", !.lost = ~up, !.skip = FALSE]

\* process_addr, RTM_NEWADDR of an IPv4 address.
NewAddr(i) ==
  LET p == IF mn.pref = None \/ (i = "wlan" /\ mn.auto) THEN i ELSE mn.pref
  IN  mn' = [mn EXCEPT !.pc = "ctrl", !.valid = @ \union {i}, !.pref = p,
                       !.cur = IF p = i THEN i ELSE @]

\* RTM_DELADDR: with automatic handoff the node may move to the other
\* interface, if that one is in the first slot.
DelAddr(i) ==
  \E to \in {mn.cur} \union
             (IF mn.auto /\ mn.cur = i THEN mn.valid \ {i} ELSE {}) :
    mn' = [mn EXCEPT !.pc = "ctrl", !.valid = @ \ {i}, !.cur = to,
                     !.pref = IF to = mn.cur THEN @ ELSE to]

\* link_event_fd_check: one netlink event.
MnLink ==
  /\ mn.pc = "link"
  /\ LET e == Head(evts) IN
       /\ evts' = Tail(evts)
       /\ \/ e[1] \in {"up", "down"} /\ CngictrlIpfix(e[1] = "up")
          \/ /\ e[1] = "rmnet up"
             /\ toCtl' = Append(toCtl, <<"rmnet">>)
             /\ mn' = [mn EXCEPT !.pc = "ctrl"]
          \/ e[1] = "new" /\ NewAddr(e[2]) /\ UNCHANGED toCtl
          \/ e[1] = "del" /\ DelAddr(e[2]) /\ UNCHANGED toCtl
  /\ UNCHANGED <<ctl, toMn, host, cmds, happened>>

\* recvfrom returns, whatever it was that came; after a loss the addresses of
\* wlan are invalid and with automatic handoff rmnet takes over.
MnAnswered ==
  /\ mn.pc = "ack" /\ toMn # << >>
  /\ toMn' = Tail(toMn)
  /\ LET v == IF mn.lost THEN mn.valid \ {"wlan"} ELSE mn.valid
         moves == mn.lost /\ mn.auto /\ "rmnet" \in v
     IN  mn' = [mn EXCEPT !.pc = "ctrl", !.valid = v, !.lost = FALSE,
                          !.cur = IF moves THEN "rmnet" ELSE @,
                          !.pref = IF moves THEN "rmnet" ELSE @]
  /\ UNCHANGED <<ctl, toCtl, host, evts, cmds, happened>>

\* CTRL_CMD_HANDOFF.
Handoff(i) ==
  LET p == [mn EXCEPT !.pc = "select", !.skip = TRUE, !.pref = i]
  IN  IF mn.cur # i /\ mn.auto THEN [p EXCEPT !.said = "disable auto"]
      ELSE IF mn.cur # i /\ i \in mn.valid
      THEN [p EXCEPT !.said = "moved", !.cur = i]
      ELSE [p EXCEPT !.said = "none"]

\* The end of an iteration without a command: the socket is not looked at
\* (skip_ctrl_fd was 0), or select did not report it.
MnSkip ==
  /\ mn.pc = "ctrl" /\ (~mn.skip \/ ~mn.rc)
  /\ mn' = [mn EXCEPT !.pc = "select", !.skip = TRUE]
  /\ UNCHANGED <<ctl, toMn, toCtl, host, evts, cmds, happened>>

\* ctrl_fd_check: recvfrom blocks if the datagram is gone.
MnCommand ==
  /\ mn.pc = "ctrl" /\ mn.skip /\ mn.rc /\ toMn # << >>
  /\ toMn' = Tail(toMn)
  /\ LET c == Head(toMn) IN
       mn' = CASE c[1] = "handoff" -> Handoff(c[2])
               [] c[1] = "auto" -> [mn EXCEPT !.pc = "select", !.auto = c[2]]
               [] OTHER -> [mn EXCEPT !.pc = "select"]
  /\ UNCHANGED <<ctl, toCtl, host, evts, cmds, happened>>

Daemon == MnExit \/ MnSelect \/ MnLink \/ MnAnswered \/ MnSkip \/ MnCommand

-------------------------------------------------------------------------------
(* Links come and go by themselves.                                        *)

LinkEvent(kind) ==
  /\ kind \in Events /\ happened < MaxEvent
  /\ happened' = happened + 1
  /\ UNCHANGED <<ctl, mn, toMn, toCtl, cmds>>

\* wlan0 joins the selected network.
WlanUp ==
  /\ LinkEvent("wlan") /\ ctl.wifi /\ host.assoc = None
  /\ host' = [host EXCEPT !.assoc = host.sel]
  /\ Notify(<< <<"up">> >>)

\* The radio link is lost; address and routes stay.
WlanDown ==
  /\ LinkEvent("wlan") /\ host.assoc # None
  /\ host' = [host EXCEPT !.assoc = None]
  /\ Notify(<< <<"down">> >>)

\* The system configures rmnet itself, default route included.
RmnetUp ==
  /\ LinkEvent("rmnet") /\ ~host.rmnet
  /\ host' = [host EXCEPT !.rmnet = TRUE, !.dflt = @ \union {"rmnet"}]
  /\ Notify(<< <<"rmnet up">>, <<"new", "rmnet">> >>)

RmnetDown ==
  /\ LinkEvent("rmnet") /\ host.rmnet
  /\ host' = [host EXCEPT !.rmnet = FALSE, !.dflt = @ \ {"rmnet"}]
  /\ Notify(<< <<"del", "rmnet">> >>)

\* The monitor thread counts too many missed beacons and takes the other
\* network: newid changes in any case.
BmissSwitch ==
  /\ "beacons" \in Events /\ happened < MaxEvent /\ host.assoc # None
  /\ happened' = happened + 1
  /\ \E n \in Nets \ {host.assoc} :
       /\ ctl' = [ctl EXCEPT !.newid = n]
       /\ LET h == IF MaySwitch THEN [host EXCEPT !.assoc = n, !.sel = n] ELSE host
          IN  /\ host' = IF MaySwitch /\ ~ctl.mnswitch
                         THEN staticwayfix(ctl', ipaddrdel(h)) ELSE h
              /\ Notify((IF MaySwitch THEN << <<"down">>, <<"up">> >> ELSE << >>)
                          \o AddrEvents(h, host'))
  /\ UNCHANGED <<mn, toMn, toCtl, cmds>>

Links == WlanUp \/ WlanDown \/ RmnetUp \/ RmnetDown \/ BmissSwitch

Next == CtlReceive \/ Operator \/ Daemon \/ Links

\* Both main loops run; the operator and the links owe nothing.
Spec == Init /\ [][Next]_vars /\ WF_vars(CtlReceive) /\ WF_vars(Daemon)

-------------------------------------------------------------------------------
(* Properties. *)

Pending == \E n \in DOMAIN toCtl : toCtl[n][1] = "ipfix"

\* The daemon that asked for a wlan configuration is answered in the end, so
\* that it does not stay in cngictrl_ipfix (mn.c:2233), where it would serve
\* neither its tunnels nor its home agent: commands that take the answer's
\* place do not matter, and only a controller with both flags off is silent, or
\* one whose last command had the number of requests.
HandshakeEnds ==
  mn.pc = "ack" /\ Pending
    ~> mn.pc # "ack" \/ (~ctl.wifi /\ ~ctl.mnswitch) \/ ctl.seq = 1

\* ctrl_fd_check does not block mn_worker: what select reported is still
\* there, although cngictrl_ipfix may have taken a datagram in between.
LoopGoesOn == mn.pc = "ctrl" /\ mn.skip /\ mn.rc => toMn # << >>

\* A node that runs on rmnet without automatic handoff keeps its default
\* route through rmnet when wlan comes up.
RmnetRouteKept ==
  [][(/\ toCtl # << >> /\ toCtl' = Tail(toCtl)
      /\ Head(toCtl) = <<"ipfix", TRUE, FALSE, "rmnet">>
      /\ "rmnet" \in host.dflt)
     => "rmnet" \in host'.dflt]_vars

-------------------------------------------------------------------------------
(* Statements of the sources that do not hold of the code; README.md says  *)
(* with which Commands and Events TLC refutes each.                        *)

\* The daemon goes on only after the controller has configured the host:
\* recvfrom in cngictrl_ipfix returns with the answer of this request.
AnsweredFirst == mn.pc # "ack" => ~Pending

\* A controller that drives the card or the daemon answers (cngictrl.c:411).
AnswersIfOn == mn.pc = "ack" /\ Pending ~> mn.pc # "ack" \/ (~ctl.wifi /\ ~ctl.mnswitch)

\* `mn off` ends the daemon.
StopStops == ~mn.keep ~> ~Running

\* The controller does not start a second daemon beside one that still runs.
OneDaemon == mn.pc # "two"

\* The daemon refuses no handoff because of an automatic mode the operator
\* has turned off: the controller only sends HANDOFF when its own flag is off.
RefusedOnlyInAuto ==
  [][mn'.said = "disable auto" /\ mn.said # "disable auto" => ctl.auto]_vars

Settled == Running /\ mn.pc = "select" /\ toMn = << >> /\ toCtl = << >>
             /\ evts = << >>

\* When everything is handled, a wlan default route leads through the gateway
\* of the access point wlan0 is joined to.
GatewayFollows ==
  Settled /\ host.assoc # None => host.dflt \intersect Nets \subseteq {host.assoc}

\* When everything is handled and wlan0 is joined, it has the address of that
\* network: the request that followed the last change configured it.
JoinedIsConfigured ==
  Settled /\ host.assoc # None /\ ctl.wifi => host.assoc \in host.addr

\* Without automatic handoff on rmnet the choice of the wlan network stands:
\* neither the operator nor the monitor thread changes it.
ChoiceStands ==
  [][ctl.cur = "rmnet" /\ ~ctl.auto
     => ctl'.newid = ctl.newid /\ host'.sel = host.sel]_vars
===============================================================================
