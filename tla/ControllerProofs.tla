--------------------------- MODULE ControllerProofs ---------------------------
(***************************************************************************)
(* Proofs about the controller's handshake with the daemon, for any number *)
(* of networks, every set of commands and events and behaviours of any     *)
(* length.                                                                 *)
(***************************************************************************)
EXTENDS Controller, SequenceTheorems, TLAPS

LEMMA BoundsAreNat == MaxCmd \in Nat /\ MaxEvent \in Nat
  BY ControllerAssumption, Zenon

\* A command has its number.
LEMMA NumberedType ==
  ASSUME NEW c \in Ctl
  PROVE  Numbered(c) \in Ctl /\ Numbered(c).newid = c.newid
<1>1. SEQMOD \in Nat /\ SEQMOD > 2
  BY ControllerAssumption, Zenon
<1>2. (c.seq + 1) % SEQMOD \in 0 .. SEQMOD - 1
  BY <1>1 DEF Ctl
<1>. QED  BY <1>2 DEF Numbered, Ctl

LEMMA NamesDiffer ==
  None \notin Nets \union {"wlan", "rmnet"} /\ "rmnet" \notin Nets
  BY ControllerAssumption, Zenon

-------------------------------------------------------------------------------
(* The host.  Two things hold of its default routes that the program never *)
(* asks for: a route through rmnet needs the interface, and there is one   *)
(* wlan route at most, since each is added to an empty table.              *)

HostOK(h) ==
  /\ h \in Host
  /\ "rmnet" \in h.dflt => h.rmnet
  /\ \A a, b \in h.dflt \intersect Nets : a = b

LEMMA AddDefaultOK ==
  ASSUME NEW h, HostOK(h), NEW r \in Route
  PROVE  HostOK(AddDefault(h, r))
BY DEF AddDefault, HostOK, Host, Route

LEMMA DelDefaultOK ==
  ASSUME NEW h, HostOK(h), NEW r
  PROVE  HostOK(DelDefault(h, r))
BY DEF DelDefault, HostOK, Host, Route

LEMMA AddressesOK ==
  ASSUME NEW h, HostOK(h)
  PROVE  HostOK(ipaddrdel(h)) /\ HostOK(iproutedel(h))
BY DEF ipaddrdel, iproutedel, HostOK, Host, Route

LEMMA StaticOK ==
  ASSUME NEW h, HostOK(h), NEW c, c.newid \in Nets
  PROVE  HostOK(staticwayfix(c, h))
<1>. DEFINE g == [h EXCEPT !.addr = @ \union {c.newid}]
<1>1. HostOK(g)
  BY DEF HostOK, Host
<1>2. c.newid \in Route
  BY DEF Route
<1>. HIDE DEF g
<1>3. HostOK(AddDefault(g, c.newid))
  BY <1>1, <1>2, AddDefaultOK
<1>. QED  BY <1>3 DEF staticwayfix, g

LEMMA RmnetRouteOK ==
  ASSUME NEW h, HostOK(h), NEW c
  PROVE  HostOK(rmnet_route_add(c, h)) /\ HostOK(rmnet_route_del(c, h))
<1>1. "rmnet" \in Route
  BY DEF Route
<1>. QED  BY <1>1, AddDefaultOK, DelDefaultOK DEF rmnet_route_add, rmnet_route_del

LEMMA WlanRouteOK ==
  ASSUME NEW h, HostOK(h), NEW c \in Ctl
  PROVE  HostOK(wlan_route_add(c, h))
<1>1. c.wroute # None => c.wroute \in Route
  BY DEF Route, Ctl
<1>. QED  BY <1>1, AddDefaultOK DEF wlan_route_add

\* What the controller remembers of the host's routes.
LEMMA ChecksType ==
  ASSUME NEW c \in Ctl, NEW h
  PROVE  /\ rmnetcheck(c, h) \in Ctl /\ wlancheck(c, h) \in Ctl
         /\ wlancheck(c, h).wroute \in Nets \union {None}
         /\ wlancheck(c, h).rmnet = c.rmnet /\ wlancheck(c, h).route = c.route
         /\ rmnetcheck(c, h).newid = c.newid
<1>1. rmnetcheck(c, h) \in Ctl /\ rmnetcheck(c, h).newid = c.newid
  BY DEF rmnetcheck, Ctl
<1>. DEFINE n == CHOOSE x \in Nets : x \in h.dflt
<1>2. h.dflt \intersect Nets # {} => n \in Nets
  OBVIOUS
<1>. HIDE DEF n
<1>3. /\ wlancheck(c, h) \in Ctl
      /\ wlancheck(c, h).wroute \in Nets \union {None}
      /\ wlancheck(c, h).rmnet = c.rmnet /\ wlancheck(c, h).route = c.route
  BY <1>2 DEF wlancheck, Ctl, n
<1>. QED  BY <1>1, <1>3

-------------------------------------------------------------------------------
(* ipfix. *)

\* The configuration after a loss.
LEMMA IpfixDownOK ==
  ASSUME NEW c \in Ctl, NEW h, HostOK(h), NEW au \in BOOLEAN,
         NEW cur \in Link \union {None}
  PROVE  LET r == IpfixDown(c, h, au, cur) IN r.ctl \in Ctl /\ HostOK(r.host)
<1>. DEFINE g == ipaddrdel(h)
            r == IpfixDown(c, h, au, cur)
<1>1. HostOK(g) /\ HostOK(iproutedel(g))
  BY AddressesOK
<1>2. HostOK(rmnet_route_add(c, iproutedel(g)))
  BY <1>1, RmnetRouteOK
<1>3. [c EXCEPT !.cur = cur] \in Ctl /\ [c EXCEPT !.cur = "rmnet"] \in Ctl
  BY DEF Ctl, Link
<1>4. /\ r.ctl \in {[c EXCEPT !.cur = cur], [c EXCEPT !.cur = "rmnet"]}
      /\ r.host \in {g, iproutedel(g), rmnet_route_add(c, iproutedel(g))}
  BY DEF IpfixDown, Outcome
<1>. HIDE DEF g, r
<1>5. r.ctl \in Ctl /\ HostOK(r.host)
  BY <1>1, <1>2, <1>3, <1>4
<1>. QED  BY <1>5 DEF r

\* The configuration of a link that came up.
LEMMA IpfixUpOK ==
  ASSUME NEW c \in Ctl, NEW h, HostOK(h), NEW au \in BOOLEAN,
         NEW cur \in Link \union {None}
  PROVE  LET r == IpfixUp(c, h, au, cur) IN r.ctl \in Ctl /\ HostOK(r.host)
<1>. DEFINE g == IF cur = "rmnet" THEN rmnet_route_del(c, h) ELSE h
            w == IF c.wifi THEN staticwayfix(c, g) ELSE g
            e == wlancheck(c, w)
            v == rmnet_route_add(e, DelDefault(w, e.wroute))
            r == IpfixUp(c, h, au, cur)
<1>1. HostOK(g)
  BY RmnetRouteOK
<1>. HIDE DEF g
<1>2. HostOK(w)
  BY <1>1, StaticOK DEF Ctl
<1>. HIDE DEF w
<1>3. e \in Ctl
  BY ChecksType
<1>. HIDE DEF e
<1>4. HostOK(v)
  BY <1>2, DelDefaultOK, RmnetRouteOK
<1>. HIDE DEF v
<1>5. /\ r.ctl \in {[e EXCEPT !.cur = "rmnet"], [e EXCEPT !.cur = "wlan"]}
      /\ r.host \in {v, w}
  BY DEF IpfixUp, Outcome, g, w, e, v
<1>6. [e EXCEPT !.cur = "rmnet"] \in Ctl /\ [e EXCEPT !.cur = "wlan"] \in Ctl
  BY <1>3 DEF Ctl, Link
<1>. HIDE DEF r
<1>7. r.ctl \in Ctl /\ HostOK(r.host)
  BY <1>2, <1>4, <1>5, <1>6
<1>. QED  BY <1>7 DEF r

-------------------------------------------------------------------------------
(* The inductive invariant.                                                *)
(*                                                                         *)
(* LoopGoesOn is not inductive: what select reported has to be there still *)
(* when the control socket's turn comes.  In between the daemon may only   *)
(* take a datagram in cngictrl_ipfix, which clears skip_ctrl_fd first, and *)
(* handles a netlink event only if there is one.                           *)

LoopInv ==
  /\ mn.pc = "link" => evts # << >>
  /\ mn.pc \in {"link", "ctrl"} /\ mn.skip /\ mn.rc => toMn # << >>
  /\ mn.pc = "ack" => ~mn.skip

Inv == TypeOK /\ HostOK(host) /\ LoopInv

\* What the other process and the host send only adds to what waits.
LEMMA NotifyAdds ==
  ASSUME evts \in Seq(Event), NEW es \in Seq(Event), Notify(es)
  PROVE  evts' \in Seq(Event) /\ (evts # << >> => evts' # << >>)
<1>1. evts \o es \in Seq(Event) /\ (evts # << >> => evts \o es # << >>)
  BY ConcatProperties, ConcatEqualIffEmpty, EmptySeq
<1>. QED  BY <1>1 DEF Notify

LEMMA SendAdds ==
  ASSUME toMn \in Seq(Cmd), NEW c \in Cmd, Send(c)
  PROVE  toMn' \in Seq(Cmd) /\ (toMn # << >> => toMn' # << >>)
<1>1. Append(toMn, c) \in Seq(Cmd) /\ Append(toMn, c) # << >>
  BY AppendProperties
<1>. QED  BY <1>1 DEF Send

LEMMA AddrEventsType ==
  ASSUME NEW h, NEW g
  PROVE  AddrEvents(h, g) \in Seq(Event)
<1>1. <<"del", "wlan">> \in Event /\ <<"new", "wlan">> \in Event
  BY DEF Event, Link
<1>. QED  BY <1>1 DEF AddrEvents

\* A step that leaves the daemon alone keeps the invariant if the host and the
\* datagrams stay in order.
LEMMA Undisturbed ==
  ASSUME Inv, mn' = mn, ctl' \in Ctl, HostOK(host'),
         toMn' \in Seq(Cmd), toMn # << >> => toMn' # << >>,
         toCtl' \in Seq(Msg),
         evts' \in Seq(Event), evts # << >> => evts' # << >>,
         cmds' \in 0 .. MaxCmd, happened' \in 0 .. MaxEvent
  PROVE  Inv'
BY DEF Inv, TypeOK, LoopInv, HostOK

LEMMA InitInv == Init => Inv
<1>. SUFFICES ASSUME Init PROVE Inv
  OBVIOUS
<1>1. ctl \in Ctl /\ mn \in Mn
  BY DEF Init, MnInit, Mn, Link
<1>2. HostOK(host)
  BY <1>1 DEF Init, HostOK, Host, Ctl
<1>3. 0 \in 0 .. MaxCmd /\ 0 \in 0 .. MaxEvent
  BY BoundsAreNat
<1>. QED  BY <1>1, <1>2, <1>3 DEF Init, Inv, TypeOK, LoopInv, HostOK, MnInit

\* The controller's answer.
LEMMA ReceiveInv == Inv /\ CtlReceive => Inv'
<1>. SUFFICES ASSUME Inv, CtlReceive PROVE Inv'
  OBVIOUS
<1>. DEFINE m == Head(toCtl)
<1>1. m \in Msg /\ toCtl' \in Seq(Msg)
  BY DEF Inv, TypeOK, CtlReceive
<1>2. toMn' \in Seq(Cmd) /\ (toMn # << >> => toMn' # << >>)
  <2>1. CASE Reply(m)
    <3>1. Send(<<"done">>) /\ <<"done">> \in Cmd
      BY <2>1 DEF CtlReceive, Cmd
    <3>. QED  BY <3>1, SendAdds DEF Inv, TypeOK
  <2>2. CASE ~Reply(m)
    BY <2>2 DEF CtlReceive, Inv, TypeOK
  <2>. QED  BY <2>1, <2>2
<1>3. /\ ctl' \in Ctl /\ HostOK(host')
      /\ evts' \in Seq(Event) /\ (evts # << >> => evts' # << >>)
  <2>1. CASE /\ ctl' = [ctl EXCEPT !.status = "fix"]
             /\ UNCHANGED <<host, evts>>
    BY <2>1 DEF Inv, TypeOK, Ctl
  <2>2. CASE Reply(m) /\ ~UNCHANGED <<ctl, host, evts>>
    <3>. DEFINE r == ipfix(m[2], m[3], m[4])
                c == rmnetcheck(ctl, host)
    <3>1. ctl' = r.ctl /\ host' = r.host /\ Notify(AddrEvents(host, r.host))
      BY <2>2 DEF CtlReceive, Reply
    <3>2. m[3] \in BOOLEAN /\ m[4] \in Link \union {None}
      BY <1>1, <2>2 DEF Msg, Reply
    <3>3. c \in Ctl
      BY ChecksType DEF Inv, TypeOK
    <3>4. r \in {IpfixUp(c, host, m[3], m[4]), IpfixDown(c, host, m[3], m[4])}
      BY DEF ipfix
    <3>. HIDE DEF m, c, r
    <3>5. r.ctl \in Ctl /\ HostOK(r.host)
      BY <3>2, <3>3, <3>4, IpfixUpOK, IpfixDownOK DEF Inv
    <3>6. evts' \in Seq(Event) /\ (evts # << >> => evts' # << >>)
      BY <3>1, AddrEventsType, NotifyAdds DEF Inv, TypeOK
    <3>. QED  BY <3>1, <3>5, <3>6
  <2>3. CASE UNCHANGED <<ctl, host, evts>>
    BY <2>3 DEF Inv, TypeOK
  <2>. QED  BY <2>1, <2>2, <2>3 DEF CtlReceive
<1>. QED  BY <1>1, <1>2, <1>3, Undisturbed DEF CtlReceive, Inv, TypeOK

\* One more command, one more event.
LEMMA CountsType ==
  ASSUME TypeOK
  PROVE  /\ cmds < MaxCmd => cmds + 1 \in 0 .. MaxCmd
         /\ happened < MaxEvent => happened + 1 \in 0 .. MaxEvent
BY BoundsAreNat DEF TypeOK

\* The notices of the host.
LEMMA NoticesType ==
  /\ << <<"up">> >> \in Seq(Event) /\ << <<"down">> >> \in Seq(Event)
  /\ << <<"rmnet up">>, <<"new", "rmnet">> >> \in Seq(Event)
  /\ << <<"del", "rmnet">> >> \in Seq(Event)
  /\ << <<"down">>, <<"up">> >> \in Seq(Event)
  /\ << >> \in Seq(Event)
<1>1. /\ <<"up">> \in Event /\ <<"down">> \in Event /\ <<"rmnet up">> \in Event
      /\ <<"new", "rmnet">> \in Event /\ <<"del", "rmnet">> \in Event
  BY DEF Event, Link
<1>2. /\ << >> \in Seq(Event)
      /\ \A e \in Event : <<e>> \in Seq(Event)
      /\ \A e, f \in Event : <<e, f>> \in Seq(Event)
  OBVIOUS
<1>. HIDE DEF Event
<1>. QED  BY <1>1, <1>2

\* A notice that may be preceded by others.
LEMMA NoticesConcat ==
  ASSUME NEW a \in Seq(Event), NEW b \in Seq(Event)
  PROVE  a \o b \in Seq(Event)
BY ConcatProperties

\* The operator's commands.
LEMMA OperatorInv == Inv /\ Operator => Inv'
<1>. SUFFICES ASSUME Inv, Operator PROVE Inv'
  OBVIOUS
<1>0. /\ toCtl \in Seq(Msg) /\ toMn \in Seq(Cmd) /\ evts \in Seq(Event)
      /\ ctl \in Ctl /\ mn \in Mn /\ HostOK(host)
      /\ happened \in 0 .. MaxEvent
  BY DEF Inv, TypeOK
<1>1. /\ cmds' \in 0 .. MaxCmd /\ happened' \in 0 .. MaxEvent
      /\ toCtl' \in Seq(Msg)
  <2>1. cmds < MaxCmd /\ cmds' = cmds + 1 /\ UNCHANGED <<toCtl, happened>>
    BY DEF Operator, CmdAuto, CmdHandoff, CmdWifiOff, CmdWifiOn, CmdLink, CmdTo, CmdRmnet,
           CmdMnOff, CmdMnOn, Command
  <2>. QED  BY <1>0, <2>1, CountsType DEF Inv
<1>2. ASSUME NEW b \in BOOLEAN, CmdAuto(b) PROVE Inv'
  <2>1. Send(<<"auto", b>>) /\ <<"auto", b>> \in Cmd
    BY <1>2 DEF CmdAuto, Cmd
  <2>2. toMn' \in Seq(Cmd) /\ (toMn # << >> => toMn' # << >>)
    BY <1>0, <2>1, SendAdds
  <2>3. ctl' \in Ctl /\ UNCHANGED <<mn, host, evts>>
    <3>1. [ctl EXCEPT !.auto = b] \in Ctl
      BY <1>0 DEF Ctl
    <3>. QED  BY <1>2, <3>1, NumberedType DEF CmdAuto
  <2>. QED  BY <1>0, <1>1, <2>2, <2>3, Undisturbed
<1>3. ASSUME NEW i \in Link, CmdHandoff(i) PROVE Inv'
  <2>. DEFINE c == [rmnetcheck(ctl, host) EXCEPT !.cur = i]
              h == iproutedel(host)
  <2>1. Send(<<"handoff", i>>) /\ <<"handoff", i>> \in Cmd
    BY <1>3 DEF CmdHandoff, Cmd
  <2>2. toMn' \in Seq(Cmd) /\ (toMn # << >> => toMn' # << >>)
    BY <1>0, <2>1, SendAdds
  <2>3. c \in Ctl
    BY <1>0, ChecksType DEF Ctl
  <2>4. ctl' = Numbered(c) /\ UNCHANGED <<mn, evts>>
    BY <1>3 DEF CmdHandoff
  <2>5. host' \in {rmnet_route_add(c, h), wlan_route_add(c, h)}
    BY <1>3 DEF CmdHandoff
  <2>6. HostOK(h)
    BY <1>0, AddressesOK
  <2>. HIDE DEF c, h
  <2>7. HostOK(host')
    BY <2>3, <2>5, <2>6, RmnetRouteOK, WlanRouteOK
  <2>8. Numbered(c) \in Ctl
    BY <2>3, NumberedType
  <2>. QED  BY <1>0, <1>1, <2>2, <2>4, <2>7, <2>8, Undisturbed
<1>4. CASE CmdWifiOff
  <2>1. ctl' \in Ctl /\ UNCHANGED <<mn, toMn>>
    BY <1>0, <1>4 DEF CmdWifiOff, Ctl
  <2>2. HostOK(host')
    BY <1>0, <1>4 DEF CmdWifiOff, HostOK, Host, Route
  <2>. DEFINE lost == IF host.assoc # None THEN << <<"down">> >> ELSE << >>
  <2>3. lost \in Seq(Event)
    BY NoticesType
  <2>4. Notify(AddrEvents(host, host') \o lost)
    BY <1>4 DEF CmdWifiOff
  <2>. HIDE DEF lost
  <2>5. evts' \in Seq(Event) /\ (evts # << >> => evts' # << >>)
    BY <1>0, <2>3, <2>4, AddrEventsType, NoticesConcat, NotifyAdds
  <2>. QED  BY <1>0, <1>1, <2>1, <2>2, <2>5, Undisturbed
<1>5. CASE CmdWifiOn
  <2>1. ctl' \in Ctl /\ UNCHANGED <<mn, host, toMn, evts>>
    BY <1>0, <1>5 DEF CmdWifiOn, Ctl
  <2>. QED  BY <1>0, <1>1, <2>1, Undisturbed
<1>10. CASE CmdLink
  <2>1. ctl' \in Ctl /\ UNCHANGED <<mn, host, toMn, evts>>
    BY <1>0, <1>10 DEF CmdLink, Ctl
  <2>. QED  BY <1>0, <1>1, <2>1, Undisturbed
<1>6. ASSUME NEW n \in Nets, CmdTo(n) PROVE Inv'
  <2>. DEFINE h == [host EXCEPT !.assoc = n, !.sel = n]
              lost == IF host.assoc # None THEN << <<"down">> >> ELSE << >>
  <2>1. ctl' \in Ctl /\ ctl'.newid \in Nets /\ UNCHANGED <<mn, toMn>>
    BY <1>0, <1>6 DEF CmdTo, Ctl
  <2>2. HostOK(h)
    BY <1>0 DEF HostOK, Host
  <2>3. host' \in {h, staticwayfix(ctl', ipaddrdel(h))}
    BY <1>6 DEF CmdTo
  <2>. HIDE DEF h
  <2>4. HostOK(host')
    BY <2>1, <2>2, <2>3, AddressesOK, StaticOK
  <2>5. lost \in Seq(Event)
    BY NoticesType
  <2>6. Notify(lost \o << <<"up">> >> \o AddrEvents(host, host'))
    BY <1>6 DEF CmdTo
  <2>. HIDE DEF lost
  <2>7. lost \o << <<"up">> >> \o AddrEvents(host, host') \in Seq(Event)
    BY <2>5, NoticesType, AddrEventsType, NoticesConcat
  <2>8. evts' \in Seq(Event) /\ (evts # << >> => evts' # << >>)
    BY <1>0, <2>6, <2>7, NotifyAdds
  <2>. QED  BY <1>0, <1>1, <2>1, <2>4, <2>8, Undisturbed
<1>7. ASSUME NEW st \in {"on", "off", "fix"}, CmdRmnet(st) PROVE Inv'
  <2>1. ctl' \in Ctl /\ UNCHANGED <<mn, host, toMn, evts>>
    BY <1>0, <1>7 DEF CmdRmnet, Ctl
  <2>. QED  BY <1>0, <1>1, <2>1, Undisturbed
<1>8. CASE CmdMnOff
  <2>1. ctl' \in Ctl /\ mn' \in Mn /\ UNCHANGED <<host, toMn, evts>>
    BY <1>0, <1>8 DEF CmdMnOff, Ctl, Mn
  <2>2. mn'.pc = mn.pc /\ mn'.skip = mn.skip /\ mn'.rc = mn.rc
    BY <1>0, <1>8 DEF CmdMnOff, Mn
  <2>. QED  BY <1>0, <1>1, <2>1, <2>2 DEF Inv, TypeOK, LoopInv, HostOK
<1>9. CASE CmdMnOn
  <2>1. ctl' \in Ctl /\ mn' \in Mn /\ UNCHANGED <<host, toMn, evts>>
    BY <1>0, <1>9 DEF CmdMnOn, Ctl, Mn, MnInit, Link
  <2>2. mn'.pc \in {"select", "two"}
    BY <1>0, <1>9 DEF CmdMnOn, MnInit, Mn
  <2>. QED  BY <1>0, <1>1, <2>1, <2>2 DEF Inv, TypeOK, LoopInv, HostOK
<1>. QED
  BY <1>2, <1>3, <1>4, <1>5, <1>6, <1>7, <1>8, <1>9, <1>10 DEF Operator

\* Links that come and go.
LEMMA LinksInv == Inv /\ Links => Inv'
<1>. SUFFICES ASSUME Inv, Links PROVE Inv'
  OBVIOUS
<1>0. /\ toCtl \in Seq(Msg) /\ toMn \in Seq(Cmd) /\ evts \in Seq(Event)
      /\ ctl \in Ctl /\ mn \in Mn /\ HostOK(host)
      /\ cmds \in 0 .. MaxCmd
  BY DEF Inv, TypeOK
<1>1. /\ happened' \in 0 .. MaxEvent /\ UNCHANGED <<mn, toMn, toCtl, cmds>>
  <2>1. happened < MaxEvent /\ happened' = happened + 1
          /\ UNCHANGED <<mn, toMn, toCtl, cmds>>
    BY DEF Links, WlanUp, WlanDown, RmnetUp, RmnetDown, BmissSwitch, LinkEvent
  <2>. QED  BY <2>1, CountsType DEF Inv
<1>2. ctl' \in Ctl
  BY <1>0 DEF Links, WlanUp, WlanDown, RmnetUp, RmnetDown, BmissSwitch, LinkEvent, Ctl
<1>3. ASSUME NEW es \in Seq(Event), Notify(es), HostOK(host') PROVE Inv'
  <2>1. evts' \in Seq(Event) /\ (evts # << >> => evts' # << >>)
    BY <1>0, <1>3, NotifyAdds
  <2>. QED  BY <1>0, <1>1, <1>2, <1>3, <2>1, Undisturbed
<1>4. CASE WlanUp
  <2>1. HostOK(host') /\ Notify(<< <<"up">> >>)
    BY <1>0, <1>4 DEF WlanUp, HostOK, Host
  <2>. QED  BY <1>3, <2>1, NoticesType
<1>5. CASE WlanDown
  <2>1. HostOK(host') /\ Notify(<< <<"down">> >>)
    BY <1>0, <1>5 DEF WlanDown, HostOK, Host
  <2>. QED  BY <1>3, <2>1, NoticesType
<1>6. CASE RmnetUp
  <2>1. HostOK(host') /\ Notify(<< <<"rmnet up">>, <<"new", "rmnet">> >>)
    BY <1>0, <1>6, NamesDiffer DEF RmnetUp, HostOK, Host, Route
  <2>. QED  BY <1>3, <2>1, NoticesType
<1>7. CASE RmnetDown
  <2>1. HostOK(host') /\ Notify(<< <<"del", "rmnet">> >>)
    BY <1>0, <1>7 DEF RmnetDown, HostOK, Host, Route
  <2>. QED  BY <1>3, <2>1, NoticesType
<1>8. CASE BmissSwitch
  <2>1. PICK n \in Nets \ {host.assoc} :
          /\ ctl' = [ctl EXCEPT !.newid = n]
          /\ LET h == IF MaySwitch THEN [host EXCEPT !.assoc = n, !.sel = n] ELSE host
             IN  /\ host' = IF MaySwitch /\ ~ctl.mnswitch
                            THEN staticwayfix(ctl', ipaddrdel(h)) ELSE h
                 /\ Notify((IF MaySwitch THEN << <<"down">>, <<"up">> >> ELSE << >>)
                             \o AddrEvents(h, host'))
    BY <1>8 DEF BmissSwitch
  <2>. DEFINE h == IF MaySwitch THEN [host EXCEPT !.assoc = n, !.sel = n] ELSE host
              es == IF MaySwitch THEN << <<"down">>, <<"up">> >> ELSE << >>
  <2>2. HostOK(h)
    BY <1>0 DEF HostOK, Host
  <2>3. ctl'.newid \in Nets
    BY <1>2 DEF Ctl
  <2>4. host' \in {h, staticwayfix(ctl', ipaddrdel(h))}
    BY <2>1
  <2>5. es \in Seq(Event) /\ Notify(es \o AddrEvents(h, host'))
    BY <2>1, NoticesType
  <2>. HIDE DEF h, es
  <2>6. HostOK(host')
    BY <2>2, <2>3, <2>4, AddressesOK, StaticOK
  <2>. QED  BY <1>3, <2>5, <2>6, AddrEventsType, NoticesConcat
<1>. QED  BY <1>4, <1>5, <1>6, <1>7, <1>8 DEF Links

\* The daemon's steps.
LEMMA DaemonInv == Inv /\ Daemon => Inv'
<1>. SUFFICES ASSUME Inv, Daemon PROVE Inv'
  OBVIOUS
<1>0. /\ toCtl \in Seq(Msg) /\ toMn \in Seq(Cmd) /\ evts \in Seq(Event)
      /\ mn \in Mn
  BY DEF Inv, TypeOK
<1>1. UNCHANGED <<ctl, host, cmds, happened>>
  BY DEF Daemon, MnExit, MnSelect, MnLink, MnAnswered, MnSkip, MnCommand
<1>2. ASSUME mn' \in Mn, toMn' \in Seq(Cmd), toCtl' \in Seq(Msg),
             evts' \in Seq(Event), LoopInv'
      PROVE  Inv'
  BY <1>1, <1>2 DEF Inv, TypeOK, HostOK
<1>3. CASE MnExit
  <2>1. mn' \in Mn /\ mn'.pc = "off"
    BY <1>3 DEF MnExit, MnInit, Mn, Link
  <2>. QED  BY <1>0, <1>2, <1>3, <2>1 DEF MnExit, LoopInv
<1>4. CASE MnSelect
  <2>1. mn' \in Mn
    BY <1>0, <1>4 DEF MnSelect, Mn
  <2>2. /\ mn'.pc \in {"link", "ctrl"} /\ (mn'.pc = "link" => evts # << >>)
        /\ mn'.rc => toMn # << >>
    BY <1>0, <1>4 DEF MnSelect, Mn
  <2>. QED  BY <1>0, <1>2, <1>4, <2>1, <2>2 DEF MnSelect, LoopInv
<1>5. CASE MnLink
  <2>. DEFINE e == Head(evts)
  <2>1. mn.pc = "link" /\ evts # << >>
    BY <1>5 DEF MnLink, Inv, LoopInv
  <2>2. e \in Event /\ evts' \in Seq(Event) /\ toMn' = toMn
    BY <1>0, <1>5, <2>1, HeadTailProperties DEF MnLink
  <2>3. mn.skip /\ mn.rc => toMn # << >>
    BY <2>1 DEF Inv, LoopInv
  <2>. HIDE DEF e
  <2>4. CASE e[1] \in {"up", "down"} /\ CngictrlIpfix(e[1] = "up")
    <3>. DEFINE m == <<"ipfix", e[1] = "up", mn.auto, CurrentIfindex>>
    <3>1. mn' = [mn EXCEPT !.pc = "ack", !.lost = ~(e[1] = "up"), !.skip = FALSE]
            /\ toCtl' = Append(toCtl, m)
      BY <2>4 DEF CngictrlIpfix
    <3>2. mn' \in Mn /\ mn'.pc = "ack" /\ ~mn'.skip
      BY <1>0, <3>1 DEF Mn
    <3>3. CurrentIfindex \in Link \union {None} /\ mn.auto \in BOOLEAN
      BY <1>0 DEF CurrentIfindex, Mn
    <3>4. m \in Msg
      BY <3>3 DEF Msg
    <3>. HIDE DEF m
    <3>5. toCtl' \in Seq(Msg)
      BY <1>0, <3>1, <3>4
    <3>. QED  BY <1>0, <1>2, <2>2, <3>2, <3>5 DEF LoopInv
  <2>5. CASE /\ e[1] = "rmnet up" /\ toCtl' = Append(toCtl, <<"rmnet">>)
             /\ mn' = [mn EXCEPT !.pc = "ctrl"]
    <3>1. mn' \in Mn /\ mn'.pc = "ctrl" /\ mn'.skip = mn.skip /\ mn'.rc = mn.rc
      BY <1>0, <2>5 DEF Mn
    <3>2. <<"rmnet">> \in Msg
      BY DEF Msg
    <3>3. toCtl' \in Seq(Msg)
      BY <1>0, <2>5, <3>2, AppendProperties
    <3>. QED  BY <1>0, <1>2, <2>2, <2>3, <3>1, <3>3 DEF LoopInv
  <2>6. CASE e[1] \in {"new", "del"} /\ (NewAddr(e[2]) \/ DelAddr(e[2]))
               /\ UNCHANGED toCtl
    <3>1. e[2] \in Link
      <4>1. /\ e # <<"up">> /\ e # <<"down">> /\ e # <<"rmnet up">>
        <5>1. /\ <<"up">>[1] = "up" /\ <<"down">>[1] = "down"
              /\ <<"rmnet up">>[1] = "rmnet up"
          OBVIOUS
        <5>2. e[1] # "up" /\ e[1] # "down" /\ e[1] # "rmnet up"
          BY <2>6
        <5>. QED  BY <5>1, <5>2, Zenon
      <4>2. e \in {"new", "del"} \X Link
        BY <2>2, <4>1 DEF Event
      <4>. QED  BY <4>2
    <3>2. mn' \in Mn /\ mn'.pc = "ctrl" /\ mn'.skip = mn.skip /\ mn'.rc = mn.rc
      <4>1. CASE NewAddr(e[2])
        BY <1>0, <3>1, <4>1 DEF NewAddr, Mn
      <4>2. CASE DelAddr(e[2])
        <5>1. PICK to \in {mn.cur} \union
                (IF mn.auto /\ mn.cur = e[2] THEN mn.valid \ {e[2]} ELSE {}) :
                mn' = [mn EXCEPT !.pc = "ctrl", !.valid = @ \ {e[2]}, !.cur = to,
                                 !.pref = IF to = mn.cur THEN @ ELSE to]
          BY <4>2 DEF DelAddr
        <5>2. to \in Link \union {None}
          BY <1>0, <5>1 DEF Mn
        <5>. QED  BY <1>0, <5>1, <5>2 DEF Mn
      <4>. QED  BY <2>6, <4>1, <4>2
    <3>. QED  BY <1>0, <1>2, <2>2, <2>3, <2>6, <3>2 DEF LoopInv
  <2>. QED  BY <1>5, <2>4, <2>5, <2>6 DEF MnLink, e
<1>6. CASE MnAnswered
  <2>1. mn' \in Mn /\ mn'.pc = "ctrl" /\ mn'.skip = mn.skip
    <3>. DEFINE v == IF mn.lost THEN mn.valid \ {"wlan"} ELSE mn.valid
                moves == mn.lost /\ mn.auto /\ "rmnet" \in v
    <3>1. mn' = [mn EXCEPT !.pc = "ctrl", !.valid = v, !.lost = FALSE,
                           !.cur = IF moves THEN "rmnet" ELSE @,
                           !.pref = IF moves THEN "rmnet" ELSE @]
      BY <1>6 DEF MnAnswered
    <3>2. v \in SUBSET Link
      BY <1>0 DEF Mn
    <3>. HIDE DEF v, moves
    <3>. QED  BY <1>0, <3>1, <3>2 DEF Mn, Link
  <2>2. ~mn.skip
    BY <1>6 DEF MnAnswered, Inv, LoopInv
  <2>3. toMn' \in Seq(Cmd) /\ UNCHANGED <<toCtl, evts>>
    BY <1>0, <1>6 DEF MnAnswered
  <2>. QED  BY <1>0, <1>2, <2>1, <2>2, <2>3 DEF LoopInv
<1>7. CASE MnSkip
  <2>1. mn' \in Mn /\ mn'.pc = "select"
    BY <1>0, <1>7 DEF MnSkip, Mn
  <2>. QED  BY <1>0, <1>2, <1>7, <2>1 DEF MnSkip, LoopInv
<1>8. CASE MnCommand
  <2>. DEFINE c == Head(toMn)
  <2>1. c \in Cmd /\ toMn' \in Seq(Cmd)
    BY <1>0, <1>8 DEF MnCommand
  <2>2. mn' = CASE c[1] = "handoff" -> Handoff(c[2])
                [] c[1] = "auto" -> [mn EXCEPT !.pc = "select", !.auto = c[2]]
                [] OTHER -> [mn EXCEPT !.pc = "select"]
    BY <1>8 DEF MnCommand
  <2>. HIDE DEF c
  <2>3. mn' \in Mn /\ mn'.pc = "select"
    <3>1. CASE c[1] = "handoff"
      <4>1. c[2] \in Link
        BY <2>1, <3>1 DEF Cmd
      <4>2. Handoff(c[2]) \in Mn /\ Handoff(c[2]).pc = "select"
        BY <1>0, <4>1 DEF Handoff, Mn
      <4>. QED  BY <2>2, <3>1, <4>2
    <3>2. CASE c[1] = "auto"
      <4>1. c[2] \in BOOLEAN
        BY <2>1, <3>2 DEF Cmd
      <4>. QED  BY <1>0, <2>2, <3>2, <4>1 DEF Mn
    <3>3. CASE c[1] # "handoff" /\ c[1] # "auto"
      BY <1>0, <2>2, <3>3 DEF Mn
    <3>. QED  BY <3>1, <3>2, <3>3
  <2>. QED  BY <1>0, <1>2, <1>8, <2>1, <2>3 DEF MnCommand, LoopInv
<1>. QED  BY <1>3, <1>4, <1>5, <1>6, <1>7, <1>8 DEF Daemon

LEMMA StepInv == Inv /\ [Next]_vars => Inv'
<1>. SUFFICES ASSUME Inv, [Next]_vars PROVE Inv'
  OBVIOUS
<1>1. CASE UNCHANGED vars
  BY <1>1 DEF vars, Inv, TypeOK, HostOK, LoopInv
<1>. QED  BY <1>1, ReceiveInv, OperatorInv, DaemonInv, LinksInv DEF Next

LEMMA Invariant == Spec => []Inv
BY InitInv, StepInv, PTL DEF Spec

-------------------------------------------------------------------------------
(* The theorems. *)

\* Flags, routes and datagrams of both processes stay in their range, for any
\* number of networks and whatever is typed and lost.
THEOREM ControllerTypeCorrect == Spec => []TypeOK
<1>1. Inv => TypeOK
  BY DEF Inv
<1>. QED  BY <1>1, Invariant, PTL

\* ctrl_fd_check never blocks mn_worker: the datagram select reported is still
\* there, although cngictrl_ipfix takes the first one that comes.
THEOREM CommandsWait == Spec => []LoopGoesOn
<1>1. Inv => LoopGoesOn
  BY DEF Inv, LoopInv, LoopGoesOn
<1>. QED  BY <1>1, Invariant, PTL

\* No step but the controller's takes a datagram from port 7776.
LEMMA OnlyReceiveTakes ==
  ASSUME Inv, [Next]_vars, toCtl # << >>, toCtl' = Tail(toCtl)
  PROVE  CtlReceive
<1>1. toCtl \in Seq(Msg)
  BY DEF Inv, TypeOK
<1>2. Len(Tail(toCtl)) < Len(toCtl) /\ Len(Tail(toCtl)) < Len(toCtl) + 1
  BY <1>1, HeadTailProperties
<1>3. CASE MnLink
  <2>1. \/ toCtl' = toCtl
        \/ \E m : toCtl' = Append(toCtl, m)
    BY <1>3 DEF MnLink, CngictrlIpfix
  <2>2. \A m : Len(Append(toCtl, m)) = Len(toCtl) + 1
    BY <1>1
  <2>3. Tail(toCtl) # toCtl
    BY <1>1, <1>2
  <2>4. ASSUME NEW m PROVE Tail(toCtl) # Append(toCtl, m)
    BY <1>1, <1>2, <2>2
  <2>. QED  BY <2>1, <2>3, <2>4
<1>4. CASE UNCHANGED toCtl
  BY <1>1, <1>2, <1>4
<1>5. Operator => UNCHANGED toCtl
  BY DEF Operator, CmdAuto, CmdHandoff, CmdWifiOff, CmdWifiOn, CmdLink, CmdTo, CmdRmnet,
         CmdMnOff, CmdMnOn, Command
<1>6. Daemon => MnLink \/ UNCHANGED toCtl
  BY DEF Daemon, MnExit, MnSelect, MnAnswered, MnSkip, MnCommand
<1>7. Links => UNCHANGED toCtl
  BY DEF Links, WlanUp, WlanDown, RmnetUp, RmnetDown, BmissSwitch, LinkEvent
<1>8. CASE UNCHANGED vars
  BY <1>4, <1>8 DEF vars
<1>9. CASE Next
  BY <1>3, <1>4, <1>5, <1>6, <1>7, <1>9 DEF Next
<1>. QED  BY <1>8, <1>9

\* The configuration of a link that came up while the node sits on rmnet by the
\* operator's choice.  The fix of 2012.03.29 takes the one wlan route away that
\* staticwayfix may have added and puts the rmnet route back.
LEMMA IpfixUpKeeps ==
  ASSUME NEW c \in Ctl, NEW h, HostOK(h), "rmnet" \in h.dflt
  PROVE  "rmnet" \in IpfixUp(c, h, FALSE, "rmnet").host.dflt
<1>. DEFINE g == rmnet_route_del(c, h)
            w == IF c.wifi THEN staticwayfix(c, g) ELSE g
            e == wlancheck(c, w)
            v == DelDefault(w, e.wroute)
<1>0. IpfixUp(c, h, FALSE, "rmnet").host = rmnet_route_add(e, v)
  BY DEF IpfixUp, Outcome
<1>1. HostOK(g)
  BY RmnetRouteOK
<1>2. g.rmnet = TRUE /\ (~(c.rmnet /\ c.route) => g = h)
  BY DEF rmnet_route_del, DelDefault, HostOK, Host
<1>. HIDE DEF g
<1>3. /\ w.rmnet = TRUE /\ HostOK(w)
      /\ ~(c.rmnet /\ c.route) => "rmnet" \in w.dflt
  <2>1. HostOK(staticwayfix(c, g))
    BY <1>1, StaticOK DEF Ctl
  <2>2. /\ staticwayfix(c, g).rmnet = g.rmnet
        /\ g.dflt \subseteq staticwayfix(c, g).dflt
    BY <1>1 DEF staticwayfix, AddDefault, HostOK, Host
  <2>. QED  BY <1>1, <1>2, <2>1, <2>2
<1>. HIDE DEF w
<1>4. e \in Ctl /\ e.rmnet = c.rmnet /\ e.route = c.route /\ e.wroute # "rmnet"
  BY ChecksType, NamesDiffer
<1>5. /\ v.rmnet = TRUE /\ v \in Host
      /\ v.dflt = w.dflt \ {e.wroute}
  BY <1>3 DEF DelDefault, HostOK, Host
<1>6. v.dflt \subseteq {"rmnet"}
  <2>1. CASE w.dflt \intersect Nets = {}
    BY <1>3, <1>5, <2>1 DEF HostOK, Host, Route
  <2>2. CASE w.dflt \intersect Nets # {}
    <3>1. PICK n \in Nets : n \in w.dflt
      BY <2>2
    <3>2. e.wroute = CHOOSE x \in Nets : x \in w.dflt
      BY <2>2 DEF wlancheck, Ctl
    <3>3. e.wroute \in w.dflt \intersect Nets
      BY <3>1, <3>2
    <3>. QED  BY <1>3, <1>5, <3>3 DEF HostOK, Host, Route
  <2>. QED  BY <2>1, <2>2
<1>. HIDE DEF v, e
<1>7. CASE c.rmnet /\ c.route
  <2>1. rmnet_route_add(e, v) = AddDefault(v, "rmnet")
    BY <1>4, <1>7 DEF rmnet_route_add
  <2>2. "rmnet" \in AddDefault(v, "rmnet").dflt
    BY <1>5, <1>6 DEF AddDefault, Host
  <2>. QED  BY <1>0, <2>1, <2>2
<1>8. CASE ~(c.rmnet /\ c.route)
  BY <1>0, <1>3, <1>4, <1>5, <1>8 DEF rmnet_route_add
<1>. QED  BY <1>7, <1>8

\* A node on rmnet without automatic handoff keeps its default route through
\* rmnet when wlan comes up, whatever routes there were (ipfix).
THEOREM RmnetStays == Spec => RmnetRouteKept
<1>1. Inv /\ [Next]_vars =>
        [(/\ toCtl # << >> /\ toCtl' = Tail(toCtl)
          /\ Head(toCtl) = <<"ipfix", TRUE, FALSE, "rmnet">>
          /\ "rmnet" \in host.dflt)
         => "rmnet" \in host'.dflt]_vars
  <2>. SUFFICES ASSUME Inv, [Next]_vars, toCtl # << >>, toCtl' = Tail(toCtl),
                       Head(toCtl) = <<"ipfix", TRUE, FALSE, "rmnet">>,
                       "rmnet" \in host.dflt
                PROVE  "rmnet" \in host'.dflt
    OBVIOUS
  <2>1. CtlReceive
    BY OnlyReceiveTakes
  <2>2. HostOK(host) /\ rmnetcheck(ctl, host) \in Ctl
    BY ChecksType DEF Inv, TypeOK
  <2>3. CASE Answers /\ ~Mistaken
    <3>. DEFINE m == Head(toCtl)
    <3>0. m = <<"ipfix", TRUE, FALSE, "rmnet">>
      OBVIOUS
    <3>1. m[1] = "ipfix" /\ m[2] = TRUE /\ m[3] = FALSE /\ m[4] = "rmnet"
      <4>. HIDE DEF m
      <4>. QED  BY <3>0
    <3>2. host' = ipfix(m[2], m[3], m[4]).host
      <4>. HIDE DEF ipfix
      <4>. QED  BY <2>1, <2>3, <3>1 DEF CtlReceive, Reply
    <3>3. host' = IpfixUp(rmnetcheck(ctl, host), host, FALSE, "rmnet").host
      BY <3>1, <3>2 DEF ipfix
    <3>. QED  BY <2>2, <3>3, IpfixUpKeeps
  <2>4. CASE ~(Answers /\ ~Mistaken)
    BY <2>1, <2>4 DEF CtlReceive, Reply
  <2>. QED  BY <2>3, <2>4
<1>. QED  BY <1>1, Invariant, PTL DEF Spec, RmnetRouteKept
===============================================================================
