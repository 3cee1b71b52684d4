-------------------------------- MODULE Dsmip ---------------------------------
(***************************************************************************)
(* A mobile node and its home agent together: the daemon of module         *)
(* MobileNode and that of module HomeAgent, with the NAT probes and        *)
(* binding updates between them.  Nobody acknowledges anything: the node   *)
(* repeats itself every few seconds (bu_worker, nat_probe_worker) and the  *)
(* home agent forgets a node it has not heard for a minute.                *)
(*                                                                         *)
(* The network loses, repeats, delays and reorders messages, the node      *)
(* moves and may be killed, the home agent may be restarted, all until the *)
(* system is calm.  From then on the node stays where it is and what is    *)
(* sent arrives before the node sends again.  What the two do then is the  *)
(* question of this module.                                                *)
(*                                                                         *)
(* Kernel calls of the node are left out: they do not change what is sent. *)
(***************************************************************************)
EXTENDS Integers, Sequences, FiniteSets

CONSTANTS
  CoaV4, CoaV6, Unspec,                           \* of both
  Ifindex, NIF, Wlan, Reach, MayMove, MaxCrash,   \* of the node
  HoaV6, HoaV4, None,
  Hoa,                                            \* the node, to the agent
  NatIP, Port, DPORT, Dev, HaNIF, LIFETIME, SEQWIN, RuleCap, MaxWait, Sources,
  SEQMOD,      \* width of a sequence number (65536)
  Cap,         \* bound: messages of a kind in the network
  MaxMove,     \* bound: what happens to the node's links before it is calm,
               \* not counting one event for every time it is killed
  MaxFault     \* bound: kills of the node and restarts of the agent, together

ASSUME DsmipAssumption ==
  /\ SEQMOD \in Nat /\ SEQMOD > SEQWIN
  /\ LIFETIME > 0 /\ Cap > 0 /\ MaxMove \in Nat /\ MaxFault \in Nat
  /\ Hoa \notin {Unspec, None}

VARIABLES
  link, has, d, todo, npc, down, crashes,    \* the node
  seq,         \* __BU_SEQ__
  hapc, more, mns, k, ba,                    \* the home agent
  stops,       \* times it was restarted
  net,         \* messages under way
  calm,
  moves,       \* what happened to the links so far
  sent         \* the kinds of message sent since it is calm and time last passed

nodevars == <<link, has, d, todo, npc, down, crashes, seq>>
havars   == <<hapc, more, mns, k, ba, stops>>
vars     == <<nodevars, havars, net, calm, moves, sent>>

\* The kernel of the node is no variable here.
Node == INSTANCE MobileNode WITH pc <- npc, k <- 0

SeqNo == 0 .. SEQMOD - 1

Agent == INSTANCE HomeAgent WITH
  MN <- {Hoa}, NIF <- HaNIF, pc <- hapc, MayFail <- {}

Probe(i, c) == [kind |-> "probe", ifindex |-> i, coa |-> c]
Update(q, c) == [kind |-> "bu", seq |-> q, coa |-> c]

Message ==
  {Probe(i, c) : i \in Ifindex, c \in CoaV4}
    \union {Update(q, c) : q \in SeqNo, c \in CoaV4 \union CoaV6 \union {HoaV6}}

\* The type invariant of what the composition adds to its parts.
TypeOK ==
  /\ npc \in {"run", "ipfix", "end", "wild"} /\ d \in Node!Daemon
  /\ Agent!TypeOK
  /\ seq \in SeqNo /\ net \subseteq Message
  /\ stops \in 0 .. MaxFault /\ moves \in 0 .. MaxMove + MaxFault
  /\ sent \subseteq {"probe", "bu"}

Init ==
  /\ link = [i \in Ifindex |-> "gone"] /\ has = {}
  /\ d = Node!DaemonInit /\ todo = << >> /\ npc = "run" /\ down = 0 /\ crashes = 0
  /\ seq = 1
  /\ Agent!Init /\ stops = 0
  /\ net = {} /\ calm = FALSE /\ moves = 0 /\ sent = {}

-------------------------------------------------------------------------------
(* The node. *)

\* What is left to send of the calls a handler makes.
IsMessage(call) == call[1] \in {"probe", "bu"}
Messages == SelectSeq(todo, IsMessage)

\* Anything that happens to the links or addresses, or that the operator does.
NodeMoves ==
  \/ \E i \in Ifindex :
       \/ \E f \in Node!Flags :
            Node!WlanChanged(i, f) \/ Node!GprsChanged(i, f)
       \/ Node!LinkAdded(i) \/ Node!CmdHandoff(i)
  \/ \E x \in Reach : Node!NewAddrV6(x[1], x[2]) \/ Node!NewAddrV4(x[1], x[2])
                        \/ Node!DelAddr(x[1], x[2])
  \/ \E on \in BOOLEAN : on # d.auto /\ Node!CmdAuto(on)

Move ==
  /\ ~calm /\ moves < MaxMove + crashes /\ moves' = moves + 1
  /\ NodeMoves
  /\ UNCHANGED <<seq, havars, net, calm, sent>>

Answered ==
  /\ Node!Answered
  /\ UNCHANGED <<seq, havars, net, calm, moves, sent>>

\* Killed and started again: __BU_SEQ__ is 1 and no address is known.
Killed ==
  /\ ~calm /\ stops + crashes < MaxFault /\ Node!Killed /\ seq' = 1
  /\ UNCHANGED <<havars, net, calm, moves, sent>>

\* Every message of the handler is sent; before it is calm some are lost, and
\* the node may send as often as it likes.
Emit ==
  LET c   == Messages[1]
      msg == IF c[1] = "probe" THEN Probe(c[2], c[3]) ELSE Update(seq, c[2])
  IN  /\ todo # << >>
      /\ IF Messages = << >>
         THEN todo' = << >> /\ UNCHANGED <<seq, net, sent>>
         ELSE /\ todo' = Tail(Messages)
              /\ seq' = IF c[1] = "bu" THEN (seq + 1) % SEQMOD ELSE seq
              /\ sent' = IF calm THEN sent \union {c[1]} ELSE {}
              /\ \/ net' = net \union {msg} /\ (calm \/ Cardinality(net') <= Cap)
                 \/ ~calm /\ UNCHANGED net
      /\ UNCHANGED <<link, has, d, npc, down, crashes, havars, calm, moves>>

\* Every five seconds at most.
BuWorker ==
  /\ "bu" \notin sent /\ Node!bu_worker
  /\ UNCHANGED <<seq, havars, net, calm, moves, sent>>

\* Mutant: a probe is only sent with a new address.
ProbeWorker_Never == FALSE /\ UNCHANGED vars

ProbeWorker ==
  /\ "probe" \notin sent /\ Node!nat_probe_worker
  /\ UNCHANGED <<seq, havars, net, calm, moves, sent>>

-------------------------------------------------------------------------------
(* The home agent. *)

\* The messages of a kind, and what is left of them when m has been read:
\* before it is calm the network may have repeated it.
Arrived(kind) == {m \in net : m.kind = kind}
Read(m) == net' = net \ {m} \/ (~calm /\ net' = net)

\* Bu_worker or nat_probe_worker has something to send before time passes.
Due ==
  \/ todo # << >> \/ npc # "run"
  \/ "bu" \notin sent /\ d.type # "home"
  \/ "probe" \notin sent /\ \E s \in Node!Slots :
       /\ d.ifaces[s].ifindex = d.preferred /\ d.preferred # 0
       /\ d.ifaces[s].flags = "up" /\ d.ifaces[s].ok4

\* select reports what has arrived, before it is calm perhaps later.
Select ==
  /\ Agent!Select
  /\ hapc' = "nat" => Arrived("probe") # {}
  /\ more' => Arrived("bu") # {}
  /\ calm => /\ (hapc' = "nat") = (Arrived("probe") # {})
             /\ more' = (Arrived("bu") # {})
  /\ UNCHANGED <<nodevars, stops, net, calm, moves>>

SelectNow == Select /\ mns' = mns /\ UNCHANGED sent

\* Time passes.  When it is calm no message is under way for longer than that,
\* and the node has repeated itself.
SelectLater ==
  /\ hapc = "select"
  /\ calm => net = {} /\ ~Due
  /\ Select /\ sent' = {}
  /\ mns' # mns \/ mns[Hoa].age > LIFETIME
  /\ calm => mns'[Hoa].age <= mns[Hoa].age + 1

\* getnatsrc sees the node's own packets only if the node encapsulates; else
\* it may wait in vain.
ReadProbe ==
  /\ hapc = "nat"
  /\ \E m \in Arrived("probe") :
       /\ \/ \E e \in Sources[m.coa] : Agent!NatProbe(Hoa, m.ifindex, m.coa, e)
          \/ (calm => d.type # "v4") /\ Agent!NatSkip
       /\ Read(m)
       /\ UNCHANGED <<nodevars, stops, calm, moves, sent>>

ReadUpdate ==
  /\ hapc = "bu"
  /\ \E m \in Arrived("bu") :
       /\ \/ Agent!BuStale(Hoa, m.seq)
          \/ m.coa \in CoaV4 /\ \/ Agent!BuV4Unknown(Hoa, m.seq, m.coa)
                                \/ Agent!BuV4Refresh(Hoa, m.seq, m.coa)
                                \/ Agent!BuV4Move(Hoa, m.seq, m.coa)
          \/ m.coa \in CoaV6 /\ \/ Agent!BuV6Refresh(Hoa, m.seq, m.coa)
                                \/ Agent!BuV6Move(Hoa, m.seq, m.coa)
          \/ m.coa = HoaV6 /\ Agent!BuHome(Hoa, m.seq)
       /\ Read(m)
       /\ UNCHANGED <<nodevars, stops, calm, moves, sent>>

\* Mutant: silent nodes stay in the table.
Clean_Nobody ==
  /\ hapc = "clean" /\ hapc' = "select"
  /\ UNCHANGED <<nodevars, more, mns, k, ba, stops, net, calm, moves, sent>>

Clean ==
  /\ hapc = "clean" /\ Agent!Clean
  /\ UNCHANGED <<nodevars, stops, net, calm, moves, sent>>

\* mn_list_init
NewRecord(uptime) ==
  [ active |-> 0, coav6 |-> Unspec, seq |-> 0, age |-> uptime, nnif |-> 0,
    coav4 |-> [i \in Agent!Slot |-> Unspec], nat |-> [i \in Agent!Slot |-> Agent!NoNat],
    nifmap |-> [i \in 1 .. HaNIF |-> 0], tnl |-> [t \in Agent!Kind |-> Agent!NoDev] ]

\* Stopped and started again: the table of nodes is empty.
Stop ==
  /\ ~calm /\ stops + crashes < MaxFault /\ stops' = stops + 1
  /\ Agent!Exit
  /\ UNCHANGED <<nodevars, net, calm, moves, sent>>

Restart ==
  /\ hapc = "end" /\ hapc' = "select" /\ more' = FALSE /\ ba' = {}
  /\ \E uptime \in Agent!Age : mns' = [m \in {Hoa} |-> NewRecord(uptime)]
  /\ UNCHANGED <<nodevars, k, stops, net, calm, moves, sent>>

-------------------------------------------------------------------------------
\* What the bounds have counted is forgotten.
CalmDown ==
  /\ ~calm /\ calm' = TRUE
  /\ moves' = 0 /\ stops' = 0 /\ crashes' = 0
  /\ UNCHANGED <<link, has, d, todo, npc, down, seq>>
  /\ UNCHANGED <<hapc, more, mns, k, ba, net, sent>>

Next ==
  \/ Move \/ Answered \/ Killed \/ Emit \/ BuWorker \/ ProbeWorker
  \/ SelectNow \/ SelectLater \/ ReadProbe \/ ReadUpdate \/ Clean
  \/ Stop \/ Restart \/ CalmDown

\* The loop of each daemon: at most one of its steps is possible at a time, or
\* the one that is left comes next.
NodeLoop  == Answered \/ Emit
AgentLoop == SelectNow \/ ReadProbe \/ ReadUpdate \/ Clean \/ Restart

\* Both daemons turn their loop for ever, the timers of the node run out, and
\* the clock goes on.
Fairness ==
  /\ WF_vars(NodeLoop) /\ WF_vars(AgentLoop)
  /\ WF_vars(BuWorker) /\ WF_vars(ProbeWorker) /\ SF_vars(SelectLater)
  /\ WF_vars(CalmDown)

Spec == Init /\ [][Next]_vars /\ Fairness

-------------------------------------------------------------------------------
(* Properties. *)

InUse == Node!InUse
Bound == Agent!Binding(mns[Hoa]) = IF InUse = None THEN Unspec ELSE InUse

\* The node uses an address of an interface that is up and still has it.
Working ==
  /\ npc = "run" /\ todo = << >> /\ d.type # "home"
  /\ link[d.current] = "up" /\ <<d.current, InUse>> \in has

\* The interface in use is the one that is to be used.
InPlace == Working /\ d.preferred = d.current

\* Whatever was lost, repeated or restarted before, a node that stays on an
\* interface is bound there in the end and is never forgotten again, although
\* the agent refuses updates from addresses it knows no probe of, and forgets
\* probes in an iteration that finds the node silent (bu_worker,
\* nat_probe_worker).
Connected == <>[](InPlace => Bound)

\* A node that is at home is bound nowhere in the end, although at home it
\* repeats nothing: the agent gives up on it (mn_state_cleanup).
HomeIsUnbound == <>[](d.type = "home" => Bound)

\* mn.c:2436 NOTE 2 "MAKE SURE THAT nat probes are sent before the coav4 is used
\* or HA will decline the request from BU": a node that works is bound.
Reachable == <>[](Working => Bound)
===============================================================================
