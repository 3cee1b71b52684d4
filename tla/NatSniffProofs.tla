---------------------------- MODULE NatSniffProofs ----------------------------
(* Proofs about NatSniff, for all nodes, interfaces, endpoints and bounds. *)
EXTENDS NatSniff, SequenceTheorems, TLAPS

\* What a probe that is being handled rests on: every endpoint in use is among
\* those held since it was read, so is every packet to port 666 in the open
\* socket, and so is what was taken from it.  A slot no interface was noted for
\* has nothing stored.
Ends == {h.at : h \in held}

Inv ==
  /\ TypeOK
  /\ pc \in {"socket", "look", "recv", "store"} =>
       \A n \in Node, i \in Iface : [mn |-> n, ifindex |-> i, at |-> where[n][i]] \in held
  /\ pc \in {"look", "recv"} =>
       \A j \in 1 .. Len(raw) : raw[j] # Other => raw[j] \in Ends
  /\ pc = "store" => got \in Ends
  /\ \A n \in Node : \A s \in 1 .. NIF : s > Len(mns[n].ifs) => mns[n].nat[s] = Null

\* A table of interfaces is a sequence of at most NIF.
LEMMA IfMapSeq ==
  ASSUME NEW ifs
  PROVE  ifs \in IfMap <=> ifs \in Seq(Iface) /\ Len(ifs) <= NIF
<1>1. ASSUME ifs \in IfMap PROVE ifs \in Seq(Iface) /\ Len(ifs) <= NIF
  BY <1>1, SniffAssumption DEF IfMap
<1>2. ASSUME ifs \in Seq(Iface), Len(ifs) <= NIF PROVE ifs \in IfMap
  <2>1. Len(ifs) \in 0 .. NIF /\ ifs \in [1 .. Len(ifs) -> Iface]
    BY <1>2, SniffAssumption
  <2> QED BY <2>1 DEF IfMap
<1> QED BY <1>1, <1>2

\* Noting an interface keeps the table within its bounds and adds at the end.
LEMMA NotedType ==
  ASSUME NEW ifs \in IfMap, NEW x \in Iface
  PROVE  /\ Noted(ifs, x) \in IfMap
         /\ Len(ifs) <= Len(Noted(ifs, x))
         /\ \A s \in 1 .. Len(ifs) : Noted(ifs, x)[s] = ifs[s]
         /\ \A s \in 1 .. Len(Noted(ifs, x)) : s > Len(ifs) => Noted(ifs, x)[s] = x
<1>1. ifs \in Seq(Iface) /\ Len(ifs) <= NIF
  BY IfMapSeq
<1>2. CASE Listed(ifs, x) = {} /\ Len(ifs) < NIF
  <2>1. /\ Append(ifs, x) \in Seq(Iface) /\ Len(Append(ifs, x)) = Len(ifs) + 1
        /\ \A s \in 1 .. Len(ifs) : Append(ifs, x)[s] = ifs[s]
        /\ Append(ifs, x)[Len(ifs) + 1] = x
    BY <1>1
  <2>2. Len(Append(ifs, x)) <= NIF
    BY <1>1, <1>2, <2>1, SniffAssumption
  <2>3. Append(ifs, x) \in IfMap
    BY <2>1, <2>2, IfMapSeq
  <2> QED BY <1>1, <1>2, <2>1, <2>3 DEF Noted
<1>3. CASE ~(Listed(ifs, x) = {} /\ Len(ifs) < NIF)
  BY <1>1, <1>3 DEF Noted
<1> QED BY <1>2, <1>3

-------------------------------------------------------------------------------
(* The steps of the daemon. *)

\* What Store makes of the table.
LEMMA StoreTable ==
  ASSUME TypeOK, Store
  PROVE  /\ got \in Endpoint \union {Null}
         /\ mns' \in [Node \union {Behind} -> Element]
         /\ \A n \in Node, s \in 1 .. NIF : mns'[n].nat[s] \in {got, mns[n].nat[s]}
         /\ \A n \in Node : \A s \in 1 .. Len(mns[n].ifs) : mns'[n].ifs[s] = mns[n].ifs[s]
         /\ \A n \in Node : Len(mns[n].ifs) <= Len(mns'[n].ifs)
         /\ \A n \in Node, s \in 1 .. NIF :
              s > Len(mns'[n].ifs) => mns'[n].nat[s] = mns[n].nat[s]
<1> DEFINE m == Found(probe.hoa)
           noted == Noted(mns[m].ifs, probe.ifindex)
           slots == {s \in Listed(noted, probe.ifindex) : m # Behind /\ s < NIF}
           nat == [s \in 1 .. NIF |-> IF s \in slots THEN got ELSE mns[m].nat[s]]
<1>1. /\ m \in Node \union {Behind} /\ probe.ifindex \in Iface
      /\ mns \in [Node \union {Behind} -> Element] /\ got \in Endpoint \union {Null}
  BY DEF TypeOK, Found, Probe
<1>2. mns[m] \in Element /\ mns[m].ifs \in IfMap
      /\ mns[m].nat \in [1 .. NIF -> Endpoint \union {Null}]
  BY <1>1 DEF Element
<1>3. /\ noted \in IfMap /\ Len(mns[m].ifs) <= Len(noted)
      /\ \A s \in 1 .. Len(mns[m].ifs) : noted[s] = mns[m].ifs[s]
  BY <1>1, <1>2, NotedType
<1>4. nat \in [1 .. NIF -> Endpoint \union {Null}]
  BY <1>1, <1>2
<1>5. mns' = [mns EXCEPT ![m] = [ifs |-> noted, nat |-> nat]]
  BY DEF Store
<1>6. mns' = [n \in Node \union {Behind} |->
               IF n = m THEN [ifs |-> noted, nat |-> nat] ELSE mns[n]]
  <2> HIDE DEF m, noted, nat
  <2> QED BY <1>1, <1>5
<1>7. mns' \in [Node \union {Behind} -> Element]
  <2> HIDE DEF m, noted, nat
  <2> QED BY <1>1, <1>3, <1>4, <1>6 DEF Element
<1>8. /\ \A s \in 1 .. NIF : nat[s] \in {got, mns[m].nat[s]}
      /\ \A s \in 1 .. NIF : s > Len(noted) => nat[s] = mns[m].nat[s]
  <2>1. \A s \in slots : s <= Len(noted)
    BY <1>3, IfMapSeq DEF Listed
  <2> HIDE DEF slots
  <2>2. \A s \in 1 .. NIF : nat[s] = IF s \in slots THEN got ELSE mns[m].nat[s]
    OBVIOUS
  <2>3. \A s \in 1 .. NIF : s > Len(noted) => s \notin slots
    BY <2>1, <1>3, IfMapSeq, SniffAssumption
  <2> QED BY <2>2, <2>3
<1>9. \A n \in Node : /\ n # m => mns'[n] = mns[n]
                      /\ n = m => mns'[n].ifs = noted /\ mns'[n].nat = nat
  <2> HIDE DEF m, noted, nat
  <2> QED BY <1>6
<1> HIDE DEF m, noted, nat, slots
<1>10. \A n \in Node : mns[n].ifs \in Seq(Iface)
  BY <1>1, IfMapSeq DEF Element
<1>11. ASSUME NEW n \in Node
       PROVE  /\ \A s \in 1 .. NIF : mns'[n].nat[s] \in {got, mns[n].nat[s]}
              /\ \A s \in 1 .. Len(mns[n].ifs) : mns'[n].ifs[s] = mns[n].ifs[s]
              /\ Len(mns[n].ifs) <= Len(mns'[n].ifs)
              /\ \A s \in 1 .. NIF : s > Len(mns'[n].ifs) => mns'[n].nat[s] = mns[n].nat[s]
  <2>1. CASE n = m
    <3>1. mns'[n].ifs = noted /\ mns'[n].nat = nat /\ mns[n] = mns[m]
      BY <2>1, <1>9
    <3>2. \A s \in 1 .. NIF : mns'[n].nat[s] \in {got, mns[n].nat[s]}
      BY <3>1, <1>8, Zenon
    <3>3. \A s \in 1 .. NIF : s > Len(mns'[n].ifs) => mns'[n].nat[s] = mns[n].nat[s]
      BY <3>1, <1>8, Zenon
    <3>4. Len(mns[n].ifs) <= Len(mns'[n].ifs)
      BY <3>1, <1>3
    <3>5. \A s \in 1 .. Len(mns[n].ifs) : mns'[n].ifs[s] = mns[n].ifs[s]
      BY <3>1, <1>3
    <3> QED BY <3>2, <3>3, <3>4, <3>5
  <2>2. CASE n # m
    BY <2>2, <1>9, <1>10
  <2> QED BY <2>1, <2>2
<1> QED BY <1>1, <1>7, <1>11

\* A packet is added at the end, or lost.
LEMMA QueuedType ==
  ASSUME raw \in Seq(Endpoint \union {Other}), NEW p \in Endpoint \union {Other}, Queued(p)
  PROVE  /\ raw' \in Seq(Endpoint \union {Other})
         /\ \A j \in 1 .. Len(raw') : raw'[j] = p \/ (j \in 1 .. Len(raw) /\ raw'[j] = raw[j])
<1>1. CASE raw' = Append(raw, p)
  <2>1. /\ raw' \in Seq(Endpoint \union {Other}) /\ Len(raw') = Len(raw) + 1
        /\ \A j \in 1 .. Len(raw) : raw'[j] = raw[j]
        /\ raw'[Len(raw) + 1] = p
    BY <1>1
  <2> QED BY <2>1
<1>2. CASE raw' = raw
  BY <1>2
<1> QED BY <1>1, <1>2 DEF Queued

\* The first packet is taken from the socket.
LEMMA TailType ==
  ASSUME NEW S, NEW q \in Seq(S), q # << >>
  PROVE  /\ Head(q) \in S /\ Tail(q) \in Seq(S) /\ Head(q) = q[1] /\ 1 \in 1 .. Len(q)
         /\ \A j \in 1 .. Len(Tail(q)) : j + 1 \in 1 .. Len(q) /\ Tail(q)[j] = q[j + 1]
  OBVIOUS

\* The daemon starts with types, and with nothing stored.
LEMMA InitInv == Init => Inv
<1> SUFFICES ASSUME Init PROVE Inv
  OBVIOUS
<1>1. << >> \in IfMap
  <2>1. << >> \in Seq(Iface) /\ Len(<< >>) = 0 /\ 0 <= NIF
    BY SniffAssumption
  <2>2. << >> \in Seq(Iface) /\ Len(<< >>) <= NIF
    BY <2>1
  <2> QED BY <2>2, IfMapSeq
<1>2. PICK left \in IfMap :
        mns = [m \in Node \union {Behind} |->
                [ifs |-> IF m = Behind THEN left ELSE << >>,
                 nat |-> [s \in 1 .. NIF |-> Null]]]
  BY DEF Init
<1>3. mns \in [Node \union {Behind} -> Element]
  BY <1>1, <1>2 DEF Element
<1>4. \A n \in Node : \A s \in 1 .. NIF : mns[n].nat[s] = Null
  BY <1>2
<1>5. TypeOK
  <2>1. junk \in BOOLEAN /\ ready \in BOOLEAN /\ keep \in BOOLEAN
    BY DEF Init
  <2>2. fds \in 0 .. FdMax /\ waited \in 0 .. PASSTIME + 1 /\ mhq \in 0 .. Cap
    BY SniffAssumption DEF Init
  <2>3. natq \in Seq(Probe) /\ raw \in Seq(Endpoint \union {Other}) /\ probe \in Probe
    BY DEF Init
  <2> QED BY <1>3, <2>1, <2>2, <2>3 DEF Init, TypeOK
<1> QED BY <1>4, <1>5 DEF Init, Inv

\* What select does preserves the invariant: it notes who holds what.
LEMMA SelectInv == Inv /\ Select => Inv'
<1> SUFFICES ASSUME Inv, Select PROVE Inv'
  OBVIOUS
<1>1. ready' \in BOOLEAN /\ UNCHANGED <<junk, raw, fds, waited, got, mns, keep, mhq, where>>
  BY DEF Select
<1>2. CASE natq # << >>
  <2>1. /\ probe' = Head(natq) /\ natq' = Tail(natq) /\ pc' = "socket"
        /\ held' = Holders
    BY <1>2 DEF Select
  <2>2. probe' \in Probe /\ natq' \in Seq(Probe)
    <3>1. natq \in Seq(Probe)
      BY DEF Inv, TypeOK
    <3>2. Head(natq) \in Probe /\ Tail(natq) \in Seq(Probe)
      BY <1>2, <3>1, TailType
    <3> QED BY <2>1, <3>2
  <2>3. held' \subseteq Holding
    BY <2>1 DEF Holders
  <2>4. \A n \in Node, i \in Iface : [mn |-> n, ifindex |-> i, at |-> where[n][i]] \in held'
    BY <2>1 DEF Holders, Holding, Inv, TypeOK
  <2>5. TypeOK'
    BY <1>1, <2>1, <2>2, <2>3 DEF Inv, TypeOK
  <2> QED BY <1>1, <2>1, <2>4, <2>5 DEF Inv
<1>3. CASE natq = << >>
  <2>1. UNCHANGED <<probe, natq, held>> /\ pc' = "update"
    BY <1>3 DEF Select
  <2>2. TypeOK'
    BY <1>1, <2>1 DEF Inv, TypeOK
  <2> QED BY <1>1, <2>1, <2>2 DEF Inv
<1> QED BY <1>2, <1>3

\* A new socket holds no packet.
LEMMA OpenInv == Inv /\ OpenSocket => Inv'
<1> SUFFICES ASSUME Inv, OpenSocket PROVE Inv'
  OBVIOUS
<1> USE DEF Inv, TypeOK, OpenSocket
<1>1. TypeOK'
  BY SniffAssumption
<1> QED BY <1>1 DEF Ends

\* Looking at the clock preserves the invariant.
LEMMA LookInv == Inv /\ Look => Inv'
  BY DEF Inv, TypeOK, Look, LookOn, After, Ends

\* A packet that matches is one of those the invariant speaks of.
LEMMA ReceiveInv == Inv /\ Receive => Inv'
<1> SUFFICES ASSUME Inv, Receive PROVE Inv'
  OBVIOUS
<1>1. /\ Head(raw) \in Endpoint \union {Other} /\ raw' \in Seq(Endpoint \union {Other})
      /\ Head(raw) # Other => Head(raw) \in Ends
  BY TailType DEF Inv, TypeOK, Receive
<1>2. \A j \in 1 .. Len(raw') : raw'[j] # Other => raw'[j] \in Ends
  BY TailType DEF Inv, TypeOK, Receive
<1>3. held' = held /\ Ends' = Ends
  BY DEF Receive, Ends
<1>4. got' \in Endpoint \union {Null}
  BY <1>1 DEF Inv, TypeOK, Receive, Matches
<1>5. TypeOK'
  BY <1>1, <1>4 DEF Inv, TypeOK, Receive
<1> QED BY <1>1, <1>2, <1>3, <1>5 DEF Inv, Receive, Matches

\* Storing keeps the slots no interface was noted for empty.
LEMMA StoreInv == Inv /\ Store => Inv'
<1> SUFFICES ASSUME Inv, Store PROVE Inv'
  OBVIOUS
<1>1. TypeOK'
  BY StoreTable DEF Inv, TypeOK, Store, After
<1>2. pc' \in {"select", "update"}
  BY DEF Store, After
<1>3. ASSUME NEW n \in Node, NEW s \in 1 .. NIF, s > Len(mns'[n].ifs)
      PROVE  mns'[n].nat[s] = Null
  <2>1. mns[n].ifs \in IfMap /\ mns'[n].ifs \in IfMap
    BY <1>1 DEF Inv, TypeOK, Element
  <2>2. Len(mns[n].ifs) \in Nat /\ Len(mns'[n].ifs) \in Nat
    BY <2>1, IfMapSeq
  <2>3. s > Len(mns[n].ifs)
    BY <1>3, <2>2, StoreTable, SniffAssumption DEF Inv
  <2> QED BY <1>3, <2>3, StoreTable DEF Inv
<1> QED BY <1>1, <1>2, <1>3 DEF Inv

\* An update, the end, and a daemon that strays change nothing the invariant speaks
\* of.
LEMMA UpdateInv == Inv /\ (Stray \/ Update \/ Leave) => Inv'
<1>1. Inv /\ Stray => Inv'
  BY DEF Inv, TypeOK, Stray, After, Ends
<1>2. Inv /\ (Update \/ Leave) => Inv'
  BY SniffAssumption DEF Inv, TypeOK, Update, Leave, Ends
<1> QED BY <1>1, <1>2

-------------------------------------------------------------------------------
(* The steps of the others. *)

\* A probe is a packet that does not match.
LEMMA SendProbeInv == ASSUME Inv, NEW p \in Probe, SendProbe(p) PROVE Inv'
<1>1. /\ raw' \in Seq(Endpoint \union {Other})
      /\ \A j \in 1 .. Len(raw') : raw'[j] = Other \/ (j \in 1 .. Len(raw) /\ raw'[j] = raw[j])
  BY QueuedType DEF SendProbe, Inv, TypeOK
<1>2. TypeOK'
  BY <1>1 DEF Inv, TypeOK, SendProbe, daemon
<1> QED BY <1>1, <1>2 DEF Inv, SendProbe, daemon, Ends

\* So is any other packet.
LEMMA OtherInv == Inv /\ OtherPacket => Inv'
<1> SUFFICES ASSUME Inv, OtherPacket PROVE Inv'
  OBVIOUS
<1>1. /\ raw' \in Seq(Endpoint \union {Other})
      /\ \A j \in 1 .. Len(raw') : raw'[j] = Other \/ (j \in 1 .. Len(raw) /\ raw'[j] = raw[j])
  BY QueuedType DEF OtherPacket, Inv, TypeOK
<1>2. TypeOK'
  BY <1>1 DEF Inv, TypeOK, OtherPacket, daemon
<1> QED BY <1>1, <1>2 DEF Inv, OtherPacket, daemon, Ends

\* A node's packet carries the endpoint it has now, which is among those held.
LEMMA TrafficInv == ASSUME Inv, NEW n \in Node, NEW i \in Iface, Traffic(n, i) PROVE Inv'
<1>1. where[n][i] \in Endpoint /\ raw \in Seq(Endpoint \union {Other})
  BY DEF Inv, TypeOK
<1>2. /\ raw' \in Seq(Endpoint \union {Other})
      /\ \A j \in 1 .. Len(raw') :
           raw'[j] = where[n][i] \/ (j \in 1 .. Len(raw) /\ raw'[j] = raw[j])
  BY <1>1, QueuedType DEF Traffic
<1>3. pc \in {"look", "recv"} => where[n][i] \in Ends
  <2> SUFFICES ASSUME pc \in {"look", "recv"} PROVE where[n][i] \in Ends
    OBVIOUS
  <2>1. [mn |-> n, ifindex |-> i, at |-> where[n][i]] \in held
    BY DEF Inv
  <2> QED BY <2>1 DEF Ends
<1>4. TypeOK'
  BY <1>2 DEF Inv, TypeOK, Traffic, daemon
<1>5. UNCHANGED <<pc, got, mns, held, where>> /\ Ends' = Ends
  BY DEF Traffic, daemon, Ends
<1> QED BY <1>2, <1>3, <1>4, <1>5 DEF Inv

\* Who gets another endpoint holds it from then on.
LEMMA RebindInv ==
  ASSUME Inv, NEW n \in Node, NEW i \in Iface, NEW e \in Endpoint, Rebind(n, i, e)
  PROVE  Inv'
<1>1. where' \in [Node -> [Iface -> Endpoint]] /\ held' \subseteq Holding
  BY DEF Inv, TypeOK, Rebind, Holding
<1>2. TypeOK'
  BY <1>1 DEF Inv, TypeOK, Rebind, daemon
<1>3. Ends \subseteq Ends'
  BY DEF Rebind, Ends
<1>4. ASSUME pc \in {"socket", "look", "recv", "store"}, NEW m \in Node, NEW j \in Iface
      PROVE  [mn |-> m, ifindex |-> j, at |-> where'[m][j]] \in held'
  <2>1. [mn |-> m, ifindex |-> j, at |-> where[m][j]] \in held
    BY <1>4 DEF Inv
  <2>2. held' = held \union {[mn |-> n, ifindex |-> i, at |-> e]}
    BY <2>1 DEF Rebind
  <2>3. where' = [where EXCEPT ![n][i] = e] /\ where \in [Node -> [Iface -> Endpoint]]
    BY DEF Rebind, Inv, TypeOK
  <2>4. CASE m = n /\ j = i
    BY <2>2, <2>3, <2>4
  <2>5. CASE ~(m = n /\ j = i)
    BY <2>1, <2>2, <2>3, <2>5
  <2> QED BY <2>4, <2>5
<1>5. UNCHANGED <<pc, got, mns, raw>>
  BY DEF Rebind, daemon
<1> QED BY <1>2, <1>3, <1>4, <1>5 DEF Inv

\* Updates, time and SIGINT change nothing the invariant speaks of.
LEMMA RestInv == Inv /\ (SendUpdate \/ Tick \/ Interrupt) => Inv'
<1> SUFFICES ASSUME Inv, SendUpdate \/ Tick \/ Interrupt PROVE Inv'
  OBVIOUS
<1>1. mhq' \in 0 .. Cap /\ waited' \in 0 .. PASSTIME + 1
  BY SniffAssumption DEF Inv, TypeOK, SendUpdate, Tick, Interrupt
<1>2. keep' \in BOOLEAN
  BY DEF Inv, TypeOK, SendUpdate, Tick, Interrupt
<1>3. UNCHANGED <<pc, junk, ready, probe, fds, got, mns, raw, natq, where, held>>
  BY DEF SendUpdate, Tick, Interrupt, daemon
<1>4. TypeOK'
  BY <1>1, <1>2, <1>3 DEF Inv, TypeOK
<1> QED BY <1>3, <1>4 DEF Inv, Ends

\* The invariant is inductive.
LEMMA StepInv == Inv /\ [Next]_vars => Inv'
<1> SUFFICES ASSUME Inv, [Next]_vars PROVE Inv'
  OBVIOUS
<1>1. CASE Daemon
  BY <1>1, SelectInv, OpenInv, LookInv, ReceiveInv, StoreInv, UpdateInv DEF Daemon
<1>2. CASE \E p \in Probe : SendProbe(p)
  BY <1>2, SendProbeInv
<1>3. CASE \E n \in Node, i \in Iface : Traffic(n, i)
  BY <1>3, TrafficInv
<1>4. CASE OtherPacket \/ SendUpdate \/ Tick \/ Interrupt
  BY <1>4, OtherInv, RestInv
<1>5. CASE \E n \in Node, i \in Iface, e \in Endpoint : Rebind(n, i, e)
  BY <1>5, RebindInv
<1>6. CASE UNCHANGED vars
  BY <1>6 DEF vars, Inv, TypeOK, Ends
<1> QED BY <1>1, <1>2, <1>3, <1>4, <1>5, <1>6 DEF Next

-------------------------------------------------------------------------------
(* The theorems. *)

\* Every reachable state satisfies the invariant.
THEOREM SniffInvariant == Spec => []Inv
<1>1. Init => Inv
  BY InitInv
<1>2. Inv /\ [Next]_vars => Inv'
  BY StepInv
<1> QED BY <1>1, <1>2, PTL DEF Spec

\* Every reachable state has the declared types: nothing is noted behind the end
\* of an element's NIF_MAP, unless the daemon has taken what lies behind the table
\* for an element and strayed (Stray), which ends what is known of it.
THEOREM SniffTypeCorrect == Spec => []TypeOK
<1>1. Inv => TypeOK
  BY DEF Inv
<1> QED BY <1>1, SniffInvariant, PTL

\* What a step adds to the table is the endpoint getnatsrc has returned.
LEMMA AddedIsGot ==
  ASSUME Inv, [Next]_vars, NEW n \in Node, NEW i \in Iface,
         NEW e \in (Stored(n, i))' \ Stored(n, i)
  PROVE  pc = "store" /\ e = got
<1>1. CASE Store
  <2>1. PICK s \in {t \in Listed(mns'[n].ifs, i) : t <= NIF} : e = mns'[n].nat[s] /\ e # Null
    BY DEF Stored
  <2>2. /\ s \in 1 .. Len(mns'[n].ifs) /\ mns'[n].ifs[s] = i /\ s <= NIF
        /\ mns[n].ifs \in IfMap /\ mns'[n].ifs \in IfMap
    BY <1>1, <2>1, StoreTable DEF Listed, Inv, TypeOK, Element
  <2>3. s \in 1 .. NIF /\ Len(mns[n].ifs) \in Nat
    BY <2>2, IfMapSeq, SniffAssumption
  <2>4. CASE e = got
    BY <1>1, <2>4 DEF Store
  <2>5. CASE e # got
    <3>1. e = mns[n].nat[s]
      BY <1>1, <2>1, <2>3, <2>5, StoreTable DEF Inv
    <3>2. s <= Len(mns[n].ifs)
      BY <2>1, <2>3, <3>1 DEF Inv
    <3>3. s \in 1 .. Len(mns[n].ifs)
      BY <2>3, <3>2
    <3>4. mns[n].ifs[s] = i
      BY <1>1, <2>2, <3>3, StoreTable DEF Inv
    <3>5. e \in Stored(n, i)
      BY <2>1, <2>2, <3>1, <3>3, <3>4 DEF Stored, Listed
    <3> QED BY <3>5
  <2> QED BY <2>4, <2>5
<1>2. CASE ~Store
  <2>1. mns' = mns
    BY <1>2 DEF Next, Daemon, Select, OpenSocket, Look, Receive, Stray, Update, Leave, SendProbe,
       Traffic, OtherPacket, SendUpdate, Rebind, Tick, Interrupt, daemon, vars
  <2> QED BY <2>1 DEF Stored
<1> QED BY <1>1, <1>2

\* What a probe adds to the table is an endpoint somebody had after the probe was
\* read.
THEOREM NatStaysCurrent == Spec => NatIsCurrent
<1> DEFINE A == \A n \in Node, i \in Iface :
                   (Stored(n, i))' \ Stored(n, i) \subseteq {h.at : h \in held}
<1>1. Inv /\ [Next]_vars => A
  <2> SUFFICES ASSUME Inv, [Next]_vars, NEW n \in Node, NEW i \in Iface,
                      NEW e \in (Stored(n, i))' \ Stored(n, i)
               PROVE  e \in Ends
    BY DEF Ends
  <2> QED BY AddedIsGot DEF Inv
<1>2. Inv /\ [Next]_vars => [A]_vars
  BY <1>1
<1> HIDE DEF A
<1>3. Spec => [][A]_vars
  BY <1>2, SniffInvariant, PTL DEF Spec
<1> QED BY <1>3 DEF A, NatIsCurrent

\* With one node that has one interface, what is stored is its own endpoint.
THEOREM NatIsOwnAlone ==
  ASSUME \A m, n \in Node : m = n, \A i, j \in Iface : i = j
  PROVE  Spec => NatIsOwn
<1> DEFINE A == \A n \in Node, i \in Iface :
                   (Stored(n, i))' \ Stored(n, i) \subseteq Known(n, i)
<1>1. Inv /\ [Next]_vars => A
  <2> SUFFICES ASSUME Inv, [Next]_vars, NEW n \in Node, NEW i \in Iface,
                      NEW e \in (Stored(n, i))' \ Stored(n, i)
               PROVE  e \in Known(n, i)
    OBVIOUS
  <2>1. PICK h \in held : e = h.at
    BY AddedIsGot DEF Inv, Ends
  <2>2. h.mn = n /\ h.ifindex = i
    BY DEF Inv, TypeOK, Holding
  <2> QED BY <2>1, <2>2 DEF Known
<1>2. Inv /\ [Next]_vars => [A]_vars
  BY <1>1
<1> HIDE DEF A
<1>3. Spec => [][A]_vars
  BY <1>2, SniffInvariant, PTL DEF Spec
<1> QED BY <1>3 DEF A, NatIsOwn
===============================================================================
