------------------------------- MODULE DataBuff -------------------------------
(***************************************************************************)
(* The packet buffer of the home agent's kernel (databuff.c).  A netfilter *)
(* hook keeps a copy of every packet for a known mobile node in a linked   *)
(* list.  When the home agent reports a new care-of address the list is    *)
(* sent again, without packets older than a second; packets that come      *)
(* meanwhile are only kept, not forwarded, and are sent with the others.   *)
(*                                                                         *)
(* The list has no lock.  The handler of the report runs as a process; the *)
(* hook runs in a soft interrupt, which may come between any two of its    *)
(* statements, even with one processor.  What happens when the hook cuts   *)
(* into a statement, or runs on two processors for one list (Race), or     *)
(* when a copy that was never made is sent (Oops), is not followed: the    *)
(* model halts there.                                                      *)
(***************************************************************************)
EXTENDS Integers, Sequences, FiniteSets

CONSTANTS
  Mn,          \* home addresses the home agent reports
  Coa,         \* care-of addresses
  MAX,         \* size of MN_LIST (MAX_MN_COUNT, 1000)
  Cell,        \* memory for struct packet_list
  Null,
  MayFail,     \* whether kmalloc and skb_copy may fail
  MaxPkt,      \* bound: packets
  MaxTime      \* bound: jiffies, in units of HZ

ASSUME BuffAssumption ==
  /\ MAX \in Nat /\ MaxPkt \in Nat /\ MaxTime \in Nat
  /\ Null \notin Mn \union Coa \union Cell
  /\ IsFiniteSet(Cell)
  /\ MayFail \in BOOLEAN

VARIABLES
  table,       \* MN_LIST, with one element behind its end
  mncount,
  heap,        \* the cells
  jiffies,
  pc,          \* where kernel_receive is
  cur,         \* the element it works on
  temp,        \* temp_packet_list
  pkts,        \* packets so far
  dropped,     \* packets the hook has dropped since the node moved
  sent,        \* packets send_buffered_data has sent, in this order
  owed,        \* packets in the list when it began, with their time
  bad,         \* a cell was used after it was freed
  halted       \* why nothing is said of what follows

vars == <<table, mncount, heap, jiffies, pc, cur, temp, pkts, dropped, sent, owed,
          bad, halted>>

Place == {"idle", "expire", "unlink old", "free old", "flush", "unlink", "send",
          "free", "instant"}

Entry == [hoa : Mn \union {Null}, coa : Coa \union {Null}, instant : BOOLEAN,
          head : Cell \union {Null}, tail : Cell \union {Null}]
\* copy is whether skb_copy gave a packet.
Cells == [pkt : 0 .. MaxPkt, time : 0 .. MaxTime, next : Cell \union {Null},
          copy : BOOLEAN, live : BOOLEAN]

Dated == [pkt : 1 .. MaxPkt, time : 0 .. MaxTime]
Drop  == [pkt : 1 .. MaxPkt, time : 0 .. MaxTime, copied : BOOLEAN]

\* The type invariant.  The table takes one entry more than it has room for
\* (Full), which is why it has an element behind its end here.
TypeOK ==
  /\ table \in [0 .. MAX -> Entry] /\ mncount \in 0 .. MAX + 1
  /\ heap \in [Cell -> Cells] /\ jiffies \in 0 .. MaxTime
  /\ pc \in Place /\ cur \in 0 .. MAX /\ temp \in Cell \union {Null}
  /\ pkts \in 0 .. MaxPkt /\ dropped \subseteq Drop /\ owed \subseteq Dated
  /\ sent \in Seq(1 .. MaxPkt) /\ bad \in BOOLEAN
  /\ halted \in {"no", "raced", "oops"}

\* Memory that is not in use.
Blank == [pkt |-> 0, time |-> 0, next |-> Null, copy |-> FALSE, live |-> FALSE]

Init ==
  /\ table = [i \in 0 .. MAX |-> [hoa |-> Null, coa |-> Null, instant |-> FALSE,
                                  head |-> Null, tail |-> Null]]
  /\ mncount = 0
  /\ heap = [c \in Cell |-> Blank]
  /\ jiffies = 0 /\ pc = "idle" /\ cur = 0 /\ temp = Null
  /\ pkts = 0 /\ dropped = {} /\ sent = << >> /\ owed = {}
  /\ bad = FALSE /\ halted = "no"

\* Mutant: packets of the last second count as expired.
Expired_Now(h, c) == h[c].time < jiffies

\* time_before(ariv_jiffies, jiffies - HZ)
Expired(h, c) == h[c].time < jiffies - 1

\* in_mnlistv6, in_mnlistv4
Known(m) == {i \in 0 .. mncount - 1 : table[i].hoa = m}

\* The cells of a list from its head on.  A list of n cells is followed at
\* most n times: damaged ones are not followed for ever.
Chain(h, head) ==
  LET from[n \in 0 .. Cardinality(Cell)] ==
        IF n = 0 THEN << >>
        ELSE LET s == from[n - 1]
                 c == IF s = << >> THEN head ELSE h[s[Len(s)]].next
             IN  IF c = Null \/ Len(s) < n - 1 THEN s ELSE Append(s, c)
  IN  from[Cardinality(Cell)]

\* The first cell from head on that is not expired.
FirstFresh(h, head) ==
  LET chain == Chain(h, head)
      fresh == {n \in DOMAIN chain : ~Expired(h, chain[n])}
  IN  IF fresh = {} THEN Null
      ELSE chain[CHOOSE n \in fresh : \A m \in fresh : n <= m]

Free(h, cs) == [c \in Cell |-> IF c \in cs THEN Blank ELSE h[c]]

-------------------------------------------------------------------------------
(* The hook. *)

\* Mutant: the tail is left as it is.
TailAfter_Stale(head, tail) == tail

\* A list that is empty has no tail.
TailAfter(head, tail) == IF head = Null THEN Null ELSE tail

\* Since the node moved the hook returns NF_DROP.
Verdict(i, p, copied) ==
  dropped' = IF table[i].instant THEN dropped
             ELSE dropped \union {[pkt |-> p, time |-> jiffies, copied |-> copied]}

\* buffer_data and the verdict: expired cells are freed, and a copy of the
\* packet is appended.  The cell the process still points to is not given out
\* again: its use counts as bad.  There may be no memory for the cell, or for
\* the copy in it.
Buffer(i, p) ==
  LET e    == table[i]
      all  == Chain(heap, e.head)
      head == FirstFresh(heap, e.head)
      rest == Chain(heap, head)
      old  == {all[n] : n \in DOMAIN all} \ {rest[n] : n \in DOMAIN rest}
      h    == Free(heap, old)
      tail == TailAfter(head, e.tail)
  IN  /\ bad' = (tail # Null /\ ~h[tail].live)
      /\ \/ \E c \in {x \in Cell : ~h[x].live /\ x # temp},
               copy \in {TRUE, ~MayFail} :
              LET new == [pkt |-> p, time |-> jiffies, next |-> Null,
                          copy |-> copy, live |-> TRUE]
                  h1  == [h EXCEPT ![c] = new]
              IN  /\ heap' = IF tail = Null THEN h1 ELSE [h1 EXCEPT ![tail].next = c]
                  /\ table' = [table EXCEPT ![i].head = IF tail = Null THEN c ELSE head,
                                            ![i].tail = c]
                  /\ Verdict(i, p, copy)
         \/ /\ MayFail
            /\ heap' = IF tail = Null THEN h ELSE [h EXCEPT ![tail].next = Null]
            /\ table' = [table EXCEPT ![i].head = head, ![i].tail = tail]
            /\ Verdict(i, p, FALSE)

Goes == ~bad /\ halted = "no"

\* Mutant: a packet is dropped before it is kept.
Packet_Drops(m) ==
  /\ pkts < MaxPkt /\ pkts' = pkts + 1 /\ Goes
  /\ \E i \in Known(m) :
       IF table[i].instant
       THEN Buffer(i, pkts + 1)
       ELSE Verdict(i, pkts + 1, TRUE) /\ UNCHANGED <<table, heap, bad>>
  /\ UNCHANGED <<mncount, jiffies, pc, cur, temp, sent, owed, halted>>

\* hook_funcv4 and hook_funcv6: a packet for m.
Packet(m) ==
  /\ pkts < MaxPkt /\ pkts' = pkts + 1 /\ Goes
  /\ \E i \in Known(m) : Buffer(i, pkts + 1)
  /\ UNCHANGED <<mncount, jiffies, pc, cur, temp, sent, owed, halted>>

\* The hook for m runs on two processors at once, or in the middle of a
\* statement of the process: a data race.
Race(m) ==
  /\ pkts < MaxPkt /\ Goes /\ Known(m) # {}
  /\ halted' = "raced"
  /\ UNCHANGED <<table, mncount, heap, jiffies, pc, cur, temp, pkts, dropped, sent,
                 owed, bad>>

Tick == /\ Goes /\ jiffies < MaxTime /\ jiffies' = jiffies + 1
        /\ UNCHANGED <<table, mncount, heap, pc, cur, temp, pkts, dropped, sent, owed,
                       bad, halted>>

-------------------------------------------------------------------------------
(* kernel_receive. *)

Full == mncount > MAX

\* A node that is reported for the first time is entered.
Report(m, c) ==
  /\ Goes /\ pc = "idle" /\ Known(m) = {}
  /\ IF Full THEN UNCHANGED <<table, mncount>>
     ELSE /\ table' = [table EXCEPT ![mncount].hoa = m, ![mncount].coa = c,
                                    ![mncount].instant = TRUE]
          /\ mncount' = mncount + 1
  /\ UNCHANGED <<heap, jiffies, pc, cur, temp, pkts, dropped, sent, owed, bad, halted>>

\* The cells of element i.
Listed(i) == {Chain(heap, table[i].head)[n] : n \in DOMAIN Chain(heap, table[i].head)}

\* Another care-of address: from now on packets are kept and dropped.
Moved(m, c) ==
  /\ Goes /\ pc = "idle"
  /\ \E i \in Known(m) :
       /\ table[i].coa # c
       /\ table' = [table EXCEPT ![i].coa = c, ![i].instant = FALSE]
       /\ cur' = i
       /\ owed' = {[pkt |-> heap[c1].pkt, time |-> heap[c1].time] : c1 \in Listed(i)}
  /\ pc' = "expire" /\ sent' = << >> /\ dropped' = {}
  /\ UNCHANGED <<mncount, heap, jiffies, temp, pkts, bad, halted>>

\* A step of send_buffered_data.
Step(from, to) ==
  /\ Goes /\ pc = from /\ pc' = to
  /\ UNCHANGED <<mncount, jiffies, cur, pkts, dropped, owed, halted>>

First == table[cur].head

\* The first cell is looked at and remembered if it is to be dropped.
ExpireOne ==
  /\ IF First # Null /\ Expired(heap, First)
     THEN Step("expire", "unlink old") /\ temp' = First
     ELSE Step("expire", "flush") /\ UNCHANGED temp
  /\ UNCHANGED <<table, heap, sent, bad>>

\* packets_head = packets_head->next: the compiler may read packets_head again
\* or use temp.
Unlink(from, to) ==
  /\ Step(from, to)
  /\ \E c \in {First, temp} :
       /\ bad' = (c = Null \/ ~heap[c].live)
       /\ table' = IF c = Null THEN table
                   ELSE [table EXCEPT ![cur].head = heap[c].next]
  /\ UNCHANGED <<heap, temp, sent>>

\* kfree (temp_packet_list)
FreeTemp(from, to) ==
  /\ Step(from, to)
  /\ heap' = Free(heap, {temp}) /\ bad' = (bad \/ ~heap[temp].live) /\ temp' = Null
  /\ UNCHANGED <<table, sent>>

\* Until the list is empty, the first cell is looked at.
FlushOne ==
  /\ IF First # Null THEN Step("flush", "unlink") /\ temp' = First
                     ELSE Step("flush", "instant") /\ UNCHANGED temp
  /\ UNCHANGED <<table, heap, sent, bad>>

\* Mutant: a cell is sent after the cells that follow it.
Send_Before ==
  /\ Step("send", "free")
  /\ heap[temp].live => heap[temp].copy
  /\ sent' = <<heap[temp].pkt>> \o sent /\ bad' = (bad \/ ~heap[temp].live)
  /\ UNCHANGED <<table, heap, temp>>

\* okfn
Send ==
  /\ Step("send", "free")
  /\ heap[temp].live => heap[temp].copy
  /\ sent' = Append(sent, heap[temp].pkt) /\ bad' = (bad \/ ~heap[temp].live)
  /\ UNCHANGED <<table, heap, temp>>

\* okfn (NULL)
Oops ==
  /\ Goes /\ pc = "send" /\ heap[temp].live /\ ~heap[temp].copy
  /\ halted' = "oops"
  /\ UNCHANGED <<table, mncount, heap, jiffies, pc, cur, temp, pkts, dropped, sent,
                 owed, bad>>

\* Packets are forwarded again.
Instant ==
  /\ Step("instant", "idle")
  /\ table' = [table EXCEPT ![cur].instant = TRUE]
  /\ UNCHANGED <<heap, temp, sent, bad>>

SendBufferedData ==
  \/ ExpireOne \/ Unlink("unlink old", "free old") \/ FreeTemp("free old", "expire")
  \/ FlushOne \/ Unlink("unlink", "send") \/ Send \/ Oops \/ FreeTemp("free", "flush")
  \/ Instant

Next ==
  \/ \E m \in Mn : Packet(m) \/ Race(m)
  \/ \E m \in Mn, c \in Coa : Report(m, c)
  \/ \E m \in Mn, c \in Coa : Moved(m, c)
  \/ SendBufferedData \/ Tick

Spec == Init /\ [][Next]_vars

-------------------------------------------------------------------------------
(* Properties. *)

Sent == {sent[n] : n \in DOMAIN sent}

\* A packet of the last second.
Fresh(s) == {x \in s : x.time >= jiffies - 1}

\* The hook has freed the cell the process points to (databuff.c:98-99).
Dangling == temp # Null /\ ~heap[temp].live

\* From there on nothing is said but that the process uses the freed cell next.
Sound == ~bad /\ ~Dangling

\* Every packet of the last second that was copied and dropped because the list
\* was being sent has been sent with it when that is done, or came after the
\* last look at the list and waits in it (hook_funcv6, send_buffered_data).
DroppedIsKept ==
  pc = "idle" /\ Sound =>
    \A o \in Fresh(dropped) :
      o.copied => o.pkt \in Sent \union {heap[c].pkt : c \in Listed(cur)}

\* databuff.c:4 "Buffer the recent 1s' data to mn via HA.When the mn handover to
\* a new GW, HA send the buffered data to mn": while the list is being sent,
\* each packet of the last second was sent, is in the list or is being sent, and
\* in the end it was sent.
Held == {heap[c].pkt : c \in Listed(cur) \union ({temp} \ {Null})}

RecentIsSent ==
  Sound => {o.pkt : o \in Fresh(owed)}
             \subseteq Sent \union (IF pc = "idle" THEN {} ELSE Held)

\* A cell is used after it was freed only by send_buffered_data, and only when
\* the hook has freed the very cell it points to: head, tail and the links
\* between the cells never lead to freed memory.
OnlyHeadIsStolen == [][bad' => bad \/ Dangling]_vars

\* Packets are sent in the order they came.
InOrder == Sound => \A n \in DOMAIN sent : n > 1 => sent[n - 1] < sent[n]

\* add_mnlist never writes behind the end of MN_LIST.
TableInBounds == mncount <= MAX
===============================================================================
