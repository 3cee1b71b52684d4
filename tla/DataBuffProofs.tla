---------------------------- MODULE DataBuffProofs ----------------------------
(***************************************************************************)
(* Theorems about DataBuff, with the hook between any two statements of    *)
(* the process: until it frees the cell the process points to, the list of *)
(* packets stays a list, no freed cell is used, packets are sent in order  *)
(* and none is missing.  For any number of nodes and cells, packets and    *)
(* seconds, with kmalloc and skb_copy failing.                             *)
(*                                                                         *)
(* The lists of the heap are followed by a recursive function.  What it    *)
(* returns (ChainIs) is shown without induction: the expected result       *)
(* satisfies its equation, and the least place where the two differ does   *)
(* not exist.                                                              *)
(***************************************************************************)
EXTENDS DataBuff, FiniteSetTheorems, SequenceTheorems, TLAPS

-------------------------------------------------------------------------------
(* Numbers and sequences. *)

\* Every set of naturals that is not empty has a least element.
LEMMA Least ==
  ASSUME NEW S \in SUBSET Nat, S # {}
  PROVE  \E m \in S : \A n \in S : m <= n
<1>1. IsWellFoundedOn(OpToRel(<, Nat), Nat) BY NatLessThanWellFounded
<1> DEFINE R == OpToRel(<, Nat)
<1>2. \A x, y \in Nat : <<x, y>> \in R <=> x < y BY DEF OpToRel
<1>3. IsWellFoundedOn(R, Nat) BY <1>1
<1> HIDE DEF R
<1>4. PICK x \in S : \A y \in S : ~(<<y, x>> \in R) BY <1>3, WFMin
<1>5. \A y \in S : x <= y
  <2> TAKE y \in S
  <2>1. ~(<<y, x>> \in R) BY <1>4
  <2>2. x \in Nat /\ y \in Nat OBVIOUS
  <2>3. ~(y < x) BY <2>1, <2>2, <1>2
  <2> QED BY <2>3, <2>2
<1> QED BY <1>5

\* The elements of a sequence.
Rng(l) == {l[n] : n \in 1 .. Len(l)}

\* What a suffix of a sequence of cells consists of.
LEMMA Suffix ==
  ASSUME NEW l \in Seq(Cell), NEW k \in 1 .. Len(l) + 1
  PROVE  LET rest == SubSeq(l, k, Len(l))
         IN  /\ rest \in Seq(Cell)
             /\ Len(rest) = Len(l) - k + 1
             /\ \A n \in 1 .. Len(rest) : rest[n] = l[n + k - 1]
<1>1. Len(l) \in Nat /\ k \in Nat BY LenProperties
<1>2. \A n \in k .. Len(l) : l[n] \in Cell
  <2> TAKE n \in k .. Len(l)
  <2>1. n \in 1 .. Len(l) BY <1>1
  <2> QED BY <2>1, ElementOfSeq
<1>3. SubSeq(l, k, Len(l)) \in Seq(Cell) BY <1>1, <1>2, SubSeqProperties
<1>4. Len(SubSeq(l, k, Len(l))) = IF k <= Len(l) THEN Len(l) - k + 1 ELSE 0
  BY <1>1, <1>2, SubSeqProperties
<1>5. \A n \in 1 .. Len(l) - k + 1 : SubSeq(l, k, Len(l))[n] = l[k + n - 1]
  BY <1>1, <1>2, SubSeqProperties
<1>6. Len(SubSeq(l, k, Len(l))) = Len(l) - k + 1 BY <1>4, <1>1
<1>7. ASSUME NEW n \in 1 .. Len(l) - k + 1
      PROVE  SubSeq(l, k, Len(l))[n] = l[n + k - 1]
  <2>1. k + n - 1 = n + k - 1 BY <1>1
  <2> QED BY <2>1, <1>5
<1> QED BY <1>3, <1>6, <1>7

-------------------------------------------------------------------------------
(* Lists in the heap. *)

\* l is the list of an element with this head and tail: linked by next, every
\* cell live, the packets in the order they came.
IsList(h, head, tail, l) ==
  /\ l \in Seq(Cell)
  /\ head = IF l = << >> THEN Null ELSE l[1]
  /\ l # << >> => tail = l[Len(l)]
  /\ \A n \in 1 .. Len(l) : /\ h[l[n]].live
                            /\ h[l[n]].next = IF n = Len(l) THEN Null ELSE l[n + 1]
  /\ \A n, m \in 1 .. Len(l) : n < m => h[l[n]].pkt < h[l[m]].pkt

\* No cell is twice in a list, so that a list has at most as many cells as
\* there are.
LEMMA ListDistinct ==
  ASSUME NEW h \in [Cell -> Cells], NEW head, NEW tail, NEW l, IsList(h, head, tail, l)
  PROVE  \A n, m \in 1 .. Len(l) : l[n] = l[m] => n = m
<1>1. l \in Seq(Cell) /\ Len(l) \in Nat BY LenProperties DEF IsList
<1>2. \A n \in 1 .. Len(l) : l[n] \in Cell BY <1>1, ElementOfSeq
<1>3. \A n \in 1 .. Len(l) : h[l[n]].pkt \in Int BY <1>2, BuffAssumption DEF Cells
<1>4. \A n, m \in 1 .. Len(l) : n < m => h[l[n]].pkt < h[l[m]].pkt BY DEF IsList
<1> SUFFICES ASSUME NEW n \in 1 .. Len(l), NEW m \in 1 .. Len(l), l[n] = l[m], n # m
             PROVE  FALSE
  OBVIOUS
<1>5. n < m \/ m < n BY <1>1
<1>6. h[l[n]].pkt < h[l[m]].pkt \/ h[l[m]].pkt < h[l[n]].pkt BY <1>4, <1>5
<1> QED BY <1>6, <1>3

LEMMA ListBound ==
  ASSUME NEW h \in [Cell -> Cells], NEW head, NEW tail, NEW l, IsList(h, head, tail, l)
  PROVE  Len(l) \in Nat /\ Cardinality(Cell) \in Nat /\ Len(l) <= Cardinality(Cell)
<1>1. l \in Seq(Cell) BY DEF IsList
<1>2. Len(l) \in Nat /\ l \in [1 .. Len(l) -> Cell] BY <1>1, LenProperties
<1>3. IsFiniteSet(Cell) BY BuffAssumption
<1>4. l \in Injection(1 .. Len(l), Cell)
  BY <1>2, ListDistinct DEF Injection, IsInjective
<1>5. Cardinality(1 .. Len(l)) <= Cardinality(Cell) BY <1>3, <1>4, FS_Injection
<1>6. Cardinality(1 .. Len(l)) = Len(l) BY <1>2, FS_Interval
<1>7. Cardinality(Cell) \in Nat BY <1>3, FS_CardinalityType
<1> QED BY <1>2, <1>5, <1>6, <1>7

\* Following a list from its head gives the list.
LEMMA ChainIs ==
  ASSUME NEW h \in [Cell -> Cells], NEW head, NEW tail, NEW l, IsList(h, head, tail, l)
  PROVE  Chain(h, head) = l
<1> DEFINE N == Cardinality(Cell)
           Body(f) ==
             [n \in 0 .. N |->
                IF n = 0 THEN << >>
                ELSE LET s == f[n - 1]
                         c == IF s = << >> THEN head ELSE h[s[Len(s)]].next
                     IN  IF c = Null \/ Len(s) < n - 1 THEN s ELSE Append(s, c)]
           from == CHOOSE f : f = Body(f)
           G == [n \in 0 .. N |-> IF n < Len(l) THEN SubSeq(l, 1, n) ELSE l]
<1>1. Chain(h, head) = from[N] BY DEF Chain
<1>2. Len(l) \in Nat /\ N \in Nat /\ Len(l) <= N BY ListBound
<1>3. l \in Seq(Cell) BY DEF IsList
<1>4. \A n \in 1 .. Len(l) : l[n] \in Cell /\ l[n] # Null
  BY <1>3, ElementOfSeq, BuffAssumption
<1> HIDE DEF N
<1>5. \A n \in 0 .. Len(l) :
        /\ SubSeq(l, 1, n) \in Seq(Cell) /\ Len(SubSeq(l, 1, n)) = n
        /\ \A m \in 1 .. n : SubSeq(l, 1, n)[m] = l[m]
  <2> TAKE n \in 0 .. Len(l)
  <2>1. \A m \in 1 .. n : l[m] \in Cell BY <1>2, <1>4
  <2>2. SubSeq(l, 1, n) \in Seq(Cell) BY <2>1, <1>2, SubSeqProperties
  <2>3. Len(SubSeq(l, 1, n)) = IF 1 <= n THEN n - 1 + 1 ELSE 0
    BY <2>1, <1>2, SubSeqProperties
  <2>4. \A m \in 1 .. n - 1 + 1 : SubSeq(l, 1, n)[m] = l[1 + m - 1]
    BY <2>1, <1>2, SubSeqProperties
  <2>5. ASSUME NEW m \in 1 .. n PROVE SubSeq(l, 1, n)[m] = l[m]
    <3>1. m \in 1 .. n - 1 + 1 /\ 1 + m - 1 = m BY <1>2
    <3> QED BY <3>1, <2>4
  <2> QED BY <2>2, <2>3, <2>5, <1>2
<1>6. SubSeq(l, 1, Len(l)) = l BY <1>3, SubSeqFull
<1>7. \A n \in 0 .. N :
        /\ n <= Len(l) => G[n] = SubSeq(l, 1, n)
        /\ n >= Len(l) => G[n] = l
  <2> TAKE n \in 0 .. N
  <2>1. G[n] = IF n < Len(l) THEN SubSeq(l, 1, n) ELSE l OBVIOUS
  <2>2. n \in Int /\ Len(l) \in Int BY <1>2
  <2>3. CASE n < Len(l) BY <2>1, <2>2, <2>3
  <2>4. CASE n = Len(l) BY <2>1, <2>2, <2>4, <1>6
  <2>5. CASE n > Len(l) BY <2>1, <2>2, <2>5
  <2> QED BY <2>2, <2>3, <2>4, <2>5
<1> HIDE DEF G
<1>8. ASSUME NEW n \in 0 .. N, n # 0
      PROVE  LET s == G[n - 1]
                 c == IF s = << >> THEN head ELSE h[s[Len(s)]].next
             IN  G[n] = IF c = Null \/ Len(s) < n - 1 THEN s ELSE Append(s, c)
  <2> DEFINE s == G[n - 1]
             c == IF s = << >> THEN head ELSE h[s[Len(s)]].next
  <2>1. n \in Nat /\ n - 1 \in 0 .. N BY <1>2, <1>8
  <2>2. CASE n <= Len(l)
    <3>1. s = SubSeq(l, 1, n - 1) /\ n - 1 \in 0 .. Len(l) BY <2>1, <2>2, <1>2, <1>7
    <3>2. s \in Seq(Cell) /\ Len(s) = n - 1 /\ \A m \in 1 .. n - 1 : s[m] = l[m]
      BY <3>1, <1>5
    <3>3. c = l[n]
      <4>1. CASE n = 1
        <5>1. s = << >> BY <3>2, <4>1, EmptySeq
        <5>2. l # << >> BY <2>2, <4>1
        <5> QED BY <5>1, <5>2, <4>1 DEF IsList
      <4>2. CASE n # 1
        <5>1. s # << >> BY <3>2, <4>2, <2>1
        <5>2. n - 1 \in 1 .. Len(l) /\ n - 1 \in 1 .. n - 1 /\ n - 1 # Len(l) /\ n - 1 + 1 = n
          BY <4>2, <2>1, <2>2, <1>2
        <5>3. s[Len(s)] = l[n - 1] BY <3>2, <5>2
        <5>4. h[l[n - 1]].next = l[n - 1 + 1] BY <5>2 DEF IsList
        <5> QED BY <5>1, <5>2, <5>3, <5>4
      <4> QED BY <4>1, <4>2
    <3>4. c # Null /\ c \in Cell BY <3>3, <1>4, <2>1, <2>2, <1>2
    <3>5. ~(Len(s) < n - 1) BY <3>2, <2>1
    <3> HIDE DEF s, c
    <3>6. Append(s, c) = SubSeq(l, 1, n)
      <4>1. Append(s, c) \in Seq(Cell) /\ Len(Append(s, c)) = n
        BY <3>2, <3>4, <2>1, AppendProperties
      <4>2. SubSeq(l, 1, n) \in Seq(Cell) /\ Len(SubSeq(l, 1, n)) = n
            /\ \A m \in 1 .. n : SubSeq(l, 1, n)[m] = l[m]
        BY <1>5, <2>1, <2>2, <1>2
      <4>3. \A m \in 1 .. n : Append(s, c)[m] = l[m]
        <5> TAKE m \in 1 .. n
        <5>1. CASE m = n
          BY <5>1, <3>2, <3>3, <3>4, <2>1, AppendProperties
        <5>2. CASE m # n
          <6>1. m \in 1 .. n - 1 /\ m \in 1 .. Len(s) BY <5>2, <3>2, <2>1
          <6> QED BY <6>1, <3>2, <3>4, AppendProperties
        <5> QED BY <5>1, <5>2
      <4> QED BY <4>1, <4>2, <4>3, SeqEqual
    <3>7. G[n] = SubSeq(l, 1, n) BY <1>7, <2>2
    <3> QED BY <3>4, <3>5, <3>6, <3>7 DEF s, c
  <2>3. CASE n > Len(l)
    <3>1. s = l /\ G[n] = l
      <4>1. n - 1 >= Len(l) /\ n >= Len(l) BY <2>1, <2>3, <1>2
      <4> QED BY <4>1, <1>7, <2>1
    <3>2. CASE Len(l) < n - 1 BY <3>1, <3>2
    <3>3. CASE n - 1 <= Len(l)
      <4>1. c = Null
        <5>1. CASE l = << >> BY <5>1, <3>1 DEF IsList
        <5>2. CASE l # << >>
          <6>1. Len(l) \in 1 .. Len(l) BY <5>2, <1>2, <1>3, EmptySeq
          <6> QED BY <6>1, <5>2, <3>1 DEF IsList
        <5> QED BY <5>1, <5>2
      <4> QED BY <4>1, <3>1
    <3> QED BY <3>2, <3>3, <2>1, <1>2
  <2> QED BY <2>2, <2>3, <2>1, <1>2
<1>9. G = Body(G)
  <2>1. G[0] = << >>
    <3>1. SubSeq(l, 1, 0) = << >> BY SubSeqEmpty
    <3>2. 0 \in 0 .. N /\ 0 <= Len(l) BY <1>2
    <3> QED BY <3>2, <3>1, <1>7, <1>2, EmptySeq
  <2>2. G = [n \in 0 .. N |-> G[n]] BY DEF G
  <2>3. \A n \in 0 .. N : G[n] = Body(G)[n] BY <2>1, <1>8
  <2> QED BY <2>2, <2>3
<1>10. from = Body(from) BY <1>9
<1> HIDE DEF from
<1>11. \A n \in 0 .. N : from[n] = G[n]
  <2> DEFINE Bad == {n \in 0 .. N : from[n] # G[n]}
  <2> SUFFICES ASSUME Bad # {} PROVE FALSE OBVIOUS
  <2>1. Bad \in SUBSET Nat BY <1>2
  <2>2. PICK m \in Bad : \A n \in Bad : m <= n BY <2>1, Least
  <2>3. m \in 0 .. N /\ from[m] # G[m] OBVIOUS
  <2>4. from[m] = Body(from)[m] /\ G[m] = Body(G)[m] BY <1>9, <1>10
  <2>5. m # 0 BY <2>3, <2>4
  <2>6. m - 1 \in 0 .. N /\ m - 1 \notin Bad BY <2>2, <2>3, <2>5, <1>2
  <2>7. from[m - 1] = G[m - 1] BY <2>6
  <2> QED BY <2>3, <2>4, <2>5, <2>7
<1>12. from[N] = l
  <2>1. N \in 0 .. N /\ N >= Len(l) BY <1>2
  <2> QED BY <2>1, <1>11, <1>7
<1> QED BY <1>12, <1>1 DEF from, N

\* What the lists of elements look like to the provers.
LEMMA ListFacts ==
  ASSUME NEW h, NEW head, NEW tail, NEW l, IsList(h, head, tail, l)
  PROVE  /\ l \in Seq(Cell) /\ Len(l) \in Nat
         /\ \A n \in 1 .. Len(l) : l[n] \in Cell
         /\ l = << >> <=> Len(l) = 0
         /\ Rng(l) \subseteq Cell
         /\ \A c \in Rng(l) : h[c].live
<1>1. l \in Seq(Cell) /\ Len(l) \in Nat BY LenProperties DEF IsList
<1>2. \A n \in 1 .. Len(l) : l[n] \in Cell BY <1>1, ElementOfSeq
<1>3. l = << >> <=> Len(l) = 0 BY <1>1, EmptySeq
<1>4. Rng(l) \subseteq Cell BY <1>2 DEF Rng
<1>5. \A c \in Rng(l) : h[c].live BY DEF Rng, IsList
<1> QED BY <1>1, <1>2, <1>3, <1>4, <1>5

\* An element whose head is null has the empty list.
LEMMA NoList ==
  ASSUME NEW h, NEW tail
  PROVE  /\ << >> \in Seq(Cell) /\ Len(<< >>) = 0 /\ Rng(<< >>) = {}
         /\ IsList(h, Null, tail, << >>)
<1>1. << >> \in Seq(Cell) /\ Len(<< >>) = 0 BY EmptySeq
<1>2. 1 .. 0 = {} OBVIOUS
<1>3. Rng(<< >>) = {} BY <1>1, <1>2 DEF Rng
<1> QED BY <1>1, <1>2, <1>3 DEF IsList

\* A list is one as long as its own cells stay what they are.
LEMMA ListStays ==
  ASSUME NEW h, NEW g, NEW head, NEW tail, NEW l, IsList(h, head, tail, l),
         \A c \in Rng(l) : g[c] = h[c]
  PROVE  IsList(g, head, tail, l)
<1>1. \A n \in 1 .. Len(l) : g[l[n]] = h[l[n]] BY DEF Rng
<1> QED BY <1>1 DEF IsList

\* A suffix of a list is the list of its first cell, and keeps the tail.
LEMMA SuffixIsList ==
  ASSUME NEW h, NEW head, NEW tail, NEW l, IsList(h, head, tail, l),
         NEW k \in 1 .. Len(l) + 1
  PROVE  LET rest == SubSeq(l, k, Len(l))
         IN  /\ IsList(h, IF k = Len(l) + 1 THEN Null ELSE l[k], tail, rest)
             /\ Rng(rest) = {l[n] : n \in k .. Len(l)}
             /\ rest = << >> <=> k = Len(l) + 1
<1> DEFINE rest == SubSeq(l, k, Len(l))
<1>1. l \in Seq(Cell) /\ Len(l) \in Nat /\ k \in Nat BY ListFacts
<1>2. rest \in Seq(Cell) /\ Len(rest) = Len(l) - k + 1
      /\ \A n \in 1 .. Len(rest) : rest[n] = l[n + k - 1]
  BY <1>1, Suffix
<1> HIDE DEF rest
<1>3. rest = << >> <=> k = Len(l) + 1 BY <1>2, <1>1, EmptySeq
<1>4. \A n \in 1 .. Len(rest) : n + k - 1 \in k .. Len(l) /\ n + k - 1 \in 1 .. Len(l)
  BY <1>1, <1>2
<1>5. Rng(rest) = {l[n] : n \in k .. Len(l)}
  <2>1. ASSUME NEW n \in k .. Len(l) PROVE l[n] \in Rng(rest)
    <3>1. n - k + 1 \in 1 .. Len(rest) /\ (n - k + 1) + k - 1 = n BY <1>1, <1>2
    <3>2. rest[n - k + 1] = l[n] BY <3>1, <1>2
    <3> QED BY <3>1, <3>2 DEF Rng
  <2>2. ASSUME NEW n \in 1 .. Len(rest) PROVE rest[n] \in {l[m] : m \in k .. Len(l)}
    BY <1>2, <1>4
  <2> QED BY <2>1, <2>2 DEF Rng
<1>6. IsList(h, IF k = Len(l) + 1 THEN Null ELSE l[k], tail, rest)
  <2>1. rest # << >> => rest[1] = l[k] /\ rest[Len(rest)] = l[Len(l)] /\ l # << >>
    <3> SUFFICES ASSUME rest # << >> PROVE rest[1] = l[k] /\ rest[Len(rest)] = l[Len(l)] /\ l # << >>
      OBVIOUS
    <3>1. 1 \in 1 .. Len(rest) /\ Len(rest) \in 1 .. Len(rest) /\ 1 + k - 1 = k
          /\ Len(rest) + k - 1 = Len(l) /\ Len(l) # 0
      BY <1>1, <1>2, <1>3
    <3>2. l # << >> BY <3>1, EmptySeq
    <3> QED BY <3>1, <3>2, <1>2
  <2>2. ASSUME NEW n \in 1 .. Len(rest)
        PROVE  /\ h[rest[n]].live
               /\ h[rest[n]].next = IF n = Len(rest) THEN Null ELSE rest[n + 1]
    <3>1. n + k - 1 \in 1 .. Len(l) /\ rest[n] = l[n + k - 1] BY <1>2, <1>4
    <3>2. n = Len(rest) <=> n + k - 1 = Len(l) BY <1>1, <1>2
    <3>3. n # Len(rest) => rest[n + 1] = l[n + k - 1 + 1]
      <4>0. Len(rest) \in Int BY <1>1, <1>2
      <4>1. n # Len(rest) => n + 1 \in 1 .. Len(rest) BY <4>0
      <4>2. (n + 1) + k - 1 = n + k - 1 + 1 BY <1>1
      <4> QED BY <4>1, <4>2, <1>2
    <3> QED BY <3>1, <3>2, <3>3 DEF IsList
  <2>3. ASSUME NEW n \in 1 .. Len(rest), NEW m \in 1 .. Len(rest), n < m
        PROVE  h[rest[n]].pkt < h[rest[m]].pkt
    <3>1. n + k - 1 < m + k - 1 BY <2>3, <1>1, <1>2
    <3>2. n + k - 1 \in 1 .. Len(l) /\ m + k - 1 \in 1 .. Len(l) BY <1>4
    <3>3. h[l[n + k - 1]].pkt < h[l[m + k - 1]].pkt BY <3>1, <3>2 DEF IsList
    <3> QED BY <3>3, <1>2
  <2>4. rest # << >> => tail = rest[Len(rest)] BY <2>1 DEF IsList
  <2>5. (IF k = Len(l) + 1 THEN Null ELSE l[k]) = IF rest = << >> THEN Null ELSE rest[1]
    BY <2>1, <1>3
  <2> QED BY <2>2, <2>3, <2>4, <2>5, <1>2 DEF IsList
<1> QED BY <1>3, <1>5, <1>6 DEF rest

\* A list to which a cell with a later packet is linked.
LEMMA AppendIsList ==
  ASSUME NEW h \in [Cell -> Cells], NEW g, NEW head, NEW tail, NEW l,
         IsList(h, head, tail, l),
         NEW c \in Cell, c \notin Rng(l),
         g[c].live, g[c].next = Null,
         \A x \in Rng(l) : h[x].pkt < g[c].pkt,
         \A x \in Rng(l) : /\ g[x].live /\ g[x].pkt = h[x].pkt
                           /\ g[x].next = IF x = tail THEN c ELSE h[x].next
  PROVE  /\ IsList(g, IF l = << >> THEN c ELSE head, c, Append(l, c))
         /\ Rng(Append(l, c)) = Rng(l) \union {c}
<1> DEFINE a == Append(l, c)
<1>1. l \in Seq(Cell) /\ Len(l) \in Nat /\ (l = << >> <=> Len(l) = 0)
      /\ \A n \in 1 .. Len(l) : l[n] \in Cell
  BY ListFacts
<1>2. a \in Seq(Cell) /\ Len(a) = Len(l) + 1 /\ a[Len(l) + 1] = c
      /\ \A n \in 1 .. Len(l) : a[n] = l[n]
  BY <1>1, AppendProperties
<1> HIDE DEF a
<1>3. \A n \in 1 .. Len(a) : n \in 1 .. Len(l) \/ n = Len(l) + 1 BY <1>1, <1>2
<1>4. Rng(a) = Rng(l) \union {c}
  <2>1. \A n \in 1 .. Len(l) : n \in 1 .. Len(a) BY <1>1, <1>2
  <2>2. Len(l) + 1 \in 1 .. Len(a) BY <1>1, <1>2
  <2> QED BY <1>2, <1>3, <2>1, <2>2 DEF Rng
<1>5. \A n \in 1 .. Len(l) : l[n] \in Rng(l) BY DEF Rng
<1>6. ASSUME NEW n \in 1 .. Len(a)
      PROVE  /\ g[a[n]].live
             /\ g[a[n]].next = IF n = Len(a) THEN Null ELSE a[n + 1]
  <2>1. CASE n = Len(l) + 1 BY <2>1, <1>2
  <2>2. CASE n \in 1 .. Len(l)
    <3>1. n # Len(a) /\ a[n] = l[n] /\ l # << >> BY <2>2, <1>1, <1>2
    <3>2. CASE n = Len(l)
      <4>1. tail = l[n] /\ a[n + 1] = c BY <3>1, <3>2, <1>2 DEF IsList
      <4> QED BY <4>1, <3>1, <1>5, <2>2
    <3>3. CASE n # Len(l)
      <4>1. n + 1 \in 1 .. Len(l) /\ Len(l) \in 1 .. Len(l) BY <3>3, <2>2, <1>1
      <4>2. tail = l[Len(l)] BY <3>1 DEF IsList
      <4>3. l[n] # tail BY <4>1, <4>2, <3>3, <2>2, ListDistinct
      <4>4. h[l[n]].next = l[n + 1] BY <3>3, <2>2 DEF IsList
      <4> QED BY <4>1, <4>3, <4>4, <3>1, <1>2, <1>5, <2>2
    <3> QED BY <3>2, <3>3
  <2> QED BY <2>1, <2>2, <1>3
<1>7. ASSUME NEW n \in 1 .. Len(a), NEW m \in 1 .. Len(a), n < m
      PROVE  g[a[n]].pkt < g[a[m]].pkt
  <2>1. n \in 1 .. Len(l) /\ a[n] = l[n] /\ l[n] \in Rng(l) BY <1>7, <1>1, <1>2, <1>3, <1>5
  <2>2. CASE m = Len(l) + 1 BY <2>1, <2>2, <1>2
  <2>3. CASE m \in 1 .. Len(l)
    <3>1. h[l[n]].pkt < h[l[m]].pkt BY <2>1, <2>3, <1>7 DEF IsList
    <3> QED BY <3>1, <2>1, <2>3, <1>2, <1>5
  <2> QED BY <2>2, <2>3, <1>3
<1>8. a # << >> /\ c = a[Len(a)] BY <1>1, <1>2, EmptySeq
<1>9. (IF l = << >> THEN c ELSE head) = a[1]
  <2>1. CASE l = << >> BY <2>1, <1>1, <1>2
  <2>2. CASE l # << >>
    <3>1. 1 \in 1 .. Len(l) BY <2>2, <1>1
    <3> QED BY <3>1, <2>2, <1>2 DEF IsList
  <2> QED BY <2>1, <2>2
<1>10. IsList(g, IF l = << >> THEN c ELSE head, c, a)
  BY <1>2, <1>6, <1>7, <1>8, <1>9 DEF IsList
<1> QED BY <1>4, <1>10 DEF a

\* The hook keeps the list from its first fresh cell on.
LEMMA FirstFreshIs ==
  ASSUME NEW h \in [Cell -> Cells], NEW head, NEW tail, NEW l, IsList(h, head, tail, l)
  PROVE  \E k \in 1 .. Len(l) + 1 :
           /\ FirstFresh(h, head) = IF k = Len(l) + 1 THEN Null ELSE l[k]
           /\ \A n \in 1 .. k - 1 : Expired(h, l[n])
<1> DEFINE fresh == {n \in DOMAIN l : ~Expired(h, l[n])}
<1>1. Chain(h, head) = l BY ChainIs
<1>2. l \in Seq(Cell) /\ Len(l) \in Nat /\ DOMAIN l = 1 .. Len(l)
  BY ListFacts, LenProperties
<1>3. CASE fresh = {}
  <2>1. FirstFresh(h, head) = Null BY <1>1, <1>3 DEF FirstFresh
  <2>2. \A n \in 1 .. Len(l) + 1 - 1 : Expired(h, l[n]) BY <1>2, <1>3
  <2>3. Len(l) + 1 \in 1 .. Len(l) + 1 BY <1>2
  <2> QED BY <2>1, <2>2, <2>3
<1>4. CASE fresh # {}
  <2> DEFINE k == CHOOSE n \in fresh : \A m \in fresh : n <= m
  <2>1. FirstFresh(h, head) = l[k] BY <1>1, <1>4 DEF FirstFresh
  <2>2. fresh \in SUBSET Nat BY <1>2
  <2>3. \E n \in fresh : \A m \in fresh : n <= m BY <2>2, <1>4, Least
  <2>4. k \in fresh /\ \A m \in fresh : k <= m BY <2>3
  <2> HIDE DEF k
  <2>5. k \in 1 .. Len(l) /\ k \in 1 .. Len(l) + 1 /\ k # Len(l) + 1 BY <2>4, <1>2
  <2>6. ASSUME NEW n \in 1 .. k - 1 PROVE Expired(h, l[n])
    <3>1. n \in DOMAIN l /\ ~(k <= n) BY <2>5, <1>2
    <3> QED BY <3>1, <2>4
  <2> QED BY <2>1, <2>5, <2>6
<1> QED BY <1>3, <1>4

-------------------------------------------------------------------------------
(* The inductive invariant. *)

Lists == [i \in 0 .. MAX |-> Chain(heap, table[i].head)]

\* L are the lists of the elements of t: they have no cell in common.
Linked(h, t, L) ==
  /\ L \in [0 .. MAX -> Seq(Cell)]
  /\ \A i \in 0 .. MAX : IsList(h, t[i].head, t[i].tail, L[i])
  /\ \A i, j \in 0 .. MAX : i # j => Rng(L[i]) \intersect Rng(L[j]) = {}

\* Packets are numbered as they come.
Numbered == \A c \in Cell : heap[c].live => heap[c].pkt \in 1 .. pkts

\* Packets are forwarded for every node but the one whose list is being sent.
Forwarding ==
  \A i \in 0 .. MAX : i < mncount => table[i].instant \/ (pc # "idle" /\ i = cur)

\* temp is the head the process has looked at or, once that is unlinked, a live
\* cell of no list.
TempHeld ==
  /\ pc \in {"idle", "expire", "flush", "instant"} => temp = Null
  /\ pc \in {"unlink old", "unlink"} => Lists[cur] # << >> /\ temp = Lists[cur][1]
  /\ pc = "unlink old" => Expired(heap, temp)
  /\ pc \in {"free old", "send", "free"} =>
       /\ temp \in Cell /\ heap[temp].live
       /\ \A i \in 0 .. MAX : temp \notin Rng(Lists[i])

\* The cells that are still to be sent.
ToSend == Rng(Lists[cur]) \union (IF pc = "send" THEN {temp} ELSE {})

\* A packet that is still to be sent.
Waits(o) == \E c \in ToSend : heap[c].pkt = o.pkt /\ heap[c].time = o.time

\* What was in the list, and is not a second old, was sent or will be before the
\* last look at the list.
Owed ==
  \A o \in owed : o.time >= jiffies - 1 =>
    o.pkt \in Sent \/ (pc \notin {"idle", "instant"} /\ Waits(o))

\* What was dropped, and is not a second old, was sent or is in the list.
Kept ==
  \A o \in dropped : o.time >= jiffies - 1 /\ o.copied => o.pkt \in Sent \/ Waits(o)

Debts == Owed /\ Kept

\* What was sent came before what is to be sent.
InTurn ==
  /\ \A n \in 1 .. Len(sent) : n > 1 => sent[n - 1] < sent[n]
  /\ \A n \in 1 .. Len(sent) : sent[n] <= pkts
  /\ pc # "idle" => \A n \in 1 .. Len(sent), c \in ToSend : sent[n] < heap[c].pkt
  /\ pc = "send" => \A c \in Rng(Lists[cur]) : heap[temp].pkt < heap[c].pkt

\* What holds as long as the hook has not freed the cell the process points to.
Inv ==
  /\ TypeOK /\ ~bad /\ Linked(heap, table, Lists)
  /\ Numbered /\ Forwarding /\ TempHeld /\ Debts /\ InTurn

\* What holds from then on until the process uses it.
Stolen ==
  /\ ~bad /\ Dangling
  /\ heap \in [Cell -> Cells] /\ temp \in Cell
  /\ jiffies \in 0 .. MaxTime /\ pkts \in 0 .. MaxPkt
  /\ pc \in {"unlink old", "free old", "unlink", "send", "free"}

SoundUntilUse == bad \/ Stolen \/ Inv

-------------------------------------------------------------------------------
(* What the hook does. *)

LEMMA LinkedIs ==
  ASSUME NEW h \in [Cell -> Cells], NEW t, NEW L, Linked(h, t, L)
  PROVE  \A i \in 0 .. MAX : Chain(h, t[i].head) = L[i]
BY ChainIs DEF Linked

\* The packet is dropped, with or without a copy in the list, or not.
HasVerdict(i, p, new) ==
  \/ dropped' = dropped
  \/ /\ ~table[i].instant
     /\ \E x \in BOOLEAN :
          /\ x => new # {}
          /\ dropped' = dropped \union {[pkt |-> p, time |-> jiffies, copied |-> x]}

\* The effect of Buffer on the list of element i: the cells of old are freed,
\* those of new, one or none, are linked to its end with packet p.
Buffered(i, p, old, new) ==
  /\ old \subseteq Rng(Lists[i]) /\ \A c \in old : Expired(heap, c)
  /\ new \subseteq Cell /\ temp \notin new
  /\ \A c \in new : c \in old \/ ~heap[c].live
  /\ \A j \in 0 .. MAX : j # i => Lists'[j] = Lists[j]
  /\ Rng(Lists'[i]) = (Rng(Lists[i]) \ old) \union new
  /\ heap' \in [Cell -> Cells] /\ Linked(heap', table', Lists')
  /\ \A c \in new : /\ heap'[c].pkt = p /\ heap'[c].time = jiffies
                    /\ heap'[c].live
  /\ \A c \in old \ new : ~heap'[c].live
  /\ \A c \in Cell \ (old \union new) :
       heap'[c].pkt = heap[c].pkt /\ heap'[c].time = heap[c].time /\ heap'[c].live = heap[c].live
  /\ \A j \in 0 .. MAX : Lists[j] # << >> /\ Lists[j][1] \notin old =>
                          Lists'[j] # << >> /\ Lists'[j][1] = Lists[j][1]
  /\ HasVerdict(i, p, new)
  /\ table' \in [0 .. MAX -> Entry]
  /\ \A j \in 0 .. MAX : table'[j].instant = table[j].instant
  /\ ~bad'

LEMMA BufferEffect ==
  ASSUME TypeOK, ~bad, Linked(heap, table, Lists), Numbered,
         NEW i \in 0 .. MAX, NEW p \in 1 .. MaxPkt, p = pkts + 1, Buffer(i, p)
  PROVE  \E old, new \in SUBSET Cell : Buffered(i, p, old, new)
<1> DEFINE e    == table[i]
           all  == Chain(heap, e.head)
           head == FirstFresh(heap, e.head)
           rest == Chain(heap, head)
           old  == {all[n] : n \in DOMAIN all} \ {rest[n] : n \in DOMAIN rest}
           h    == Free(heap, old)
           tail == TailAfter(head, e.tail)
           new(x) == [pkt |-> p, time |-> jiffies, next |-> Null,
                      copy |-> x, live |-> TRUE]
           l    == Lists[i]
           Keeps(c, x) ==
             LET h1 == [h EXCEPT ![c] = new(x)] IN
             /\ heap' = IF tail = Null THEN h1 ELSE [h1 EXCEPT ![tail].next = c]
             /\ table' = [table EXCEPT ![i].head = IF tail = Null THEN c ELSE head,
                                       ![i].tail = c]
             /\ Verdict(i, p, x)
           Drops ==
             /\ heap' = IF tail = Null THEN h ELSE [h EXCEPT ![tail].next = Null]
             /\ table' = [table EXCEPT ![i].head = head, ![i].tail = tail]
             /\ Verdict(i, p, FALSE)
<1>1. /\ bad' = (tail # Null /\ ~h[tail].live)
      /\ \/ \E c \in {x \in Cell : ~h[x].live /\ x # temp}, x \in BOOLEAN : Keeps(c, x)
         \/ Drops
  BY BuffAssumption DEF Buffer
<1>2. heap \in [Cell -> Cells] /\ table \in [0 .. MAX -> Entry] /\ jiffies \in 0 .. MaxTime
      /\ bad = FALSE /\ MaxPkt \in Nat /\ Null \notin Cell
  BY BuffAssumption DEF TypeOK
<1>3. IsList(heap, e.head, e.tail, l) /\ all = l /\ e.head \in Cell \union {Null}
  <2>1. IsList(heap, e.head, e.tail, l) BY DEF Linked
  <2>2. all = l BY <2>1, <1>2, ChainIs
  <2> QED BY <2>1, <2>2, <1>2 DEF Entry
<1>4. l \in Seq(Cell) /\ Len(l) \in Nat /\ Rng(l) \subseteq Cell /\ DOMAIN l = 1 .. Len(l)
      /\ (\A n \in 1 .. Len(l) : l[n] \in Cell) /\ \A c \in Rng(l) : heap[c].live
  BY <1>3, ListFacts, LenProperties
<1>5. PICK k \in 1 .. Len(l) + 1 :
        /\ head = IF k = Len(l) + 1 THEN Null ELSE l[k]
        /\ \A n \in 1 .. k - 1 : Expired(heap, l[n])
  BY <1>2, <1>3, FirstFreshIs
<1> DEFINE r == SubSeq(l, k, Len(l))
<1>6. IsList(heap, head, e.tail, r) /\ Rng(r) = {l[n] : n \in k .. Len(l)}
      /\ (r = << >> <=> head = Null) /\ head \in Cell \union {Null}
  <2>1. IsList(heap, IF k = Len(l) + 1 THEN Null ELSE l[k], e.tail, r)
        /\ Rng(r) = {l[n] : n \in k .. Len(l)} /\ (r = << >> <=> k = Len(l) + 1)
    <3>1. IsList(heap, e.head, e.tail, l) BY <1>3
    <3> HIDE DEF e, l, head, rest, all, old, h, tail, Keeps, Drops
    <3> QED BY <3>1, SuffixIsList
  <2>2. k # Len(l) + 1 => k \in 1 .. Len(l) BY <1>4
  <2> HIDE DEF r, l, head
  <2> QED BY <2>1, <2>2, <1>5, <1>4, <1>2
<1> HIDE DEF r
<1>7. rest = r BY <1>2, <1>6, ChainIs
<1>8. r \in Seq(Cell) /\ Len(r) \in Nat /\ Rng(r) \subseteq Cell /\ DOMAIN r = 1 .. Len(r)
      /\ (r = << >> <=> Len(r) = 0)
  BY <1>6, ListFacts, LenProperties
<1>22. \A S \in SUBSET Cell : HasVerdict(i, p, S) \/ ~Verdict(i, p, FALSE)
  BY DEF HasVerdict, Verdict
<1> HIDE DEF head, rest, all
<1>9. old = Rng(l) \ Rng(r) BY <1>3, <1>4, <1>7, <1>8 DEF Rng
<1> HIDE DEF old, l
<1>10. old \subseteq Rng(l) /\ Rng(r) = Rng(l) \ old /\ old \subseteq Cell
  <2>1. k .. Len(l) \subseteq 1 .. Len(l) BY <1>4
  <2>2. Rng(r) \subseteq Rng(l) BY <2>1, <1>6 DEF Rng
  <2> QED BY <2>2, <1>9, <1>4
<1>11. \A c \in old : Expired(heap, c)
  <2> TAKE c \in old
  <2>1. PICK n \in 1 .. Len(l) : c = l[n] BY <1>10 DEF Rng
  <2>2. n \notin k .. Len(l) BY <2>1, <1>6, <1>9
  <2>3. n \in 1 .. k - 1 BY <2>1, <2>2, <1>4
  <2> QED BY <2>1, <2>3, <1>5
<1>23. l # << >> /\ l[1] \notin old => r # << >> /\ r[1] = l[1]
  <2> SUFFICES ASSUME l # << >>, l[1] \notin old PROVE r # << >> /\ r[1] = l[1] OBVIOUS
  <2>1. 1 \in 1 .. Len(l) BY <1>4, EmptySeq, LenProperties
  <2>2. l[1] \in Rng(l) BY <2>1 DEF Rng
  <2>3. PICK n \in k .. Len(l) : l[1] = l[n] BY <2>2, <1>6, <1>10
  <2>4. n \in 1 .. Len(l) BY <2>3, <1>4
  <2>5. n = 1 BY <2>1, <2>3, <2>4, <1>2, <1>3, ListDistinct
  <2>6. k = 1 BY <2>3, <2>5, <1>4
  <2>7. l[1] \in Cell /\ head = l[1] /\ head # Null BY <2>1, <2>6, <1>2, <1>4, <1>5
  <2>8. r # << >> BY <2>7, <1>6
  <2> QED BY <2>7, <2>8, <1>6 DEF IsList
<1>12. h \in [Cell -> Cells]
       /\ (\A c \in old : h[c] = Blank) /\ \A c \in Cell \ old : h[c] = heap[c]
  <2>1. Blank \in Cells BY BuffAssumption DEF Blank, Cells
  <2> QED BY <2>1, <1>2, <1>10 DEF Free
<1> HIDE DEF h
<1>13. IsList(h, head, e.tail, r)
  <2>1. \A c \in Rng(r) : h[c] = heap[c] BY <1>8, <1>10, <1>12
  <2> QED BY <2>1, <1>6, ListStays
<1>14. /\ tail = Null <=> r = << >>
       /\ r # << >> => tail = e.tail /\ tail \in Rng(r) /\ h[tail].live
       /\ h[tail].live \/ tail = Null
  <2>1. CASE r = << >> BY <2>1, <1>6 DEF TailAfter
  <2>2. CASE r # << >>
    <3>1. tail = e.tail BY <2>2, <1>6 DEF TailAfter
    <3>2. Len(r) \in 1 .. Len(r) BY <2>2, <1>8
    <3>3. tail = r[Len(r)] BY <3>1, <2>2, <1>6 DEF IsList
    <3>4. tail \in Rng(r) BY <3>2, <3>3 DEF Rng
    <3>5. h[tail].live BY <3>4, <1>13, ListFacts
    <3> QED BY <3>1, <3>4, <3>5, <2>2, <1>8, <1>2
  <2> QED BY <2>1, <2>2
<1>15. ~bad' BY <1>1, <1>14
<1>16. \A j \in 0 .. MAX : j # i =>
         /\ IsList(heap, table[j].head, table[j].tail, Lists[j])
         /\ Rng(Lists[j]) \subseteq Cell \ Rng(l) /\ Lists[j] \in Seq(Cell)
         /\ \A c \in Rng(Lists[j]) : heap[c].live
  <2> TAKE j \in 0 .. MAX
  <2> SUFFICES ASSUME j # i
               PROVE  /\ IsList(heap, table[j].head, table[j].tail, Lists[j])
                      /\ Rng(Lists[j]) \subseteq Cell \ Rng(l) /\ Lists[j] \in Seq(Cell)
                      /\ \A c \in Rng(Lists[j]) : heap[c].live
    OBVIOUS
  <2>1. IsList(heap, table[j].head, table[j].tail, Lists[j]) BY DEF Linked
  <2>2. Rng(Lists[i]) \intersect Rng(Lists[j]) = {} BY DEF Linked
  <2>3. Rng(Lists[j]) \subseteq Cell /\ \A c \in Rng(Lists[j]) : heap[c].live
    BY <2>1, ListFacts
  <2> QED BY <2>1, <2>2, <2>3, ListFacts DEF l
<1>17. e.tail \in Cell \union {Null} /\ tail \in Cell \union {Null}
  BY <1>2, <1>14, <1>8 DEF Entry
<1>18. l = Lists[i] /\ DOMAIN Lists = 0 .. MAX BY DEF l, Lists
<1> HIDE DEF tail
<1>19. ASSUME NEW hd, NEW tl, NEW m,
              table' = [table EXCEPT ![i].head = hd, ![i].tail = tl],
              hd \in Cell \union {Null}, tl \in Cell \union {Null},
              heap' \in [Cell -> Cells],
              IsList(heap', hd, tl, m), m \in Seq(Cell),
              \A c \in Rng(m) : c \in Rng(l) \/ \A j \in 0 .. MAX : j # i => c \notin Rng(Lists[j]),
              \A j \in 0 .. MAX : j # i => \A c \in Rng(Lists[j]) : heap'[c] = heap[c]
       PROVE  /\ Linked(heap', table', Lists') /\ Lists'[i] = m
              /\ \A j \in 0 .. MAX : j # i => Lists'[j] = Lists[j]
              /\ table' \in [0 .. MAX -> Entry]
              /\ \A j \in 0 .. MAX : table'[j].instant = table[j].instant
  <2> DEFINE L == [Lists EXCEPT ![i] = m]
  <2>1. L[i] = m /\ \A j \in 0 .. MAX : j # i => L[j] = Lists[j] BY <1>18
  <2>2. L \in [0 .. MAX -> Seq(Cell)] BY <1>19 DEF Linked
  <2>3. /\ table'[i].head = hd /\ table'[i].tail = tl
        /\ \A j \in 0 .. MAX : j # i => table'[j] = table[j]
        /\ \A j \in 0 .. MAX : table'[j].instant = table[j].instant
        /\ table' \in [0 .. MAX -> Entry]
    <3> DEFINE e1 == [table[i] EXCEPT !.head = hd, !.tail = tl]
    <3>1. e1 \in Entry /\ e1.head = hd /\ e1.tail = tl /\ e1.instant = table[i].instant
      BY <1>19, <1>2 DEF Entry
    <3>2. table' = [table EXCEPT ![i] = e1] BY <1>19, <1>2
    <3> HIDE DEF e1
    <3> QED BY <3>1, <3>2, <1>2
  <2> HIDE DEF L
  <2>4. \A j \in 0 .. MAX : IsList(heap', table'[j].head, table'[j].tail, L[j])
    <3> TAKE j \in 0 .. MAX
    <3>1. CASE j = i BY <3>1, <1>19, <2>1, <2>3
    <3>2. CASE j # i
      <4>1. IsList(heap, table[j].head, table[j].tail, Lists[j])
            /\ \A c \in Rng(Lists[j]) : heap'[c] = heap[c]
        BY <3>2, <1>16, <1>19
      <4>2. IsList(heap', table[j].head, table[j].tail, Lists[j]) BY <4>1, ListStays
      <4> QED BY <4>2, <3>2, <2>1, <2>3
    <3> QED BY <3>1, <3>2
  <2>5. \A j, n \in 0 .. MAX : j # n => Rng(L[j]) \intersect Rng(L[n]) = {}
    <3>1. \A j \in 0 .. MAX : j # i => Rng(m) \intersect Rng(Lists[j]) = {}
      BY <1>16, <1>19
    <3>2. \A j, n \in 0 .. MAX : j # n => Rng(Lists[j]) \intersect Rng(Lists[n]) = {}
      BY DEF Linked
    <3> TAKE j \in 0 .. MAX, n \in 0 .. MAX
    <3> SUFFICES ASSUME j # n PROVE Rng(L[j]) \intersect Rng(L[n]) = {} OBVIOUS
    <3>3. CASE j = i BY <3>1, <3>3, <2>1
    <3>4. CASE n = i BY <3>1, <3>4, <2>1
    <3>5. CASE j # i /\ n # i BY <3>2, <3>5, <2>1
    <3> QED BY <3>3, <3>4, <3>5
  <2>6. Linked(heap', table', L) BY <2>2, <2>4, <2>5 DEF Linked
  <2>7. \A j \in 0 .. MAX : Chain(heap', table'[j].head) = L[j]
    <3>1. heap' \in [Cell -> Cells] BY <1>19
    <3> QED BY <3>1, <2>6, LinkedIs
  <2>8. Lists' = L BY <2>2, <2>7 DEF Lists
  <2> QED BY <2>1, <2>3, <2>6, <2>8
<1>20. CASE Drops
  <2>1. heap' = h
    <3>1. CASE tail = Null BY <3>1, <1>20
    <3>2. CASE tail # Null
      <4>1. Len(r) \in 1 .. Len(r) /\ r # << >> BY <3>2, <1>14, <1>8
      <4>2. r[Len(r)] = tail BY <4>1, <1>13, <1>14 DEF IsList
      <4>3. h[tail].next = Null BY <4>1, <4>2, <1>13 DEF IsList
      <4>4. tail \in Cell BY <3>2, <1>17
      <4>5. [h EXCEPT ![tail].next = Null] = h BY <4>3, <4>4, <1>12 DEF Cells
      <4> QED BY <4>5, <3>2, <1>20
    <3> QED BY <3>1, <3>2
  <2>2. IsList(heap', head, tail, r)
    BY <2>1, <1>13, <1>14 DEF IsList
  <2>3. \A j \in 0 .. MAX : j # i => \A c \in Rng(Lists[j]) : heap'[c] = heap[c]
    BY <2>1, <1>10, <1>12, <1>16
  <2>4. \A c \in Rng(r) : c \in Rng(l) BY <1>10
  <2>5. /\ Linked(heap', table', Lists') /\ Lists'[i] = r
        /\ \A j \in 0 .. MAX : j # i => Lists'[j] = Lists[j]
        /\ table' \in [0 .. MAX -> Entry]
        /\ \A j \in 0 .. MAX : table'[j].instant = table[j].instant
    BY <1>6, <1>8, <1>12, <1>17, <1>19, <1>20, <2>1, <2>2, <2>3, <2>4
  <2>6. Buffered(i, p, old, {})
    <3>1. \A c \in old : ~heap'[c].live BY <2>1, <1>12 DEF Blank
    <3>2. HasVerdict(i, p, {}) BY <1>20, <1>22
    <3>3. \A j \in 0 .. MAX : Lists[j] # << >> /\ Lists[j][1] \notin old =>
                               Lists'[j] # << >> /\ Lists'[j][1] = Lists[j][1]
      BY <2>5, <1>18, <1>23
    <3> QED BY <2>1, <2>5, <3>1, <3>2, <3>3, <1>10, <1>11, <1>12, <1>15, <1>18
            DEF Buffered
  <2> QED BY <2>6, <1>10
<1>21. CASE \E c \in {x \in Cell : ~h[x].live /\ x # temp}, x \in BOOLEAN : Keeps(c, x)
  <2>1. PICK c \in Cell, copied \in BOOLEAN : ~h[c].live /\ c # temp /\ Keeps(c, copied)
    BY <1>21
  <2> DEFINE cell == new(copied)
             h1 == [h EXCEPT ![c] = cell]
             g  == IF tail = Null THEN h1 ELSE [h1 EXCEPT ![tail].next = c]
  <2>2. heap' = g BY <2>1
  <2>3. cell \in Cells BY <1>2 DEF Cells
  <2>4. h1 \in [Cell -> Cells] /\ h1[c] = cell /\ \A x \in Cell \ {c} : h1[x] = h[x]
    BY <2>3, <1>12
  <2> HIDE DEF h1
  <2>5. tail # c BY <2>1, <1>14, <1>2, <1>17
  <2>6. /\ g \in [Cell -> Cells] /\ g[c] = cell
        /\ \A x \in Cell \ {c} :
             /\ g[x].pkt = h[x].pkt /\ g[x].time = h[x].time /\ g[x].live = h[x].live
             /\ g[x].next = IF x = tail THEN c ELSE h[x].next
             /\ x # tail => g[x] = h[x]
    <3>1. CASE tail = Null BY <3>1, <2>4, <1>2
    <3>2. CASE tail # Null
      <4>1. tail \in Cell BY <3>2, <1>17
      <4>2. g = [h1 EXCEPT ![tail].next = c] BY <3>2
      <4>3. [h1[tail] EXCEPT !.next = c] \in Cells BY <4>1, <2>4 DEF Cells
      <4>4. g \in [Cell -> Cells] BY <4>1, <4>2, <4>3, <2>4
      <4>5. \A x \in Cell : x # tail => g[x] = h1[x] BY <4>2, <2>4
      <4>6. /\ g[tail].pkt = h1[tail].pkt /\ g[tail].time = h1[tail].time
            /\ g[tail].live = h1[tail].live /\ g[tail].next = c
        BY <4>1, <4>2, <2>4 DEF Cells
      <4> HIDE DEF g
      <4> QED BY <4>1, <4>4, <4>5, <4>6, <2>4, <2>5
    <3> QED BY <3>1, <3>2
  <2> HIDE DEF g
  <2>7. c \notin Rng(r) BY <2>1, <1>13, ListFacts
  <2>8. \A x \in Rng(r) : h[x].pkt < g[c].pkt
    <3> TAKE x \in Rng(r)
    <3>1. x \in Cell /\ h[x] = heap[x] /\ heap[x].live BY <1>4, <1>8, <1>10, <1>12
    <3>2. heap[x].pkt \in 1 .. pkts /\ pkts \in Nat BY <3>1 DEF Numbered, TypeOK
    <3>3. g[c].pkt = pkts + 1 BY <2>6
    <3> QED BY <3>1, <3>2, <3>3
  <2>9. \A x \in Rng(r) : /\ g[x].live /\ g[x].pkt = h[x].pkt
                          /\ g[x].next = IF x = e.tail THEN c ELSE h[x].next
    <3> TAKE x \in Rng(r)
    <3>1. x \in Cell \ {c} /\ r # << >> BY <2>7, <1>8, NoList
    <3>2. h[x].live BY <1>13, ListFacts
    <3>3. tail = e.tail BY <3>1, <1>14
    <3> QED BY <3>1, <3>2, <3>3, <2>6
  <2>10. /\ IsList(g, IF r = << >> THEN c ELSE head, c, Append(r, c))
         /\ Rng(Append(r, c)) = Rng(r) \union {c}
    <3>1. g[c].live /\ g[c].next = Null BY <2>6
    <3> HIDE DEF e
    <3> QED BY <3>1, <2>7, <2>8, <2>9, <1>12, <1>13, AppendIsList
  <2>11. \A j \in 0 .. MAX : j # i => c \notin Rng(Lists[j]) /\ \A x \in Rng(Lists[j]) : g[x] = heap[x]
    <3> TAKE j \in 0 .. MAX
    <3> SUFFICES ASSUME j # i, NEW x \in Rng(Lists[j]) PROVE x # c /\ g[x] = heap[x] OBVIOUS
    <3>1. x \in Cell \ Rng(l) /\ heap[x].live BY <1>16
    <3>2. h[x] = heap[x] BY <3>1, <1>10, <1>12
    <3>3. x # c BY <3>1, <3>2, <2>1
    <3>4. x # tail BY <3>1, <1>10, <1>14, <1>2
    <3> QED BY <3>1, <3>2, <3>3, <3>4, <2>6
  <2>12. table' = [table EXCEPT ![i].head = IF r = << >> THEN c ELSE head, ![i].tail = c]
    BY <2>1, <1>14
  <2>13. Append(r, c) \in Seq(Cell) BY <1>8, AppendProperties
  <2>14. /\ Linked(heap', table', Lists') /\ Lists'[i] = Append(r, c)
         /\ \A j \in 0 .. MAX : j # i => Lists'[j] = Lists[j]
         /\ table' \in [0 .. MAX -> Entry]
         /\ \A j \in 0 .. MAX : table'[j].instant = table[j].instant
    <3>1. \A x \in Rng(Append(r, c)) :
            x \in Rng(l) \/ \A j \in 0 .. MAX : j # i => x \notin Rng(Lists[j])
      BY <1>10, <2>10, <2>11
    <3>2. (IF r = << >> THEN c ELSE head) \in Cell \union {Null} BY <1>6
    <3>3. \A j \in 0 .. MAX : j # i => \A x \in Rng(Lists[j]) : heap'[x] = heap[x]
      BY <2>2, <2>11
    <3>4. heap' \in [Cell -> Cells] BY <2>2, <2>6
    <3> DEFINE hd == IF r = << >> THEN c ELSE head
               m == Append(r, c)
    <3>5. hd \in Cell \union {Null} /\ c \in Cell \union {Null} /\ m \in Seq(Cell)
          /\ table' = [table EXCEPT ![i].head = hd, ![i].tail = c] /\ IsList(heap', hd, c, m)
          /\ \A x \in Rng(m) :
               x \in Rng(l) \/ \A j \in 0 .. MAX : j # i => x \notin Rng(Lists[j])
      BY <3>1, <3>2, <2>2, <2>10, <2>12, <2>13
    <3> HIDE DEF hd, m
    <3>6. /\ Linked(heap', table', Lists') /\ Lists'[i] = m
          /\ \A j \in 0 .. MAX : j # i => Lists'[j] = Lists[j]
          /\ table' \in [0 .. MAX -> Entry]
          /\ \A j \in 0 .. MAX : table'[j].instant = table[j].instant
      BY <3>3, <3>4, <3>5, <1>19
    <3> QED BY <3>6 DEF m
  <2>15. Buffered(i, p, old, {c})
    <3>1. Rng(Lists'[i]) = (Rng(Lists[i]) \ old) \union {c} BY <2>10, <2>14, <1>10, <1>18
    <3>2. \A x \in old \ {c} : ~heap'[x].live BY <2>2, <2>6, <1>10, <1>12 DEF Blank
    <3>3. \A x \in Cell \ (old \union {c}) :
            heap'[x].pkt = heap[x].pkt /\ heap'[x].time = heap[x].time
            /\ heap'[x].live = heap[x].live
      BY <2>2, <2>6, <1>12
    <3>4. heap'[c].pkt = p /\ heap'[c].time = jiffies /\ heap'[c].live BY <2>2, <2>6
    <3>6. c \in old \/ ~heap[c].live BY <2>1, <1>12
    <3>5. HasVerdict(i, p, {c}) BY <2>1 DEF HasVerdict, Verdict
    <3>7. \A j \in 0 .. MAX : Lists[j] # << >> /\ Lists[j][1] \notin old =>
                               Lists'[j] # << >> /\ Lists'[j][1] = Lists[j][1]
      <4>1. l # << >> /\ l[1] \notin old => Append(r, c) # << >> /\ Append(r, c)[1] = l[1]
        <5>1. r # << >> => 1 \in 1 .. Len(r) BY <1>8
        <5> QED BY <5>1, <1>8, <1>23, AppendProperties
      <4> QED BY <4>1, <2>14, <1>18
    <3> QED BY <2>1, <2>2, <2>6, <2>14, <3>1, <3>2, <3>3, <3>4, <3>5, <3>6, <3>7,
               <1>10, <1>11, <1>15, <1>18 DEF Buffered
  <2> QED BY <2>15, <1>10
<1> QED BY <1>1, <1>20, <1>21

\* The cells of a list as the module writes them.
LEMMA ListedIs ==
  ASSUME TypeOK, Linked(heap, table, Lists), NEW i \in 0 .. MAX
  PROVE  /\ Listed(i) = Rng(Lists[i]) /\ Rng(Lists[i]) \subseteq Cell
         /\ \A c \in Rng(Lists[i]) : heap[c].live
         /\ Lists[i] \in Seq(Cell) /\ Len(Lists[i]) \in Nat
         /\ Lists[i] = << >> <=> Len(Lists[i]) = 0
         /\ \A n \in 1 .. Len(Lists[i]) : Lists[i][n] \in Cell
         /\ table[i].head = IF Lists[i] = << >> THEN Null ELSE Lists[i][1]
         /\ Lists[i] = << >> <=> table[i].head = Null
<1> DEFINE l == Lists[i]
<1>1. IsList(heap, table[i].head, table[i].tail, l) BY DEF Linked
<1>2. Chain(heap, table[i].head) = l BY DEF Lists
<1> HIDE DEF l
<1>3. l \in Seq(Cell) /\ Len(l) \in Nat /\ (l = << >> <=> Len(l) = 0) /\ Rng(l) \subseteq Cell
      /\ (\A n \in 1 .. Len(l) : l[n] \in Cell) /\ (\A c \in Rng(l) : heap[c].live)
      /\ DOMAIN l = 1 .. Len(l)
  BY <1>1, ListFacts, LenProperties
<1>4. table[i].head = IF l = << >> THEN Null ELSE l[1] BY <1>1 DEF IsList
<1>5. l # << >> => l[1] # Null
  <2>1. l # << >> => 1 \in 1 .. Len(l) BY <1>3
  <2> QED BY <2>1, <1>3, BuffAssumption
<1>6. Listed(i) = Rng(l) BY <1>2, <1>3 DEF Listed, Rng
<1> QED BY <1>3, <1>4, <1>5, <1>6 DEF l

\* The lists depend on heads, tails and cells only.
LEMMA SameLists ==
  ASSUME TypeOK, Linked(heap, table, Lists), heap' = heap,
         \A i \in 0 .. MAX :
           table'[i].head = table[i].head /\ table'[i].tail = table[i].tail
  PROVE  Lists' = Lists /\ Linked(heap', table', Lists')
<1>1. Lists' = Lists BY DEF Lists
<1>2. Linked(heap', table', Lists) BY DEF Linked
<1> QED BY <1>1, <1>2

LEMMA BuffInit == Init => Inv
<1> SUFFICES ASSUME Init PROVE Inv OBVIOUS
<1> USE DEF Init
<1>1. heap \in [Cell -> Cells] BY BuffAssumption DEF Blank, Cells
<1>2. \A i \in 0 .. MAX : IsList(heap, table[i].head, table[i].tail, << >>)
  BY NoList
<1>3. \A i \in 0 .. MAX : Chain(heap, table[i].head) = << >> BY <1>1, <1>2, ChainIs
<1>4. Lists \in [0 .. MAX -> Seq(Cell)] /\ \A i \in 0 .. MAX : Lists[i] = << >>
  BY <1>3, NoList DEF Lists
<1>5. Linked(heap, table, Lists) BY <1>2, <1>4, NoList DEF Linked
<1>6. sent \in Seq(1 .. MaxPkt) /\ Len(sent) = 0 BY EmptySeq
<1>7. table \in [0 .. MAX -> Entry] BY DEF Entry
<1>8. TypeOK
  <2>1. mncount \in 0 .. MAX + 1 /\ jiffies \in 0 .. MaxTime /\ cur \in 0 .. MAX
        /\ pkts \in 0 .. MaxPkt
    BY BuffAssumption
  <2>2. pc \in Place /\ dropped \subseteq Drop /\ owed \subseteq Dated /\ bad \in BOOLEAN
        /\ temp \in Cell \union {Null} /\ halted \in {"no", "raced", "oops"}
    BY DEF Place
  <2> QED BY <1>1, <1>6, <1>7, <2>1, <2>2 DEF TypeOK
<1>9. Numbered BY DEF Numbered, Blank
<1>10. Forwarding BY DEF Forwarding
<1>11. TempHeld BY DEF TempHeld
<1>12. Debts BY DEF Debts, Owed, Kept
<1>13. InTurn
  <2>1. 1 .. Len(sent) = {} BY <1>6
  <2> QED BY <2>1 DEF InTurn
<1> QED BY <1>5, <1>8, <1>9, <1>10, <1>11, <1>12, <1>13 DEF Inv

\* The packets that were sent are numbers.
LEMMA SentFacts ==
  ASSUME TypeOK
  PROVE  /\ Len(sent) \in Nat /\ Sent = {sent[n] : n \in 1 .. Len(sent)}
         /\ \A n \in 1 .. Len(sent) : sent[n] \in 1 .. MaxPkt
BY LenProperties, ElementOfSeq DEF TypeOK, Sent

\* The first cell of a list.
LEMMA FirstIs ==
  ASSUME TypeOK, Linked(heap, table, Lists), cur \in 0 .. MAX, Lists[cur] # << >>
  PROVE  /\ Lists[cur][1] \in Cell /\ Lists[cur][1] \in Rng(Lists[cur])
         /\ heap[Lists[cur][1]].live
<1> DEFINE l == Lists[cur]
<1>1. Len(l) \in Nat /\ Len(l) # 0 /\ (\A n \in 1 .. Len(l) : l[n] \in Cell)
      /\ \A c \in Rng(l) : heap[c].live
  BY ListedIs
<1> HIDE DEF l
<1>2. 1 \in 1 .. Len(l) BY <1>1
<1>3. l[1] \in Cell /\ l[1] \in Rng(l) /\ heap[l[1]].live BY <1>1, <1>2 DEF Rng
<1> QED BY <1>3 DEF l

\* The hook keeps the invariant unless it frees the cell the process points to.
LEMMA PacketKeeps ==
  ASSUME Inv, NEW m \in Mn, Packet(m)
  PROVE  Inv' \/ Stolen'
<1>1. PICK i \in Known(m) : Buffer(i, pkts + 1) BY DEF Packet
<1>2. TypeOK /\ ~bad /\ Linked(heap, table, Lists) /\ Numbered /\ Forwarding /\ TempHeld
      /\ Debts /\ InTurn
  BY DEF Inv
<1>3. /\ pkts < MaxPkt /\ pkts' = pkts + 1
      /\ UNCHANGED <<mncount, jiffies, pc, cur, temp, sent, owed, halted>>
  BY DEF Packet
<1>4. pkts \in Nat /\ MaxPkt \in Nat /\ pkts + 1 \in 1 .. MaxPkt /\ jiffies \in Nat
      /\ mncount \in Nat /\ MAX \in Nat /\ mncount <= MAX + 1 /\ cur \in 0 .. MAX
  BY <1>2, <1>3, BuffAssumption DEF TypeOK
<1>5. i \in 0 .. MAX /\ i < mncount BY <1>4 DEF Known
<1>6. PICK old, new \in SUBSET Cell : Buffered(i, pkts + 1, old, new)
  BY <1>1, <1>2, <1>4, <1>5, BufferEffect
<1> DEFINE p == pkts + 1
<1>7. /\ old \subseteq Rng(Lists[i]) /\ \A c \in old : Expired(heap, c)
      /\ new \subseteq Cell /\ temp \notin new
      /\ \A c \in new : c \in old \/ ~heap[c].live
      /\ \A j \in 0 .. MAX : j # i => Lists'[j] = Lists[j]
      /\ Rng(Lists'[i]) = (Rng(Lists[i]) \ old) \union new
  BY <1>6 DEF Buffered
<1>8. /\ heap' \in [Cell -> Cells] /\ Linked(heap', table', Lists')
      /\ \A c \in new : heap'[c].pkt = p /\ heap'[c].time = jiffies /\ heap'[c].live
      /\ \A c \in old \ new : ~heap'[c].live
      /\ \A c \in Cell \ (old \union new) :
           heap'[c].pkt = heap[c].pkt /\ heap'[c].time = heap[c].time
           /\ heap'[c].live = heap[c].live
  BY <1>6 DEF Buffered
<1>9. /\ HasVerdict(i, p, new)
      /\ \A j \in 0 .. MAX : Lists[j] # << >> /\ Lists[j][1] \notin old =>
                              Lists'[j] # << >> /\ Lists'[j][1] = Lists[j][1]
      /\ table' \in [0 .. MAX -> Entry]
      /\ \A j \in 0 .. MAX : table'[j].instant = table[j].instant
      /\ ~bad'
  BY <1>6 DEF Buffered
<1>10. \A j \in 0 .. MAX : Rng(Lists[j]) \subseteq Cell /\ \A c \in Rng(Lists[j]) : heap[c].live
  BY <1>2, ListedIs
<1>11. ~bad' /\ bad' \in BOOLEAN BY <1>1, <1>9 DEF Buffer
<1>12. dropped' \subseteq Drop
  <2>1. \A x \in BOOLEAN : [pkt |-> p, time |-> jiffies, copied |-> x] \in Drop
    BY <1>2, <1>4 DEF Drop, TypeOK
  <2> QED BY <2>1, <1>2, <1>9 DEF HasVerdict, TypeOK
<1>13. TypeOK'
  BY <1>2, <1>3, <1>4, <1>8, <1>9, <1>11, <1>12 DEF TypeOK
<1>14. \A c \in Cell : heap[c].live => heap[c].pkt \in 1 .. pkts /\ heap[c].pkt < p
  BY <1>2, <1>4 DEF Numbered
<1>15. Numbered'
  <2> SUFFICES ASSUME NEW c \in Cell, heap'[c].live PROVE heap'[c].pkt \in 1 .. pkts'
    BY DEF Numbered
  <2>1. CASE c \in new BY <2>1, <1>3, <1>4, <1>8
  <2>2. CASE c \notin new
    <3>1. c \notin old BY <2>2, <1>8
    <3>2. heap'[c].pkt = heap[c].pkt /\ heap[c].live BY <2>2, <3>1, <1>8
    <3> QED BY <3>2, <1>3, <1>4, <1>14
  <2> QED BY <2>1, <2>2
<1>16. Forwarding' BY <1>2, <1>3, <1>9 DEF Forwarding
<1>17. \A j \in 0 .. MAX : \A c \in Rng(Lists'[j]) :
         c \in new \/ (c \in Rng(Lists[j]) /\ c \notin old)
  <2> SUFFICES ASSUME NEW j \in 0 .. MAX, NEW c \in Rng(Lists'[j])
               PROVE  c \in new \/ (c \in Rng(Lists[j]) /\ c \notin old)
    OBVIOUS
  <2>1. CASE j = i BY <2>1, <1>7
  <2>2. CASE j # i
    <3>1. c \in Rng(Lists[j]) BY <2>2, <1>7
    <3>2. Rng(Lists[i]) \intersect Rng(Lists[j]) = {} BY <2>2, <1>2, <1>5 DEF Linked
    <3> QED BY <3>1, <3>2, <1>7
  <2> QED BY <2>1, <2>2
<1>18. pc \in {"free old", "send", "free"} =>
         /\ temp \in Cell /\ temp \notin old /\ temp \notin new
         /\ heap[temp].live /\ heap'[temp].live /\ heap'[temp].pkt = heap[temp].pkt
         /\ heap'[temp].time = heap[temp].time
         /\ \A j \in 0 .. MAX : temp \notin Rng(Lists[j])
  BY <1>2, <1>5, <1>7, <1>8 DEF TempHeld
<1>19. ~Dangling' => TempHeld'
  <2> SUFFICES ASSUME ~Dangling' PROVE TempHeld' OBVIOUS
  <2>1. pc' \in {"unlink old", "unlink"} =>
          /\ Lists'[cur'] # << >> /\ temp' = Lists'[cur'][1]
          /\ temp \in Cell /\ heap'[temp].time = heap[temp].time
    <3> SUFFICES ASSUME pc \in {"unlink old", "unlink"}
                 PROVE  /\ Lists'[cur] # << >> /\ temp = Lists'[cur][1]
                        /\ temp \in Cell /\ heap'[temp].time = heap[temp].time
      BY <1>3
    <3>1. Lists[cur] # << >> /\ temp = Lists[cur][1] BY <1>2 DEF TempHeld
    <3>2. temp \in Cell /\ temp # Null BY <3>1, <1>2, <1>4, FirstIs, BuffAssumption
    <3>3. heap'[temp].live BY <3>2, <1>3 DEF Dangling
    <3>4. temp \notin old /\ temp \notin new BY <3>3, <1>7, <1>8
    <3> QED BY <3>1, <3>2, <3>4, <1>4, <1>8, <1>9
  <2>2. pc' \in {"idle", "expire", "flush", "instant"} => temp' = Null
    BY <1>2, <1>3 DEF TempHeld
  <2>3. pc' \in {"free old", "send", "free"} =>
          /\ temp' \in Cell /\ heap'[temp'].live
          /\ \A j \in 0 .. MAX : temp' \notin Rng(Lists'[j])
    BY <1>3, <1>17, <1>18
  <2>4. pc' = "unlink old" => Expired(heap, temp)'
    <3> SUFFICES ASSUME pc = "unlink old" PROVE Expired(heap, temp)' BY <1>3
    <3>1. Expired(heap, temp) BY <1>2 DEF TempHeld
    <3> QED BY <3>1, <2>1, <1>3 DEF Expired
  <2> QED BY <2>1, <2>2, <2>3, <2>4 DEF TempHeld
<1>20. \A c \in ToSend' : \/ c \in new /\ heap'[c].pkt = p
                          \/ /\ c \in ToSend /\ c \in Cell /\ heap[c].live
                             /\ heap'[c].pkt = heap[c].pkt
  <2> SUFFICES ASSUME NEW c \in ToSend', c \notin new
               PROVE  c \in ToSend /\ c \in Cell /\ heap[c].live /\ heap'[c].pkt = heap[c].pkt
    BY <1>8
  <2>1. CASE c \in Rng(Lists'[cur])
    <3>1. c \in Rng(Lists[cur]) /\ c \notin old BY <2>1, <1>4, <1>17
    <3> QED BY <3>1, <1>4, <1>8, <1>10 DEF ToSend
  <2>2. CASE pc = "send" /\ c = temp BY <2>2, <1>18 DEF ToSend
  <2> QED BY <2>1, <2>2, <1>3 DEF ToSend
<1>21. ASSUME NEW o, o.time >= jiffies - 1, Waits(o)
       PROVE  Waits(o)'
  <2>1. PICK c \in ToSend : heap[c].pkt = o.pkt /\ heap[c].time = o.time BY <1>21 DEF Waits
  <2>2. CASE c \in Rng(Lists[cur])
    <3>1. c \in Cell /\ heap[c].live BY <2>2, <1>4, <1>10
    <3>2. c \notin old
      <4>1. ~(heap[c].time < jiffies - 1)
        <5>1. heap[c].time \in Nat BY <3>1, <1>2, BuffAssumption DEF TypeOK, Cells
        <5> QED BY <5>1, <2>1, <1>4, <1>21
      <4> QED BY <4>1, <1>7 DEF Expired
    <3>3. c \notin new BY <3>1, <3>2, <1>7
    <3>4. heap'[c].pkt = o.pkt /\ heap'[c].time = o.time BY <3>1, <3>2, <3>3, <2>1, <1>8
    <3>5. c \in Rng(Lists'[cur])
      <4>1. CASE cur = i BY <4>1, <2>2, <3>2, <1>7
      <4>2. CASE cur # i BY <4>2, <2>2, <1>4, <1>7
      <4> QED BY <4>1, <4>2
    <3>6. c \in ToSend' BY <3>5, <1>3 DEF ToSend
    <3> QED BY <3>4, <3>6 DEF Waits
  <2>3. CASE pc = "send" /\ c = temp
    <3>1. c \in ToSend' BY <2>3, <1>3 DEF ToSend
    <3>2. heap'[c].pkt = o.pkt /\ heap'[c].time = o.time BY <2>1, <2>3, <1>18
    <3> QED BY <3>1, <3>2 DEF Waits
  <2> QED BY <2>1, <2>2, <2>3 DEF ToSend
<1>23. Owed' BY <1>2, <1>3, <1>21 DEF Debts, Owed, Sent
<1>24. Kept'
  <2> SUFFICES ASSUME NEW o \in dropped', o.time >= jiffies - 1, o.copied, o.pkt \notin Sent
               PROVE  Waits(o)'
    BY <1>3 DEF Kept, Sent
  <2>1. CASE o \in dropped BY <2>1, <1>2, <1>21 DEF Debts, Kept
  <2>2. CASE o \notin dropped
    <3>1. PICK x \in BOOLEAN :
            /\ ~table[i].instant /\ (x => new # {})
            /\ o = [pkt |-> p, time |-> jiffies, copied |-> x]
      BY <2>2, <1>9 DEF HasVerdict
    <3>2. o.pkt = p /\ o.time = jiffies /\ ~table[i].instant BY <3>1
    <3>3. o.copied = x BY <3>1
    <3>4. PICK c \in new : TRUE BY <3>1, <3>3
    <3>5. i = cur BY <3>2, <1>2, <1>5 DEF Forwarding
    <3>6. c \in Rng(Lists'[cur]) BY <3>4, <3>5, <1>7
    <3>7. heap'[c].pkt = o.pkt /\ heap'[c].time = o.time BY <3>2, <3>4, <1>8
    <3>8. c \in ToSend' BY <3>6, <1>3 DEF ToSend
    <3> QED BY <3>7, <3>8 DEF Waits
  <2> QED BY <2>1, <2>2
<1>22. InTurn'
  <2>1. \A n \in 1 .. Len(sent) : sent[n] \in Nat /\ sent[n] <= pkts /\ sent[n] < p
    BY <1>2, <1>4, SentFacts DEF InTurn
  <2>2. \A n \in 1 .. Len(sent') : n > 1 => sent'[n - 1] < sent'[n]
    BY <1>2, <1>3 DEF InTurn
  <2>3. \A n \in 1 .. Len(sent') : sent'[n] <= pkts' BY <2>1, <1>3, <1>4
  <2>4. pc' # "idle" => \A n \in 1 .. Len(sent'), c \in ToSend' : sent'[n] < heap'[c].pkt
    <3> SUFFICES ASSUME pc # "idle", NEW n \in 1 .. Len(sent), NEW c \in ToSend'
                 PROVE  sent[n] < heap'[c].pkt
      BY <1>3
    <3>1. CASE heap'[c].pkt = p BY <3>1, <2>1
    <3>2. CASE c \in ToSend /\ heap'[c].pkt = heap[c].pkt BY <3>2, <1>2 DEF InTurn
    <3> QED BY <3>1, <3>2, <1>20
  <2>5. pc' = "send" => \A c \in Rng(Lists'[cur']) : heap'[temp'].pkt < heap'[c].pkt
    <3> SUFFICES ASSUME pc = "send", NEW c \in Rng(Lists'[cur])
                 PROVE  heap'[temp].pkt < heap'[c].pkt
      BY <1>3
    <3>1. heap'[temp].pkt = heap[temp].pkt /\ heap[temp].pkt < p BY <1>14, <1>18
    <3>2. CASE c \in new BY <3>1, <3>2, <1>8
    <3>3. CASE c \notin new
      <4>1. c \in Rng(Lists[cur]) /\ c \notin old /\ c \in Cell BY <3>3, <1>4, <1>10, <1>17
      <4>2. heap'[c].pkt = heap[c].pkt BY <4>1, <3>3, <1>8
      <4> QED BY <4>1, <4>2, <3>1, <1>2 DEF InTurn
    <3> QED BY <3>2, <3>3
  <2> QED BY <2>2, <2>3, <2>4, <2>5 DEF InTurn
<1>25. CASE ~Dangling'
  BY <1>25, <1>8, <1>11, <1>13, <1>15, <1>16, <1>19, <1>22, <1>23, <1>24 DEF Inv, Debts
<1>26. CASE Dangling'
  <2>1. temp # Null BY <1>3, <1>26 DEF Dangling
  <2>2. pc \in {"unlink old", "free old", "unlink", "send", "free"}
    BY <2>1, <1>2 DEF TempHeld, TypeOK, Place
  <2>3. temp' \in Cell BY <2>1, <1>2, <1>3 DEF TypeOK
  <2> QED BY <1>3, <1>11, <1>13, <1>26, <2>2, <2>3 DEF Stolen, TypeOK
<1> QED BY <1>25, <1>26

-------------------------------------------------------------------------------
(* What the handler of the report does. *)

\* What is a second old stays so.
LEMMA ExpiredStays ==
  ASSUME TypeOK, Linked(heap, table, Lists), cur \in 0 .. MAX, Lists[cur] # << >>,
         temp = Lists[cur][1], Expired(heap, temp),
         heap' = heap, temp' = temp, jiffies \in Nat, jiffies' = jiffies + 1
  PROVE  Expired(heap, temp)'
<1>1. heap[temp] \in Cells BY FirstIs DEF TypeOK
<1>2. heap[temp].time \in Nat BY <1>1, BuffAssumption DEF Cells
<1>3. heap[temp].time < jiffies - 1 BY DEF Expired
<1>4. heap'[temp'].time < jiffies' - 1 BY <1>2, <1>3
<1> QED BY <1>4 DEF Expired

LEMMA TickKeeps ==
  ASSUME Inv, Tick
  PROVE  Inv'
<1>1. TypeOK /\ ~bad /\ Linked(heap, table, Lists) /\ Numbered /\ Forwarding /\ TempHeld
      /\ Debts /\ InTurn
  BY DEF Inv
<1>2. /\ jiffies < MaxTime /\ jiffies' = jiffies + 1
      /\ UNCHANGED <<table, mncount, heap, pc, cur, temp, pkts, dropped, sent, owed, bad,
                     halted>>
  BY DEF Tick
<1>3. jiffies \in Nat /\ MaxTime \in Nat /\ jiffies' \in 0 .. MaxTime
  BY <1>1, <1>2, BuffAssumption DEF TypeOK
<1>4. Linked(heap', table', Lists') /\ Lists' = Lists BY <1>1, <1>2, SameLists
<1>5. TypeOK' BY <1>1, <1>2, <1>3 DEF TypeOK
<1>6. ToSend' = ToSend /\ Sent' = Sent BY <1>2, <1>4 DEF ToSend, Sent
<1>7. TempHeld'
  <2>1. pc = "unlink old" => Expired(heap, temp)'
    <3> SUFFICES ASSUME pc = "unlink old" PROVE Expired(heap, temp)' OBVIOUS
    <3>1. Expired(heap, temp) /\ temp = Lists[cur][1] /\ Lists[cur] # << >> /\ cur \in 0 .. MAX
      BY <1>1 DEF TempHeld, TypeOK
    <3> QED BY <3>1, <1>1, <1>2, <1>3, ExpiredStays
  <2> QED BY <2>1, <1>1, <1>2, <1>4 DEF TempHeld
<1>8. Debts'
  <2>1. \A o \in owed \union dropped : o.time \in Nat
    BY <1>1, BuffAssumption DEF TypeOK, Dated, Drop
  <2>2. \A o \in owed \union dropped : o.time >= jiffies' - 1 => o.time >= jiffies - 1
    BY <2>1, <1>2, <1>3
  <2>3. ASSUME NEW o, Waits(o) PROVE Waits(o)' BY <2>3, <1>2, <1>6 DEF Waits
  <2>4. Owed' BY <2>2, <2>3, <1>1, <1>2, <1>6 DEF Debts, Owed
  <2>5. Kept' BY <2>2, <2>3, <1>1, <1>2, <1>6 DEF Debts, Kept
  <2> QED BY <2>4, <2>5 DEF Debts
<1>9. InTurn' BY <1>1, <1>2, <1>4, <1>6 DEF InTurn
<1>10. Numbered' /\ Forwarding' BY <1>1, <1>2 DEF Numbered, Forwarding
<1> QED BY <1>1, <1>2, <1>4, <1>5, <1>7, <1>8, <1>9, <1>10 DEF Inv

LEMMA ReportKeeps ==
  ASSUME Inv, NEW m \in Mn, NEW c \in Coa, Report(m, c)
  PROVE  Inv'
<1>1. TypeOK /\ ~bad /\ Linked(heap, table, Lists) /\ Numbered /\ Forwarding /\ TempHeld
      /\ Debts /\ InTurn
  BY DEF Inv
<1>2. pc = "idle"
      /\ UNCHANGED <<heap, jiffies, pc, cur, temp, pkts, dropped, sent, owed, bad, halted>>
  BY DEF Report
<1>3. table \in [0 .. MAX -> Entry] /\ mncount \in 0 .. MAX + 1 /\ MAX \in Nat
  BY <1>1, BuffAssumption DEF TypeOK
<1>4. /\ table' \in [0 .. MAX -> Entry] /\ mncount' \in 0 .. MAX + 1
      /\ \A i \in 0 .. MAX : /\ table'[i].head = table[i].head /\ table'[i].tail = table[i].tail
                             /\ i < mncount' => \/ i < mncount /\ table'[i] = table[i]
                                                \/ table'[i].instant
  <2>1. CASE Full
    <3>1. UNCHANGED <<table, mncount>> BY <2>1 DEF Report
    <3> QED BY <3>1, <1>3
  <2>2. CASE ~Full
    <3>1. /\ table' = [table EXCEPT ![mncount].hoa = m, ![mncount].coa = c,
                                    ![mncount].instant = TRUE]
          /\ mncount' = mncount + 1
      BY <2>2 DEF Report
    <3>2. mncount \in 0 .. MAX BY <2>2, <1>3 DEF Full
    <3> DEFINE e == [table[mncount] EXCEPT !.hoa = m, !.coa = c, !.instant = TRUE]
    <3>3. e \in Entry /\ e.head = table[mncount].head /\ e.tail = table[mncount].tail
          /\ e.instant
      BY <3>2, <1>3 DEF Entry
    <3>4. table' = [table EXCEPT ![mncount] = e] BY <3>1, <3>2, <1>3
    <3> HIDE DEF e
    <3>5. table' \in [0 .. MAX -> Entry] /\ mncount' \in 0 .. MAX + 1
      <4>1. table' \in [0 .. MAX -> Entry] BY <3>2, <3>3, <3>4, <1>3
      <4>2. mncount' \in 0 .. MAX + 1 BY <3>1, <3>2, <1>3
      <4> QED BY <4>1, <4>2
    <3>6. ASSUME NEW i \in 0 .. MAX
          PROVE  /\ table'[i].head = table[i].head /\ table'[i].tail = table[i].tail
                 /\ i < mncount' => (i < mncount /\ table'[i] = table[i]) \/ table'[i].instant
      <4>1. CASE i = mncount BY <4>1, <3>2, <3>3, <3>4, <1>3
      <4>2. CASE i # mncount
        <5>1. table'[i] = table[i] BY <4>2, <3>4, <1>3
        <5>2. i < mncount' => i < mncount BY <4>2, <3>1, <3>2, <1>3
        <5> QED BY <5>1, <5>2
      <4> QED BY <4>1, <4>2
    <3> QED BY <3>5, <3>6
  <2> QED BY <2>1, <2>2
<1>5. Lists' = Lists /\ Linked(heap', table', Lists') BY <1>1, <1>2, <1>4, SameLists
<1>6. TypeOK' BY <1>1, <1>2, <1>4 DEF TypeOK
<1>7. ToSend' = ToSend /\ Sent' = Sent BY <1>2, <1>5 DEF ToSend, Sent
<1>8. TempHeld' BY <1>1, <1>2, <1>5 DEF TempHeld
<1>9. Debts' BY <1>1, <1>2, <1>7 DEF Debts, Owed, Kept, Waits
<1>10. InTurn' BY <1>1, <1>2, <1>5, <1>7 DEF InTurn
<1>11. Numbered' BY <1>1, <1>2 DEF Numbered
<1>12. Forwarding' BY <1>1, <1>2, <1>4 DEF Forwarding
<1> QED BY <1>1, <1>2, <1>5, <1>6, <1>8, <1>9, <1>10, <1>11, <1>12 DEF Inv

LEMMA MovedKeeps ==
  ASSUME Inv, NEW m \in Mn, NEW c \in Coa, Moved(m, c)
  PROVE  Inv'
<1>1. TypeOK /\ ~bad /\ Linked(heap, table, Lists) /\ Numbered /\ Forwarding /\ TempHeld
      /\ Debts /\ InTurn
  BY DEF Inv
<1>2. PICK i \in Known(m) :
        /\ table' = [table EXCEPT ![i].coa = c, ![i].instant = FALSE]
        /\ cur' = i
        /\ owed' = {[pkt |-> heap[c1].pkt, time |-> heap[c1].time] : c1 \in Listed(i)}
  BY DEF Moved
<1>3. /\ pc = "idle" /\ pc' = "expire" /\ sent' = << >> /\ dropped' = {}
      /\ UNCHANGED <<mncount, heap, jiffies, temp, pkts, bad, halted>>
  BY DEF Moved
<1>4. table \in [0 .. MAX -> Entry] /\ mncount \in 0 .. MAX + 1 /\ MAX \in Nat /\ pkts \in Nat
      /\ heap \in [Cell -> Cells] /\ MaxPkt \in Nat /\ pkts <= MaxPkt
  BY <1>1, BuffAssumption DEF TypeOK
<1>5. i \in 0 .. MAX BY <1>4 DEF Known
<1> DEFINE e == [table[i] EXCEPT !.coa = c, !.instant = FALSE]
<1>6. e \in Entry /\ e.head = table[i].head /\ e.tail = table[i].tail
  BY <1>4, <1>5 DEF Entry
<1>7. table' = [table EXCEPT ![i] = e] BY <1>2, <1>4, <1>5
<1> HIDE DEF e
<1>8. /\ table' \in [0 .. MAX -> Entry]
      /\ \A j \in 0 .. MAX : /\ table'[j].head = table[j].head /\ table'[j].tail = table[j].tail
                             /\ j # i => table'[j] = table[j]
  BY <1>4, <1>5, <1>6, <1>7
<1>9. Lists' = Lists /\ Linked(heap', table', Lists') BY <1>1, <1>3, <1>8, SameLists
<1>10. Listed(i) = Rng(Lists[i]) /\ Rng(Lists[i]) \subseteq Cell
       /\ \A x \in Rng(Lists[i]) : heap[x].live
  BY <1>1, <1>5, ListedIs
<1>11. owed' \subseteq Dated
  <2>1. \A x \in Rng(Lists[i]) : heap[x].pkt \in 1 .. pkts BY <1>1, <1>10 DEF Numbered
  <2>2. \A x \in Rng(Lists[i]) : heap[x].pkt \in 1 .. MaxPkt BY <2>1, <1>4
  <2>3. \A x \in Rng(Lists[i]) : heap[x].time \in 0 .. MaxTime BY <1>4, <1>10 DEF Cells
  <2> QED BY <2>2, <2>3, <1>2, <1>10 DEF Dated
<1>12. Len(sent') = 0 /\ sent' \in Seq(1 .. MaxPkt) /\ 1 .. Len(sent') = {} BY <1>3, EmptySeq
<1>13. TypeOK' BY <1>1, <1>2, <1>3, <1>5, <1>8, <1>11, <1>12 DEF TypeOK, Place
<1>14. Numbered' BY <1>1, <1>3 DEF Numbered
<1>15. Forwarding' BY <1>1, <1>2, <1>3, <1>8 DEF Forwarding
<1>16. TempHeld' BY <1>1, <1>3 DEF TempHeld
<1>17. Debts'
  <2> SUFFICES ASSUME NEW o \in owed'
               PROVE  \E x \in ToSend' : heap[x].pkt = o.pkt /\ heap[x].time = o.time
    BY <1>3 DEF Debts, Owed, Kept, Waits
  <2>1. PICK x \in Rng(Lists[i]) : o = [pkt |-> heap[x].pkt, time |-> heap[x].time]
    BY <1>2, <1>10
  <2>2. x \in ToSend' BY <1>2, <1>9 DEF ToSend
  <2> QED BY <2>1, <2>2
<1>18. InTurn' BY <1>3, <1>12 DEF InTurn
<1> QED BY <1>1, <1>3, <1>9, <1>13, <1>14, <1>15, <1>16, <1>17, <1>18 DEF Inv

\* A step of the handler that moves no cell: it keeps lists, cells and packets.
LEMMA QuietKeeps ==
  ASSUME Inv, heap' = heap,
         UNCHANGED <<mncount, jiffies, cur, pkts, dropped, owed, sent, halted>>,
         ~bad', bad' \in BOOLEAN, pc # "idle", pc # "send", pc' \in Place, pc' # "send",
         temp' \in Cell \union {Null},
         table' \in [0 .. MAX -> Entry],
         \A i \in 0 .. MAX : table'[i].head = table[i].head /\ table'[i].tail = table[i].tail,
         Forwarding', TempHeld', pc' = "instant" => Lists[cur] = << >>,
         pc' = "idle" => pc = "instant"
  PROVE  Inv'
<1>1. TypeOK /\ ~bad /\ Linked(heap, table, Lists) /\ Numbered /\ Debts /\ InTurn
  BY DEF Inv
<1>2. Lists' = Lists /\ Linked(heap', table', Lists') BY <1>1, SameLists
<1>3. TypeOK' BY <1>1 DEF TypeOK
<1>4. ToSend' = ToSend /\ Sent' = Sent /\ cur \in 0 .. MAX BY <1>1, <1>2 DEF ToSend, Sent, TypeOK
<1>5. Debts'
  <2>1. Lists[cur] = << >> => ToSend = {} BY NoList DEF ToSend
  <2> QED BY <2>1, <1>1, <1>4 DEF Debts, Owed, Kept, Waits
<1>6. InTurn' BY <1>1, <1>2, <1>4 DEF InTurn
<1>7. Numbered' BY <1>1 DEF Numbered
<1> QED BY <1>2, <1>3, <1>5, <1>6, <1>7 DEF Inv

LEMMA ExpireOneKeeps ==
  ASSUME Inv, ExpireOne
  PROVE  Inv'
<1>1. TypeOK /\ ~bad /\ Linked(heap, table, Lists) /\ Forwarding /\ TempHeld BY DEF Inv
<1>2. pc = "expire" /\ UNCHANGED <<table, heap, sent, bad, mncount, jiffies, cur, pkts, dropped, owed,
                              halted>>
  BY DEF ExpireOne, Step
<1>3. cur \in 0 .. MAX /\ Lists' = Lists BY <1>1, <1>2, SameLists DEF TypeOK
<1>4. Forwarding' /\ temp' \in Cell \union {Null} /\ pc' \in {"unlink old", "flush"} /\ TempHeld'
  <2>1. CASE First # Null /\ Expired(heap, First)
    <3>1. pc' = "unlink old" /\ temp' = First BY <2>1 DEF ExpireOne, Step
    <3>2. Lists[cur] # << >> /\ First = Lists[cur][1] BY <2>1, <1>1, <1>3, ListedIs DEF First
    <3>3. First \in Cell \union {Null} BY <1>1, <1>3 DEF First, TypeOK, Entry
    <3>4. Expired(heap, First)' BY <2>1, <1>2 DEF Expired, First
    <3>5. TempHeld' BY <3>1, <3>2, <3>4, <1>2, <1>3 DEF TempHeld, First
    <3> QED BY <3>1, <3>3, <3>5, <1>1, <1>2 DEF Forwarding
  <2>2. CASE ~(First # Null /\ Expired(heap, First))
    <3>1. pc' = "flush" /\ temp' = temp BY <2>2 DEF ExpireOne, Step
    <3>2. temp = Null BY <1>1, <1>2 DEF TempHeld
    <3>3. TempHeld' BY <3>1, <3>2 DEF TempHeld
    <3> QED BY <3>1, <3>2, <3>3, <1>1, <1>2 DEF Forwarding
  <2> QED BY <2>1, <2>2
<1> QED BY <1>1, <1>2, <1>4, QuietKeeps DEF TypeOK, Place

LEMMA FlushOneKeeps ==
  ASSUME Inv, FlushOne
  PROVE  Inv'
<1>1. TypeOK /\ ~bad /\ Linked(heap, table, Lists) /\ Forwarding /\ TempHeld BY DEF Inv
<1>2. pc = "flush" /\ UNCHANGED <<table, heap, sent, bad, mncount, jiffies, cur, pkts, dropped, owed,
                              halted>>
  BY DEF FlushOne, Step
<1>3. cur \in 0 .. MAX /\ Lists' = Lists BY <1>1, <1>2, SameLists DEF TypeOK
<1>4. Forwarding' /\ temp' \in Cell \union {Null} /\ pc' \in {"unlink", "instant"} /\ TempHeld'
      /\ (pc' = "instant" => Lists[cur] = << >>)
  <2>1. CASE First # Null
    <3>1. pc' = "unlink" /\ temp' = First BY <2>1 DEF FlushOne, Step
    <3>2. Lists[cur] # << >> /\ First = Lists[cur][1] BY <2>1, <1>1, <1>3, ListedIs DEF First
    <3>3. First \in Cell \union {Null} BY <1>1, <1>3 DEF First, TypeOK, Entry
    <3>4. TempHeld' BY <3>1, <3>2, <1>2, <1>3 DEF TempHeld, First
    <3> QED BY <3>1, <3>3, <3>4, <1>1, <1>2 DEF Forwarding
  <2>2. CASE First = Null
    <3>1. pc' = "instant" /\ temp' = temp BY <2>2 DEF FlushOne, Step
    <3>2. temp = Null BY <1>1, <1>2 DEF TempHeld
    <3>3. Lists[cur] = << >> BY <2>2, <1>1, <1>3, ListedIs DEF First
    <3>4. TempHeld' BY <3>1, <3>2, <3>3, <1>2, <1>3 DEF TempHeld
    <3> QED BY <3>1, <3>2, <3>3, <3>4, <1>1, <1>2 DEF Forwarding
  <2> QED BY <2>1, <2>2
<1> QED BY <1>1, <1>2, <1>4, QuietKeeps DEF TypeOK, Place

LEMMA InstantKeeps ==
  ASSUME Inv, Instant
  PROVE  Inv'
<1>1. TypeOK /\ ~bad /\ Linked(heap, table, Lists) /\ Forwarding /\ TempHeld BY DEF Inv
<1>2. /\ pc = "instant" /\ pc' = "idle" /\ table' = [table EXCEPT ![cur].instant = TRUE]
      /\ UNCHANGED <<heap, temp, sent, bad, mncount, jiffies, cur, pkts, dropped, owed, halted>>
  BY DEF Instant, Step
<1>3. cur \in 0 .. MAX /\ table \in [0 .. MAX -> Entry] BY <1>1 DEF TypeOK
<1> DEFINE e == [table[cur] EXCEPT !.instant = TRUE]
<1>4. e \in Entry /\ e.head = table[cur].head /\ e.tail = table[cur].tail /\ e.instant
  BY <1>3 DEF Entry
<1>5. table' = [table EXCEPT ![cur] = e] BY <1>2, <1>3
<1> HIDE DEF e
<1>6. /\ table' \in [0 .. MAX -> Entry] /\ table'[cur].instant
      /\ \A j \in 0 .. MAX : /\ table'[j].head = table[j].head /\ table'[j].tail = table[j].tail
                             /\ j # cur => table'[j] = table[j]
  BY <1>3, <1>4, <1>5
<1>7. Forwarding' BY <1>1, <1>2, <1>6 DEF Forwarding
<1>8. temp = Null BY <1>1, <1>2 DEF TempHeld
<1>9. TempHeld' BY <1>2, <1>8 DEF TempHeld
<1> QED BY <1>1, <1>2, <1>6, <1>7, <1>8, <1>9, QuietKeeps DEF TypeOK, Place

\* Unlinking the first cell takes it from the list, and nothing else.
LEMMA UnlinkEffect ==
  ASSUME TypeOK, Linked(heap, table, Lists), cur \in 0 .. MAX,
         Lists[cur] # << >>, temp = Lists[cur][1], heap' = heap,
         table' = [table EXCEPT ![cur].head = heap[temp].next]
  PROVE  /\ temp \in Cell /\ heap[temp].live
         /\ temp = First
         /\ Linked(heap', table', Lists')
         /\ \A i \in 0 .. MAX : temp \notin Rng(Lists'[i])
         /\ Rng(Lists[cur]) = Rng(Lists'[cur]) \union {temp}
         /\ \A c \in Rng(Lists'[cur]) : heap[temp].pkt < heap[c].pkt
         /\ table' \in [0 .. MAX -> Entry]
         /\ \A i \in 0 .. MAX : table'[i].instant = table[i].instant
<1> DEFINE l == Lists[cur]
           r == SubSeq(l, 2, Len(l))
           e == [table[cur] EXCEPT !.head = heap[temp].next]
           L == [Lists EXCEPT ![cur] = r]
<1>1. heap \in [Cell -> Cells] /\ table \in [0 .. MAX -> Entry] BY DEF TypeOK
<1>2. IsList(heap, table[cur].head, table[cur].tail, l) /\ Lists \in [0 .. MAX -> Seq(Cell)]
  BY DEF Linked
<1>3. l \in Seq(Cell) /\ Len(l) \in Nat /\ Len(l) # 0 /\ Rng(l) \subseteq Cell
      /\ (\A n \in 1 .. Len(l) : l[n] \in Cell) /\ \A c \in Rng(l) : heap[c].live
  <2> HIDE DEF l
  <2>1. l # << >> BY DEF l
  <2> QED BY <2>1, <1>2, ListFacts
<1>4. 1 \in 1 .. Len(l) /\ 2 \in 1 .. Len(l) + 1 BY <1>3
<1>5. temp \in Cell /\ temp \in Rng(l) /\ heap[temp].live
  BY <1>3, <1>4 DEF Rng
<1>6. temp = First BY <1>2 DEF IsList, First
<1>7. heap[temp].next = IF 2 = Len(l) + 1 THEN Null ELSE l[2]
  <2>1. temp = l[1] OBVIOUS
  <2> HIDE DEF l
  <2>2. heap[l[1]].next = IF 1 = Len(l) THEN Null ELSE l[1 + 1]
    BY <1>2, <1>4 DEF IsList
  <2>3. 1 = Len(l) <=> 2 = Len(l) + 1
    <3>1. Len(l) \in Nat BY <1>3
    <3>2. \A n \in Nat : 1 = n <=> 2 = n + 1 OBVIOUS
    <3> QED BY <3>1, <3>2, Zenon
  <2>4. heap[l[1]].next = IF 2 = Len(l) + 1 THEN Null ELSE l[2] BY <2>2, <2>3
  <2> QED BY <2>1, <2>4
<1>8. /\ IsList(heap, IF 2 = Len(l) + 1 THEN Null ELSE l[2], table[cur].tail, r)
      /\ Rng(r) = {l[n] : n \in 2 .. Len(l)}
  <2> HIDE DEF l
  <2> QED BY <1>2, <1>4, SuffixIsList
<1> HIDE DEF l, r
<1>9. IsList(heap, heap[temp].next, table[cur].tail, r) BY <1>7, <1>8
<1>10. /\ temp \notin Rng(r) /\ Rng(l) = Rng(r) \union {temp}
       /\ \A c \in Rng(r) : heap[temp].pkt < heap[c].pkt
  <2>1. temp = l[1] BY DEF l
  <2>2. \A n \in 2 .. Len(l) : n \in 1 .. Len(l) /\ 1 < n /\ l[n] # temp
                               /\ heap[temp].pkt < heap[l[n]].pkt
    <3> TAKE n \in 2 .. Len(l)
    <3>1. n \in 1 .. Len(l) /\ 1 < n /\ n # 1 BY <1>3
    <3>2. l[n] # l[1] BY <3>1, <1>1, <1>2, <1>4, ListDistinct
    <3>3. heap[l[1]].pkt < heap[l[n]].pkt BY <3>1, <1>2, <1>4 DEF IsList
    <3> QED BY <3>1, <3>2, <3>3, <2>1
  <2>3. \A n \in 1 .. Len(l) : n = 1 \/ n \in 2 .. Len(l) BY <1>3
  <2> QED BY <2>1, <2>2, <2>3, <1>4, <1>8 DEF Rng
<1>11. e \in Entry /\ e.head = heap[temp].next /\ e.tail = table[cur].tail
       /\ e.instant = table[cur].instant
  <2>1. heap[temp].next \in Cell \union {Null} BY <1>1, <1>5 DEF Cells
  <2> QED BY <2>1, <1>1 DEF Entry
<1>12. table' = [table EXCEPT ![cur] = e] BY <1>1
<1> HIDE DEF e
<1>13. /\ table' \in [0 .. MAX -> Entry] /\ table'[cur] = e
       /\ \A i \in 0 .. MAX : i # cur => table'[i] = table[i]
  BY <1>1, <1>11, <1>12
<1>14. /\ L \in [0 .. MAX -> Seq(Cell)] /\ L[cur] = r
       /\ \A i \in 0 .. MAX : i # cur => L[i] = Lists[i]
  BY <1>2, <1>9 DEF IsList
<1> HIDE DEF L
<1>15. \A i \in 0 .. MAX : IsList(heap', table'[i].head, table'[i].tail, L[i])
  <2> TAKE i \in 0 .. MAX
  <2>1. CASE i = cur BY <2>1, <1>9, <1>11, <1>13, <1>14
  <2>2. CASE i # cur BY <2>2, <1>13, <1>14 DEF Linked
  <2> QED BY <2>1, <2>2
<1>16. \A i \in 0 .. MAX : i # cur => Rng(l) \intersect Rng(L[i]) = {}
  BY <1>14 DEF Linked, l
<1>17. \A i, j \in 0 .. MAX : i # j => Rng(L[i]) \intersect Rng(L[j]) = {}
  <2> TAKE i \in 0 .. MAX, j \in 0 .. MAX
  <2> SUFFICES ASSUME i # j PROVE Rng(L[i]) \intersect Rng(L[j]) = {} OBVIOUS
  <2>1. CASE i = cur BY <2>1, <1>10, <1>14, <1>16
  <2>2. CASE j = cur BY <2>2, <1>10, <1>14, <1>16
  <2>3. CASE i # cur /\ j # cur BY <2>3, <1>14 DEF Linked
  <2> QED BY <2>1, <2>2, <2>3
<1>18. Linked(heap', table', L) BY <1>14, <1>15, <1>17 DEF Linked
<1>19. heap' \in [Cell -> Cells] BY <1>1
<1>20. \A i \in 0 .. MAX : Chain(heap', table'[i].head) = L[i] BY <1>18, <1>19, LinkedIs
<1>21. Lists' = L BY <1>14, <1>20 DEF Lists
<1>22. \A i \in 0 .. MAX : temp \notin Rng(L[i]) BY <1>5, <1>10, <1>14, <1>16
<1>23. \A i \in 0 .. MAX : table'[i].instant = table[i].instant BY <1>11, <1>13
<1> QED BY <1>5, <1>6, <1>10, <1>13, <1>14, <1>18, <1>21, <1>22, <1>23 DEF l

Unlinks == Unlink("unlink old", "free old") \/ Unlink("unlink", "send")

LEMMA UnlinkKeeps ==
  ASSUME Inv, Unlinks
  PROVE  Inv'
<1>1. TypeOK /\ ~bad /\ Linked(heap, table, Lists) /\ Numbered /\ Forwarding /\ TempHeld
      /\ Debts /\ InTurn
  BY DEF Inv
<1>2. /\ \/ pc = "unlink old" /\ pc' = "free old"
         \/ pc = "unlink" /\ pc' = "send"
      /\ UNCHANGED <<mncount, jiffies, cur, pkts, dropped, owed, heap, temp, sent,
                     halted>>
  BY DEF Unlinks, Unlink, Step
<1>3. cur \in 0 .. MAX /\ Lists[cur] # << >> /\ temp = Lists[cur][1]
  BY <1>1, <1>2 DEF TypeOK, TempHeld
<1>4. PICK c \in {First, temp} :
        /\ bad' = (c = Null \/ ~heap[c].live)
        /\ table' = IF c = Null THEN table ELSE [table EXCEPT ![cur].head = heap[c].next]
  BY DEF Unlinks, Unlink
<1>5. First = temp /\ temp \in Cell /\ temp # Null /\ heap[temp].live
  <2>1. table[cur].head = Lists[cur][1] BY <1>1, <1>3, ListedIs
  <2>2. temp \in Cell /\ heap[temp].live BY <1>1, <1>3, FirstIs
  <2> QED BY <2>1, <2>2, <1>3, BuffAssumption DEF First
<1>6. table' = [table EXCEPT ![cur].head = heap[temp].next] /\ bad' = FALSE BY <1>4, <1>5
<1>7. /\ Linked(heap', table', Lists')
      /\ \A i \in 0 .. MAX : temp \notin Rng(Lists'[i])
      /\ Rng(Lists[cur]) = Rng(Lists'[cur]) \union {temp}
      /\ \A x \in Rng(Lists'[cur]) : heap[temp].pkt < heap[x].pkt
      /\ table' \in [0 .. MAX -> Entry]
      /\ \A i \in 0 .. MAX : table'[i].instant = table[i].instant
  BY <1>1, <1>2, <1>3, <1>6, UnlinkEffect
<1>8. TypeOK' BY <1>1, <1>2, <1>6, <1>7 DEF TypeOK, Place
<1>9. Numbered' BY <1>1, <1>2 DEF Numbered
<1>10. Forwarding' BY <1>1, <1>2, <1>7 DEF Forwarding
<1>11. TempHeld' BY <1>2, <1>5, <1>7 DEF TempHeld
<1>12. ToSend = Rng(Lists[cur]) /\ ToSend' \subseteq ToSend
       /\ (pc = "unlink" => ToSend' = ToSend)
       /\ \A x \in ToSend : x \in ToSend' \/ x = temp
  BY <1>2, <1>7 DEF ToSend
<1>15. ASSUME NEW o, o.time >= jiffies - 1, Waits(o)
       PROVE  Waits(o)'
  <2>1. PICK x \in ToSend : heap[x].pkt = o.pkt /\ heap[x].time = o.time BY <1>15 DEF Waits
  <2>2. x \in ToSend'
    <3>1. CASE pc = "unlink" BY <2>1, <3>1, <1>12
    <3>2. CASE pc = "unlink old"
      <4>1. heap[temp].time < jiffies - 1 BY <3>2, <1>1 DEF TempHeld, Expired
      <4>2. heap[temp] \in Cells /\ jiffies \in 0 .. MaxTime BY <1>1, <1>5 DEF TypeOK
      <4>3. heap[temp].time \in Nat /\ jiffies \in Nat BY <4>2, BuffAssumption DEF Cells
      <4>4. x # temp BY <2>1, <4>1, <4>3, <1>15
      <4> QED BY <2>1, <4>4, <1>12
    <3> QED BY <3>1, <3>2, <1>2
  <2> QED BY <2>1, <2>2, <1>2 DEF Waits
<1>13. Debts'
  <2>1. Sent' = Sent BY <1>2 DEF Sent
  <2>2. Owed' BY <2>1, <1>1, <1>2, <1>15 DEF Debts, Owed
  <2>3. Kept' BY <2>1, <1>1, <1>2, <1>15 DEF Debts, Kept
  <2> QED BY <2>2, <2>3 DEF Debts
<1>14. InTurn' BY <1>1, <1>2, <1>7, <1>12 DEF InTurn
<1> QED BY <1>6, <1>7, <1>8, <1>9, <1>10, <1>11, <1>13, <1>14 DEF Inv

LEMMA SendKeeps ==
  ASSUME Inv, Send
  PROVE  Inv'
<1>1. TypeOK /\ ~bad /\ Linked(heap, table, Lists) /\ Numbered /\ Forwarding /\ TempHeld
      /\ Debts /\ InTurn
  BY DEF Inv
<1>2. /\ pc = "send" /\ pc' = "free"
      /\ sent' = Append(sent, heap[temp].pkt) /\ bad' = (bad \/ ~heap[temp].live)
      /\ UNCHANGED <<mncount, jiffies, cur, pkts, dropped, owed, table, heap, temp,
                     halted>>
  BY DEF Send, Step
<1>3. temp \in Cell /\ heap[temp].live /\ cur \in 0 .. MAX BY <1>1, <1>2 DEF TempHeld, TypeOK
<1>4. bad' = FALSE BY <1>1, <1>2, <1>3
<1>5. Lists' = Lists /\ Linked(heap', table', Lists') BY <1>1, <1>2, SameLists
<1>6. heap[temp].pkt \in 1 .. pkts /\ pkts \in Nat /\ pkts <= MaxPkt /\ MaxPkt \in Nat
  BY <1>1, <1>3, BuffAssumption DEF Numbered, TypeOK
<1> DEFINE p == heap[temp].pkt
<1>7. p \in 1 .. MaxPkt BY <1>6
<1>8. /\ Len(sent) \in Nat /\ sent \in Seq(1 .. MaxPkt)
      /\ \A n \in 1 .. Len(sent) : sent[n] \in Nat /\ sent[n] < p /\ sent[n] <= pkts
  <2>1. temp \in ToSend BY <1>2 DEF ToSend
  <2>2. \A n \in 1 .. Len(sent) : sent[n] \in 1 .. MaxPkt BY <1>1, SentFacts
  <2> QED BY <2>1, <2>2, <1>1, <1>2, <1>6, SentFacts DEF InTurn, TypeOK
<1> HIDE DEF p
<1>9. /\ sent' \in Seq(1 .. MaxPkt) /\ Len(sent') = Len(sent) + 1
      /\ sent'[Len(sent) + 1] = p /\ \A n \in 1 .. Len(sent) : sent'[n] = sent[n]
  <2>1. sent' = Append(sent, p) BY <1>2 DEF p
  <2> QED BY <2>1, <1>7, <1>8, AppendProperties
<1>10. \A n \in 1 .. Len(sent') : n \in 1 .. Len(sent) \/ n = Len(sent) + 1 BY <1>8, <1>9
<1>11. TypeOK' BY <1>1, <1>2, <1>4, <1>9 DEF TypeOK, Place
<1>12. Numbered' /\ Forwarding' BY <1>1, <1>2 DEF Numbered, Forwarding
<1>13. TempHeld' BY <1>1, <1>2, <1>5 DEF TempHeld
<1>14. Sent' = Sent \union {p}
  <2>1. Sent = {sent[n] : n \in 1 .. Len(sent)} BY <1>1, SentFacts
  <2>2. Sent' = {sent'[n] : n \in 1 .. Len(sent')} BY <1>9, LenProperties DEF Sent
  <2>3. 1 .. Len(sent) \subseteq 1 .. Len(sent') /\ Len(sent) + 1 \in 1 .. Len(sent') BY <1>8, <1>9
  <2> QED BY <2>1, <2>2, <2>3, <1>9, <1>10
<1>15. ToSend' = Rng(Lists[cur]) /\ ToSend = Rng(Lists[cur]) \union {temp}
  BY <1>2, <1>5 DEF ToSend
<1>16. Debts'
  <2>1. ASSUME NEW o, Waits(o) PROVE o.pkt \in Sent' \/ Waits(o)'
    BY <2>1, <1>2, <1>14, <1>15 DEF Waits, p
  <2>2. Owed' BY <2>1, <1>1, <1>2, <1>14 DEF Debts, Owed
  <2>3. Kept' BY <2>1, <1>1, <1>2, <1>14 DEF Debts, Kept
  <2> QED BY <2>2, <2>3 DEF Debts
<1>17. \A c \in Rng(Lists[cur]) : p < heap[c].pkt BY <1>1, <1>2 DEF InTurn, p
<1>18. InTurn'
  <2>1. \A n \in 1 .. Len(sent') : n > 1 => sent'[n - 1] < sent'[n]
    <3> TAKE n \in 1 .. Len(sent')
    <3> SUFFICES ASSUME n > 1 PROVE sent'[n - 1] < sent'[n] OBVIOUS
    <3>1. CASE n = Len(sent) + 1
      <4>1. n - 1 \in 1 .. Len(sent) BY <3>1, <1>8
      <4> QED BY <4>1, <3>1, <1>8, <1>9
    <3>2. CASE n \in 1 .. Len(sent)
      <4>1. n - 1 \in 1 .. Len(sent) BY <3>2, <1>8
      <4>2. sent[n - 1] < sent[n] BY <3>2, <1>1 DEF InTurn
      <4> QED BY <4>1, <4>2, <3>2, <1>9
    <3> QED BY <3>1, <3>2, <1>10
  <2>2. \A n \in 1 .. Len(sent') : sent'[n] <= pkts' BY <1>2, <1>6, <1>8, <1>9, <1>10 DEF p
  <2>3. \A n \in 1 .. Len(sent'), c \in ToSend' : sent'[n] < heap'[c].pkt
    <3> TAKE n \in 1 .. Len(sent'), c \in ToSend'
    <3>1. CASE n = Len(sent) + 1 BY <3>1, <1>2, <1>9, <1>15, <1>17
    <3>2. CASE n \in 1 .. Len(sent) BY <3>2, <1>1, <1>2, <1>9, <1>15 DEF InTurn
    <3> QED BY <3>1, <3>2, <1>10
  <2> QED BY <2>1, <2>2, <2>3, <1>2 DEF InTurn
<1> QED BY <1>4, <1>5, <1>11, <1>12, <1>13, <1>16, <1>18 DEF Inv

Frees == FreeTemp("free old", "expire") \/ FreeTemp("free", "flush")

LEMMA FreeTempKeeps ==
  ASSUME Inv, Frees
  PROVE  Inv'
<1>1. TypeOK /\ ~bad /\ Linked(heap, table, Lists) /\ Numbered /\ Forwarding /\ TempHeld
      /\ Debts /\ InTurn
  BY DEF Inv
<1>2. /\ pc \in {"free old", "free"} /\ pc' \in {"expire", "flush"}
      /\ heap' = Free(heap, {temp}) /\ bad' = (bad \/ ~heap[temp].live) /\ temp' = Null
      /\ UNCHANGED <<mncount, jiffies, cur, pkts, dropped, owed, table, sent, halted>>
  BY DEF Frees, FreeTemp, Step
<1>3. temp \in Cell /\ heap[temp].live /\ cur \in 0 .. MAX
      /\ \A i \in 0 .. MAX : temp \notin Rng(Lists[i])
  BY <1>1, <1>2 DEF TempHeld, TypeOK
<1>4. bad' = FALSE BY <1>1, <1>2, <1>3
<1>5. heap' \in [Cell -> Cells] /\ heap'[temp] = Blank
      /\ \A c \in Cell : c # temp => heap'[c] = heap[c]
  <2>1. Blank \in Cells BY BuffAssumption DEF Blank, Cells
  <2> QED BY <2>1, <1>1, <1>2, <1>3 DEF Free, TypeOK
<1>6. \A i \in 0 .. MAX : \A c \in Rng(Lists[i]) : c \in Cell /\ heap'[c] = heap[c]
  <2>1. \A i \in 0 .. MAX : Rng(Lists[i]) \subseteq Cell BY <1>1, ListedIs
  <2> QED BY <2>1, <1>3, <1>5
<1>7. Linked(heap', table', Lists)
  <2>1. \A i \in 0 .. MAX : IsList(heap', table'[i].head, table'[i].tail, Lists[i])
    <3> TAKE i \in 0 .. MAX
    <3>1. IsList(heap, table[i].head, table[i].tail, Lists[i]) BY <1>1 DEF Linked
    <3>2. \A c \in Rng(Lists[i]) : heap'[c] = heap[c] BY <1>6
    <3>3. IsList(heap', table[i].head, table[i].tail, Lists[i]) BY <3>1, <3>2, ListStays
    <3> QED BY <3>3, <1>2
  <2> QED BY <2>1, <1>1 DEF Linked
<1>8. \A i \in 0 .. MAX : Chain(heap', table'[i].head) = Lists[i] BY <1>5, <1>7, LinkedIs
<1>9. Lists' = Lists
  <2>1. Lists \in [0 .. MAX -> Seq(Cell)] BY <1>1 DEF Linked
  <2> QED BY <2>1, <1>8 DEF Lists
<1>10. TypeOK' BY <1>1, <1>2, <1>4, <1>5 DEF TypeOK, Place
<1>11. Numbered'
  <2>1. ~heap'[temp].live BY <1>5 DEF Blank
  <2>2. \A c \in Cell : heap'[c].live => heap[c].live /\ heap'[c] = heap[c] BY <2>1, <1>5
  <2> QED BY <2>2, <1>1, <1>2 DEF Numbered
<1>12. Forwarding' BY <1>1, <1>2 DEF Forwarding
<1>13. TempHeld' BY <1>2 DEF TempHeld
<1>14. ToSend = Rng(Lists[cur]) /\ ToSend' = ToSend /\ Sent' = Sent
  BY <1>2, <1>9 DEF ToSend, Sent
<1>15. Debts'
  <2>1. \A c \in ToSend : heap'[c] = heap[c] BY <1>3, <1>6, <1>14
  <2>2. ASSUME NEW o, Waits(o) PROVE Waits(o)' BY <2>1, <2>2, <1>14 DEF Waits
  <2>3. Owed' BY <2>2, <1>1, <1>2, <1>14 DEF Debts, Owed
  <2>4. Kept' BY <2>2, <1>1, <1>2, <1>14 DEF Debts, Kept
  <2> QED BY <2>3, <2>4 DEF Debts
<1>16. InTurn' BY <1>1, <1>2, <1>3, <1>6, <1>14 DEF InTurn
<1> QED BY <1>4, <1>7, <1>9, <1>10, <1>11, <1>12, <1>13, <1>15, <1>16 DEF Inv

-------------------------------------------------------------------------------
(* The theorems. *)

\* The model halts in a state like any other.
LEMMA HaltKeeps ==
  ASSUME Inv, halted' \in {"no", "raced", "oops"},
         UNCHANGED <<table, mncount, heap, jiffies, pc, cur, temp, pkts, dropped, sent,
                     owed, bad>>
  PROVE  Inv'
<1>1. Lists' = Lists BY DEF Lists
<1>2. ToSend' = ToSend /\ Sent' = Sent BY <1>1 DEF ToSend, Sent
<1>3. TypeOK' /\ ~bad' /\ Linked(heap', table', Lists') /\ Numbered' /\ Forwarding'
  BY <1>1 DEF Inv, TypeOK, Numbered, Forwarding
<1>4. Expired(heap, temp)' <=> Expired(heap, temp) BY DEF Expired
<1>5. TempHeld' BY <1>1, <1>4 DEF Inv, TempHeld
<1>6. Debts' /\ InTurn' BY <1>1, <1>2 DEF Inv, Debts, Owed, Kept, Waits, InTurn
<1> QED BY <1>3, <1>5, <1>6 DEF Inv

\* Where the invariant holds, a step leaves it only by freeing the head.
LEMMA InvStep ==
  ASSUME Inv, [Next]_vars
  PROVE  Inv' \/ Stolen'
<1>1. ASSUME NEW m \in Mn, Packet(m) PROVE Inv' \/ Stolen' BY <1>1, PacketKeeps
<1>2. ASSUME NEW m \in Mn, NEW c \in Coa, Report(m, c) PROVE Inv' BY <1>2, ReportKeeps
<1>3. ASSUME NEW m \in Mn, NEW c \in Coa, Moved(m, c) PROVE Inv' BY <1>3, MovedKeeps
<1>4. CASE SendBufferedData
  <2>1. CASE ExpireOne BY <2>1, ExpireOneKeeps
  <2>2. CASE Unlinks BY <2>2, UnlinkKeeps
  <2>3. CASE Frees BY <2>3, FreeTempKeeps
  <2>4. CASE FlushOne BY <2>4, FlushOneKeeps
  <2>5. CASE Send BY <2>5, SendKeeps
  <2>6. CASE Instant BY <2>6, InstantKeeps
  <2>7. CASE Oops BY <2>7, HaltKeeps DEF Oops
  <2> QED BY <1>4, <2>1, <2>2, <2>3, <2>4, <2>5, <2>6, <2>7
          DEF SendBufferedData, Unlinks, Frees
<1>5. CASE Tick BY <1>5, TickKeeps
<1>6. ASSUME NEW m \in Mn, Race(m) PROVE Inv' BY <1>6, HaltKeeps DEF Race
<1>7. CASE UNCHANGED vars
  <2>1. halted' \in {"no", "raced", "oops"} BY <1>7 DEF vars, Inv, TypeOK
  <2> QED BY <2>1, <1>7, HaltKeeps DEF vars
<1> QED BY <1>1, <1>2, <1>3, <1>4, <1>5, <1>6, <1>7 DEF Next

\* The hook does not give out the cell the process points to.
LEMMA StolenHook ==
  ASSUME Stolen, NEW i, NEW p \in 1 .. MaxPkt, Buffer(i, p)
  PROVE  heap' \in [Cell -> Cells] /\ ~heap'[temp].live
<1>1. heap \in [Cell -> Cells] /\ temp \in Cell /\ ~heap[temp].live
      /\ jiffies \in 0 .. MaxTime
  BY DEF Stolen, Dangling
<1> DEFINE e    == table[i]
           all  == Chain(heap, e.head)
           head == FirstFresh(heap, e.head)
           rest == Chain(heap, head)
           old  == {all[n] : n \in DOMAIN all} \ {rest[n] : n \in DOMAIN rest}
           h    == Free(heap, old)
           tail == TailAfter(head, e.tail)
           new(x) == [pkt |-> p, time |-> jiffies, next |-> Null,
                      copy |-> x, live |-> TRUE]
           h1(c, x) == [h EXCEPT ![c] = new(x)]
<1>2. \/ \E c \in {x \in Cell : ~h[x].live /\ x # temp}, x \in BOOLEAN :
           heap' = IF tail = Null THEN h1(c, x) ELSE [h1(c, x) EXCEPT ![tail].next = c]
      \/ heap' = IF tail = Null THEN h ELSE [h EXCEPT ![tail].next = Null]
  BY BuffAssumption DEF Buffer
<1> HIDE DEF tail, old
<1>3. h \in [Cell -> Cells] /\ ~h[temp].live
  <2>1. Blank \in Cells /\ ~Blank.live BY BuffAssumption DEF Blank, Cells
  <2> QED BY <2>1, <1>1 DEF Free
<1>4. \A x \in BOOLEAN : new(x) \in Cells
  <2>1. p \in 0 .. MaxPkt BY BuffAssumption
  <2> QED BY <2>1, <1>1 DEF Cells
<1> HIDE DEF h, new
<1>5. ASSUME NEW g \in [Cell -> Cells], ~g[temp].live, NEW x \in Cell \union {Null}
      PROVE  LET f == [g EXCEPT ![tail].next = x] IN f \in [Cell -> Cells] /\ ~f[temp].live
  <2> DEFINE f == [g EXCEPT ![tail].next = x]
  <2>1. CASE tail \in Cell
    <3> DEFINE y == [g[tail] EXCEPT !.next = x]
    <3>1. y \in Cells /\ y.live = g[tail].live BY <2>1, <1>5 DEF Cells
    <3>2. f = [g EXCEPT ![tail] = y] OBVIOUS
    <3> HIDE DEF y
    <3> QED BY <3>1, <3>2, <2>1, <1>1, <1>5
  <2>2. CASE tail \notin Cell
    <3>1. f = g BY <2>2, <1>5
    <3> QED BY <3>1, <1>5
  <2> QED BY <2>1, <2>2
<1>6. CASE \E c \in {x \in Cell : ~h[x].live /\ x # temp}, x \in BOOLEAN :
           heap' = IF tail = Null THEN h1(c, x) ELSE [h1(c, x) EXCEPT ![tail].next = c]
  <2>1. PICK c \in Cell, x \in BOOLEAN :
          /\ c # temp
          /\ heap' = IF tail = Null THEN h1(c, x) ELSE [h1(c, x) EXCEPT ![tail].next = c]
    BY <1>6
  <2>2. h1(c, x) \in [Cell -> Cells] /\ ~h1(c, x)[temp].live BY <2>1, <1>1, <1>3, <1>4
  <2> DEFINE g == h1(c, x)
  <2>3. heap' = IF tail = Null THEN g ELSE [g EXCEPT ![tail].next = c] BY <2>1
  <2>4. g \in [Cell -> Cells] /\ ~g[temp].live BY <2>2
  <2> HIDE DEF g
  <2> QED BY <2>3, <2>4, <1>5
<1>7. CASE heap' = IF tail = Null THEN h ELSE [h EXCEPT ![tail].next = Null]
  BY <1>3, <1>5, <1>7
<1> QED BY <1>2, <1>6, <1>7

\* Once the head is freed it stays so until the process uses it.
LEMMA StolenStep ==
  ASSUME Stolen, ~bad, [Next]_vars
  PROVE  Stolen' \/ bad'
<1>1. /\ temp \in Cell /\ temp # Null /\ ~heap[temp].live
      /\ heap \in [Cell -> Cells] /\ jiffies \in 0 .. MaxTime /\ pkts \in 0 .. MaxPkt
      /\ pc \in {"unlink old", "free old", "unlink", "send", "free"}
  BY DEF Stolen, Dangling
<1>0. jiffies \in Nat /\ pkts \in Nat /\ MaxTime \in Nat /\ MaxPkt \in Nat
  <2>1. MaxTime \in Nat /\ MaxPkt \in Nat BY BuffAssumption
  <2>2. jiffies \in 0 .. MaxTime /\ pkts \in 0 .. MaxPkt BY <1>1
  <2> QED BY <2>1, <2>2
<1> DEFINE Holds == /\ ~heap'[temp'].live /\ heap' \in [Cell -> Cells] /\ temp' = temp
                    /\ jiffies' \in 0 .. MaxTime /\ pkts' \in 0 .. MaxPkt
                    /\ pc' \in {"unlink old", "free old", "unlink", "send", "free"}
<1> SUFFICES Holds \/ bad' BY <1>1 DEF Stolen, Dangling
<1>2. ASSUME NEW m \in Mn, Packet(m) PROVE Holds
  <2>1. PICK i \in Known(m) : Buffer(i, pkts + 1) BY <1>2 DEF Packet
  <2>2. pkts' = pkts + 1 /\ pkts < MaxPkt /\ UNCHANGED <<jiffies, pc, temp>>
    BY <1>2 DEF Packet
  <2>3. pkts + 1 \in 1 .. MaxPkt /\ pkts' \in 0 .. MaxPkt BY <2>2, <1>0
  <2>4. heap' \in [Cell -> Cells] /\ ~heap'[temp].live BY <2>1, <2>3, StolenHook
  <2> QED BY <2>2, <2>3, <2>4, <1>1
<1>3. CASE Tick
  <2>1. jiffies < MaxTime /\ jiffies' = jiffies + 1 /\ UNCHANGED <<heap, temp, pkts, pc>>
    BY <1>3 DEF Tick
  <2>2. jiffies' \in 0 .. MaxTime BY <2>1, <1>0
  <2> QED BY <2>1, <2>2, <1>1
<1>4. CASE Unlinks
  <2>1. UNCHANGED <<heap, temp, jiffies, pkts>> /\ pc' \in {"free old", "send"}
    BY <1>4 DEF Unlinks, Unlink, Step
  <2> QED BY <2>1, <1>1
<1>5. CASE Send \/ Frees
  BY <1>1, <1>5 DEF Send, Frees, FreeTemp
<1>6. ~ExpireOne /\ ~FlushOne /\ ~Instant /\ ~Oops
  BY <1>1 DEF ExpireOne, FlushOne, Instant, Oops, Step
<1>7. \A m \in Mn, c \in Coa : ~Report(m, c) /\ ~Moved(m, c)
  BY <1>1 DEF Report, Moved
<1>8. CASE UNCHANGED <<heap, temp, jiffies, pkts, pc>>
  BY <1>1, <1>8
<1>9. ASSUME NEW m \in Mn, Race(m) PROVE Holds BY <1>8, <1>9 DEF Race
<1>10. CASE UNCHANGED vars BY <1>8, <1>10 DEF vars
<1> HIDE DEF Holds
<1> QED BY <1>2, <1>3, <1>4, <1>5, <1>6, <1>7, <1>9, <1>10
        DEF Next, SendBufferedData, Unlinks, Frees

\* A cell that was used after it was freed was.
LEMMA BadStep ==
  ASSUME bad, [Next]_vars
  PROVE  bad'
<1>1. ~Goes BY DEF Goes
<1>2. ~Next
  BY <1>1 DEF Next, Packet, Race, Tick, Report, Moved, SendBufferedData, ExpireOne, Unlink,
              FreeTemp, FlushOne, Send, Oops, Instant, Step
<1> QED BY <1>2 DEF vars

\* A list of the buffer is a list of live cells that shares none with another,
\* unless the hook frees the cell the process points to, which then uses it.
THEOREM BuffInv == Spec => []SoundUntilUse
<1>1. Init => SoundUntilUse BY BuffInit DEF SoundUntilUse
<1>2. SoundUntilUse /\ [Next]_vars => SoundUntilUse'
  BY BadStep, StolenStep, InvStep DEF SoundUntilUse
<1> QED BY <1>1, <1>2, PTL DEF Spec

\* What Inv says of a state holds of every sound one.
LEMMA SoundIs == SoundUntilUse /\ Sound => Inv
BY DEF SoundUntilUse, Sound, Stolen

\* A freed cell is used by nobody but the process, and only after the hook has
\* freed the one it points to (buffer_data, send_buffered_data).
THEOREM BuffHeadStolen == Spec => OnlyHeadIsStolen
<1>1. SoundUntilUse /\ [Next]_vars => [bad' => bad \/ Dangling]_vars
  <2> SUFFICES ASSUME SoundUntilUse, [Next]_vars, bad', ~bad, ~Dangling PROVE FALSE
    OBVIOUS
  <2>1. Inv BY SoundIs DEF Sound
  <2>2. Inv' \/ Stolen' BY <2>1, InvStep
  <2> QED BY <2>2 DEF Inv, Stolen
<1> QED BY <1>1, BuffInv, PTL DEF Spec, OnlyHeadIsStolen

\* Packets are sent in the order they came.
THEOREM BuffInOrder == Spec => []InOrder
<1>1. SoundUntilUse => InOrder
  <2> SUFFICES ASSUME Inv PROVE \A n \in DOMAIN sent : n > 1 => sent[n - 1] < sent[n]
    BY SoundIs DEF InOrder
  <2>1. DOMAIN sent = 1 .. Len(sent) BY LenProperties DEF Inv, TypeOK
  <2> QED BY <2>1 DEF Inv, InTurn
<1> QED BY <1>1, BuffInv, PTL

\* Every packet of the last second that was copied and dropped while the list
\* was being sent was sent with it or came after the last look and is in it.
THEOREM BuffKeepsDropped == Spec => []DroppedIsKept
<1>1. SoundUntilUse => DroppedIsKept
  <2> SUFFICES ASSUME Inv, pc = "idle", NEW o \in Fresh(dropped), o.copied, o.pkt \notin Sent
               PROVE  o.pkt \in {heap[c].pkt : c \in Listed(cur)}
    BY SoundIs DEF DroppedIsKept
  <2>1. o \in dropped /\ o.time >= jiffies - 1 BY DEF Fresh
  <2>2. PICK c \in ToSend : heap[c].pkt = o.pkt BY <2>1 DEF Inv, Debts, Kept, Waits
  <2>3. c \in Rng(Lists[cur]) BY <2>2 DEF ToSend
  <2>4. cur \in 0 .. MAX /\ Listed(cur) = Rng(Lists[cur]) BY ListedIs DEF Inv, TypeOK
  <2> QED BY <2>2, <2>3, <2>4
<1> QED BY <1>1, BuffInv, PTL

\* What the buffer held of the last second when the node moved was sent, or is
\* still held and will be.
THEOREM BuffSendsRecent == Spec => []RecentIsSent
<1>1. SoundUntilUse => RecentIsSent
  <2> SUFFICES ASSUME Inv, NEW o \in Fresh(owed), o.pkt \notin Sent
               PROVE  pc # "idle" /\ o.pkt \in Held
    BY SoundIs DEF RecentIsSent
  <2>1. o \in owed /\ o.time >= jiffies - 1 BY DEF Fresh
  <2>2. pc # "idle" /\ Waits(o) BY <2>1 DEF Inv, Debts, Owed
  <2>3. PICK c \in ToSend : heap[c].pkt = o.pkt BY <2>2 DEF Waits
  <2>4. cur \in 0 .. MAX /\ Listed(cur) = Rng(Lists[cur]) BY ListedIs DEF Inv, TypeOK
  <2>5. c \in Listed(cur) \union ({temp} \ {Null})
    <3>1. pc = "send" => temp \in Cell /\ temp # Null
      BY BuffAssumption DEF Inv, TempHeld
    <3> QED BY <3>1, <2>3, <2>4 DEF ToSend
  <2> QED BY <2>2, <2>3, <2>5 DEF Held
<1> QED BY <1>1, BuffInv, PTL
===============================================================================
