--------------------------- MODULE HtcSendProofs ---------------------------
(***************************************************************************)
(* Proofs about HtcSend, for any number of commands and contexts, any      *)
(* credits, any size of the pipe and any wmi_max_cmds.                     *)
(*                                                                         *)
(* First come sets of packets and their cost, then what an operation does  *)
(* to the line of packets (ring, in hand, queue) as lists, then what the   *)
(* move of one context changes; one lemma for each action of HtcSend       *)
(* follows, and the theorems.                                              *)
(***************************************************************************)
EXTENDS HtcSend, ListLemmas

-----------------------------------------------------------------------------
(***************************************************************************)
(* Packets, contexts and credits.                                          *)
(***************************************************************************)
\* What the constants say.
LEMMA TheConstants ==
  /\ NPkt \in Nat /\ Total \in Nat /\ RingSize \in Nat /\ MaxLeaked \in Nat
  /\ PerMaxMsg \in Nat /\ PerMaxMsg > 0 /\ MaxCmds \in Nat /\ MaxCmds > 0
  /\ PmPkt \subseteq Pkt /\ BigPkt \subseteq Pkt
  /\ NoPkt \notin Pkt /\ IsFiniteSet(Pkt) /\ IsFiniteSet(Ctx)
<1>1. NPkt \in Nat
  BY HtcConstants
<1>2. IsFiniteSet(Pkt)
  BY <1>1, FS_Interval DEF Pkt
<1> QED
  BY <1>1, <1>2, HtcConstants DEF Pkt, NoPkt

\* Sets of packets are finite.
LEMMA PktSets ==
  ASSUME NEW S \in SUBSET Pkt
  PROVE  IsFiniteSet(S) /\ Cardinality(S) \in Nat
<1>1. IsFiniteSet(S)
  BY TheConstants, FS_Subset
<1> QED
  BY <1>1, FS_CardinalityType

\* Sets of contexts are finite.
LEMMA CtxSets ==
  ASSUME NEW S \in SUBSET Ctx
  PROVE  IsFiniteSet(S) /\ Cardinality(S) \in Nat
<1>1. IsFiniteSet(S)
  BY TheConstants, FS_Subset
<1> QED
  BY <1>1, FS_CardinalityType

\* Packets without one in common count together as they count alone.
LEMMA DisjointCount ==
  ASSUME NEW S \in SUBSET Pkt, NEW T \in SUBSET Pkt, S \cap T = {}
  PROVE  Cardinality(S \cup T) = Cardinality(S) + Cardinality(T)
<1>1. IsFiniteSet(S) /\ IsFiniteSet(T) /\ Cardinality(S) \in Nat /\ Cardinality(T) \in Nat
  BY PktSets
<1>2. Cardinality(S \cup T) = Cardinality(S) + Cardinality(T) - Cardinality(S \cap T)
  BY <1>1, FS_Union
<1>3. Cardinality(S \cap T) = 0
  BY FS_EmptySet
<1> QED
  BY <1>1, <1>2, <1>3

\* The credits of packets add up.
LEMMA CostSplit ==
  ASSUME NEW S \in SUBSET Pkt, NEW T \in SUBSET Pkt, S \cap T = {}
  PROVE  /\ CostOf(S \cup T) = CostOf(S) + CostOf(T)
         /\ CostOf(S) \in Nat /\ CostOf(T) \in Nat
<1> DEFINE s1 == Cardinality(S \ BigPkt)
           t1 == Cardinality(T \ BigPkt)
           s2 == Cardinality(S \cap BigPkt)
           t2 == Cardinality(T \cap BigPkt)
<1>1. s1 \in Nat /\ t1 \in Nat /\ s2 \in Nat /\ t2 \in Nat /\ PerMaxMsg \in Nat
  BY PktSets, TheConstants
<1>2. Cardinality((S \ BigPkt) \cup (T \ BigPkt)) = s1 + t1
  BY DisjointCount
<1>3. Cardinality((S \cap BigPkt) \cup (T \cap BigPkt)) = s2 + t2
  BY DisjointCount
<1>4. /\ (S \cup T) \ BigPkt = (S \ BigPkt) \cup (T \ BigPkt)
      /\ (S \cup T) \cap BigPkt = (S \cap BigPkt) \cup (T \cap BigPkt)
  OBVIOUS
<1>5. CostOf(S \cup T) = (s1 + t1) + PerMaxMsg * (s2 + t2)
  BY <1>2, <1>3, <1>4 DEF CostOf
<1>6. CostOf(S) = s1 + PerMaxMsg * s2 /\ CostOf(T) = t1 + PerMaxMsg * t2
  BY DEF CostOf
<1> HIDE DEF s1, t1, s2, t2
<1>7. PerMaxMsg * (s2 + t2) = PerMaxMsg * s2 + PerMaxMsg * t2
  BY <1>1
<1>8. PerMaxMsg * s2 \in Nat /\ PerMaxMsg * t2 \in Nat
  BY <1>1
<1> QED
  BY <1>1, <1>5, <1>6, <1>7, <1>8

\* The credits of one packet, and of none.
LEMMA CostOne ==
  ASSUME NEW p \in Pkt
  PROVE  CostOf({p}) = Cost(p) /\ CostOf({}) = 0
<1>1. PerMaxMsg \in Nat
  BY TheConstants
<1>2. Cardinality({}) = 0 /\ Cardinality({p}) = 1
  BY FS_EmptySet, FS_Singleton
<1>3. CASE p \in BigPkt
  <2>1. {p} \ BigPkt = {} /\ {p} \cap BigPkt = {p}
    BY <1>3
  <2> QED
    BY <1>1, <1>2, <1>3, <2>1 DEF CostOf, Cost
<1>4. CASE p \notin BigPkt
  <2>1. {p} \ BigPkt = {p} /\ {p} \cap BigPkt = {}
    BY <1>4
  <2> QED
    BY <1>1, <1>2, <1>4, <2>1 DEF CostOf, Cost
<1>5. {} \ BigPkt = {} /\ {} \cap BigPkt = {}
  OBVIOUS
<1> QED
  BY <1>1, <1>2, <1>3, <1>4, <1>5 DEF CostOf

-----------------------------------------------------------------------------
(***************************************************************************)
(* The line of packets, and what an operation does to it.                  *)
(***************************************************************************)
\* The packets of line and those of R are the packets of ord, each once.
Placed(line, R, ord) ==
  /\ line \in Seq(Pkt) /\ ord \in Seq(Pkt) /\ R \subseteq Pkt
  /\ IsInjective(line) /\ IsInjective(ord)
  /\ ToSet(line) \cap R = {} /\ ToSet(line) \cup R = ToSet(ord)

\* Packets other than the PM ones keep their order.
Ordered(line, ord) == \A p, q \in ToSet(line) \ PmPkt : Before(line, p, q) => Before(ord, p, q)

\* The lookup queue look has the packets of sent, in their order, and of R.
LooksUp(look, sent, R) ==
  /\ look \in Seq(Pkt) /\ sent \in Seq(Pkt) /\ IsInjective(look)
  /\ ToSet(look) = ToSet(sent) \cup R
  /\ \A p, q \in ToSet(sent) : Before(sent, p, q) => Before(look, p, q)

\* A packet is queued.
LEMMA QueuePlaced ==
  ASSUME NEW line, NEW R, NEW ord, Placed(line, R, ord), Ordered(line, ord),
         NEW m \in Pkt, m \notin ToSet(ord)
  PROVE  Placed(line \o <<m>>, R, ord \o <<m>>) /\ Ordered(line \o <<m>>, ord \o <<m>>)
<1> DEFINE l == line \o <<m>>
           o == ord \o <<m>>
<1>1. line \in Seq(Pkt) /\ ord \in Seq(Pkt)
  BY DEF Placed
<1>2. /\ <<m>> \in Seq(Pkt) /\ ToSet(<<m>>) = {m} /\ IsInjective(<<m>>)
      /\ \A y, z : ~Before(<<m>>, y, z)
  BY ShortLists
<1>3. /\ l \in Seq(Pkt) /\ ToSet(l) = ToSet(line) \cup {m}
      /\ IsInjective(l) <=> IsInjective(line) /\ IsInjective(<<m>>) /\ ToSet(line) \cap {m} = {}
  BY <1>1, <1>2, ConcatMembers
<1>4. /\ o \in Seq(Pkt) /\ ToSet(o) = ToSet(ord) \cup {m}
      /\ IsInjective(o) <=> IsInjective(ord) /\ IsInjective(<<m>>) /\ ToSet(ord) \cap {m} = {}
  BY <1>1, <1>2, ConcatMembers
<1>5. \A p, q : Before(l, p, q) <=> Before(line, p, q) \/ (p \in ToSet(line) /\ q \in {m})
  BY <1>1, <1>2, ConcatBefore
<1>6. \A p, q : Before(o, p, q) <=> Before(ord, p, q) \/ (p \in ToSet(ord) /\ q \in {m})
  BY <1>1, <1>2, ConcatBefore
<1> HIDE DEF l, o
<1>7. Placed(l, R, o)
  BY <1>2, <1>3, <1>4 DEF Placed
<1>8. ASSUME NEW p \in ToSet(l) \ PmPkt, NEW q \in ToSet(l) \ PmPkt, Before(l, p, q)
      PROVE  Before(o, p, q)
  <2>1. CASE Before(line, p, q)
    <3>1. p \in ToSet(line) /\ q \in ToSet(line)
      BY <2>1, BeforeMembers
    <3> QED
      BY <2>1, <3>1, <1>6, <1>8 DEF Ordered
  <2>2. CASE p \in ToSet(line) /\ q = m
    BY <2>2, <1>6 DEF Placed
  <2> QED
    BY <2>1, <2>2, <1>5, <1>8
<1> QED
  BY <1>7, <1>8 DEF Ordered, l, o

\* The packet at the head of the line is reaped.
LEMMA ReapPlaced ==
  ASSUME NEW line, NEW R, NEW ord, Placed(line, R, ord), Ordered(line, ord),
         NEW h \in Pkt, NEW rest \in Seq(Pkt), line = <<h>> \o rest
  PROVE  /\ Placed(rest, R \cup {h}, ord) /\ Ordered(rest, ord)
         /\ h \in ToSet(line) /\ h \notin R /\ ToSet(rest) = ToSet(line) \ {h}
<1>1. /\ <<h>> \in Seq(Pkt) /\ ToSet(<<h>>) = {h} /\ IsInjective(<<h>>)
      /\ \A y, z : ~Before(<<h>>, y, z)
  BY ShortLists
<1>2. /\ ToSet(line) = {h} \cup ToSet(rest)
      /\ IsInjective(rest) /\ {h} \cap ToSet(rest) = {}
  BY ZenonT(60), <1>1, ConcatMembers DEF Placed
<1>3. \A p, q : Before(rest, p, q) => Before(line, p, q)
  BY <1>1, ConcatBefore
<1>4. Placed(rest, R \cup {h}, ord)
  BY <1>2 DEF Placed
<1>5. Ordered(rest, ord)
  BY <1>2, <1>3 DEF Ordered
<1> QED
  BY <1>2, <1>4, <1>5 DEF Placed

\* A packet whose completion is handled leaves.
LEMMA CompletePlaced ==
  ASSUME NEW line, NEW R, NEW ord, Placed(line, R, ord), Ordered(line, ord), NEW p \in R
  PROVE  Placed(line, R \ {p}, Without(ord, {p})) /\ Ordered(line, Without(ord, {p}))
<1> DEFINE o == Without(ord, {p})
<1>1. o \in Seq(Pkt) /\ ToSet(o) = ToSet(ord) \ {p} /\ IsInjective(o)
  BY WithoutMembers DEF Placed
<1>2. \A x, y : Before(o, x, y) <=> Before(ord, x, y) /\ x \notin {p} /\ y \notin {p}
  BY WithoutBefore DEF Placed
<1> HIDE DEF o
<1>3. p \notin ToSet(line)
  BY DEF Placed
<1>4. Placed(line, R \ {p}, o)
  BY <1>1, <1>3 DEF Placed
<1>5. Ordered(line, o)
  BY <1>2, <1>3 DEF Ordered
<1> QED
  BY <1>4, <1>5 DEF o

\* The packets at the end of the line are flushed.
LEMMA FlushPlaced ==
  ASSUME NEW a \in Seq(Pkt), NEW b \in Seq(Pkt), NEW R, NEW ord,
         Placed(a \o b, R, ord), Ordered(a \o b, ord)
  PROVE  Placed(a, R, Without(ord, ToSet(b))) /\ Ordered(a, Without(ord, ToSet(b)))
<1> DEFINE o == Without(ord, ToSet(b))
           l == a \o b
<1>1. o \in Seq(Pkt) /\ ToSet(o) = ToSet(ord) \ ToSet(b) /\ IsInjective(o)
  BY WithoutMembers DEF Placed
<1>2. \A x, y : Before(o, x, y) <=> Before(ord, x, y) /\ x \notin ToSet(b) /\ y \notin ToSet(b)
  BY WithoutBefore DEF Placed
<1>3. /\ ToSet(l) = ToSet(a) \cup ToSet(b)
      /\ IsInjective(a) /\ ToSet(a) \cap ToSet(b) = {}
  BY ConcatMembers DEF Placed
<1>4. \A x, y : Before(a, x, y) => Before(l, x, y)
  BY ConcatBefore
<1> HIDE DEF o, l
<1>5. Placed(a, R, o)
  BY <1>1, <1>3 DEF Placed, l
<1>6. Ordered(a, o)
  BY <1>2, <1>3, <1>4 DEF Ordered, l
<1> QED
  BY <1>5, <1>6 DEF o

\* The packets behind r in the line are arranged anew: PM packets may go
\* anywhere, the others keep their order.
LEMMA ArrangePlaced ==
  ASSUME NEW r \in Seq(Pkt), NEW q \in Seq(Pkt), NEW t \in Seq(Pkt), NEW R, NEW ord,
         Placed(r \o q, R, ord), Ordered(r \o q, ord),
         IsInjective(t), ToSet(t) = ToSet(q), Ordered(t, q)
  PROVE  Placed(r \o t, R, ord) /\ Ordered(r \o t, ord)
<1> DEFINE k == r \o q
           l == r \o t
<1>1. /\ l \in Seq(Pkt) /\ ToSet(l) = ToSet(r) \cup ToSet(t)
      /\ IsInjective(l) <=> IsInjective(r) /\ IsInjective(t) /\ ToSet(r) \cap ToSet(t) = {}
  BY ConcatMembers
<1>2. /\ ToSet(k) = ToSet(r) \cup ToSet(q)
      /\ IsInjective(r) /\ ToSet(r) \cap ToSet(q) = {}
  BY ConcatMembers DEF Placed
<1>3. \A x, y : Before(l, x, y) <=>
                  Before(r, x, y) \/ Before(t, x, y) \/ (x \in ToSet(r) /\ y \in ToSet(t))
  BY ConcatBefore
<1>4. \A x, y : Before(k, x, y) <=>
                  Before(r, x, y) \/ Before(q, x, y) \/ (x \in ToSet(r) /\ y \in ToSet(q))
  BY ConcatBefore
<1> HIDE DEF k, l
<1>5. ToSet(l) = ToSet(k) /\ IsInjective(l)
  BY <1>1, <1>2
<1>6. ASSUME NEW x \in ToSet(l) \ PmPkt, NEW y \in ToSet(l) \ PmPkt, Before(l, x, y)
      PROVE  Before(ord, x, y)
  <2>1. Before(t, x, y) => Before(q, x, y)
    BY <1>6, BeforeMembers DEF Ordered
  <2>2. Before(k, x, y)
    BY <1>3, <1>4, <1>6, <2>1
  <2> QED
    BY <2>2, <1>5, <1>6 DEF Ordered, k
<1>7. Placed(l, R, ord)
  BY <1>1, <1>5 DEF Placed, k
<1> QED
  BY <1>6, <1>7 DEF Ordered, l

\* The packet in hand enters the lookup queue.
LEMMA LookIssue ==
  ASSUME NEW look, NEW r, NEW R, LooksUp(look, r, R), NEW h \in Pkt, h \notin ToSet(look)
  PROVE  LooksUp(look \o <<h>>, r \o <<h>>, R)
<1> DEFINE k == look \o <<h>>
           l == r \o <<h>>
<1>1. look \in Seq(Pkt) /\ r \in Seq(Pkt)
  BY DEF LooksUp
<1>2. /\ <<h>> \in Seq(Pkt) /\ ToSet(<<h>>) = {h} /\ IsInjective(<<h>>)
      /\ \A y, z : ~Before(<<h>>, y, z)
  BY ShortLists
<1>3. k \in Seq(Pkt) /\ ToSet(k) = ToSet(look) \cup {h} /\ IsInjective(k)
  <2>1. /\ k \in Seq(Pkt) /\ ToSet(k) = ToSet(look) \cup {h}
        /\ IsInjective(k) <=>
             IsInjective(look) /\ IsInjective(<<h>>) /\ ToSet(look) \cap {h} = {}
    BY <1>1, <1>2, ConcatMembers
  <2> QED
    BY <1>2, <2>1 DEF LooksUp
<1>4. l \in Seq(Pkt) /\ ToSet(l) = ToSet(r) \cup {h}
  BY <1>1, <1>2, ConcatMembers
<1>5. \A p, q : Before(l, p, q) <=> Before(r, p, q) \/ (p \in ToSet(r) /\ q \in {h})
  BY <1>1, <1>2, ConcatBefore
<1>6. \A p, q : Before(k, p, q) <=> Before(look, p, q) \/ (p \in ToSet(look) /\ q \in {h})
  BY <1>1, <1>2, ConcatBefore
<1> HIDE DEF k, l
<1>7. ASSUME NEW p, NEW q, Before(l, p, q) PROVE Before(k, p, q)
  <2>1. CASE Before(r, p, q)
    <3>1. p \in ToSet(r) /\ q \in ToSet(r)
      BY <2>1, BeforeMembers
    <3> QED
      BY <2>1, <3>1, <1>6 DEF LooksUp
  <2>2. CASE p \in ToSet(r) /\ q = h
    BY <2>2, <1>6 DEF LooksUp
  <2> QED
    BY <2>1, <2>2, <1>5, <1>7
<1>8. ToSet(k) = ToSet(l) \cup R
  BY <1>3, <1>4 DEF LooksUp
<1> QED
  BY <1>3, <1>4, <1>7, <1>8 DEF LooksUp, k, l

\* The packet in hand leaves the lookup queue again.
LEMMA LookUnsend ==
  ASSUME NEW look, NEW r \in Seq(Pkt), NEW R, NEW h \in Pkt, LooksUp(look, r \o <<h>>, R),
         h \notin R, h \notin ToSet(r)
  PROVE  LooksUp(Without(look, {h}), r, R)
<1> DEFINE w == Without(look, {h})
           l == r \o <<h>>
<1>1. /\ <<h>> \in Seq(Pkt) /\ ToSet(<<h>>) = {h}
  BY ShortLists
<1>2. w \in Seq(Pkt) /\ ToSet(w) = ToSet(look) \ {h} /\ IsInjective(w)
  BY WithoutMembers DEF LooksUp
<1>3. \A x, y : Before(w, x, y) <=> Before(look, x, y) /\ x \notin {h} /\ y \notin {h}
  BY WithoutBefore DEF LooksUp
<1>4. ToSet(l) = ToSet(r) \cup {h}
  BY <1>1, ConcatMembers
<1>5. \A p, q : Before(r, p, q) => Before(l, p, q)
  BY <1>1, ConcatBefore
<1> HIDE DEF w, l
<1>6. ToSet(w) = ToSet(r) \cup R
  BY <1>2, <1>4 DEF LooksUp, l
<1>7. \A p, q \in ToSet(r) : Before(r, p, q) => Before(w, p, q)
  BY <1>3, <1>4, <1>5 DEF LooksUp, l
<1> QED
  BY <1>2, <1>6, <1>7 DEF LooksUp, w

\* The first packet of the copy engine is reaped and stays in the lookup queue.
LEMMA LookReap ==
  ASSUME NEW look, NEW sent, NEW R, LooksUp(look, sent, R),
         NEW h \in Pkt, NEW rest \in Seq(Pkt), sent = <<h>> \o rest
  PROVE  LooksUp(look, rest, R \cup {h})
<1>1. <<h>> \in Seq(Pkt) /\ ToSet(<<h>>) = {h}
  BY ShortLists
<1>2. ToSet(sent) = {h} \cup ToSet(rest)
  BY <1>1, ConcatMembers
<1>3. \A p, q : Before(rest, p, q) => Before(sent, p, q)
  BY <1>1, ConcatBefore
<1> QED
  BY <1>2, <1>3 DEF LooksUp

\* A packet whose completion is handled leaves the lookup queue.
LEMMA LookComplete ==
  ASSUME NEW look, NEW sent, NEW R, LooksUp(look, sent, R), NEW p \in R, p \notin ToSet(sent)
  PROVE  LooksUp(Without(look, {p}), sent, R \ {p})
<1> DEFINE w == Without(look, {p})
<1>1. w \in Seq(Pkt) /\ ToSet(w) = ToSet(look) \ {p} /\ IsInjective(w)
  BY WithoutMembers DEF LooksUp
<1>2. \A x, y : Before(w, x, y) <=> Before(look, x, y) /\ x \notin {p} /\ y \notin {p}
  BY WithoutBefore DEF LooksUp
<1> HIDE DEF w
<1> QED
  BY <1>1, <1>2 DEF LooksUp, w

\* What the loop takes from queue q and what it leaves, arranged anew.
LEMMA TakeAndRest ==
  ASSUME NEW q \in Seq(Pkt), IsInjective(q), NEW n \in 0..Len(Candidates(q))
  PROVE  LET take == SubSeq(Candidates(q), 1, n)
             rest == Rest(q, take)
         IN  /\ take \in Seq(Pkt) /\ rest \in Seq(Pkt) /\ Len(take) = n
             /\ IsInjective(take) /\ IsInjective(rest) /\ ToSet(take) \cap ToSet(rest) = {}
             /\ ToSet(take) \cup ToSet(rest) = ToSet(q)
             /\ IsInjective(take \o rest) /\ ToSet(take \o rest) = ToSet(q)
             /\ Ordered(take \o rest, q)
             /\ ToSet(take) \subseteq PmPkt \/ ToSet(take) \cap PmPkt = {}
             /\ OnlyPm(q) # <<>> => ToSet(take) \subseteq PmPkt
             /\ OnlyPm(q) = <<>> => ToSet(q) \cap PmPkt = {}
             /\ n > 0 /\ OnlyPm(q) = <<>> => bus = "on"
<1> DEFINE s == Candidates(q)
           take == SubSeq(s, 1, n)
           drop == SubSeq(s, n + 1, Len(s))
           rest == Rest(q, take)
           left == Without(q, ToSet(take))
           pm == OnlyPm(left)
           np == NonPm(left)
<1>1. /\ OnlyPm(q) \in Seq(Pkt) /\ ToSet(OnlyPm(q)) = ToSet(q) \ (Pkt \ PmPkt)
      /\ IsInjective(OnlyPm(q)) /\ ToSet(q) \subseteq Pkt
  BY WithoutMembers, ToSetType DEF OnlyPm
<1>2. \A x, y : Before(OnlyPm(q), x, y) =>
                  Before(q, x, y) /\ x \notin Pkt \ PmPkt /\ y \notin Pkt \ PmPkt
  BY WithoutBefore DEF OnlyPm
<1>3. /\ OnlyPm(q) = <<>> => ToSet(q) \cap PmPkt = {}
      /\ <<>> \in Seq(Pkt) /\ ToSet(<<>>) = {} /\ IsInjective(<<>>) /\ Len(<<>>) = 0
      /\ \A y, z : ~Before(<<>>, y, z)
  <2>1. ToSet(<<>>) = {} /\ IsInjective(<<>>) /\ \A y, z : ~Before(<<>>, y, z)
    BY DEF ToSet, IsInjective, Before
  <2> QED
    BY <2>1, <1>1
<1>4. /\ s \in Seq(Pkt) /\ IsInjective(s) /\ ToSet(s) \subseteq ToSet(q)
      /\ \A x, y : Before(s, x, y) => Before(q, x, y)
      /\ OnlyPm(q) # <<>> => ToSet(s) \subseteq PmPkt
      /\ OnlyPm(q) = <<>> => s = <<>> \/ (s = q /\ bus = "on")
  <2>1. CASE OnlyPm(q) # <<>>
    <3>1. s = OnlyPm(q)
      BY <2>1 DEF Candidates
    <3> QED
      BY <2>1, <3>1, <1>1, <1>2
  <2>2. CASE OnlyPm(q) = <<>> /\ bus = "on"
    <3>1. s = q
      BY <2>2 DEF Candidates
    <3> QED
      BY <2>2, <3>1
  <2>3. CASE OnlyPm(q) = <<>> /\ bus # "on"
    <3>1. s = <<>>
      BY <2>3 DEF Candidates
    <3> QED
      BY <2>3, <3>1, <1>3
  <2> QED
    BY <2>1, <2>2, <2>3
<1> HIDE DEF s
<1>24. n \in 0..Len(s)
  BY DEF s
<1>5. Len(s) \in Nat /\ n \in 0..Len(s) /\ s = take \o drop
  BY <1>4, <1>24, SplitAt, LenProperties
<1>6. take \in Seq(Pkt) /\ drop \in Seq(Pkt) /\ Len(take) = n
  BY <1>4, <1>24, SplitAt
<1> HIDE DEF take, drop
<1>7. /\ IsInjective(take) /\ ToSet(s) = ToSet(take) \cup ToSet(drop)
      /\ ToSet(take) \cap ToSet(drop) = {}
  BY <1>4, <1>5, <1>6, ConcatMembers
<1>8. \A x, y : Before(s, x, y) <=>
                  Before(take, x, y) \/ Before(drop, x, y) \/ (x \in ToSet(take) /\ y \in ToSet(drop))
  BY <1>5, <1>6, ConcatBefore
<1>9. left \in Seq(Pkt) /\ ToSet(left) = ToSet(q) \ ToSet(take) /\ IsInjective(left)
  BY WithoutMembers
<1>10. \A x, y : Before(left, x, y) => Before(q, x, y)
  BY WithoutBefore
<1> HIDE DEF left
<1>11. /\ pm \in Seq(Pkt) /\ ToSet(pm) = ToSet(left) \ (Pkt \ PmPkt) /\ IsInjective(pm)
       /\ np \in Seq(Pkt) /\ ToSet(np) = ToSet(left) \ PmPkt /\ IsInjective(np)
  BY <1>9, WithoutMembers DEF OnlyPm, NonPm
<1>12. \A x, y : Before(np, x, y) => Before(left, x, y)
  BY <1>9, WithoutBefore DEF NonPm
<1>13. rest = pm \o np
  BY DEF Rest, left
<1> HIDE DEF pm, np, rest
<1>14. ToSet(pm) \cap ToSet(np) = {} /\ ToSet(pm) \cup ToSet(np) = ToSet(left) /\ ToSet(pm) \subseteq PmPkt
  BY <1>1, <1>9, <1>11
<1>15. /\ rest \in Seq(Pkt) /\ ToSet(rest) = ToSet(left) /\ IsInjective(rest)
  <2>1. /\ rest \in Seq(Pkt) /\ ToSet(rest) = ToSet(pm) \cup ToSet(np)
        /\ IsInjective(rest) <=> IsInjective(pm) /\ IsInjective(np) /\ ToSet(pm) \cap ToSet(np) = {}
    BY <1>11, <1>13, ConcatMembers
  <2> QED
    BY <2>1, <1>11, <1>14
<1>16. \A x, y : Before(rest, x, y) <=>
                   Before(pm, x, y) \/ Before(np, x, y) \/ (x \in ToSet(pm) /\ y \in ToSet(np))
  BY <1>11, <1>13, ConcatBefore
<1>17. /\ ToSet(take) \subseteq ToSet(q) /\ ToSet(take) \cap ToSet(rest) = {}
       /\ ToSet(take) \cup ToSet(rest) = ToSet(q)
  BY <1>4, <1>7, <1>9, <1>15
<1> DEFINE l == take \o rest
<1>18. l \in Seq(Pkt) /\ IsInjective(l) /\ ToSet(l) = ToSet(q)
  <2>1. /\ l \in Seq(Pkt) /\ ToSet(l) = ToSet(take) \cup ToSet(rest)
        /\ IsInjective(l) <=>
             IsInjective(take) /\ IsInjective(rest) /\ ToSet(take) \cap ToSet(rest) = {}
    BY <1>6, <1>15, ConcatMembers
  <2> QED
    BY <2>1, <1>7, <1>15, <1>17
<1>19. \A x, y : Before(l, x, y) <=>
                   Before(take, x, y) \/ Before(rest, x, y) \/ (x \in ToSet(take) /\ y \in ToSet(rest))
  BY <1>6, <1>15, ConcatBefore
<1> HIDE DEF l
<1>20. ASSUME NEW x \in ToSet(l) \ PmPkt, NEW y \in ToSet(l) \ PmPkt, Before(l, x, y)
       PROVE  Before(q, x, y)
  <2>1. CASE Before(take, x, y)
    BY <2>1, <1>8, <1>4
  <2>2. CASE Before(rest, x, y)
    <3>1. ~Before(pm, x, y) /\ x \notin ToSet(pm)
      BY <1>14, <1>20, BeforeMembers
    <3> QED
      BY <2>2, <3>1, <1>16, <1>12, <1>10
  <2>3. CASE x \in ToSet(take) /\ y \in ToSet(rest)
    <3>1. s = q
      BY <2>3, <1>4, <1>3, <1>7, <1>20
    <3>2. y \in ToSet(drop)
      BY <2>3, <3>1, <1>7, <1>9, <1>15
    <3> QED
      BY <2>3, <3>1, <3>2, <1>8
  <2> QED
    BY <2>1, <2>2, <2>3, <1>19, <1>20
<1>21. Ordered(l, q)
  BY <1>20 DEF Ordered
<1>22. /\ OnlyPm(q) # <<>> => ToSet(take) \subseteq PmPkt
       /\ OnlyPm(q) = <<>> => ToSet(q) \cap PmPkt = {}
  BY <1>3, <1>4, <1>7
<1>23. ASSUME n > 0, OnlyPm(q) = <<>> PROVE bus = "on"
  <2>1. s # <<>>
    BY <1>23, <1>5, <1>3
  <2> QED
    BY <2>1, <1>23, <1>4
<1> QED
  BY <1>6, <1>7, <1>15, <1>17, <1>18, <1>21, <1>22, <1>23 DEF l, rest, take, s

-----------------------------------------------------------------------------
(***************************************************************************)
(* A step moves one context.                                               *)
(***************************************************************************)
\* Context c goes on as u.
Moves(c, u) == c \in Ctx /\ u \in Context /\ th' = [th EXCEPT ![c] = u]

\* The other contexts stay where they are.
LEMMA Moved ==
  ASSUME th \in [Ctx -> Context], NEW c, NEW u, Moves(c, u)
  PROVE  /\ th' \in [Ctx -> Context] /\ th'[c] = u
         /\ \A d \in Ctx : d # c => th'[d] = th[d]
         /\ c \in Ctx /\ u \in Context /\ th[c] \in Context
BY DEF Moves

\* How the sets of contexts change.
LEMMA MovedSets ==
  ASSUME th \in [Ctx -> Context], NEW c, NEW u, Moves(c, u)
  PROVE  /\ Drainers' = IF Draining(u) THEN Drainers \cup {c} ELSE Drainers \ {c}
         /\ Finders' = IF u.pc = "found" THEN Finders \cup {c} ELSE Finders \ {c}
         /\ Counted' = IF u.pc \in {"count", "send"} THEN Counted \cup {c} ELSE Counted \ {c}
         /\ Sending' = IF u.pc = "send" THEN Sending \cup {c} ELSE Sending \ {c}
         /\ Completing' = IF u.cmpl THEN Completing \cup {c} ELSE Completing \ {c}
<1>1. /\ th' \in [Ctx -> Context] /\ th'[c] = u /\ c \in Ctx
      /\ \A d \in Ctx : d # c => th'[d] = th[d]
  BY Moved
<1>2. Drainers' = IF Draining(u) THEN Drainers \cup {c} ELSE Drainers \ {c}
  BY <1>1 DEF Drainers, Draining
<1>3. Finders' = IF u.pc = "found" THEN Finders \cup {c} ELSE Finders \ {c}
  BY <1>1 DEF Finders
<1>4. Counted' = IF u.pc \in {"count", "send"} THEN Counted \cup {c} ELSE Counted \ {c}
  BY <1>1 DEF Counted
<1>5. Sending' = IF u.pc = "send" THEN Sending \cup {c} ELSE Sending \ {c}
  BY <1>1 DEF Sending
<1>6. Completing' = IF u.cmpl THEN Completing \cup {c} ELSE Completing \ {c}
  BY <1>1 DEF Completing
<1> QED
  BY <1>2, <1>3, <1>4, <1>5, <1>6

\* A truth value as a number.
One(b) == IF b THEN 1 ELSE 0

\* A context that is put in or left out counts one.
LEMMA CountMove ==
  ASSUME NEW S \in SUBSET Ctx, NEW c \in Ctx
  PROVE  /\ Cardinality(S) \in Nat
         /\ Cardinality(S \cup {c}) \in Nat
         /\ Cardinality(S \cup {c}) = Cardinality(S) + 1 - One(c \in S)
         /\ Cardinality(S \ {c}) \in Nat
         /\ Cardinality(S \ {c}) = Cardinality(S) - One(c \in S)
<1>1. IsFiniteSet(S) /\ Cardinality(S) \in Nat
  BY CtxSets
<1>2. Cardinality(S \cup {c}) = IF c \in S THEN Cardinality(S) ELSE Cardinality(S) + 1
  BY <1>1, FS_AddElement
<1>3. Cardinality(S \ {c}) = IF c \in S THEN Cardinality(S) - 1 ELSE Cardinality(S)
  BY <1>1, FS_RemoveElement
<1>4. S \cup {c} \in SUBSET Ctx /\ S \ {c} \in SUBSET Ctx
  OBVIOUS
<1>5. Cardinality(S \cup {c}) \in Nat /\ Cardinality(S \ {c}) \in Nat
  BY <1>4, CtxSets
<1> QED
  BY <1>1, <1>2, <1>3, <1>5 DEF One

\* How many contexts send, count or complete.
LEMMA MovedCounts ==
  ASSUME th \in [Ctx -> Context], NEW c, NEW u, Moves(c, u)
  PROVE  /\ Cardinality(Counted) \in Nat /\ Cardinality(Counted') \in Nat
         /\ Cardinality(Sending) \in Nat /\ Cardinality(Sending') \in Nat
         /\ Cardinality(Completing) \in Nat /\ Cardinality(Completing') \in Nat
         /\ Cardinality(Counted') = Cardinality(Counted) + One(u.pc \in {"count", "send"})
                                      - One(th[c].pc \in {"count", "send"})
         /\ Cardinality(Sending') = Cardinality(Sending) + One(u.pc = "send")
                                      - One(th[c].pc = "send")
         /\ Cardinality(Completing') = Cardinality(Completing) + One(u.cmpl) - One(th[c].cmpl)
<1>1. /\ c \in Ctx /\ u \in Context
      /\ (u.pc \in {"count", "send"}) \in BOOLEAN /\ (u.pc = "send") \in BOOLEAN
      /\ u.cmpl \in BOOLEAN
  BY Moved DEF Context
<1>2. /\ Counted \in SUBSET Ctx /\ Sending \in SUBSET Ctx /\ Completing \in SUBSET Ctx
      /\ c \in Counted <=> th[c].pc \in {"count", "send"}
      /\ c \in Sending <=> th[c].pc = "send"
      /\ c \in Completing <=> th[c].cmpl
  BY <1>1 DEF Counted, Sending, Completing
<1>3. /\ Cardinality(Counted) \in Nat /\ Cardinality(Counted') \in Nat
      /\ Cardinality(Counted') = Cardinality(Counted) + One(u.pc \in {"count", "send"}) - One(c \in Counted)
  <2>1. /\ Cardinality(Counted) \in Nat
        /\ Cardinality(Counted \cup {c}) \in Nat
        /\ Cardinality(Counted \cup {c}) = Cardinality(Counted) + 1 - One(c \in Counted)
        /\ Cardinality(Counted \ {c}) \in Nat
        /\ Cardinality(Counted \ {c}) = Cardinality(Counted) - One(c \in Counted)
    BY <1>1, <1>2, CountMove
  <2>2. Counted' = IF u.pc \in {"count", "send"} THEN Counted \cup {c} ELSE Counted \ {c}
    BY MovedSets
  <2>3. CASE u.pc \in {"count", "send"}
    BY <2>1, <2>2, <2>3 DEF One
  <2>4. CASE ~(u.pc \in {"count", "send"})
    BY <2>1, <2>2, <2>4 DEF One
  <2> QED
    BY <2>3, <2>4
<1>4. /\ Cardinality(Sending) \in Nat /\ Cardinality(Sending') \in Nat
      /\ Cardinality(Sending') = Cardinality(Sending) + One(u.pc = "send") - One(c \in Sending)
  <2>1. /\ Cardinality(Sending) \in Nat
        /\ Cardinality(Sending \cup {c}) \in Nat
        /\ Cardinality(Sending \cup {c}) = Cardinality(Sending) + 1 - One(c \in Sending)
        /\ Cardinality(Sending \ {c}) \in Nat
        /\ Cardinality(Sending \ {c}) = Cardinality(Sending) - One(c \in Sending)
    BY <1>1, <1>2, CountMove
  <2>2. Sending' = IF u.pc = "send" THEN Sending \cup {c} ELSE Sending \ {c}
    BY MovedSets
  <2>3. CASE u.pc = "send"
    BY <2>1, <2>2, <2>3 DEF One
  <2>4. CASE ~(u.pc = "send")
    BY <2>1, <2>2, <2>4 DEF One
  <2> QED
    BY <2>3, <2>4
<1>5. /\ Cardinality(Completing) \in Nat /\ Cardinality(Completing') \in Nat
      /\ Cardinality(Completing') = Cardinality(Completing) + One(u.cmpl) - One(c \in Completing)
  <2>1. /\ Cardinality(Completing) \in Nat
        /\ Cardinality(Completing \cup {c}) \in Nat
        /\ Cardinality(Completing \cup {c}) = Cardinality(Completing) + 1 - One(c \in Completing)
        /\ Cardinality(Completing \ {c}) \in Nat
        /\ Cardinality(Completing \ {c}) = Cardinality(Completing) - One(c \in Completing)
    BY <1>1, <1>2, CountMove
  <2>2. Completing' = IF u.cmpl THEN Completing \cup {c} ELSE Completing \ {c}
    BY MovedSets
  <2>3. CASE u.cmpl
    BY <2>1, <2>2, <2>3 DEF One
  <2>4. CASE ~(u.cmpl)
    BY <2>1, <2>2, <2>4 DEF One
  <2> QED
    BY <2>3, <2>4
<1> QED
  BY <1>2, <1>3, <1>4, <1>5 DEF One

\* Who drains, when one context does.
LEMMA DrainerIs ==
  ASSUME OneDrainer, NEW c \in Ctx
  PROVE  /\ Draining(th[c]) => Drainers = {c} /\ Drainer = th[c] /\ draining
         /\ Drainers = {} => Drainer = Idle
         /\ ~draining => Drainers = {}
<1>1. ASSUME Draining(th[c]) PROVE Drainers = {c} /\ Drainer = th[c] /\ draining
  <2>1. c \in Drainers
    BY <1>1 DEF Drainers
  <2>2. Drainers = {c} /\ draining
    BY <2>1 DEF OneDrainer
  <2>3. (CHOOSE d \in Drainers : TRUE) = c
    BY <2>2
  <2> QED
    BY <2>2, <2>3 DEF Drainer
<1> QED
  BY <1>1 DEF Drainer, OneDrainer

\* One context drains after the step, if the one that begins to drain found
\* nobody draining.
LEMMA DrainMoves ==
  ASSUME th \in [Ctx -> Context], draining \in BOOLEAN, OneDrainer,
         NEW c, NEW u, Moves(c, u),
         Draining(u) => Draining(th[c]) \/ ~draining,
         draining' = IF Draining(u) THEN TRUE ELSE IF Draining(th[c]) THEN FALSE ELSE draining
  PROVE  /\ OneDrainer'
         /\ Drainer' = IF Draining(u) THEN u ELSE IF Draining(th[c]) THEN Idle ELSE Drainer
<1>1. /\ c \in Ctx /\ th'[c] = u /\ \A d \in Ctx : d # c => th'[d] = th[d]
  BY Moved
<1>2. Drainers' = IF Draining(u) THEN Drainers \cup {c} ELSE Drainers \ {c}
  BY MovedSets
<1>3. /\ Draining(th[c]) => Drainers = {c}
      /\ ~draining => Drainers = {}
      /\ c \in Drainers <=> Draining(th[c])
  BY <1>1, DrainerIs DEF Drainers
<1>4. CASE Draining(u)
  <2>1. Drainers' = {c} /\ draining'
    BY <1>2, <1>3, <1>4
  <2>2. (CHOOSE d \in Drainers' : TRUE) = c
    BY <2>1
  <2>3. Drainer' = u
    BY <2>1, <2>2, <1>1 DEF Drainer
  <2> QED
    BY <2>1, <2>3, <1>4 DEF OneDrainer
<1>5. CASE ~Draining(u) /\ Draining(th[c])
  <2>1. Drainers' = {} /\ ~draining'
    BY <1>2, <1>3, <1>5
  <2>2. Drainer' = Idle
    BY <2>1 DEF Drainer, Idle
  <2> QED
    BY <2>1, <2>2, <1>5 DEF OneDrainer
<1>6. CASE ~Draining(u) /\ ~Draining(th[c])
  <2>1. Drainers' = Drainers /\ draining' = draining
    BY <1>2, <1>3, <1>6
  <2>6. draining <=> Drainers # {}
    BY DEF OneDrainer
  <2>7. \A d, e \in Drainers : d = e
    BY DEF OneDrainer
  <2>8. draining' <=> Drainers' # {}
    BY <2>1, <2>6
  <2>5. (draining' <=> Drainers' # {}) /\ (\A d, e \in Drainers' : d = e)
    BY <2>1, <2>7, <2>8
  <2>2. OneDrainer'
    BY <2>5 DEF OneDrainer
  <2>3. CASE Drainers = {}
    BY <2>1, <2>2, <2>3, <1>6 DEF Drainer, Idle
  <2>4. CASE Drainers # {}
    <3>1. (CHOOSE d \in Drainers : TRUE) \in Drainers
      BY <2>4
    <3>2. \A d \in Drainers : th'[d] = th[d]
      BY <1>1, <1>3, <1>6 DEF Drainers
    <3> QED
      BY <2>1, <2>2, <2>4, <3>1, <3>2, <1>6 DEF Drainer
  <2> QED
    BY <2>3, <2>4
<1> QED
  BY <1>4, <1>5, <1>6

\* How the packets change whose completion is handled.
LEMMA ReapedMoves ==
  ASSUME th \in [Ctx -> Context], OneHolder, NEW c, NEW u, Moves(c, u)
  PROVE  /\ th[c].pc # "found" /\ u.pc # "found" => Reaped' = Reaped
         /\ th[c].pc # "found" /\ u.pc = "found" => Reaped' = Reaped \cup {u.pkt}
         /\ th[c].pc = "found" /\ u.pc # "found" => Reaped' = Reaped \ {th[c].pkt}
<1>1. /\ c \in Ctx /\ th'[c] = u /\ \A d \in Ctx : d # c => th'[d] = th[d]
  BY Moved
<1>2. Finders' = IF u.pc = "found" THEN Finders \cup {c} ELSE Finders \ {c}
  BY MovedSets
<1>3. (c \in Finders <=> th[c].pc = "found") /\ Finders \subseteq Ctx
  BY <1>1 DEF Finders
<1>4. \A d, e \in Finders : th[d].pkt = th[e].pkt => d = e
  BY DEF OneHolder
<1>5. Reaped = {th[d].pkt : d \in Finders} /\ Reaped' = {th'[d].pkt : d \in Finders'}
  BY DEF Reaped
<1>6. ASSUME th[c].pc # "found", u.pc # "found" PROVE Reaped' = Reaped
  BY <1>1, <1>2, <1>3, <1>5, <1>6
<1>7. ASSUME th[c].pc # "found", u.pc = "found" PROVE Reaped' = Reaped \cup {u.pkt}
  BY <1>1, <1>2, <1>3, <1>5, <1>7
<1>8. ASSUME th[c].pc = "found", u.pc # "found" PROVE Reaped' = Reaped \ {th[c].pkt}
  BY <1>1, <1>2, <1>3, <1>4, <1>5, <1>8
<1> QED
  BY <1>6, <1>7, <1>8

\* A command is still sent by one thread, and a completion handled by one
\* context, when the context that moved took nobody's packet.
LEMMA HolderMoves ==
  ASSUME th \in [Ctx -> Context], OneHolder, NEW c, NEW u, Moves(c, u),
         u.pc \in {"count", "send"} =>
           /\ c \in Senders /\ u.pkt \notin InHtc'
           /\ \A d \in Counted : d # c => th[d].pkt # u.pkt,
         u.pc = "found" => \A d \in Finders : d # c => th[d].pkt # u.pkt,
         \A d \in Counted : d # c => th[d].pkt \notin InHtc'
  PROVE  OneHolder'
<1>1. /\ c \in Ctx /\ th'[c] = u /\ \A d \in Ctx : d # c => th'[d] = th[d]
  BY Moved
<1>2. /\ Finders' = IF u.pc = "found" THEN Finders \cup {c} ELSE Finders \ {c}
      /\ Counted' = IF u.pc \in {"count", "send"} THEN Counted \cup {c} ELSE Counted \ {c}
  BY MovedSets
<1>3. /\ Finders \subseteq Ctx /\ Counted \subseteq Ctx
  BY DEF Finders, Counted
<1>4. Counted' \subseteq Senders
  BY <1>2 DEF OneHolder
<1>5. \A d \in Counted' : th'[d].pkt \notin InHtc'
  BY <1>1, <1>2, <1>3
<1>6. \A d, e \in Counted' : th'[d].pkt = th'[e].pkt => d = e
  <2>1. \A d, e \in Counted : th[d].pkt = th[e].pkt => d = e
    BY DEF OneHolder
  <2> QED
    BY <1>1, <1>2, <1>3, <2>1
<1>7. \A d, e \in Finders' : th'[d].pkt = th'[e].pkt => d = e
  <2>1. \A d, e \in Finders : th[d].pkt = th[e].pkt => d = e
    BY DEF OneHolder
  <2> QED
    BY <1>1, <1>2, <1>3, <2>1
<1> QED
  BY <1>4, <1>5, <1>6, <1>7 DEF OneHolder

-----------------------------------------------------------------------------
(***************************************************************************)
(* The state as the lemmas on the line see it: D is the context that       *)
(* drains, R the packets whose completion is handled.                      *)
(***************************************************************************)
\* What D took from the queue.
Has(D) == HandOf(D) \o D.q

\* InOnePlace, OrderKept and LookupExact.
Pipe(D, R, rg, tq, lk, od) ==
  /\ Placed(rg \o Has(D) \o tq, R, od) /\ Ordered(rg \o Has(D) \o tq, od)
  /\ LooksUp(lk, rg \o HandOf(D), R)

\* The runtime PM references of the packets that left the queue.
Gets(D, R, rg) == Cardinality((ToSet(rg \o Has(D)) \cup R) \ PmPkt)

\* The credits of the packets that left it and that the firmware has not got.
Pays(D, rg, n) ==
  CostOf(ToSet(SubSeq(rg, n + 1, Len(rg))) \cup (IF D.pc = "putback" THEN {} ELSE ToSet(Has(D))))

\* Types, of the state and of the context that drains.
LEMMA Types ==
  ASSUME TypeOK
  PROVE  /\ creditFlow \in BOOLEAN /\ draining \in BOOLEAN
         /\ txq \in Seq(Pkt) /\ lookup \in Seq(Pkt) /\ ring \in Seq(Pkt) /\ order \in Seq(Pkt)
         /\ credits \in Nat /\ free \in Nat /\ held \in Nat /\ usage \in Nat /\ pending \in Nat
         /\ leaked \in Nat /\ Len(ring) \in Nat /\ dma \in Nat /\ dma <= Len(ring)
         /\ th \in [Ctx -> Context] /\ Idle \in Context /\ Drainer \in Context
         /\ InHtc \in SUBSET Pkt /\ Cardinality(InHtc) \in Nat /\ RingSize \in Nat
<1>1. /\ creditFlow \in BOOLEAN /\ draining \in BOOLEAN
      /\ txq \in Seq(Pkt) /\ lookup \in Seq(Pkt) /\ ring \in Seq(Pkt) /\ order \in Seq(Pkt)
      /\ credits \in Nat /\ free \in Nat /\ held \in Nat /\ usage \in Nat /\ pending \in Nat
      /\ leaked \in Nat /\ dma \in 0..Len(ring) /\ th \in [Ctx -> Context]
  BY DEF TypeOK
<1>2. Len(ring) \in Nat
  BY <1>1, LenProperties
<1>3. Idle \in Context
  <2>1. RingSize \in Nat
    BY TheConstants
  <2> QED
    BY <2>1 DEF Idle, Context
<1>4. Drainer \in Context
  <2>1. CASE Drainers = {}
    BY <2>1, <1>3 DEF Drainer
  <2>2. CASE Drainers # {}
    <3>1. (CHOOSE c \in Drainers : TRUE) \in Ctx
      BY <2>2 DEF Drainers
    <3> QED
      BY <2>2, <3>1, <1>1 DEF Drainer
  <2> QED
    BY <2>1, <2>2
<1>5. InHtc \in SUBSET Pkt
  BY <1>1, ToSetType DEF InHtc
<1>6. Cardinality(InHtc) \in Nat
  BY <1>5, PktSets
<1> QED
  BY <1>1, <1>2, <1>3, <1>4, <1>5, <1>6, TheConstants

\* What a context has in its hands.
LEMMA HandType ==
  ASSUME NEW D \in Context
  PROVE  /\ HandOf(D) \in Seq(Pkt) /\ D.q \in Seq(Pkt) /\ Has(D) \in Seq(Pkt)
         /\ D.pkt # NoPkt => D.pkt \in Pkt
<1>1. D.q \in Seq(Pkt) /\ D.pkt \in Pkt \cup {NoPkt}
  BY DEF Context
<1>2. HandOf(D) \in Seq(Pkt)
  BY <1>1 DEF HandOf
<1> QED
  BY <1>1, <1>2, ConcatProperties DEF Has

\* The packets whose completion is handled are packets.
LEMMA ReapedType ==
  ASSUME TypeOK, \A c \in Ctx : ContextFits(th[c])
  PROVE  Reaped \in SUBSET Pkt
<1>1. ASSUME NEW c \in Finders PROVE th[c].pkt \in Pkt
  <2>1. c \in Ctx /\ th[c].pc = "found" /\ th[c] \in Context
    BY Types DEF Finders
  <2> QED
    BY <2>1 DEF ContextFits, Context
<1> QED
  BY <1>1 DEF Reaped

\* The invariant in these terms.
LEMMA PipeOf ==
  ASSUME IndInv
  PROVE  /\ Pipe(Drainer, Reaped, ring, txq, lookup, order)
         /\ ~stolen => usage = Gets(Drainer, Reaped, ring) /\ (bus # "on" => usage = 0)
         /\ creditFlow => credits + Pays(Drainer, ring, dma) + held + leaked = Total
<1>1. /\ txq \in Seq(Pkt) /\ lookup \in Seq(Pkt) /\ ring \in Seq(Pkt) /\ order \in Seq(Pkt)
      /\ Drainer \in Context /\ Reaped \in SUBSET Pkt
  BY Types, ReapedType DEF IndInv
<1>2. HandOf(Drainer) \in Seq(Pkt) /\ Has(Drainer) \in Seq(Pkt)
  BY <1>1, HandType
<1>3. Line = ring \o Has(Drainer) \o txq /\ Carried = Has(Drainer) /\ Hand = HandOf(Drainer)
  BY DEF Line, Carried, Hand, Has
<1>4. Line \in Seq(Pkt) /\ ring \o Hand \in Seq(Pkt)
  BY <1>1, <1>2, <1>3, ConcatProperties
<1>5. /\ IsInjective(Line) /\ ToSet(Line) \cap Reaped = {} /\ ToSet(Line) \cup Reaped = ToSet(order)
      /\ IsInjective(order)
  BY DEF IndInv, PipelineExact, InOnePlace, InHtc
<1>6. Placed(Line, Reaped, order)
  BY <1>1, <1>4, <1>5 DEF Placed
<1>7. Ordered(Line, order)
  BY DEF IndInv, PipelineExact, OrderKept, Ordered
<1>8. LooksUp(lookup, ring \o Hand, Reaped)
  BY <1>1, <1>4 DEF IndInv, PipelineExact, LookupExact, LooksUp
<1>9. ~stolen => usage = Gets(Drainer, Reaped, ring) /\ (bus # "on" => usage = 0)
  BY <1>3 DEF IndInv, PmBalanced, Gets
<1>10. creditFlow => credits + Pays(Drainer, ring, dma) + held + leaked = Total
  BY <1>3 DEF IndInv, CreditsExact, Pays, Paid, Unreceived
<1> QED
  BY <1>3, <1>6, <1>7, <1>8, <1>9, <1>10 DEF Pipe

\* And back.
LEMMA PipeBack ==
  /\ Pipe(Drainer', Reaped', ring', txq', lookup', order')
       => InOnePlace' /\ OrderKept' /\ LookupExact' /\ IsInjective(order)'
  /\ (~stolen' => usage' = Gets(Drainer', Reaped', ring') /\ (bus' # "on" => usage' = 0))
       => PmBalanced'
  /\ (creditFlow' => credits' + Pays(Drainer', ring', dma') + held' + leaked' = Total)
       => CreditsExact'
<1>1. /\ Line' = ring' \o Has(Drainer') \o txq' /\ Carried' = Has(Drainer')
      /\ Hand' = HandOf(Drainer')
  BY DEF Line, Carried, Hand, Has, HandOf
<1>2. ASSUME Pipe(Drainer', Reaped', ring', txq', lookup', order')
      PROVE  InOnePlace' /\ OrderKept' /\ LookupExact' /\ IsInjective(order)'
  <2>1. /\ Placed(Line', Reaped', order') /\ Ordered(Line', order')
        /\ LooksUp(lookup', ring' \o Hand', Reaped')
    BY <1>1, <1>2 DEF Pipe
  <2>2. InOnePlace' /\ IsInjective(order)'
    BY <2>1 DEF Placed, InOnePlace, InHtc
  <2>3. OrderKept'
    BY <2>1 DEF Ordered, OrderKept
  <2>4. LookupExact'
    BY <2>1 DEF LooksUp, LookupExact
  <2> QED
    BY <2>2, <2>3, <2>4
<1>3. ASSUME ~stolen' => usage' = Gets(Drainer', Reaped', ring') /\ (bus' # "on" => usage' = 0)
      PROVE  PmBalanced'
  BY <1>1, <1>3 DEF PmBalanced, Gets
<1>4. ASSUME creditFlow' => credits' + Pays(Drainer', ring', dma') + held' + leaked' = Total
      PROVE  CreditsExact'
  BY <1>1, <1>4 DEF CreditsExact, Pays, Paid, Unreceived
<1> QED
  BY <1>2, <1>3, <1>4

\* What is paid for is a number of credits.
LEMMA PaysType ==
  ASSUME IndInv
  PROVE  Pays(Drainer, ring, dma) \in Nat
<1>1. ring \in Seq(Pkt) /\ Drainer \in Context /\ dma \in Nat /\ dma <= Len(ring) /\ Len(ring) \in Nat
  BY Types DEF IndInv
<1>2. Has(Drainer) \in Seq(Pkt)
  BY <1>1, HandType
<1>3. SubSeq(ring, dma + 1, Len(ring)) \in Seq(Pkt)
  BY <1>1, SplitAt
<1> DEFINE S == ToSet(SubSeq(ring, dma + 1, Len(ring)))
                 \cup (IF Drainer.pc = "putback" THEN {} ELSE ToSet(Has(Drainer)))
<1>4. S \in SUBSET Pkt
  BY <1>2, <1>3, ToSetType
<1>5. {} \in SUBSET Pkt /\ S \cap {} = {}
  OBVIOUS
<1> HIDE DEF S
<1>6. CostOf(S) \in Nat
  BY <1>4, <1>5, CostSplit
<1> QED
  BY <1>6 DEF S, Pays

\* What one step has to keep, k being the packets HTC gains.
LEMMA Close ==
  ASSUME IndInv, TypeOK', NEW c, NEW u, Moves(c, u), ContextFits(u), NEW k \in Int,
         OneDrainer', OneHolder', Pipe(Drainer', Reaped', ring', txq', lookup', order'),
         PmBalanced', CreditsExact',
         free' + Len(ring') = free + Len(ring) + One(th[c].cmpl) - One(u.cmpl),
         Cardinality(InHtc') = Cardinality(InHtc) + k,
         pending' = pending + k + One(u.pc \in {"count", "send"})
                      - One(th[c].pc \in {"count", "send"}),
         k <= 0 \/ (k = 1 /\ th[c].pc = "send" /\ u.pc # "send"),
         u.pc = "send" => th[c].pc = "send" \/ (k = 0 /\ th[c].pc = "count" /\ pending < MaxCmds)
  PROVE  IndInv'
<1>1. TypeOK /\ OneHolder /\ RoomLeft /\ EntriesExact /\ WindowExact
  BY DEF IndInv, PipelineExact
<1>2. /\ th \in [Ctx -> Context] /\ Cardinality(InHtc) \in Nat /\ pending \in Nat /\ free \in Nat
      /\ Len(ring) \in Nat /\ RingSize \in Nat /\ MaxCmds \in Nat
  BY <1>1, Types, TheConstants
<1>3. /\ c \in Ctx /\ th'[c] = u /\ \A d \in Ctx : d # c => th'[d] = th[d]
  BY <1>2, Moved
<1>4. (\A d \in Ctx : ContextFits(th[d]))'
  <2>1. ASSUME NEW d \in Ctx PROVE ContextFits(th'[d])
    BY <1>3 DEF IndInv
  <2>2. \A d \in Ctx : ContextFits(th'[d])
    BY <2>1
  <2> QED
    BY <2>2 DEF ContextFits
<1>5. /\ Cardinality(Counted) \in Nat /\ Cardinality(Counted') \in Nat
      /\ Cardinality(Sending) \in Nat /\ Cardinality(Sending') \in Nat
      /\ Cardinality(Completing) \in Nat /\ Cardinality(Completing') \in Nat
      /\ Cardinality(Counted') = Cardinality(Counted) + One(u.pc \in {"count", "send"})
                                   - One(th[c].pc \in {"count", "send"})
      /\ Cardinality(Sending') = Cardinality(Sending) + One(u.pc = "send")
                                   - One(th[c].pc = "send")
      /\ Cardinality(Completing') = Cardinality(Completing) + One(u.cmpl) - One(th[c].cmpl)
  BY <1>2, MovedCounts
<1>6. EntriesExact'
  <2>1. ring' \in Seq(Pkt) /\ free' \in Nat
    BY DEF TypeOK
  <2>2. Len(ring') \in Nat
    BY <2>1, LenProperties
  <2>3. One(u.cmpl) \in Int /\ One(th[c].cmpl) \in Int
    BY DEF One
  <2>4. free + Len(ring) + Cardinality(Completing) = RingSize
    BY <1>1 DEF EntriesExact
  <2>6. Cardinality(Completing') = Cardinality(Completing) + One(u.cmpl) - One(th[c].cmpl)
    BY <1>5
  <2>7. Cardinality(Completing) \in Nat /\ Cardinality(Completing') \in Nat
    BY <1>5
  <2>5. free' + Len(ring') + Cardinality(Completing') = RingSize
    <3> DEFINE a == One(u.cmpl)
               b == One(th[c].cmpl)
               f == free'
               m == Cardinality(Completing)
               n == Cardinality(Completing')
               l == Len(ring)
               r == Len(ring')
    <3>1. /\ a \in Int /\ b \in Int /\ m \in Int /\ n \in Int /\ l \in Int /\ r \in Int
          /\ n = m + a - b /\ f + r = free + l + b - a /\ free + l + m = RingSize
      BY <1>2, <2>1, <2>2, <2>3, <2>4, <2>6, <2>7
    <3>2. f \in Int /\ free \in Int /\ RingSize \in Int
      BY <1>2, <2>1
    <3> HIDE DEF a, b, f, m, n, l, r
    <3>3. f + r + n = RingSize
      BY <3>1, <3>2
    <3> QED
      BY <3>3 DEF f, r, n
  <2> QED
    BY <2>5 DEF EntriesExact
<1>7. RoomLeft'
  <2>1. Cardinality(InHtc) + Cardinality(Sending) < MaxCmds
    BY <1>1 DEF RoomLeft
  <2>2. ASSUME u.pc = "send", th[c].pc # "send"
        PROVE  Cardinality(Sending) + 1 <= Cardinality(Counted)
    <3>1. th[c].pc = "count"
      BY <2>2
    <3>2. c \in Counted /\ c \notin Sending /\ Sending \subseteq Counted /\ Counted \in SUBSET Ctx
      BY <1>3, <3>1 DEF Counted, Sending
    <3>3. IsFiniteSet(Counted)
      BY <3>2, CtxSets
    <3>4. Sending \cup {c} \subseteq Counted /\ Sending \in SUBSET Ctx
      BY <3>2
    <3>5. Cardinality(Sending \cup {c}) <= Cardinality(Counted)
      BY <3>3, <3>4, FS_Subset
    <3>6. Cardinality(Sending \cup {c}) = Cardinality(Sending) + 1 - One(c \in Sending)
      BY <3>4, <1>3, CountMove
    <3> QED
      BY <3>2, <3>5, <3>6, <1>5 DEF One
  <2>3. u.pc = "send" => pending = Cardinality(InHtc) + Cardinality(Counted)
    BY <1>1 DEF WindowExact
  <2>4. Cardinality(InHtc') + Cardinality(Sending') < MaxCmds
    <3> DEFINE m == Cardinality(Sending)
               n == Cardinality(Sending')
               h == Cardinality(InHtc)
               i == Cardinality(InHtc')
               a == One(u.pc = "send")
               b == One(th[c].pc = "send")
    <3>1. /\ m \in Int /\ n \in Int /\ h \in Int /\ i = h + k /\ h + m < MaxCmds
          /\ n = m + a - b /\ MaxCmds \in Int
      BY <1>2, <1>5, <2>1
    <3>2. CASE u.pc = "send" /\ th[c].pc # "send"
      <4>3. k = 0 /\ pending < MaxCmds /\ a = 1 /\ b = 0
        BY <3>2 DEF One
      <4>4. m + 1 <= Cardinality(Counted) /\ pending = h + Cardinality(Counted)
        BY <3>2, <2>2, <2>3
      <4>5. Cardinality(Counted) \in Int
        BY <1>5
      <4>1. k = 0 /\ h + m + 1 < MaxCmds /\ a = 1 /\ b = 0
        <5> HIDE DEF m, n, h, i, a, b
        <5> QED
          BY <3>1, <4>3, <4>4, <4>5
      <4> HIDE DEF m, n, h, i, a, b
      <4>2. i + n < MaxCmds
        BY <3>1, <4>1
      <4> QED
        BY <4>2 DEF i, n
    <3>3. CASE u.pc = "send" /\ th[c].pc = "send"
      <4>1. k <= 0 /\ a = 1 /\ b = 1
        BY <3>3 DEF One
      <4> HIDE DEF m, n, h, i, a, b
      <4>2. i + n < MaxCmds
        BY <3>1, <4>1
      <4> QED
        BY <4>2 DEF i, n
    <3>4. CASE u.pc # "send"
      <4>1. a = 0 /\ b \in {0, 1} /\ (k <= 0 \/ (k = 1 /\ b = 1))
        BY <3>4 DEF One
      <4> HIDE DEF m, n, h, i, a, b
      <4>2. i + n < MaxCmds
        BY <3>1, <4>1
      <4> QED
        BY <4>2 DEF i, n
    <3> QED
      BY <3>2, <3>3, <3>4
  <2> QED
    BY <2>4 DEF RoomLeft
<1>8. WindowExact'
  <2>1. pending = Cardinality(InHtc) + Cardinality(Counted)
    BY <1>1 DEF WindowExact
  <2>2. One(u.pc \in {"count", "send"}) \in Int /\ One(th[c].pc \in {"count", "send"}) \in Int
    BY DEF One
  <2>3. pending' = Cardinality(InHtc') + Cardinality(Counted')
    <3> DEFINE a == One(u.pc \in {"count", "send"})
               b == One(th[c].pc \in {"count", "send"})
               m == Cardinality(Counted)
               n == Cardinality(Counted')
               h == Cardinality(InHtc)
               i == Cardinality(InHtc')
    <3>1. /\ a \in Int /\ b \in Int /\ m \in Nat /\ n \in Nat /\ h \in Nat
          /\ n = m + a - b /\ pending = h + m /\ i = h + k /\ pending' = pending + k + a - b
      BY <1>2, <1>5, <2>1, <2>2
    <3> HIDE DEF a, b, m, n, h, i
    <3>2. pending' = i + n
      BY <3>1
    <3> QED
      BY <3>2 DEF i, n
  <2>4. Cardinality(InHtc') + Cardinality(Sending') < MaxCmds
    BY <1>7 DEF RoomLeft
  <2>5. Cardinality(InHtc') < MaxCmds
    BY <2>4, <1>2, <1>5
  <2> QED
    BY <2>3, <2>5 DEF WindowExact
<1>9. InOnePlace' /\ OrderKept' /\ LookupExact' /\ IsInjective(order)'
  BY PipeBack
<1> QED
  BY <1>4, <1>6, <1>7, <1>8, <1>9 DEF IndInv, PipelineExact

\* Whoever is counted as sending keeps the count above 0.
LEMMA CountedSome ==
  ASSUME IndInv, NEW c \in Ctx, th[c].pc \in {"count", "send"}
  PROVE  pending >= 1
<1>1. TypeOK /\ WindowExact
  BY DEF IndInv, PipelineExact
<1>2. c \in Counted /\ Counted \in SUBSET Ctx
  BY DEF Counted
<1>3. Cardinality(Counted) \in Nat /\ Cardinality(Counted \ {c}) \in Nat
      /\ Cardinality(Counted \ {c}) = Cardinality(Counted) - One(c \in Counted)
  BY <1>2, CountMove
<1>4. Cardinality(InHtc) \in Nat /\ pending = Cardinality(InHtc) + Cardinality(Counted)
  BY <1>1, Types DEF WindowExact
<1> QED
  BY <1>2, <1>3, <1>4 DEF One

\* A context that does not drain, and handles no completion, moves.
LEMMA QuietMove ==
  ASSUME IndInv, NEW c, NEW u, Moves(c, u), draining' = draining,
         ~Draining(th[c]), ~Draining(u), th[c].pc # "found", u.pc # "found"
  PROVE  OneDrainer' /\ Drainer' = Drainer /\ Reaped' = Reaped
<1>1. th \in [Ctx -> Context] /\ draining \in BOOLEAN
  BY Types DEF IndInv
<1>2. OneDrainer /\ OneHolder
  BY DEF IndInv, PipelineExact
<1>3. OneDrainer' /\ Drainer' = Drainer
  BY <1>1, <1>2, DrainMoves
<1>4. Reaped' = Reaped
  BY <1>1, <1>2, ReapedMoves
<1> QED
  BY <1>3, <1>4

\* The packets do not move.
LEMMA PipeStays ==
  ASSUME IndInv, Drainer' = Drainer, Reaped' = Reaped,
         UNCHANGED <<ring, txq, lookup, order>>
  PROVE  /\ Pipe(Drainer', Reaped', ring', txq', lookup', order')
         /\ UNCHANGED <<usage, bus, stolen>> => PmBalanced'
         /\ /\ creditFlow' = creditFlow /\ dma' = dma
            /\ credits' \in Nat /\ held' \in Nat /\ leaked' \in Nat
            /\ creditFlow => credits' + held' + leaked' = credits + held + leaked
            => CreditsExact'
         /\ InHtc' = InHtc /\ Cardinality(InHtc') = Cardinality(InHtc) + 0
<1>1. /\ Pipe(Drainer, Reaped, ring, txq, lookup, order)
      /\ ~stolen => usage = Gets(Drainer, Reaped, ring) /\ (bus # "on" => usage = 0)
      /\ creditFlow => credits + Pays(Drainer, ring, dma) + held + leaked = Total
  BY PipeOf
<1>2. /\ credits \in Nat /\ held \in Nat /\ leaked \in Nat /\ Total \in Nat
      /\ Cardinality(InHtc) \in Nat
  BY Types, TheConstants DEF IndInv
<1>3. Pipe(Drainer', Reaped', ring', txq', lookup', order')
  BY <1>1
<1>4. ASSUME UNCHANGED <<usage, bus, stolen>> PROVE PmBalanced'
  <2>1. ~stolen' => usage' = Gets(Drainer', Reaped', ring') /\ (bus' # "on" => usage' = 0)
    BY <1>1, <1>4
  <2> QED
    BY <2>1, PipeBack
<1>5. ASSUME creditFlow' = creditFlow, dma' = dma,
             credits' \in Nat, held' \in Nat, leaked' \in Nat,
             creditFlow => credits' + held' + leaked' = credits + held + leaked
      PROVE  CreditsExact'
  <2>1. CASE creditFlow
    <3>1. Pays(Drainer, ring, dma) = Pays(Drainer', ring', dma')
      BY <1>5
    <3>2. Pays(Drainer, ring, dma) \in Nat
      BY PaysType
    <3>4. /\ credits + Pays(Drainer, ring, dma) + held + leaked = Total
          /\ credits' + held' + leaked' = credits + held + leaked
      BY <1>1, <1>5, <2>1
    <3>5. credits' + Pays(Drainer, ring, dma) + held' + leaked' = Total
      <4> DEFINE p == Pays(Drainer, ring, dma)
                 b == credits'
                 g == held'
                 k == leaked'
      <4>1. /\ p \in Int /\ b \in Int /\ g \in Int /\ k \in Int
            /\ b + g + k = credits + held + leaked /\ credits + p + held + leaked = Total
        BY <1>5, <3>2, <3>4
      <4>2. credits \in Int /\ held \in Int /\ leaked \in Int
        BY <1>2
      <4> HIDE DEF p, b, g, k
      <4>3. b + p + g + k = credits + p + held + leaked
        BY <4>1, <4>2
      <4> QED
        BY <4>1, <4>3 DEF p, b, g, k
    <3>3. credits' + Pays(Drainer', ring', dma') + held' + leaked' = Total
      BY <3>1, <3>5
    <3> QED
      BY <3>3, PipeBack
  <2>2. CASE ~creditFlow
    BY <1>5, <2>2, PipeBack
  <2> QED
    BY <2>1, <2>2
<1>6. InHtc' = InHtc
  BY DEF InHtc
<1> QED
  BY <1>2, <1>3, <1>4, <1>5, <1>6

\* A context that does not drain, and handles no completion, moves; the packets
\* of HTC stay where they are.
LEMMA QuietStep ==
  ASSUME IndInv, TypeOK', NEW c, NEW u, Moves(c, u), ContextFits(u), draining' = draining,
         ~Draining(th[c]), ~Draining(u), th[c].pc # "found", u.pc # "found",
         UNCHANGED <<creditFlow, ring, txq, lookup, order, dma, usage, bus, stolen>>,
         creditFlow => credits' + held' + leaked' = credits + held + leaked,
         free' = free + One(th[c].cmpl) - One(u.cmpl),
         pending' = pending + One(u.pc \in {"count", "send"})
                      - One(th[c].pc \in {"count", "send"}),
         u.pc \in {"count", "send"} =>
           /\ c \in Senders /\ u.pkt \notin InHtc
           /\ \A d \in Counted : d # c => th[d].pkt # u.pkt,
         u.pc = "send" => th[c].pc = "count" /\ pending < MaxCmds
  PROVE  IndInv'
<1>1. /\ th \in [Ctx -> Context] /\ free \in Nat /\ Len(ring) \in Nat /\ pending \in Nat
      /\ OneHolder
  BY Types DEF IndInv
<1>2. OneDrainer' /\ Drainer' = Drainer /\ Reaped' = Reaped
  BY QuietMove
<1>3. credits' \in Nat /\ held' \in Nat /\ leaked' \in Nat
  BY DEF TypeOK
<1>4. /\ Pipe(Drainer', Reaped', ring', txq', lookup', order') /\ PmBalanced' /\ CreditsExact'
      /\ InHtc' = InHtc /\ Cardinality(InHtc') = Cardinality(InHtc) + 0
  BY <1>2, <1>3, PipeStays
<1>5. \A d \in Counted : d # c => th[d].pkt \notin InHtc'
  BY <1>1, <1>4 DEF OneHolder
<1>6. OneHolder'
  BY <1>1, <1>4, <1>5, HolderMoves
<1>7. /\ One(th[c].cmpl) \in Int /\ One(u.cmpl) \in Int
      /\ One(u.pc \in {"count", "send"}) \in Int /\ One(th[c].pc \in {"count", "send"}) \in Int
  BY DEF One
<1>8. free' + Len(ring') = free + Len(ring) + One(th[c].cmpl) - One(u.cmpl)
  <2> DEFINE a == One(th[c].cmpl)
             b == One(u.cmpl)
             f == free'
             l == Len(ring)
  <2>1. a \in Int /\ b \in Int /\ f = free + a - b /\ Len(ring') = l /\ l \in Int /\ free \in Int
    BY <1>1, <1>7
  <2> HIDE DEF a, b, f, l
  <2>2. f + l = free + l + a - b
    BY <2>1
  <2> QED
    BY <2>1, <2>2 DEF a, b, f, l
<1>9. pending' = pending + 0 + One(u.pc \in {"count", "send"})
                   - One(th[c].pc \in {"count", "send"})
  BY <1>1, <1>7
<1>10. 0 \in Int /\ 0 <= 0
  OBVIOUS
<1> QED
  BY <1>2, <1>4, <1>6, <1>8, <1>9, <1>10, Close

\* Command p is counted.
LEMMA CmdCountKeeps ==
  ASSUME IndInv, NEW c \in Ctx, NEW p \in Pkt, CmdCount(c, p)
  PROVE  IndInv'
<1> DEFINE u == [Idle EXCEPT !.pc = "count", !.pkt = p]
<1>1. /\ TypeOK /\ th \in [Ctx -> Context] /\ Idle \in Context /\ pending \in Nat /\ p # NoPkt
  BY Types, TheConstants DEF IndInv
<1>2. /\ c \in Senders /\ th[c].pc = "idle" /\ ~th[c].cmpl /\ pending' = pending + 1
      /\ UNCHANGED <<creditFlow, epVars, pipeVars, pmVars, done, histVars>>
  BY DEF CmdCount, Idle
<1>3. u \in Context /\ u.pc = "count" /\ u.pkt = p /\ u.cmpl = FALSE /\ u.q = <<>>
  BY <1>1 DEF Idle, Context
<1>4. Moves(c, u)
  BY <1>3 DEF CmdCount, Moves
<1> HIDE DEF u
<1>5. ContextFits(u)
  BY <1>1, <1>3 DEF ContextFits
<1>6. p \notin InHtc /\ \A d \in Senders : th[d].pkt # p
  <2>1. Taken = 1..(p - 1) /\ p \notin 1..(p - 1)
    BY DEF CmdCount, Pkt
  <2> QED
    BY <2>1 DEF Taken, InHtc
<1>7. \A d \in Counted : d # c => th[d].pkt # u.pkt
  BY <1>3, <1>6 DEF IndInv, OneHolder
<1>8. TypeOK'
  BY <1>1, <1>2, <1>4, Moved DEF TypeOK, epVars, pipeVars, pmVars, histVars
<1>9. /\ UNCHANGED <<creditFlow, ring, txq, lookup, order, dma, usage, bus, stolen>>
      /\ UNCHANGED <<draining, credits, held, leaked, free>>
  BY <1>2 DEF epVars, pipeVars, pmVars, histVars
<1>10. ~Draining(th[c]) /\ ~Draining(u)
  BY <1>2, <1>3 DEF Draining
<1>11. /\ free' = free + One(th[c].cmpl) - One(u.cmpl)
       /\ pending' = pending + One(u.pc \in {"count", "send"})
                       - One(th[c].pc \in {"count", "send"})
  BY <1>1, <1>2, <1>3, <1>9, Types DEF One
<1> QED
  BY <1>2, <1>3, <1>4, <1>5, <1>6, <1>7, <1>8, <1>9, <1>10, <1>11, QuietStep

\* The command is refused, or fails before HTC has it.
LEMMA CmdEndKeeps ==
  ASSUME IndInv, NEW c \in Ctx, CmdRefuse(c) \/ CmdFail(c)
  PROVE  IndInv'
<1>1. /\ TypeOK /\ th \in [Ctx -> Context] /\ Idle \in Context /\ pending \in Nat
      /\ ContextFits(th[c])
  BY Types DEF IndInv
<1>2. /\ th[c].pc \in {"count", "send"} /\ pending' = pending - 1
      /\ done' = done \cup {th[c].pkt} /\ th' = [th EXCEPT ![c] = Idle]
      /\ UNCHANGED <<creditFlow, epVars, pipeVars, pmVars, histVars>>
  BY DEF CmdRefuse, CmdFail
<1>3. Moves(c, Idle) /\ Idle.pc = "idle" /\ Idle.cmpl = FALSE /\ Idle.pkt = NoPkt /\ Idle.q = <<>>
  BY <1>1, <1>2 DEF Moves, Idle
<1>4. ContextFits(Idle)
  BY <1>3 DEF ContextFits
<1>5. pending >= 1
  BY <1>2, CountedSome
<1>6. ~th[c].cmpl /\ th[c].pkt \in Pkt
  BY <1>1, <1>2 DEF ContextFits, Context
<1>7. pending' \in Nat /\ done' \in SUBSET Pkt
  BY <1>1, <1>2, <1>5, <1>6 DEF TypeOK
<1>8. TypeOK'
  BY <1>1, <1>2, <1>3, <1>7, Moved DEF TypeOK, epVars, pipeVars, pmVars, histVars
<1>9. /\ UNCHANGED <<creditFlow, ring, txq, lookup, order, dma, usage, bus, stolen>>
      /\ UNCHANGED <<draining, credits, held, leaked, free>>
  BY <1>2 DEF epVars, pipeVars, pmVars, histVars
<1>10. ~Draining(th[c]) /\ ~Draining(Idle)
  BY <1>2, <1>3 DEF Draining
<1>11. /\ free' = free + One(th[c].cmpl) - One(Idle.cmpl)
       /\ pending' = pending + One(Idle.pc \in {"count", "send"})
                       - One(th[c].pc \in {"count", "send"})
  BY <1>1, <1>2, <1>3, <1>6, <1>9, Types DEF One
<1>12. th[c].pc # "found"
  BY <1>2
<1> QED
  BY <1>3, <1>4, <1>8, <1>9, <1>10, <1>11, <1>12, QuietStep

\* The window is open: the command goes on to HTC.
LEMMA CmdSendKeeps ==
  ASSUME IndInv, NEW c \in Ctx, CmdSend(c)
  PROVE  IndInv'
<1> DEFINE u == [th[c] EXCEPT !.pc = "send"]
<1>1. /\ TypeOK /\ th \in [Ctx -> Context] /\ th[c] \in Context /\ pending \in Nat
      /\ ContextFits(th[c]) /\ OneHolder
  BY Types DEF IndInv
<1>2. /\ th[c].pc = "count" /\ pending < MaxCmds /\ th' = [th EXCEPT ![c] = u]
      /\ UNCHANGED <<creditFlow, epVars, pipeVars, pmVars, wmiVars, histVars>>
  BY DEF CmdSend
<1>3. /\ u \in Context /\ u.pc = "send" /\ u.pkt = th[c].pkt /\ u.cmpl = th[c].cmpl
      /\ u.q = th[c].q
  BY <1>1 DEF Context
<1>4. Moves(c, u)
  BY <1>2, <1>3 DEF Moves
<1> HIDE DEF u
<1>5. ContextFits(u) /\ ~th[c].cmpl
  BY <1>1, <1>2, <1>3 DEF ContextFits
<1>6. c \in Counted
  BY <1>2 DEF Counted
<1>7. c \in Senders /\ u.pkt \notin InHtc /\ \A d \in Counted : d # c => th[d].pkt # u.pkt
  BY <1>1, <1>3, <1>6 DEF OneHolder
<1>8. TypeOK'
  BY <1>1, <1>2, <1>4, Moved DEF TypeOK, epVars, pipeVars, pmVars, wmiVars, histVars
<1>9. /\ UNCHANGED <<creditFlow, ring, txq, lookup, order, dma, usage, bus, stolen>>
      /\ UNCHANGED <<draining, credits, held, leaked, free, pending>>
  BY <1>2 DEF epVars, pipeVars, pmVars, wmiVars, histVars
<1>10. ~Draining(th[c]) /\ ~Draining(u)
  BY <1>2, <1>3 DEF Draining
<1>11. /\ free' = free + One(th[c].cmpl) - One(u.cmpl)
       /\ pending' = pending + One(u.pc \in {"count", "send"})
                       - One(th[c].pc \in {"count", "send"})
  BY <1>1, <1>2, <1>3, <1>9, Types DEF One
<1> QED
  BY <1>2, <1>3, <1>4, <1>5, <1>7, <1>8, <1>9, <1>10, <1>11, QuietStep

\* An entry of the pipe is given back.
LEMMA AllowSendKeeps ==
  ASSUME IndInv, NEW c \in Ctx, AllowSend(c)
  PROVE  IndInv'
<1>1. /\ TypeOK /\ th \in [Ctx -> Context] /\ Idle \in Context /\ pending \in Nat /\ free \in Nat
      /\ ContextFits(th[c])
  BY Types DEF IndInv
<1>2. /\ th[c].pc = "allow" /\ free' = free + 1 /\ th' = [th EXCEPT ![c] = Idle]
      /\ UNCHANGED <<creditFlow, epVars, ring, dma, held, asked, pmVars, wmiVars, histVars>>
  BY DEF AllowSend
<1>3. Moves(c, Idle) /\ Idle.pc = "idle" /\ Idle.cmpl = FALSE /\ Idle.pkt = NoPkt /\ Idle.q = <<>>
  BY <1>1, <1>2 DEF Moves, Idle
<1>4. ContextFits(Idle)
  BY <1>3 DEF ContextFits
<1>5. th[c].cmpl
  BY <1>1, <1>2 DEF ContextFits
<1>6. TypeOK'
  BY <1>1, <1>2, <1>3, Moved DEF TypeOK, epVars, pmVars, wmiVars, histVars
<1>7. /\ UNCHANGED <<creditFlow, ring, txq, lookup, order, dma, usage, bus, stolen>>
      /\ UNCHANGED <<draining, credits, held, leaked, pending>>
  BY <1>2 DEF epVars, pmVars, wmiVars, histVars
<1>8. ~Draining(th[c]) /\ ~Draining(Idle) /\ th[c].pc # "found"
  BY <1>2, <1>3 DEF Draining
<1>9. /\ free' = free + One(th[c].cmpl) - One(Idle.cmpl)
      /\ pending' = pending + One(Idle.pc \in {"count", "send"})
                      - One(th[c].pc \in {"count", "send"})
  BY <1>1, <1>2, <1>3, <1>5, <1>7 DEF One
<1> QED
  BY <1>3, <1>4, <1>6, <1>7, <1>8, <1>9, QuietStep

\* A context that was idle looks at the queue.
LEMMA WakeFacts ==
  ASSUME TypeOK, NEW c \in Ctx, th[c] = Idle, NEW s \in {"try", "idle"},
         th' = [th EXCEPT ![c].pc = s]
  PROVE  LET u == [Idle EXCEPT !.pc = s]
         IN  /\ Moves(c, u) /\ ContextFits(u) /\ u.pc = s /\ u.cmpl = FALSE
             /\ ~Draining(th[c]) /\ ~Draining(u) /\ th[c].pc = "idle" /\ th[c].cmpl = FALSE
             /\ th' \in [Ctx -> Context]
<1> DEFINE u == [Idle EXCEPT !.pc = s]
<1>1. th \in [Ctx -> Context] /\ Idle \in Context
  BY Types
<1>2. u \in Context /\ u.pc = s /\ u.pkt = NoPkt /\ u.q = <<>> /\ u.cmpl = FALSE
  BY <1>1 DEF Idle, Context
<1>3. th' = [th EXCEPT ![c] = u]
  OBVIOUS
<1> HIDE DEF u
<1>4. Moves(c, u)
  BY <1>2, <1>3 DEF Moves
<1>5. ContextFits(u) /\ ~Draining(u)
  BY <1>2 DEF ContextFits, Draining
<1>6. ~Draining(th[c]) /\ th[c].pc = "idle" /\ th[c].cmpl = FALSE
  BY DEF Idle, Draining
<1>7. th' \in [Ctx -> Context]
  BY <1>1, <1>4, Moved
<1> QED
  BY <1>2, <1>4, <1>5, <1>6, <1>7 DEF u

\* Credits come back.
LEMMA CreditRptKeeps ==
  ASSUME IndInv, NEW n \in 1..held, CreditRpt(n)
  PROVE  IndInv'
<1> DEFINE s == IF txq # <<>> THEN "try" ELSE "idle"
           u == [Idle EXCEPT !.pc = s]
<1>1. /\ TypeOK /\ pending \in Nat /\ free \in Nat /\ credits \in Nat /\ held \in Nat
      /\ leaked \in Nat /\ n \in Nat /\ n <= held /\ Rx \in Ctx
  BY Types DEF IndInv, Ctx
<1>2. /\ th[Rx] = Idle /\ held' = held - n /\ credits' = credits + n
      /\ asked' = (asked /\ held' > 0) /\ th' = [th EXCEPT ![Rx].pc = s]
      /\ UNCHANGED <<creditFlow, txq, lookup, draining, need, order, free, ring, dma, pmVars,
                     wmiVars, histVars>>
  BY DEF CreditRpt
<1>3. s \in {"try", "idle"}
  OBVIOUS
<1>4. /\ Moves(Rx, u) /\ ContextFits(u) /\ u.pc = s /\ u.cmpl = FALSE
      /\ ~Draining(th[Rx]) /\ ~Draining(u) /\ th[Rx].pc = "idle" /\ th[Rx].cmpl = FALSE
      /\ th' \in [Ctx -> Context]
  BY <1>1, <1>2, <1>3, WakeFacts
<1> HIDE DEF s, u
<1>5. held' \in Nat /\ credits' \in Nat
  BY <1>1, <1>2
<1>6. TypeOK'
  BY <1>1, <1>2, <1>4, <1>5 DEF TypeOK, pmVars, wmiVars, histVars
<1>7. /\ UNCHANGED <<creditFlow, ring, txq, lookup, order, dma, usage, bus, stolen>>
      /\ UNCHANGED <<draining, leaked, pending, free>>
  BY <1>2 DEF pmVars, wmiVars, histVars
<1>8. credits' + held' + leaked' = credits + held + leaked
  BY <1>1, <1>2, <1>7
<1>9. /\ free' = free + One(th[Rx].cmpl) - One(u.cmpl)
      /\ pending' = pending + One(u.pc \in {"count", "send"})
                      - One(th[Rx].pc \in {"count", "send"})
      /\ th[Rx].pc # "found" /\ u.pc # "found" /\ u.pc \notin {"count", "send"}
  BY <1>1, <1>3, <1>4, <1>7 DEF One
<1> QED
  BY <1>4, <1>6, <1>7, <1>8, <1>9, QuietStep

\* The work kicks the queue.
LEMMA KickQueuesKeeps ==
  ASSUME IndInv, KickQueues
  PROVE  IndInv'
<1> DEFINE u == [Idle EXCEPT !.pc = "try"]
<1>1. TypeOK /\ pending \in Nat /\ free \in Nat /\ Work \in Ctx
  BY Types DEF IndInv, Ctx
<1>2. /\ th[Work] = Idle /\ kick' = FALSE /\ th' = [th EXCEPT ![Work].pc = "try"]
      /\ UNCHANGED <<creditFlow, epVars, pipeVars, usage, bus, stolen, wmiVars, histVars>>
  BY DEF KickQueues
<1>3. /\ Moves(Work, u) /\ ContextFits(u) /\ u.pc = "try" /\ u.cmpl = FALSE
      /\ ~Draining(th[Work]) /\ ~Draining(u) /\ th[Work].pc = "idle" /\ th[Work].cmpl = FALSE
      /\ th' \in [Ctx -> Context]
  BY <1>1, <1>2, WakeFacts
<1> HIDE DEF u
<1>4. TypeOK'
  BY <1>1, <1>2, <1>3 DEF TypeOK, epVars, pipeVars, wmiVars, histVars
<1>5. /\ UNCHANGED <<creditFlow, ring, txq, lookup, order, dma, usage, bus, stolen>>
      /\ UNCHANGED <<draining, leaked, credits, held, pending, free>>
  BY <1>2 DEF epVars, pipeVars, wmiVars, histVars
<1>6. /\ free' = free + One(th[Work].cmpl) - One(u.cmpl)
      /\ pending' = pending + One(u.pc \in {"count", "send"})
                      - One(th[Work].pc \in {"count", "send"})
      /\ th[Work].pc # "found" /\ u.pc # "found" /\ u.pc \notin {"count", "send"}
  BY <1>1, <1>3, <1>5 DEF One
<1> QED
  BY <1>3, <1>4, <1>5, <1>6, QuietStep

-----------------------------------------------------------------------------
(***************************************************************************)
(* Steps of the bus, the firmware and the flush: no context moves.         *)
(***************************************************************************)
\* Ring, hands, queue and completions share no packet.
Apart(D, R, rg, tq, od) ==
  /\ IsInjective(rg) /\ IsInjective(Has(D)) /\ IsInjective(tq)
  /\ ToSet(rg) \cap ToSet(Has(D)) = {} /\ ToSet(rg) \cap ToSet(tq) = {}
  /\ ToSet(Has(D)) \cap ToSet(tq) = {}
  /\ (ToSet(rg) \cup ToSet(Has(D)) \cup ToSet(tq)) \cap R = {}
  /\ ToSet(od) = ToSet(rg) \cup ToSet(Has(D)) \cup ToSet(tq) \cup R
  /\ ToSet(rg \o Has(D)) = ToSet(rg) \cup ToSet(Has(D))
  /\ ToSet(Has(D)) = ToSet(HandOf(D)) \cup ToSet(D.q)
  /\ ToSet(HandOf(D)) \cap ToSet(D.q) = {} /\ IsInjective(D.q)
  /\ R \subseteq Pkt /\ od \in Seq(Pkt)

\* The packets of the copy engine, of the context that drains and of the queue
\* are different ones.
LEMMA PipeMembers ==
  ASSUME NEW D \in Context, NEW R, NEW rg \in Seq(Pkt), NEW tq \in Seq(Pkt), NEW lk, NEW od,
         Pipe(D, R, rg, tq, lk, od)
  PROVE  Apart(D, R, rg, tq, od)
<1>1. HandOf(D) \in Seq(Pkt) /\ D.q \in Seq(Pkt) /\ Has(D) \in Seq(Pkt)
  BY HandType
<1> DEFINE a == rg \o Has(D)
<1>2. /\ a \in Seq(Pkt) /\ ToSet(a) = ToSet(rg) \cup ToSet(Has(D))
      /\ IsInjective(a) <=>
           IsInjective(rg) /\ IsInjective(Has(D)) /\ ToSet(rg) \cap ToSet(Has(D)) = {}
  BY <1>1, ConcatMembers
<1>3. Placed(a \o tq, R, od)
  BY DEF Pipe
<1> HIDE DEF a
<1>4. /\ ToSet(a \o tq) = ToSet(a) \cup ToSet(tq)
      /\ IsInjective(a \o tq) <=> IsInjective(a) /\ IsInjective(tq) /\ ToSet(a) \cap ToSet(tq) = {}
  BY <1>2, ConcatMembers
<1>5. /\ ToSet(HandOf(D) \o D.q) = ToSet(HandOf(D)) \cup ToSet(D.q)
      /\ IsInjective(HandOf(D) \o D.q) <=>
           IsInjective(HandOf(D)) /\ IsInjective(D.q) /\ ToSet(HandOf(D)) \cap ToSet(D.q) = {}
  BY <1>1, ConcatMembers
<1>6. /\ IsInjective(rg) /\ IsInjective(Has(D)) /\ IsInjective(tq)
      /\ ToSet(rg) \cap ToSet(Has(D)) = {} /\ ToSet(a) \cap ToSet(tq) = {}
  BY <1>2, <1>3, <1>4 DEF Placed
<1>7. /\ (ToSet(a) \cup ToSet(tq)) \cap R = {} /\ ToSet(od) = ToSet(a) \cup ToSet(tq) \cup R
      /\ R \subseteq Pkt /\ od \in Seq(Pkt)
  BY <1>3, <1>4 DEF Placed
<1>8. /\ ToSet(Has(D)) = ToSet(HandOf(D)) \cup ToSet(D.q)
      /\ ToSet(HandOf(D)) \cap ToSet(D.q) = {} /\ IsInjective(D.q)
  BY <1>5, <1>6 DEF Has
<1>9. /\ ToSet(rg) \cap ToSet(tq) = {} /\ ToSet(Has(D)) \cap ToSet(tq) = {}
      /\ (ToSet(rg) \cup ToSet(Has(D)) \cup ToSet(tq)) \cap R = {}
      /\ ToSet(od) = ToSet(rg) \cup ToSet(Has(D)) \cup ToSet(tq) \cup R
  BY <1>2, <1>6, <1>7
<1> QED
  BY <1>2, <1>6, <1>7, <1>8, <1>9 DEF Apart, a

\* The same, of the state.
LEMMA PipeApart ==
  ASSUME IndInv
  PROVE  Apart(Drainer, Reaped, ring, txq, order)
<1>1. Drainer \in Context /\ ring \in Seq(Pkt) /\ txq \in Seq(Pkt)
  BY Types DEF IndInv
<1>2. Pipe(Drainer, Reaped, ring, txq, lookup, order)
  BY PipeOf
<1> QED
  BY <1>1, <1>2, PipeMembers

\* No context moves.
LEMMA StayFacts ==
  ASSUME IndInv, th' = th, draining' = draining, InHtc' \subseteq InHtc
  PROVE  /\ Moves(Rx, th[Rx]) /\ ContextFits(th[Rx])
         /\ OneDrainer' /\ Drainer' = Drainer /\ Reaped' = Reaped /\ OneHolder'
<1>1. th \in [Ctx -> Context] /\ Rx \in Ctx
  BY Types DEF IndInv, Ctx
<1>2. Moves(Rx, th[Rx]) /\ ContextFits(th[Rx])
  BY <1>1 DEF Moves, IndInv
<1>3. Drainers' = Drainers /\ Finders' = Finders /\ Counted' = Counted
  BY DEF Drainers, Finders, Counted, Draining
<1>4. Drainer' = Drainer /\ Reaped' = Reaped
  BY <1>3 DEF Drainer, Reaped, Idle
<1>5. OneDrainer'
  <2>1. draining <=> Drainers # {}
    BY DEF IndInv, PipelineExact, OneDrainer
  <2>2. \A d, e \in Drainers : d = e
    BY DEF IndInv, PipelineExact, OneDrainer
  <2>3. draining' <=> Drainers' # {}
    BY <1>3, <2>1
  <2>4. \A d, e \in Drainers' : d = e
    BY <1>3, <2>2
  <2> QED
    BY <2>3, <2>4 DEF OneDrainer
<1>6. OneHolder'
  <2>1. OneHolder
    BY DEF IndInv
  <2>2. /\ Counted' \subseteq Senders
        /\ \A c, d \in Counted' : th'[c].pkt = th'[d].pkt => c = d
        /\ \A c \in Counted' : th'[c].pkt \notin InHtc'
        /\ \A c, d \in Finders' : th'[c].pkt = th'[d].pkt => c = d
    BY <1>3, <2>1 DEF OneHolder
  <2> QED
    BY <2>2 DEF OneHolder
<1> QED
  BY <1>2, <1>4, <1>5, <1>6

\* The bus is suspended or resumed.
LEMMA BusKeeps ==
  ASSUME IndInv, Suspend \/ Resume
  PROVE  IndInv'
<1>1. /\ TypeOK /\ free \in Nat /\ Len(ring) \in Nat /\ pending \in Nat
  BY Types DEF IndInv
<1>2. /\ UNCHANGED <<creditFlow, epVars, pipeVars, usage, stolen, wmiVars, th, histVars>>
      /\ bus' \in {"on", "off"} /\ (bus' # "on" => usage = 0) /\ kick' \in BOOLEAN
  BY <1>1 DEF Suspend, Resume, TypeOK
<1>3. TypeOK'
  BY <1>1, <1>2 DEF TypeOK, epVars, pipeVars, wmiVars, histVars
<1>4. UNCHANGED <<creditFlow, txq, lookup, order, ring, dma, credits, held, leaked, free,
                  pending, draining, usage, stolen, th>>
  BY <1>2 DEF epVars, pipeVars, wmiVars, histVars
<1>5. InHtc' = InHtc
  BY <1>4 DEF InHtc
<1>6. /\ Moves(Rx, th[Rx]) /\ ContextFits(th[Rx])
      /\ OneDrainer' /\ Drainer' = Drainer /\ Reaped' = Reaped /\ OneHolder'
  BY <1>4, <1>5, StayFacts
<1>7. credits' \in Nat /\ held' \in Nat /\ leaked' \in Nat
  BY <1>3 DEF TypeOK
<1>8. /\ Pipe(Drainer', Reaped', ring', txq', lookup', order') /\ CreditsExact'
      /\ Cardinality(InHtc') = Cardinality(InHtc) + 0
  BY <1>4, <1>6, <1>7, PipeStays
<1>9. PmBalanced'
  <2>1. ~stolen => usage = Gets(Drainer, Reaped, ring)
    BY PipeOf
  <2>2. ~stolen' => usage' = Gets(Drainer', Reaped', ring') /\ (bus' # "on" => usage' = 0)
    BY <1>2, <1>4, <1>6, <2>1
  <2> QED
    BY <2>2, PipeBack
<1>10. /\ free' + Len(ring') = free + Len(ring) + One(th[Rx].cmpl) - One(th[Rx].cmpl)
       /\ pending' = pending + 0 + One(th[Rx].pc \in {"count", "send"})
                       - One(th[Rx].pc \in {"count", "send"})
       /\ 0 \in Int /\ 0 <= 0
  BY <1>1, <1>4 DEF One
<1> QED
  BY <1>3, <1>6, <1>8, <1>9, <1>10, Close

\* The credits of a command go to the firmware with it.
LEMMA PaysReceive ==
  ASSUME NEW D \in Context, NEW rg \in Seq(Pkt), IsInjective(rg),
         ToSet(rg) \cap ToSet(Has(D)) = {}, NEW n \in Nat, n < Len(rg)
  PROVE  /\ Pays(D, rg, n) = Cost(rg[n + 1]) + Pays(D, rg, n + 1)
         /\ Pays(D, rg, n + 1) \in Nat /\ Cost(rg[n + 1]) \in Nat /\ rg[n + 1] \in Pkt
<1> DEFINE p == rg[n + 1]
           s == SubSeq(rg, n + 1, Len(rg))
           b == SubSeq(rg, n + 1 + 1, Len(rg))
           f == SubSeq(rg, 1, n)
           x == IF D.pc = "putback" THEN {} ELSE ToSet(Has(D))
<1>1. Len(rg) \in Nat /\ n \in 0..Len(rg) /\ n + 1 \in 0..Len(rg) /\ n + 1 \in 1..Len(rg)
  BY LenProperties
<1>2. p \in Pkt
  BY <1>1, ElementOfSeq
<1>3. s \in Seq(Pkt) /\ rg = f \o s /\ f \in Seq(Pkt)
  BY <1>1, SplitAt
<1>4. b \in Seq(Pkt)
  BY <1>1, SplitAt
<1>5. s = <<p>> \o b
  BY <1>1, SubSeqRecursiveFirst
<1>6. Has(D) \in Seq(Pkt)
  BY HandType
<1>7. <<p>> \in Seq(Pkt) /\ ToSet(<<p>>) = {p}
  BY <1>2, ShortLists
<1> HIDE DEF p, s, b, f
<1>8. IsInjective(s) /\ ToSet(s) \subseteq ToSet(rg)
  <2>1. /\ ToSet(f \o s) = ToSet(f) \cup ToSet(s)
        /\ IsInjective(f \o s) <=> IsInjective(f) /\ IsInjective(s) /\ ToSet(f) \cap ToSet(s) = {}
    BY <1>3, ConcatMembers
  <2> QED
    BY <2>1, <1>3
<1>9. ToSet(s) = {p} \cup ToSet(b) /\ {p} \cap ToSet(b) = {}
  <2>1. /\ ToSet(<<p>> \o b) = ToSet(<<p>>) \cup ToSet(b)
        /\ IsInjective(<<p>> \o b) <=>
             IsInjective(<<p>>) /\ IsInjective(b) /\ ToSet(<<p>>) \cap ToSet(b) = {}
    BY <1>4, <1>7, ConcatMembers
  <2> QED
    BY <2>1, <1>5, <1>7, <1>8
<1>10. x \subseteq ToSet(Has(D)) /\ ToSet(Has(D)) \subseteq Pkt /\ ToSet(b) \subseteq Pkt
  BY <1>4, <1>6, ToSetType
<1> HIDE DEF x
<1>11. /\ {p} \in SUBSET Pkt /\ ToSet(b) \cup x \in SUBSET Pkt /\ {p} \cap (ToSet(b) \cup x) = {}
       /\ ToSet(s) \cup x = {p} \cup (ToSet(b) \cup x)
  BY <1>2, <1>8, <1>9, <1>10
<1>12. /\ CostOf({p} \cup (ToSet(b) \cup x)) = CostOf({p}) + CostOf(ToSet(b) \cup x)
       /\ CostOf({p}) \in Nat /\ CostOf(ToSet(b) \cup x) \in Nat
  BY <1>11, CostSplit
<1>13. CostOf({p}) = Cost(p)
  BY <1>2, CostOne
<1>14. Pays(D, rg, n) = CostOf(ToSet(s) \cup x) /\ Pays(D, rg, n + 1) = CostOf(ToSet(b) \cup x)
  BY DEF Pays, s, b, x
<1> QED
  BY <1>2, <1>11, <1>12, <1>13, <1>14 DEF p

\* The firmware gets the next command.
LEMMA FwReceiveKeeps ==
  ASSUME IndInv, FwReceive
  PROVE  IndInv'
<1>1. /\ TypeOK /\ free \in Nat /\ Len(ring) \in Nat /\ pending \in Nat /\ dma \in Nat
      /\ ring \in Seq(Pkt) /\ txq \in Seq(Pkt) /\ Drainer \in Context /\ held \in Nat
      /\ credits \in Nat /\ leaked \in Nat /\ Total \in Nat
  BY Types, TheConstants DEF IndInv
<1>2. /\ UNCHANGED <<creditFlow, epVars, free, ring, pmVars, wmiVars, th, histVars>>
      /\ dma < Len(ring) /\ dma' = dma + 1 /\ asked' \in BOOLEAN
      /\ held' = IF creditFlow THEN held + Cost(ring[dma + 1]) ELSE 0
  BY <1>1 DEF FwReceive, TypeOK
<1>3. UNCHANGED <<creditFlow, txq, lookup, order, ring, credits, leaked, free,
                  pending, draining, usage, bus, stolen, th>>
  BY <1>2 DEF epVars, pmVars, wmiVars, histVars
<1>4. InHtc' = InHtc
  BY <1>3 DEF InHtc
<1>5. /\ Moves(Rx, th[Rx]) /\ ContextFits(th[Rx])
      /\ OneDrainer' /\ Drainer' = Drainer /\ Reaped' = Reaped /\ OneHolder'
  BY <1>3, <1>4, StayFacts
<1>6. Apart(Drainer, Reaped, ring, txq, order)
  BY PipeApart
<1>7. IsInjective(ring) /\ ToSet(ring) \cap ToSet(Has(Drainer)) = {}
  BY <1>6 DEF Apart
<1>8. /\ Pays(Drainer, ring, dma) = Cost(ring[dma + 1]) + Pays(Drainer, ring, dma + 1)
      /\ Pays(Drainer, ring, dma + 1) \in Nat /\ Cost(ring[dma + 1]) \in Nat
  BY <1>1, <1>2, <1>7, PaysReceive
<1>9. held' \in Nat /\ dma' \in 0..Len(ring')
  BY <1>1, <1>2, <1>3, <1>8
<1>10. TypeOK'
  BY <1>1, <1>2, <1>9 DEF TypeOK, epVars, pmVars, wmiVars, histVars
<1>11. /\ Pipe(Drainer', Reaped', ring', txq', lookup', order') /\ PmBalanced'
       /\ Cardinality(InHtc') = Cardinality(InHtc) + 0
  BY <1>3, <1>5, PipeStays
<1>12. CreditsExact'
  <2>1. CASE creditFlow
    <3> DEFINE a == Cost(ring[dma + 1])
               b == Pays(Drainer, ring, dma + 1)
               h == held'
    <3>1. credits + Pays(Drainer, ring, dma) + held + leaked = Total
      BY <2>1, PipeOf
    <3>2. /\ a \in Int /\ b \in Int /\ h = held + a /\ credits + (a + b) + held + leaked = Total
      BY <2>1, <3>1, <1>2, <1>8
    <3>3. Pays(Drainer', ring', dma') = b
      BY <1>2, <1>3, <1>5
    <3> HIDE DEF a, b, h
    <3>4. credits + b + h + leaked = Total
      BY <3>2, <1>1
    <3>5. credits' + Pays(Drainer', ring', dma') + held' + leaked' = Total
      BY <3>3, <3>4, <1>3 DEF h
    <3> QED
      BY <3>5, PipeBack
  <2>2. CASE ~creditFlow
    BY <2>2, <1>3, PipeBack
  <2> QED
    BY <2>1, <2>2
<1>13. /\ free' + Len(ring') = free + Len(ring) + One(th[Rx].cmpl) - One(th[Rx].cmpl)
       /\ pending' = pending + 0 + One(th[Rx].pc \in {"count", "send"})
                       - One(th[Rx].pc \in {"count", "send"})
       /\ 0 \in Int /\ 0 <= 0
  BY <1>1, <1>3 DEF One
<1> QED
  BY <1>5, <1>10, <1>11, <1>12, <1>13, Close

\* What is queued is completed.
LEMMA FlushKeeps ==
  ASSUME IndInv, Flush
  PROVE  IndInv'
<1>1. /\ TypeOK /\ free \in Nat /\ Len(ring) \in Nat /\ pending \in Nat /\ dma \in Nat
      /\ ring \in Seq(Pkt) /\ txq \in Seq(Pkt) /\ order \in Seq(Pkt) /\ Drainer \in Context
      /\ credits \in Nat /\ leaked \in Nat /\ Total \in Nat /\ Cardinality(InHtc) \in Nat
      /\ InHtc \in SUBSET Pkt /\ held \in Nat
  BY Types, TheConstants DEF IndInv
<1>2. /\ txq' = <<>> /\ pending' = pending - Len(txq) /\ done' = done \cup ToSet(txq)
      /\ need' = need \ ToSet(txq) /\ order' = Without(order, ToSet(txq))
      /\ UNCHANGED <<creditFlow, lookup, credits, draining, pipeVars, pmVars, th, histVars>>
  BY DEF Flush, Completed
<1>3. UNCHANGED <<creditFlow, lookup, ring, dma, credits, held, leaked, free,
                  draining, usage, bus, stolen, th>>
  BY <1>2 DEF pipeVars, pmVars, histVars
<1>4. /\ Pipe(Drainer, Reaped, ring, txq, lookup, order)
      /\ ~stolen => usage = Gets(Drainer, Reaped, ring) /\ (bus # "on" => usage = 0)
      /\ creditFlow => credits + Pays(Drainer, ring, dma) + held + leaked = Total
  BY PipeOf
<1>5. IsInjective(txq) /\ ToSet(txq) \subseteq ToSet(order)
  <2>1. Apart(Drainer, Reaped, ring, txq, order)
    BY PipeApart
  <2> QED
    BY <2>1 DEF Apart
<1>6. order' \in Seq(Pkt) /\ ToSet(order') = ToSet(order) \ ToSet(txq)
  <2>1. /\ Without(order, ToSet(txq)) \in Seq(Pkt)
        /\ ToSet(Without(order, ToSet(txq))) = ToSet(order) \ ToSet(txq)
    BY <1>1, WithoutMembers
  <2> QED
    BY <2>1, <1>2
<1>7. InHtc' = InHtc \ ToSet(txq) /\ InHtc' \subseteq InHtc
  BY <1>6 DEF InHtc
<1>8. Cardinality(InHtc') = Cardinality(InHtc) - Len(txq) /\ Cardinality(InHtc') \in Nat
  <2>1. IsFiniteSet(InHtc) /\ InHtc' \in SUBSET Pkt
    BY <1>1, <1>7, PktSets
  <2>2. Cardinality(InHtc') = Cardinality(InHtc) - Cardinality(InHtc \cap ToSet(txq))
    BY <1>7, <2>1, FS_Difference
  <2>3. InHtc \cap ToSet(txq) = ToSet(txq)
    BY <1>5 DEF InHtc
  <2>4. Cardinality(ToSet(txq)) = Len(txq)
    BY <1>1, <1>5, DistinctLen
  <2>5. Cardinality(InHtc') \in Nat
    BY <2>1, PktSets
  <2> QED
    BY <2>2, <2>3, <2>4, <2>5
<1>9. /\ Moves(Rx, th[Rx]) /\ ContextFits(th[Rx])
      /\ OneDrainer' /\ Drainer' = Drainer /\ Reaped' = Reaped /\ OneHolder'
  BY <1>3, <1>7, StayFacts
<1>10. Len(txq) \in Nat /\ Cardinality(Counted) \in Nat /\ <<>> \in Seq(Pkt)
  <2>1. Counted \in SUBSET Ctx
    BY DEF Counted
  <2> QED
    BY <2>1, <1>1, CtxSets, LenProperties
<1>11. pending' \in Nat
  <2>1. pending = Cardinality(InHtc) + Cardinality(Counted)
    BY DEF IndInv, PipelineExact, WindowExact
  <2> DEFINE h == Cardinality(InHtc)
             l == Len(txq)
             n == Cardinality(Counted)
             p == pending'
  <2>2. h \in Int /\ l \in Int /\ n \in Nat /\ h - l \in Nat /\ pending = h + n /\ p = pending - l
    BY <2>1, <1>1, <1>2, <1>8, <1>10
  <2> HIDE DEF h, l, n, p
  <2>3. p \in Nat
    BY <2>2
  <2> QED
    BY <2>3 DEF p
<1>12. need' \in SUBSET Pkt /\ done' \in SUBSET Pkt
  BY <1>1, <1>2, ToSetType DEF TypeOK
<1>13. TypeOK'
  BY <1>1, <1>2, <1>6, <1>10, <1>11, <1>12 DEF TypeOK, pipeVars, pmVars, histVars
<1>14. Pipe(Drainer', Reaped', ring', txq', lookup', order')
  <2> DEFINE a == ring \o Has(Drainer)
  <2>1. Has(Drainer) \in Seq(Pkt)
    BY <1>1, HandType
  <2>2. a \in Seq(Pkt)
    BY <1>1, <2>1, ConcatProperties
  <2>3. a \o <<>> = a
    BY <2>2, ConcatEmptySeq
  <2>4. /\ Placed(a \o txq, Reaped, order) /\ Ordered(a \o txq, order)
        /\ LooksUp(lookup, ring \o HandOf(Drainer), Reaped)
    BY <1>4 DEF Pipe
  <2> HIDE DEF a
  <2>5. Placed(a, Reaped, order') /\ Ordered(a, order')
    BY <1>1, <1>2, <2>2, <2>4, FlushPlaced
  <2>6. /\ Placed(a \o txq', Reaped, order') /\ Ordered(a \o txq', order')
    BY <1>2, <2>3, <2>5
  <2>7. Pipe(Drainer, Reaped, ring, txq', lookup, order')
    BY <2>4, <2>6 DEF Pipe, a
  <2> QED
    BY <2>7, <1>3, <1>9
<1>15. PmBalanced' /\ CreditsExact'
  <2>1. ~stolen' => usage' = Gets(Drainer', Reaped', ring') /\ (bus' # "on" => usage' = 0)
    BY <1>3, <1>4, <1>9
  <2>2. creditFlow' => credits' + Pays(Drainer', ring', dma') + held' + leaked' = Total
    BY <1>3, <1>4, <1>9
  <2> QED
    BY <2>1, <2>2, PipeBack
<1>16. /\ free' + Len(ring') = free + Len(ring) + One(th[Rx].cmpl) - One(th[Rx].cmpl)
       /\ Cardinality(InHtc') = Cardinality(InHtc) + (0 - Len(txq))
       /\ pending' = pending + (0 - Len(txq)) + One(th[Rx].pc \in {"count", "send"})
                       - One(th[Rx].pc \in {"count", "send"})
       /\ 0 - Len(txq) \in Int /\ 0 - Len(txq) <= 0
  BY <1>1, <1>2, <1>3, <1>8, <1>10 DEF One
<1> DEFINE k == 0 - Len(txq)
<1> HIDE DEF k
<1>17. /\ free' + Len(ring') = free + Len(ring) + One(th[Rx].cmpl) - One(th[Rx].cmpl)
       /\ Cardinality(InHtc') = Cardinality(InHtc) + k
       /\ pending' = pending + k + One(th[Rx].pc \in {"count", "send"})
                       - One(th[Rx].pc \in {"count", "send"})
       /\ k \in Int /\ k <= 0
  BY <1>16 DEF k
<1> QED
  BY <1>9, <1>13, <1>14, <1>15, <1>17, Close

-----------------------------------------------------------------------------
(***************************************************************************)
(* Completions.                                                            *)
(***************************************************************************)
\* A completion is taken from the pipe.
LEMMA ReapKeeps ==
  ASSUME IndInv, NEW c \in Ctx, Reap(c)
  PROVE  IndInv'
<1> DEFINE h == Head(ring)
           u == [Idle EXCEPT !.pc = "found", !.pkt = h, !.cmpl = TRUE]
<1>1. /\ TypeOK /\ th \in [Ctx -> Context] /\ Idle \in Context /\ free \in Nat /\ Len(ring) \in Nat
      /\ pending \in Nat /\ dma \in Nat /\ dma <= Len(ring) /\ ring \in Seq(Pkt)
      /\ txq \in Seq(Pkt) /\ Drainer \in Context /\ draining \in BOOLEAN
  BY Types DEF IndInv
<1>2. /\ th[c] = Idle /\ dma > 0 /\ ring' = Tail(ring) /\ dma' = dma - 1
      /\ th' = [th EXCEPT ![c] = u]
      /\ UNCHANGED <<creditFlow, epVars, free, held, asked, pmVars, wmiVars, histVars>>
  BY DEF Reap
<1>3. UNCHANGED <<creditFlow, txq, lookup, order, credits, held, leaked, free,
                  pending, draining, usage, bus, stolen>>
  BY <1>2 DEF epVars, pmVars, wmiVars, histVars
<1>4. ring # <<>>
  BY <1>1, <1>2
<1>5. /\ h \in Pkt /\ ring' \in Seq(Pkt) /\ Len(ring') = Len(ring) - 1 /\ ring = <<h>> \o ring'
  BY <1>1, <1>2, <1>4, HeadAndTail
<1>6. OneDrainer /\ OneHolder /\ h # NoPkt
  BY <1>5, TheConstants DEF IndInv, PipelineExact
<1>7. u \in Context /\ u.pc = "found" /\ u.pkt = h /\ u.cmpl = TRUE /\ u.q = <<>>
  BY <1>1, <1>5 DEF Idle, Context
<1>8. th[c].pc = "idle" /\ th[c].cmpl = FALSE
  BY <1>2 DEF Idle
<1> HIDE DEF u
<1>9. Moves(c, u) /\ ContextFits(u)
  BY <1>2, <1>6, <1>7 DEF Moves, ContextFits
<1>10. ~Draining(u) /\ ~Draining(th[c])
  BY <1>7, <1>8 DEF Draining
<1>11. OneDrainer' /\ Drainer' = Drainer
  BY <1>1, <1>3, <1>6, <1>9, <1>10, DrainMoves
<1>12. Reaped' = Reaped \cup {h}
  BY <1>1, <1>6, <1>7, <1>8, <1>9, ReapedMoves
<1>13. /\ Pipe(Drainer, Reaped, ring, txq, lookup, order)
       /\ ~stolen => usage = Gets(Drainer, Reaped, ring) /\ (bus # "on" => usage = 0)
       /\ creditFlow => credits + Pays(Drainer, ring, dma) + held + leaked = Total
  BY PipeOf
<1>14. Apart(Drainer, Reaped, ring, txq, order)
  BY PipeApart
<1>15. h \in ToSet(ring)
  BY <1>1, <1>4, ToSetType
<1>16. InHtc' = InHtc /\ Cardinality(InHtc) \in Nat
  BY <1>1, <1>3, Types DEF InHtc
<1>17. OneHolder'
  <2>1. \A d \in Finders : d # c => th[d].pkt # u.pkt
    BY <1>7, <1>14, <1>15 DEF Apart, Reaped
  <2>2. \A d \in Counted : d # c => th[d].pkt \notin InHtc'
    BY <1>6, <1>16 DEF OneHolder
  <2>3. u.pc \notin {"count", "send"}
    BY <1>7
  <2> QED
    BY <1>1, <1>6, <1>9, <2>1, <2>2, <2>3, HolderMoves
<1>18. dma' \in 0..Len(ring')
  BY <1>1, <1>2, <1>5
<1>19. TypeOK'
  BY <1>1, <1>2, <1>5, <1>9, <1>18, Moved DEF TypeOK, epVars, pmVars, wmiVars, histVars
<1> HIDE DEF h
<1>20. Pipe(Drainer', Reaped', ring', txq', lookup', order')
  <2> DEFINE H == Has(Drainer)
             N == HandOf(Drainer)
             r == ring'
             l == r \o H \o txq
  <2>1. H \in Seq(Pkt) /\ N \in Seq(Pkt) /\ <<h>> \in Seq(Pkt) /\ r \in Seq(Pkt)
    BY <1>1, <1>5, HandType
  <2>2. /\ Placed(ring \o H \o txq, Reaped, order) /\ Ordered(ring \o H \o txq, order)
        /\ LooksUp(lookup, ring \o N, Reaped)
    BY <1>13 DEF Pipe
  <2> HIDE DEF H, N, r
  <2>3. r \o H \in Seq(Pkt) /\ l \in Seq(Pkt) /\ r \o N \in Seq(Pkt)
    BY <2>1, <1>1, ConcatProperties
  <2>4. (<<h>> \o r) \o H = <<h>> \o (r \o H)
    BY <2>1, ConcatAssociative
  <2>9. (<<h>> \o (r \o H)) \o txq = <<h>> \o ((r \o H) \o txq)
    BY <2>1, <2>3, <1>1, ConcatAssociative
  <2>10. (<<h>> \o r) \o N = <<h>> \o (r \o N)
    BY <2>1, ConcatAssociative
  <2>5. ring \o H \o txq = <<h>> \o l /\ ring \o N = <<h>> \o (r \o N)
    BY <2>4, <2>9, <2>10, <1>5 DEF r
  <2> HIDE DEF l
  <2>11. /\ Placed(<<h>> \o l, Reaped, order) /\ Ordered(<<h>> \o l, order)
         /\ LooksUp(lookup, <<h>> \o (r \o N), Reaped)
    BY <2>2, <2>5
  <2>6. Placed(l, Reaped \cup {h}, order) /\ Ordered(l, order)
    BY ZenonT(60), <2>3, <2>11, <1>5, ReapPlaced
  <2>7. LooksUp(lookup, r \o N, Reaped \cup {h})
    BY <2>3, <2>11, <1>5, LookReap
  <2>8. Pipe(Drainer, Reaped \cup {h}, ring', txq, lookup, order)
    BY <2>6, <2>7 DEF Pipe, l, r, H, N
  <2> QED
    BY <2>8, <1>3, <1>11, <1>12
<1>21. PmBalanced'
  <2>1. ToSet(ring) = ToSet(ring') \cup {h}
    <3>1. <<h>> \in Seq(Pkt) /\ ToSet(<<h>>) = {h}
      BY <1>5, ShortLists
    <3>2. ToSet(<<h>> \o ring') = ToSet(<<h>>) \cup ToSet(ring')
      BY <3>1, <1>5, ConcatMembers
    <3> QED
      BY <3>1, <3>2, <1>5
  <2>2. /\ ToSet(ring \o Has(Drainer)) = ToSet(ring) \cup ToSet(Has(Drainer))
        /\ ToSet(ring' \o Has(Drainer)) = ToSet(ring') \cup ToSet(Has(Drainer))
    <3>1. Has(Drainer) \in Seq(Pkt)
      BY <1>1, HandType
    <3>2. ToSet(ring \o Has(Drainer)) = ToSet(ring) \cup ToSet(Has(Drainer))
      BY <3>1, <1>1, ConcatMembers
    <3>3. ToSet(ring' \o Has(Drainer)) = ToSet(ring') \cup ToSet(Has(Drainer))
      BY <3>1, <1>5, ConcatMembers
    <3> QED
      BY <3>2, <3>3
  <2>3. ToSet(ring \o Has(Drainer)) \cup Reaped = ToSet(ring' \o Has(Drainer)) \cup (Reaped \cup {h})
    BY <2>1, <2>2
  <2>4. Gets(Drainer', Reaped', ring') = Gets(Drainer, Reaped, ring)
    BY <2>3, <1>11, <1>12 DEF Gets
  <2>5. ~stolen' => usage' = Gets(Drainer', Reaped', ring') /\ (bus' # "on" => usage' = 0)
    BY <2>4, <1>3, <1>13
  <2> QED
    BY <2>5, PipeBack
<1>22. CreditsExact'
  <2>1. dma \in 1..Len(ring) /\ dma' + 1 = dma
    BY <1>1, <1>2
  <2>2. SubSeq(Tail(ring), dma, Len(Tail(ring))) = SubSeq(ring, dma + 1, Len(ring))
    BY <2>1, <1>1, <1>4, TailFrom
  <2>3. Pays(Drainer', ring', dma') = Pays(Drainer, ring, dma)
    BY <2>1, <2>2, <1>2, <1>11 DEF Pays
  <2>4. creditFlow' => credits' + Pays(Drainer', ring', dma') + held' + leaked' = Total
    BY <2>3, <1>3, <1>13
  <2> QED
    BY <2>4, PipeBack
<1>23. free' + Len(ring') = free + Len(ring) + One(th[c].cmpl) - One(u.cmpl)
  <2>1. One(th[c].cmpl) = 0 /\ One(u.cmpl) = 1
    BY <1>7, <1>8 DEF One
  <2> QED
    BY <2>1, <1>1, <1>3, <1>5
<1>24. /\ Cardinality(InHtc') = Cardinality(InHtc) + 0
       /\ pending' = pending + 0 + One(u.pc \in {"count", "send"})
                       - One(th[c].pc \in {"count", "send"})
       /\ 0 \in Int /\ 0 <= 0 /\ u.pc # "send"
  BY <1>1, <1>3, <1>7, <1>8, <1>16 DEF One
<1> QED
  BY <1>9, <1>11, <1>17, <1>19, <1>20, <1>21, <1>22, <1>23, <1>24, Close

\* A completion is handled.
LEMMA TxCompletionKeeps ==
  ASSUME IndInv, NEW c \in Ctx, TxCompletion(c)
  PROVE  IndInv'
<1> DEFINE p == th[c].pkt
           s == IF creditFlow THEN "allow" ELSE "try"
           u == [th[c] EXCEPT !.pc = s, !.pkt = NoPkt]
<1>1. /\ TypeOK /\ th \in [Ctx -> Context] /\ th[c] \in Context /\ free \in Nat /\ Len(ring) \in Nat
      /\ pending \in Nat /\ usage \in Nat /\ ring \in Seq(Pkt) /\ order \in Seq(Pkt)
      /\ lookup \in Seq(Pkt) /\ txq \in Seq(Pkt) /\ Drainer \in Context /\ draining \in BOOLEAN
      /\ InHtc \in SUBSET Pkt /\ Cardinality(InHtc) \in Nat
  BY Types DEF IndInv
<1>2. /\ th[c].pc = "found" /\ lookup' = Without(lookup, {p}) /\ usage' = Put(PutsDue(p))
      /\ pending' = pending - Len(<<p>>) /\ done' = done \cup ToSet(<<p>>)
      /\ need' = need \ ToSet(<<p>>) /\ order' = Without(order, ToSet(<<p>>))
      /\ th' = [th EXCEPT ![c].pc = s, ![c].pkt = NoPkt]
      /\ UNCHANGED <<creditFlow, txq, credits, draining, pipeVars, bus, kick, stolen, histVars>>
  BY DEF TxCompletion, Completed, LookupTx
<1>3. UNCHANGED <<creditFlow, txq, credits, draining, ring, dma, free, held, asked, bus, kick,
                  stolen, leaked, failed>>
  BY <1>2 DEF pipeVars, histVars
<1>4. ContextFits(th[c]) /\ OneDrainer /\ OneHolder
  BY DEF IndInv, PipelineExact
<1>5. p \in Pkt /\ th[c].cmpl
  BY <1>1, <1>2, <1>4 DEF ContextFits, Context
<1>6. /\ u \in Context /\ u.pc = s /\ u.pkt = NoPkt /\ u.cmpl = th[c].cmpl /\ u.q = th[c].q
      /\ s \in {"allow", "try"}
  BY <1>1 DEF Context
<1>7. th' = [th EXCEPT ![c] = u]
  BY <1>1, <1>2
<1> HIDE DEF u, s
<1>8. Moves(c, u) /\ ContextFits(u)
  BY <1>2, <1>4, <1>5, <1>6, <1>7 DEF Moves, ContextFits
<1>9. ~Draining(u) /\ ~Draining(th[c]) /\ u.pc \notin {"found", "count", "send"}
  BY <1>2, <1>6 DEF Draining
<1>10. OneDrainer' /\ Drainer' = Drainer
  BY <1>1, <1>3, <1>4, <1>8, <1>9, DrainMoves
<1>11. Reaped' = Reaped \ {p}
  BY <1>1, <1>2, <1>4, <1>8, <1>9, ReapedMoves
<1>12. p \in Reaped
  BY <1>2 DEF Reaped, Finders
<1>13. /\ Pipe(Drainer, Reaped, ring, txq, lookup, order)
       /\ ~stolen => usage = Gets(Drainer, Reaped, ring) /\ (bus # "on" => usage = 0)
       /\ creditFlow => credits + Pays(Drainer, ring, dma) + held + leaked = Total
  BY PipeOf
<1>14. Apart(Drainer, Reaped, ring, txq, order)
  BY PipeApart
<1>15. ToSet(<<p>>) = {p} /\ Len(<<p>>) = 1
  BY <1>5, ShortLists
<1> HIDE DEF p
<1>16. order' = Without(order, {p}) /\ pending' = pending - 1
  BY <1>2, <1>15
<1>17. order' \in Seq(Pkt) /\ ToSet(order') = ToSet(order) \ {p}
  <2>1. /\ Without(order, {p}) \in Seq(Pkt) /\ ToSet(Without(order, {p})) = ToSet(order) \ {p}
    BY <1>1, WithoutMembers
  <2> QED
    BY <2>1, <1>16
<1>18. lookup' \in Seq(Pkt)
  <2>1. Without(lookup, {p}) \in Seq(Pkt)
    BY <1>1, WithoutMembers
  <2> QED
    BY <2>1, <1>2
<1>19. InHtc' = InHtc \ {p} /\ p \in InHtc
  BY <1>12, <1>14, <1>17 DEF InHtc, Apart
<1>20. Cardinality(InHtc') = Cardinality(InHtc) - 1 /\ Cardinality(InHtc) >= 1
  <2>1. IsFiniteSet(InHtc) /\ InHtc' \in SUBSET Pkt
    BY <1>1, <1>19, PktSets
  <2>2. Cardinality(InHtc \ {p}) = IF p \in InHtc THEN Cardinality(InHtc) - 1 ELSE Cardinality(InHtc)
    BY <2>1, FS_RemoveElement
  <2>3. Cardinality(InHtc') \in Nat
    BY <2>1, PktSets
  <2> QED
    BY <2>2, <2>3, <1>1, <1>19
<1>21. pending >= 1
  <2>1. pending = Cardinality(InHtc) + Cardinality(Counted)
    BY DEF IndInv, PipelineExact, WindowExact
  <2>2. Counted \in SUBSET Ctx
    BY DEF Counted
  <2>3. Cardinality(Counted) \in Nat
    BY <2>2, CtxSets
  <2> QED
    BY <2>1, <2>3, <1>1, <1>20
<1>22. OneHolder'
  <2>1. \A d \in Counted : d # c => th[d].pkt \notin InHtc'
    BY <1>4, <1>19 DEF OneHolder
  <2> QED
    BY <1>1, <1>4, <1>8, <1>9, <2>1, HolderMoves
<1>23. usage' \in Nat
  BY <1>1, <1>2 DEF Put, PutsDue
<1>24. /\ pending' \in Nat /\ done' \in SUBSET Pkt /\ need' \in SUBSET Pkt
  BY SMTT(30), <1>1, <1>2, <1>5, <1>15, <1>16, <1>21 DEF TypeOK
<1>25. TypeOK'
  BY <1>1, <1>3, <1>8, <1>17, <1>18, <1>23, <1>24, Moved DEF TypeOK
<1>26. Pipe(Drainer', Reaped', ring', txq', lookup', order')
  <2> DEFINE l == ring \o Has(Drainer) \o txq
             b == ring \o HandOf(Drainer)
  <2>1. Placed(l, Reaped, order) /\ Ordered(l, order) /\ LooksUp(lookup, b, Reaped)
    BY <1>13 DEF Pipe
  <2>2. p \notin ToSet(b)
    <3>1. HandOf(Drainer) \in Seq(Pkt)
      BY <1>1, HandType
    <3>2. ToSet(b) = ToSet(ring) \cup ToSet(HandOf(Drainer))
      BY <3>1, <1>1, ConcatMembers
    <3> QED
      BY <3>2, <1>12, <1>14 DEF Apart
  <2> HIDE DEF l, b
  <2>3. Placed(l, Reaped \ {p}, order') /\ Ordered(l, order')
    <3>1. Placed(l, Reaped \ {p}, Without(order, {p})) /\ Ordered(l, Without(order, {p}))
      BY <2>1, <1>12, CompletePlaced
    <3> QED
      BY <3>1, <1>16
  <2>4. LooksUp(lookup', b, Reaped \ {p})
    <3>1. LooksUp(Without(lookup, {p}), b, Reaped \ {p})
      BY <2>1, <2>2, <1>12, LookComplete
    <3> QED
      BY <3>1, <1>2
  <2>5. Pipe(Drainer, Reaped \ {p}, ring, txq, lookup', order')
    BY <2>3, <2>4 DEF Pipe, l, b
  <2> QED
    BY <2>5, <1>3, <1>10, <1>11
<1>27. PmBalanced'
  <2> DEFINE A == ToSet(ring \o Has(Drainer))
             S == (A \cup Reaped) \ PmPkt
             T == (A \cup (Reaped \ {p})) \ PmPkt
  <2>1. p \notin A /\ A \subseteq Pkt /\ Reaped \subseteq Pkt
    <3>1. ring \o Has(Drainer) \in Seq(Pkt)
      BY <1>1, HandType, ConcatProperties
    <3> QED
      BY <3>1, <1>12, <1>14, ToSetType DEF Apart
  <2> HIDE DEF A
  <2>2. S \in SUBSET Pkt /\ T = S \ {p} /\ (p \in S <=> p \notin PmPkt)
    BY <2>1, <1>12
  <2>3. Gets(Drainer, Reaped, ring) = Cardinality(S) /\ Gets(Drainer', Reaped', ring') = Cardinality(T)
    BY <1>3, <1>10, <1>11 DEF Gets, A
  <2> HIDE DEF S, T
  <2>4. IsFiniteSet(S) /\ Cardinality(S) \in Nat
    BY <2>2, PktSets
  <2>5. Cardinality(S \ {p}) = IF p \in S THEN Cardinality(S) - 1 ELSE Cardinality(S)
    BY <2>4, FS_RemoveElement
  <2>6. Cardinality(S \ {p}) \in Nat
    BY <2>2, PktSets
  <2>7. ASSUME ~stolen
        PROVE  usage' = Cardinality(T) /\ (bus # "on" => usage' = 0)
    <3>1. usage = Cardinality(S) /\ (bus # "on" => usage = 0)
      BY <2>3, <2>7, <1>13
    <3>2. CASE p \in PmPkt
      <4>1. usage' = usage
        BY <3>2, <1>1, <1>2 DEF Put, PutsDue
      <4> QED
        BY <3>1, <3>2, <4>1, <2>2, <2>5
    <3>3. CASE p \notin PmPkt
      <4>1. Cardinality(T) = usage - 1 /\ usage - 1 \in Nat
        BY <3>1, <3>3, <2>2, <2>5, <2>6
      <4>2. usage' = usage - 1
        BY <3>3, <4>1, <1>1, <1>2 DEF Put, PutsDue
      <4> QED
        BY <3>1, <4>1, <4>2
    <3> QED
      BY <3>2, <3>3
  <2>8. ~stolen' => usage' = Gets(Drainer', Reaped', ring') /\ (bus' # "on" => usage' = 0)
    BY <2>3, <2>7, <1>3
  <2> QED
    BY <2>8, PipeBack
<1>28. CreditsExact'
  <2>1. creditFlow' => credits' + Pays(Drainer', ring', dma') + held' + leaked' = Total
    BY <1>3, <1>10, <1>13
  <2> QED
    BY <2>1, PipeBack
<1>29. free' + Len(ring') = free + Len(ring) + One(th[c].cmpl) - One(u.cmpl)
  <2>1. One(th[c].cmpl) = 1 /\ One(u.cmpl) = 1
    BY <1>5, <1>6 DEF One
  <2> QED
    BY <2>1, <1>1, <1>3
<1>30. /\ Cardinality(InHtc') = Cardinality(InHtc) + (-1)
       /\ pending' = pending + (-1) + One(u.pc \in {"count", "send"})
                       - One(th[c].pc \in {"count", "send"})
       /\ -1 \in Int /\ -1 <= 0 /\ u.pc # "send"
  <2>1. One(u.pc \in {"count", "send"}) = 0 /\ One(th[c].pc \in {"count", "send"}) = 0
    BY <1>2, <1>9 DEF One
  <2> QED
    BY <2>1, <1>1, <1>9, <1>16, <1>20
<1> QED
  BY <1>8, <1>10, <1>22, <1>25, <1>26, <1>27, <1>28, <1>29, <1>30, Close

-----------------------------------------------------------------------------
(***************************************************************************)
(* The context that drains sends what it took.                             *)
(***************************************************************************)
\* The credits of the commands the copy engine has and the firmware has not.
Way(rg, n) == CostOf(ToSet(SubSeq(rg, n + 1, Len(rg))))

\* What is paid for: the commands on their way, and those in hand.
LEMMA PaysSplit ==
  ASSUME NEW D \in Context, NEW rg \in Seq(Pkt), NEW n \in 0..Len(rg),
         ToSet(rg) \cap ToSet(Has(D)) = {}
  PROVE  /\ Pays(D, rg, n) = IF D.pc = "putback" THEN Way(rg, n)
                             ELSE Way(rg, n) + CostOf(ToSet(Has(D)))
         /\ Way(rg, n) \in Nat /\ CostOf(ToSet(Has(D))) \in Nat
         /\ Pays(D, rg, n) \in Nat
<1> DEFINE f == SubSeq(rg, 1, n)
           s == SubSeq(rg, n + 1, Len(rg))
           H == ToSet(Has(D))
<1>1. f \in Seq(Pkt) /\ s \in Seq(Pkt) /\ rg = f \o s
  BY SplitAt
<1>2. Has(D) \in Seq(Pkt)
  BY HandType
<1> HIDE DEF f, s
<1>3. ToSet(f \o s) = ToSet(f) \cup ToSet(s)
  BY <1>1, ConcatMembers
<1>4. ToSet(s) \in SUBSET Pkt /\ H \in SUBSET Pkt /\ ToSet(s) \cap H = {}
  BY <1>1, <1>2, <1>3, ToSetType
<1> HIDE DEF H
<1>5. /\ CostOf(ToSet(s) \cup H) = CostOf(ToSet(s)) + CostOf(H)
      /\ CostOf(ToSet(s)) \in Nat /\ CostOf(H) \in Nat
  BY <1>4, CostSplit
<1>6. Way(rg, n) = CostOf(ToSet(s))
  BY DEF Way, s
<1>7. Pays(D, rg, n) = IF D.pc = "putback" THEN CostOf(ToSet(s)) ELSE CostOf(ToSet(s) \cup H)
  <2>1. ToSet(s) \cup {} = ToSet(s)
    OBVIOUS
  <2> QED
    BY <2>1 DEF Pays, s, H
<1> QED
  BY <1>5, <1>6, <1>7 DEF H

\* What a context with no packet in hand has.
LEMMA EmptyHand ==
  ASSUME NEW D \in Context, D.pkt = NoPkt
  PROVE  HandOf(D) = <<>> /\ Has(D) = D.q
<1>1. HandOf(D) = <<>> /\ D.q \in Seq(Pkt)
  BY HandType DEF HandOf
<1> QED
  BY <1>1, ConcatEmptySeq DEF Has

\* And one with a packet in hand.
LEMMA FullHand ==
  ASSUME NEW D \in Context, D.pkt # NoPkt
  PROVE  HandOf(D) = <<D.pkt>> /\ Has(D) = <<D.pkt>> \o D.q /\ D.pkt \in Pkt
BY HandType DEF HandOf, Has

\* The context that drains goes on.
LEMMA DrainOn ==
  ASSUME IndInv, NEW c, NEW u, Moves(c, u), Draining(th[c]), Draining(u),
         draining' = draining, order' = order
  PROVE  /\ Drainer = th[c] /\ Drainer' = u /\ OneDrainer' /\ Reaped' = Reaped /\ OneHolder'
         /\ Cardinality(InHtc') = Cardinality(InHtc) + 0
         /\ u.pc \notin {"count", "send"} /\ th[c].pc \notin {"count", "send"}
<1>1. /\ th \in [Ctx -> Context] /\ draining \in BOOLEAN /\ c \in Ctx
      /\ OneDrainer /\ OneHolder /\ Cardinality(InHtc) \in Nat
  BY Types DEF IndInv, PipelineExact, Moves
<1>2. Drainer = th[c] /\ draining
  BY <1>1, DrainerIs
<1>3. OneDrainer' /\ Drainer' = u
  BY <1>1, <1>2, DrainMoves
<1>4. /\ th[c].pc \notin {"count", "send", "found"} /\ u.pc \notin {"count", "send", "found"}
  BY DEF Draining
<1>5. Reaped' = Reaped
  BY <1>1, <1>4, ReapedMoves
<1>6. InHtc' = InHtc
  BY DEF InHtc
<1>7. \A d \in Counted : d # c => th[d].pkt \notin InHtc'
  BY <1>1, <1>6 DEF OneHolder
<1>8. OneHolder'
  BY <1>1, <1>4, <1>7, HolderMoves
<1> QED
  BY <1>1, <1>2, <1>3, <1>4, <1>5, <1>6, <1>8

\* The context that drains goes on with the same packets, taking the lookup
\* queue along.
LEMMA DrainStep ==
  ASSUME IndInv, TypeOK', NEW c, NEW u, Moves(c, u), ContextFits(u),
         Draining(th[c]), Draining(u), u.cmpl = th[c].cmpl, Has(u) = Has(th[c]),
         UNCHANGED <<creditFlow, txq, order, draining, free, ring, dma, held, usage, bus, stolen,
                     pending>>,
         LooksUp(lookup', ring \o HandOf(u), Reaped),
         creditFlow => credits' + Pays(u, ring, dma) + leaked'
                         = credits + Pays(th[c], ring, dma) + leaked
  PROVE  IndInv'
<1>1. /\ Drainer = th[c] /\ Drainer' = u /\ OneDrainer' /\ Reaped' = Reaped /\ OneHolder'
      /\ Cardinality(InHtc') = Cardinality(InHtc) + 0
      /\ u.pc \notin {"count", "send"} /\ th[c].pc \notin {"count", "send"}
  BY DrainOn
<1>2. /\ Pipe(th[c], Reaped, ring, txq, lookup, order)
      /\ ~stolen => usage = Gets(th[c], Reaped, ring) /\ (bus # "on" => usage = 0)
      /\ creditFlow => credits + Pays(th[c], ring, dma) + held + leaked = Total
  BY <1>1, PipeOf
<1>3. Pipe(Drainer', Reaped', ring', txq', lookup', order')
  <2>1. Pipe(u, Reaped, ring, txq, lookup', order)
    BY <1>2 DEF Pipe
  <2> QED
    BY <2>1, <1>1
<1>4. PmBalanced'
  <2>1. Gets(u, Reaped, ring) = Gets(th[c], Reaped, ring)
    BY DEF Gets
  <2>2. ~stolen' => usage' = Gets(Drainer', Reaped', ring') /\ (bus' # "on" => usage' = 0)
    BY <2>1, <1>1, <1>2
  <2> QED
    BY <2>2, PipeBack
<1>5. /\ credits \in Nat /\ leaked \in Nat /\ held \in Nat /\ free \in Nat /\ Len(ring) \in Nat
      /\ pending \in Nat /\ ring \in Seq(Pkt) /\ dma \in 0..Len(ring) /\ Total \in Nat
      /\ txq \in Seq(Pkt) /\ th[c] \in Context /\ u \in Context
  BY Types, Moved, TheConstants DEF IndInv
<1>6. credits' \in Nat /\ leaked' \in Nat
  BY DEF TypeOK
<1>7. CreditsExact'
  <2>1. CASE creditFlow
    <3> DEFINE a == credits'
               b == Pays(u, ring, dma)
               d == leaked'
               e == Pays(th[c], ring, dma)
    <3>1. ToSet(ring) \cap ToSet(Has(th[c])) = {}
      BY <1>1, PipeApart DEF Apart
    <3>2. b \in Nat
      BY <3>1, <1>5, PaysSplit
    <3>3. e \in Nat
      BY <3>1, <1>5, PaysSplit
    <3>4. /\ a \in Int /\ b \in Int /\ d \in Int /\ e \in Int
          /\ a + b + d = credits + e + leaked /\ credits + e + held + leaked = Total
      BY <2>1, <3>2, <3>3, <1>2, <1>6
    <3> HIDE DEF a, b, d, e
    <3>5. a + b + held + d = Total
      BY <3>4, <1>5
    <3>6. credits' + Pays(Drainer', ring', dma') + held' + leaked' = Total
      BY <3>5, <1>1 DEF a, b, d
    <3> QED
      BY <3>6, PipeBack
  <2>2. CASE ~creditFlow
    BY <2>2, PipeBack
  <2> QED
    BY <2>1, <2>2
<1>8. free' + Len(ring') = free + Len(ring) + One(th[c].cmpl) - One(u.cmpl)
  <2>1. One(th[c].cmpl) \in Int /\ One(u.cmpl) = One(th[c].cmpl)
    BY DEF One
  <2> DEFINE x == One(th[c].cmpl)
             l == Len(ring)
  <2>2. x \in Int /\ l \in Int /\ One(u.cmpl) = x /\ Len(ring') = l
    BY <2>1, <1>5
  <2> HIDE DEF x, l
  <2>3. free + l = free + l + x - x
    BY <2>2, <1>5
  <2> QED
    BY <2>2, <2>3 DEF x, l
<1>9. /\ pending' = pending + 0 + One(u.pc \in {"count", "send"})
                      - One(th[c].pc \in {"count", "send"})
      /\ 0 \in Int /\ 0 <= 0 /\ u.pc # "send"
  BY <1>1, <1>5 DEF One
<1> QED
  BY <1>1, <1>3, <1>4, <1>7, <1>8, <1>9, Close

\* The facts a step of the context that drains starts from.
LEMMA DrainFacts ==
  ASSUME IndInv, NEW c \in Ctx, Draining(th[c])
  PROVE  /\ TypeOK /\ th \in [Ctx -> Context] /\ th[c] \in Context /\ ContextFits(th[c])
         /\ Drainer = th[c]
         /\ Pipe(th[c], Reaped, ring, txq, lookup, order)
         /\ LooksUp(lookup, ring \o HandOf(th[c]), Reaped)
         /\ Apart(th[c], Reaped, ring, txq, order)
         /\ creditFlow => credits + Pays(th[c], ring, dma) + held + leaked = Total
         /\ free \in 0..RingSize
<1>1. /\ TypeOK /\ th \in [Ctx -> Context] /\ ContextFits(th[c]) /\ OneDrainer
      /\ free \in Nat /\ Len(ring) \in Nat /\ RingSize \in Nat
  BY Types DEF IndInv, PipelineExact
<1>2. Drainer = th[c]
  BY <1>1, DrainerIs
<1>3. /\ Pipe(th[c], Reaped, ring, txq, lookup, order)
      /\ creditFlow => credits + Pays(th[c], ring, dma) + held + leaked = Total
  BY <1>2, PipeOf
<1>4. Apart(th[c], Reaped, ring, txq, order)
  BY <1>2, PipeApart
<1>5. free \in 0..RingSize
  <2>1. Completing \in SUBSET Ctx
    BY DEF Completing
  <2>2. Cardinality(Completing) \in Nat
    BY <2>1, CtxSets
  <2>3. free + Len(ring) + Cardinality(Completing) = RingSize
    BY DEF IndInv, EntriesExact
  <2> QED
    BY <1>1, <2>2, <2>3
<1> QED
  BY <1>1, <1>2, <1>3, <1>4, <1>5 DEF Pipe

\* The free entries are read again.
LEMMA RereadKeeps ==
  ASSUME IndInv, NEW c \in Ctx, Reread(c)
  PROVE  IndInv'
<1> DEFINE t == th[c]
           n == IF creditFlow THEN 0 ELSE free
           u == [t EXCEPT !.pc = "again", !.res = n]
<1>1. /\ t.pc = "reread" /\ th' = [th EXCEPT ![c].pc = "again", ![c].res = n]
      /\ UNCHANGED <<creditFlow, epVars, pipeVars, pmVars, wmiVars, histVars>>
  BY DEF Reread
<1>2. Draining(t)
  BY <1>1 DEF Draining
<1>3. /\ TypeOK /\ th \in [Ctx -> Context] /\ t \in Context /\ ContextFits(t)
      /\ LooksUp(lookup, ring \o HandOf(t), Reaped) /\ free \in 0..RingSize
  BY <1>2, DrainFacts
<1>4. n \in 0..RingSize
  BY <1>3, TheConstants
<1> HIDE DEF n
<1>5. /\ u \in Context /\ u.pc = "again" /\ u.pkt = t.pkt /\ u.q = t.q /\ u.cmpl = t.cmpl
      /\ th' = [th EXCEPT ![c] = u]
  BY <1>1, <1>3, <1>4 DEF Context
<1> HIDE DEF u, t
<1>6. Moves(c, u) /\ ContextFits(u) /\ Draining(u)
  BY <1>1, <1>3, <1>5 DEF Moves, ContextFits, Draining
<1>7. HandOf(u) = HandOf(t) /\ Has(u) = Has(t)
  BY <1>5 DEF HandOf, Has
<1>8. TypeOK'
  BY <1>1, <1>3, <1>6, Moved DEF TypeOK, epVars, pipeVars, pmVars, wmiVars, histVars
<1>9. /\ UNCHANGED <<creditFlow, txq, order, draining, free, ring, dma, held, usage, bus, stolen,
                     pending>>
      /\ UNCHANGED <<credits, leaked, lookup>>
  BY <1>1 DEF epVars, pipeVars, pmVars, wmiVars, histVars
<1>10. Pays(u, ring, dma) = Pays(t, ring, dma)
  BY <1>1, <1>5, <1>7 DEF Pays
<1>11. LooksUp(lookup', ring \o HandOf(u), Reaped)
  BY <1>3, <1>7, <1>9
<1> QED
  BY <1>2, <1>5, <1>6, <1>7, <1>8, <1>9, <1>10, <1>11, DrainStep DEF t

\* The next packet is issued, or the local queue is empty.
LEMMA IssueKeeps ==
  ASSUME IndInv, NEW c \in Ctx, Issue(c)
  PROVE  IndInv'
<1> DEFINE t == th[c]
<1>1. /\ t.pc = "issue"
      /\ UNCHANGED <<creditFlow, txq, credits, draining, need, order, pipeVars, pmVars,
                     wmiVars, histVars>>
  BY DEF Issue
<1>2. Draining(t)
  BY <1>1 DEF Draining
<1>3. /\ TypeOK /\ th \in [Ctx -> Context] /\ t \in Context /\ ContextFits(t)
      /\ LooksUp(lookup, ring \o HandOf(t), Reaped) /\ Apart(t, Reaped, ring, txq, order)
  BY <1>2, DrainFacts
<1>4. t.pkt = NoPkt /\ t.q \in Seq(Pkt) /\ HandOf(t) = <<>> /\ Has(t) = t.q
  BY <1>1, <1>3, EmptyHand, HandType DEF ContextFits
<1>5. /\ UNCHANGED <<creditFlow, txq, order, draining, free, ring, dma, held, usage, bus, stolen,
                     pending>>
      /\ UNCHANGED <<credits, leaked>>
  BY <1>1 DEF pipeVars, pmVars, wmiVars, histVars
<1>6. CASE t.q = <<>>
  <2> DEFINE u == [t EXCEPT !.pc = "reread"]
  <2>1. th' = [th EXCEPT ![c] = u] /\ lookup' = lookup
    BY <1>6, <1>3 DEF Issue
  <2>2. u \in Context /\ u.pc = "reread" /\ u.pkt = t.pkt /\ u.q = t.q /\ u.cmpl = t.cmpl
    BY <1>3 DEF Context
  <2> HIDE DEF u, t
  <2>3. Moves(c, u) /\ ContextFits(u) /\ Draining(u)
    BY <1>1, <1>3, <1>6, <2>1, <2>2 DEF Moves, ContextFits, Draining
  <2>4. HandOf(u) = HandOf(t) /\ Has(u) = Has(t)
    BY <2>2 DEF HandOf, Has
  <2>5. TypeOK'
    BY <1>1, <1>3, <2>1, <2>3, Moved DEF TypeOK, pipeVars, pmVars, wmiVars, histVars
  <2>6. Pays(u, ring, dma) = Pays(t, ring, dma)
    BY <1>1, <2>2, <2>4 DEF Pays
  <2>7. LooksUp(lookup', ring \o HandOf(u), Reaped)
    BY <1>3, <2>1, <2>4
  <2> QED
    BY <1>2, <1>5, <2>2, <2>3, <2>4, <2>5, <2>6, <2>7, DrainStep DEF t
<1>7. CASE t.q # <<>>
  <2> DEFINE h == Head(t.q)
             b == Tail(t.q)
             u == [t EXCEPT !.pc = "hif", !.pkt = h, !.q = b]
  <2>1. h \in Pkt /\ b \in Seq(Pkt) /\ t.q = <<h>> \o b /\ h # NoPkt /\ h \in ToSet(t.q)
    BY <1>4, <1>7, HeadAndTail, ToSetType, TheConstants
  <2>2. /\ th' = [th EXCEPT ![c] = u] /\ lookup' = Append(lookup, h)
    BY <1>7, <1>3 DEF Issue
  <2> HIDE DEF h, b
  <2>3. u \in Context /\ u.pc = "hif" /\ u.pkt = h /\ u.q = b /\ u.cmpl = t.cmpl
    BY <1>3, <2>1 DEF Context
  <2> HIDE DEF u, t
  <2>4. Moves(c, u) /\ ContextFits(u) /\ Draining(u)
    BY <1>1, <1>3, <2>1, <2>2, <2>3 DEF Moves, ContextFits, Draining
  <2>5. HandOf(u) = <<h>> /\ Has(u) = Has(t)
    BY <1>4, <2>1, <2>3, FullHand
  <2>6. lookup \in Seq(Pkt) /\ ring \in Seq(Pkt)
    BY <1>3, Types
  <2>7. lookup' = lookup \o <<h>> /\ lookup' \in Seq(Pkt)
    BY <2>1, <2>2, <2>6, AppendIsConcat, AppendMembers
  <2>8. TypeOK'
    BY <1>1, <1>3, <2>4, <2>7, Moved DEF TypeOK, pipeVars, pmVars, wmiVars, histVars
  <2>9. Pays(u, ring, dma) = Pays(t, ring, dma)
    BY <1>1, <2>3, <2>5 DEF Pays
  <2>10. LooksUp(lookup, ring, Reaped)
    <3>1. ring \o <<>> = ring
      BY <2>6, ConcatEmptySeq
    <3> QED
      BY <3>1, <1>3, <1>4
  <2>11. h \notin ToSet(lookup)
    <3>1. ToSet(lookup) = ToSet(ring) \cup Reaped
      BY <2>10 DEF LooksUp
    <3>2. h \in ToSet(Has(t))
      BY <1>4, <2>1
    <3> QED
      BY <3>1, <3>2, <1>3 DEF Apart
  <2>12. LooksUp(lookup \o <<h>>, ring \o <<h>>, Reaped)
    BY <2>1, <2>10, <2>11, LookIssue
  <2>13. LooksUp(lookup', ring \o HandOf(u), Reaped)
    BY <2>5, <2>7, <2>12
  <2> QED
    BY <1>2, <1>5, <2>3, <2>4, <2>5, <2>8, <2>9, <2>13, DrainStep DEF t
<1> QED
  BY <1>6, <1>7

\* A packet cannot be mapped: the credits of the local queue are lost.
LEMMA MapFailKeeps ==
  ASSUME IndInv, NEW c \in Ctx, MapFail(c)
  PROVE  IndInv'
<1> DEFINE t == th[c]
           u == [t EXCEPT !.pc = "putback"]
<1>1. /\ t.pc = "issue" /\ t.q # <<>> /\ leaked' = leaked + CostOf(ToSet(t.q)) /\ failed' = TRUE
      /\ th' = [th EXCEPT ![c].pc = "putback"]
      /\ UNCHANGED <<creditFlow, epVars, pipeVars, pmVars, wmiVars>>
  BY DEF MapFail
<1>2. Draining(t)
  BY <1>1 DEF Draining
<1>3. /\ TypeOK /\ th \in [Ctx -> Context] /\ t \in Context /\ ContextFits(t)
      /\ LooksUp(lookup, ring \o HandOf(t), Reaped) /\ Apart(t, Reaped, ring, txq, order)
  BY <1>2, DrainFacts
<1>4. t.pkt = NoPkt /\ t.q \in Seq(Pkt) /\ Has(t) = t.q
  BY <1>1, <1>3, EmptyHand, HandType DEF ContextFits
<1>5. /\ u \in Context /\ u.pc = "putback" /\ u.pkt = t.pkt /\ u.q = t.q /\ u.cmpl = t.cmpl
      /\ th' = [th EXCEPT ![c] = u]
  BY <1>1, <1>3 DEF Context
<1> HIDE DEF u, t
<1>6. Moves(c, u) /\ ContextFits(u) /\ Draining(u)
  BY <1>1, <1>3, <1>5 DEF Moves, ContextFits, Draining
<1>7. HandOf(u) = HandOf(t) /\ Has(u) = Has(t)
  BY <1>5 DEF HandOf, Has
<1>8. /\ UNCHANGED <<creditFlow, txq, order, draining, free, ring, dma, held, usage, bus, stolen,
                     pending>>
      /\ UNCHANGED <<credits, lookup>>
  BY <1>1 DEF epVars, pipeVars, pmVars, wmiVars
<1>9. /\ ring \in Seq(Pkt) /\ dma \in 0..Len(ring) /\ ToSet(ring) \cap ToSet(Has(t)) = {}
      /\ leaked \in Nat /\ credits \in Nat
  BY <1>3, Types DEF Apart, TypeOK
<1>10. /\ Pays(t, ring, dma) = Way(ring, dma) + CostOf(ToSet(t.q))
       /\ Way(ring, dma) \in Nat /\ CostOf(ToSet(t.q)) \in Nat
  BY <1>1, <1>3, <1>4, <1>9, PaysSplit
<1>11. Pays(u, ring, dma) = Way(ring, dma)
  BY <1>5, <1>7, <1>9, PaysSplit
<1>12. credits' + Pays(u, ring, dma) + leaked' = credits + Pays(t, ring, dma) + leaked
  <2> DEFINE w == Way(ring, dma)
             x == CostOf(ToSet(t.q))
             l == leaked'
  <2>1. w \in Nat /\ x \in Nat /\ l = leaked + x /\ leaked \in Nat /\ credits \in Nat
    BY <1>1, <1>9, <1>10
  <2>2. Pays(t, ring, dma) = w + x /\ Pays(u, ring, dma) = w /\ credits' = credits
    BY <1>8, <1>10, <1>11
  <2> HIDE DEF w, x, l
  <2>3. credits + w + l = credits + (w + x) + leaked
    BY <2>1
  <2> QED
    BY <2>2, <2>3 DEF l
<1>13. leaked' \in Nat
  BY <1>1, <1>9, <1>10
<1>14. TypeOK'
  BY ZenonT(60), <1>1, <1>3, <1>6, <1>13, Moved DEF TypeOK, epVars, pipeVars, pmVars, wmiVars
<1>15. LooksUp(lookup', ring \o HandOf(u), Reaped)
  BY <1>3, <1>7, <1>8
<1> QED
  BY <1>2, <1>5, <1>6, <1>7, <1>8, <1>12, <1>14, <1>15, DrainStep DEF t

\* The send failed: the packet leaves the lookup queue, its credits and those
\* behind it come back.
LEMMA UnsendKeeps ==
  ASSUME IndInv, NEW c \in Ctx, Unsend(c)
  PROVE  IndInv'
<1> DEFINE t == th[c]
           p == t.pkt
           q == <<p>> \o t.q
           u == [t EXCEPT !.pc = "putback", !.pkt = NoPkt, !.q = q]
<1>1. /\ t.pc = "fail" /\ lookup' = Without(lookup, {p})
      /\ credits' = (IF creditFlow THEN credits + Reclaimed(t) ELSE credits)
      /\ th' = [th EXCEPT ![c].pc = "putback", ![c].pkt = NoPkt, ![c].q = q]
      /\ UNCHANGED <<creditFlow, txq, draining, need, order, pipeVars, pmVars, wmiVars, histVars>>
  BY DEF Unsend
<1>2. Draining(t)
  BY <1>1 DEF Draining
<1>3. /\ TypeOK /\ th \in [Ctx -> Context] /\ t \in Context /\ ContextFits(t)
      /\ LooksUp(lookup, ring \o HandOf(t), Reaped) /\ Apart(t, Reaped, ring, txq, order)
  BY <1>2, DrainFacts
<1>4. p # NoPkt
  BY <1>1, <1>3 DEF ContextFits
<1>5. p \in Pkt /\ HandOf(t) = <<p>> /\ Has(t) = q /\ q \in Seq(Pkt) /\ t.q \in Seq(Pkt)
  BY <1>3, <1>4, FullHand, HandType
<1>6. ToSet(<<p>>) = {p} /\ <<p>> \in Seq(Pkt)
  BY <1>5, ShortLists
<1>7. ToSet(q) = {p} \cup ToSet(t.q) /\ q # <<>>
  <2>1. ToSet(q) = ToSet(<<p>>) \cup ToSet(t.q)
    BY <1>5, <1>6, ConcatMembers
  <2>2. q = <<>> <=> ToSet(q) = {}
    <3>1. q \in Seq(Pkt)
      BY <1>5
    <3> HIDE DEF q
    <3> QED
      BY <3>1, ToSetType
  <2> QED
    BY <2>1, <2>2, <1>6
<1> HIDE DEF q
<1>8. /\ u \in Context /\ u.pc = "putback" /\ u.pkt = NoPkt /\ u.q = q /\ u.cmpl = t.cmpl
      /\ th' = [th EXCEPT ![c] = u]
  BY <1>1, <1>3, <1>5 DEF Context
<1>9. Reclaimed(t) = CostOf(ToSet(q))
  BY <1>7 DEF Reclaimed
<1> HIDE DEF u, t, p
<1>10. Moves(c, u) /\ ContextFits(u) /\ Draining(u)
  BY <1>1, <1>3, <1>7, <1>8 DEF Moves, ContextFits, Draining
<1>11. HandOf(u) = <<>> /\ Has(u) = Has(t)
  BY <1>5, <1>8, EmptyHand
<1>12. /\ UNCHANGED <<creditFlow, txq, order, draining, free, ring, dma, held, usage, bus, stolen,
                      pending>>
       /\ leaked' = leaked
  BY <1>1 DEF pipeVars, pmVars, wmiVars, histVars
<1>13. /\ ring \in Seq(Pkt) /\ lookup \in Seq(Pkt) /\ dma \in 0..Len(ring)
       /\ leaked \in Nat /\ credits \in Nat
  BY <1>3, Types DEF TypeOK
<1>14. ToSet(ring) \cap ToSet(Has(t)) = {} /\ p \notin Reaped /\ p \notin ToSet(ring)
  BY <1>3, <1>5, <1>7 DEF Apart
<1>15. /\ Pays(t, ring, dma) = Way(ring, dma) + CostOf(ToSet(q))
       /\ Way(ring, dma) \in Nat /\ CostOf(ToSet(q)) \in Nat
  BY <1>1, <1>3, <1>5, <1>13, <1>14, PaysSplit
<1>16. Pays(u, ring, dma) = Way(ring, dma)
  BY <1>8, <1>11, <1>13, <1>14, PaysSplit
<1>17. creditFlow => credits' + Pays(u, ring, dma) + leaked' = credits + Pays(t, ring, dma) + leaked
  <2> DEFINE w == Way(ring, dma)
             x == CostOf(ToSet(q))
             a == credits'
  <2>1. w \in Nat /\ x \in Nat /\ (creditFlow => a = credits + x) /\ leaked \in Nat /\ credits \in Nat
    BY <1>1, <1>9, <1>13, <1>15
  <2>2. Pays(t, ring, dma) = w + x /\ Pays(u, ring, dma) = w /\ leaked' = leaked
    BY <1>12, <1>15, <1>16
  <2> HIDE DEF w, x, a
  <2>3. creditFlow => a + w + leaked = credits + (w + x) + leaked
    BY <2>1
  <2> QED
    BY <2>2, <2>3 DEF a
<1>18. credits' \in Nat
  BY <1>1, <1>9, <1>13, <1>15
<1>19. lookup' \in Seq(Pkt)
  <2>1. Without(lookup, {p}) \in Seq(Pkt)
    BY <1>13, WithoutMembers
  <2> QED
    BY <2>1, <1>1
<1>20. TypeOK'
  BY <1>1, <1>3, <1>10, <1>18, <1>19, Moved DEF TypeOK, pipeVars, pmVars, wmiVars, histVars
<1>21. LooksUp(lookup', ring \o HandOf(u), Reaped)
  <2>1. LooksUp(lookup, ring \o <<p>>, Reaped)
    BY <1>3, <1>5
  <2>2. LooksUp(Without(lookup, {p}), ring, Reaped)
    BY <2>1, <1>5, <1>13, <1>14, LookUnsend
  <2>3. ring \o <<>> = ring
    BY <1>13, ConcatEmptySeq
  <2> QED
    BY <2>2, <2>3, <1>1, <1>11
<1> QED
  BY <1>2, <1>8, <1>10, <1>11, <1>12, <1>17, <1>20, <1>21, DrainStep DEF t

\* The packet in hand enters the copy engine, or finds no free entry.
LEMMA HifSendKeeps ==
  ASSUME IndInv, NEW c \in Ctx, HifSend(c)
  PROVE  IndInv'
<1> DEFINE t == th[c]
           p == t.pkt
<1>1. /\ t.pc = "hif"
      /\ UNCHANGED <<creditFlow, epVars, dma, held, asked, pmVars, wmiVars, leaked>>
  BY DEF HifSend
<1>2. Draining(t)
  BY <1>1 DEF Draining
<1>3. /\ TypeOK /\ th \in [Ctx -> Context] /\ t \in Context /\ ContextFits(t)
      /\ LooksUp(lookup, ring \o HandOf(t), Reaped) /\ Apart(t, Reaped, ring, txq, order)
  BY <1>2, DrainFacts
<1>4. p # NoPkt
  BY <1>1, <1>3 DEF ContextFits
<1>5. p \in Pkt /\ HandOf(t) = <<p>> /\ Has(t) = <<p>> \o t.q /\ t.q \in Seq(Pkt)
  BY <1>3, <1>4, FullHand, HandType
<1>6. UNCHANGED <<creditFlow, txq, order, draining, lookup, dma, held, usage, bus, stolen,
                  pending, credits, leaked>>
  BY <1>1 DEF epVars, pmVars, wmiVars
<1>7. CASE ~(free > 0)
  <2> DEFINE u == [t EXCEPT !.pc = "fail"]
  <2>1. th' = [th EXCEPT ![c] = u] /\ UNCHANGED <<free, ring>> /\ failed' = TRUE
    BY <1>7, <1>3 DEF HifSend
  <2>2. u \in Context /\ u.pc = "fail" /\ u.pkt = t.pkt /\ u.q = t.q /\ u.cmpl = t.cmpl
    BY <1>3 DEF Context
  <2> HIDE DEF u, t
  <2>3. Moves(c, u) /\ ContextFits(u) /\ Draining(u)
    BY <1>1, <1>3, <2>1, <2>2 DEF Moves, ContextFits, Draining
  <2>4. HandOf(u) = HandOf(t) /\ Has(u) = Has(t)
    BY <2>2 DEF HandOf, Has
  <2>5. TypeOK'
    BY <1>1, <1>3, <2>1, <2>3, Moved DEF TypeOK, epVars, pmVars, wmiVars
  <2>6. Pays(u, ring, dma) = Pays(t, ring, dma)
    BY <1>1, <2>2, <2>4 DEF Pays
  <2>7. LooksUp(lookup', ring \o HandOf(u), Reaped)
    BY <1>3, <1>6, <2>4
  <2> QED
    BY <1>2, <1>6, <2>1, <2>2, <2>3, <2>4, <2>5, <2>6, <2>7, DrainStep DEF t
<1>8. CASE free > 0
  <2> DEFINE u == [t EXCEPT !.pc = "issue", !.pkt = NoPkt]
  <2>1. /\ th' = [th EXCEPT ![c] = u] /\ free' = free - 1 /\ ring' = Append(ring, p)
        /\ failed' = failed
    BY <1>8, <1>3 DEF HifSend
  <2>2. u \in Context /\ u.pc = "issue" /\ u.pkt = NoPkt /\ u.q = t.q /\ u.cmpl = t.cmpl
    BY <1>3 DEF Context
  <2> HIDE DEF u, p
  <2>3. Moves(c, u) /\ ContextFits(u) /\ Draining(u)
    BY <1>1, <1>3, <2>1, <2>2 DEF Moves, ContextFits, Draining
  <2>4. HandOf(u) = <<>> /\ Has(u) = t.q
    BY <2>2, EmptyHand
  <2>5. /\ ring \in Seq(Pkt) /\ txq \in Seq(Pkt) /\ dma \in 0..Len(ring) /\ Len(ring) \in Nat
        /\ free \in Nat /\ pending \in Nat /\ credits \in Nat /\ order \in Seq(Pkt)
    BY <1>3, Types DEF TypeOK
  <2>6. /\ ring' \in Seq(Pkt) /\ ring' = ring \o <<p>> /\ Len(ring') = Len(ring) + 1
        /\ ToSet(ring') = ToSet(ring) \cup {p}
    BY <1>5, <2>1, <2>5, AppendIsConcat, AppendProperties, AppendMembers
  <2>7. free' \in Nat /\ dma' \in 0..Len(ring')
    BY <1>6, <1>8, <2>1, <2>5, <2>6
  <2>8. TypeOK'
    BY <1>1, <1>3, <2>1, <2>3, <2>6, <2>7, Moved DEF TypeOK, epVars, pmVars, wmiVars
  <2>9. /\ Drainer = t /\ Drainer' = u /\ OneDrainer' /\ Reaped' = Reaped /\ OneHolder'
        /\ Cardinality(InHtc') = Cardinality(InHtc) + 0
        /\ u.pc \notin {"count", "send"} /\ t.pc \notin {"count", "send"}
    BY <1>2, <1>6, <2>3, DrainOn
  <2>10. /\ Pipe(t, Reaped, ring, txq, lookup, order)
         /\ ~stolen => usage = Gets(t, Reaped, ring) /\ (bus # "on" => usage = 0)
         /\ creditFlow => credits + Pays(t, ring, dma) + held + leaked = Total
    BY <2>9, PipeOf
  <2> HIDE DEF t
  <2>11. /\ <<p>> \in Seq(Pkt) /\ ToSet(<<p>>) = {p}
    BY <1>5, ShortLists
  <2>12. ring \o Has(t) = ring' \o Has(u)
    <3>2. ring \in Seq(Pkt) /\ <<p>> \in Seq(Pkt) /\ t.q \in Seq(Pkt)
      BY <1>5, <2>5, <2>11
    <3>1. (ring \o <<p>>) \o t.q = ring \o (<<p>> \o t.q)
      <4> DEFINE a == t.q
                 b == <<p>>
      <4>1. ring \in Seq(Pkt) /\ b \in Seq(Pkt) /\ a \in Seq(Pkt)
        BY <3>2
      <4> HIDE DEF a, b
      <4>2. (ring \o b) \o a = ring \o (b \o a)
        BY <4>1, ConcatAssociative
      <4> QED
        BY <4>2 DEF a, b
    <3> QED
      BY <3>1, <1>5, <2>4, <2>6
  <2>13. Pipe(Drainer', Reaped', ring', txq', lookup', order')
    <3>1. ring' \o <<>> = ring'
      BY <2>6, ConcatEmptySeq
    <3>2. LooksUp(lookup, ring' \o HandOf(u), Reaped)
      BY <3>1, <1>3, <1>5, <2>4, <2>6
    <3>3. Pipe(u, Reaped, ring', txq, lookup, order)
      BY <3>2, <2>10, <2>12 DEF Pipe
    <3> QED
      BY <3>3, <1>6, <2>9
  <2>14. PmBalanced'
    <3>1. Gets(u, Reaped, ring') = Gets(t, Reaped, ring)
      BY <2>12 DEF Gets
    <3>2. ~stolen' => usage' = Gets(Drainer', Reaped', ring') /\ (bus' # "on" => usage' = 0)
      BY <3>1, <1>6, <2>9, <2>10
    <3> QED
      BY <3>2, PipeBack
  <2>15. Pays(u, ring', dma) = Pays(t, ring, dma)
    <3> DEFINE s == SubSeq(ring, dma + 1, Len(ring))
               r == SubSeq(ring', dma + 1, Len(ring'))
    <3>1. r = s \o <<p>>
      BY <1>5, <2>1, <2>5, AppendFrom
    <3>2. s \in Seq(Pkt)
      BY <2>5, SplitAt
    <3> HIDE DEF s, r
    <3>3. ToSet(r) = ToSet(s) \cup {p}
      BY <3>1, <3>2, <2>11, ConcatMembers
    <3>4. ToSet(Has(t)) = {p} \cup ToSet(Has(u))
      <4>1. ToSet(<<p>> \o t.q) = ToSet(<<p>>) \cup ToSet(t.q)
        BY <1>5, <2>11, ConcatMembers
      <4> QED
        BY <4>1, <1>5, <2>4, <2>11
    <3>5. ToSet(r) \cup ToSet(Has(u)) = ToSet(s) \cup ToSet(Has(t))
      BY <3>3, <3>4
    <3> QED
      BY <3>5, <1>1, <2>2 DEF Pays, r, s
  <2>16. CreditsExact'
    <3>1. creditFlow' => credits' + Pays(Drainer', ring', dma') + held' + leaked' = Total
      BY <1>6, <2>9, <2>10, <2>15
    <3> QED
      BY <3>1, PipeBack
  <2>17. free' + Len(ring') = free + Len(ring) + One(th[c].cmpl) - One(u.cmpl)
    <3> DEFINE x == One(u.cmpl)
               f == free'
               l == Len(ring)
               m == Len(ring')
    <3>1. x \in Int /\ One(th[c].cmpl) = x /\ f = free - 1 /\ m = l + 1 /\ l \in Int /\ free \in Int
      BY <2>1, <2>2, <2>5, <2>6 DEF One, t
    <3> HIDE DEF x, f, l, m
    <3>2. f + m = free + l + x - x
      BY <3>1
    <3> QED
      BY <3>1, <3>2 DEF x, f, l, m
  <2>18. /\ pending' = pending + 0 + One(u.pc \in {"count", "send"})
                         - One(th[c].pc \in {"count", "send"})
         /\ 0 \in Int /\ 0 <= 0 /\ u.pc # "send"
    BY <1>6, <2>5, <2>9 DEF One, t
  <2> QED
    BY <2>3, <2>8, <2>9, <2>13, <2>14, <2>16, <2>17, <2>18, Close
<1> QED
  BY <1>7, <1>8

\* What a context does when htc_try_send returns.
LEMMA Returns ==
  ASSUME NEW t \in Context
  PROVE  /\ Return(t) \in Context /\ Return(t).cmpl = t.cmpl /\ ContextFits(Return(t))
         /\ Return(t).pc \in {"idle", "allow"} /\ ~Draining(Return(t))
<1>1. Idle \in Context /\ t.cmpl \in BOOLEAN
  <2>1. RingSize \in Nat
    BY TheConstants
  <2> QED
    BY <2>1 DEF Idle, Context
<1>2. CASE t.cmpl
  <2> DEFINE u == [Idle EXCEPT !.pc = "allow", !.cmpl = TRUE]
  <2>1. u \in Context /\ u.pc = "allow" /\ u.pkt = NoPkt /\ u.q = <<>> /\ u.cmpl = TRUE
    BY <1>1 DEF Idle, Context
  <2>2. Return(t) = u
    BY <1>2 DEF Return
  <2> HIDE DEF u
  <2> QED
    BY <1>2, <2>1, <2>2 DEF ContextFits, Draining
<1>3. CASE ~t.cmpl
  <2>1. Return(t) = Idle
    BY <1>3 DEF Return
  <2>2. Idle.pc = "idle" /\ Idle.pkt = NoPkt /\ Idle.q = <<>> /\ Idle.cmpl = FALSE
    BY DEF Idle
  <2> QED
    BY <1>1, <1>3, <2>1, <2>2 DEF ContextFits, Draining
<1> QED
  BY <1>2, <1>3

\* An idle context has nothing.
LEMMA IdleHas ==
  /\ Idle \in Context /\ HandOf(Idle) = <<>> /\ Has(Idle) = <<>> /\ Idle.pc = "idle"
  /\ Idle.pkt = NoPkt /\ Idle.q = <<>> /\ Idle.cmpl = FALSE
<1>1. Idle \in Context
  <2>1. RingSize \in Nat
    BY TheConstants
  <2> QED
    BY <2>1 DEF Idle, Context
<1>2. Idle.pkt = NoPkt /\ Idle.q = <<>> /\ Idle.pc = "idle" /\ Idle.cmpl = FALSE
  BY DEF Idle
<1> QED
  BY <1>1, <1>2, EmptyHand

\* What could not be sent goes back to the head of the queue.
LEMMA PutBackKeeps ==
  ASSUME IndInv, NEW c \in Ctx, PutBack(c)
  PROVE  IndInv'
<1> DEFINE t == th[c]
           u == Return(t)
<1>1. /\ t.pc = "putback" /\ usage' = Put(Len(t.q)) /\ stolen' = (stolen \/ OnlyPm(t.q) # <<>>)
      /\ txq' = t.q \o txq /\ draining' = FALSE /\ th' = [th EXCEPT ![c] = Return(@)]
      /\ UNCHANGED <<creditFlow, lookup, credits, need, order, pipeVars, bus, kick, wmiVars,
                     histVars>>
  BY DEF PutBack
<1>2. Draining(t)
  BY <1>1 DEF Draining
<1>3. /\ TypeOK /\ th \in [Ctx -> Context] /\ t \in Context /\ ContextFits(t) /\ Drainer = t
      /\ LooksUp(lookup, ring \o HandOf(t), Reaped) /\ Apart(t, Reaped, ring, txq, order)
  BY <1>2, DrainFacts
<1>4. t.pkt = NoPkt /\ t.q \in Seq(Pkt) /\ HandOf(t) = <<>> /\ Has(t) = t.q
  BY <1>1, <1>3, EmptyHand, HandType DEF ContextFits
<1>5. th' = [th EXCEPT ![c] = u]
  BY <1>1, <1>3
<1>6. /\ u \in Context /\ u.cmpl = t.cmpl /\ ContextFits(u)
      /\ u.pc \in {"idle", "allow"} /\ ~Draining(u)
  BY <1>3, Returns
<1> HIDE DEF u
<1>7. Moves(c, u)
  BY <1>5, <1>6 DEF Moves
<1>8. /\ UNCHANGED <<creditFlow, lookup, credits, order, free, ring, dma, held, bus, pending, leaked>>
  BY <1>1 DEF pipeVars, wmiVars, histVars
<1>9. /\ ring \in Seq(Pkt) /\ txq \in Seq(Pkt) /\ dma \in 0..Len(ring) /\ Len(ring) \in Nat
      /\ free \in Nat /\ pending \in Nat /\ usage \in Nat /\ draining \in BOOLEAN
      /\ Cardinality(InHtc) \in Nat
  BY <1>3, Types DEF TypeOK
<1>10. OneDrainer /\ OneHolder
  BY DEF IndInv, PipelineExact
<1>11. OneDrainer' /\ Drainer' = Idle
  BY <1>1, <1>2, <1>3, <1>6, <1>7, <1>9, <1>10, DrainMoves
<1>12. Reaped' = Reaped
  <2>1. t.pc # "found" /\ u.pc # "found"
    BY <1>1, <1>6
  <2> QED
    BY <2>1, <1>3, <1>7, <1>10, ReapedMoves
<1>13. InHtc' = InHtc
  BY <1>8 DEF InHtc
<1>14. OneHolder'
  <2>1. \A d \in Counted : d # c => th[d].pkt \notin InHtc'
    BY <1>10, <1>13 DEF OneHolder
  <2>2. u.pc \notin {"count", "send", "found"}
    BY <1>6
  <2> QED
    BY <1>3, <1>7, <1>10, <2>1, <2>2, HolderMoves
<1>15. txq' \in Seq(Pkt) /\ usage' \in Nat /\ Len(t.q) \in Nat
  <2>1. Len(t.q) \in Nat /\ t.q \o txq \in Seq(Pkt)
    BY <1>4, <1>9, LenProperties, ConcatProperties
  <2> QED
    BY <2>1, <1>1, <1>9 DEF Put
<1>16. TypeOK'
  BY ZenonT(60), <1>1, <1>3, <1>7, <1>15, Moved DEF TypeOK, pipeVars, wmiVars, histVars
<1>17. /\ Pipe(t, Reaped, ring, txq, lookup, order)
       /\ ~stolen => usage = Gets(t, Reaped, ring) /\ (bus # "on" => usage = 0)
       /\ creditFlow => credits + Pays(t, ring, dma) + held + leaked = Total
  BY <1>3, PipeOf
<1>18. Idle \in Context /\ HandOf(Idle) = <<>> /\ Has(Idle) = <<>> /\ Idle.pc = "idle"
  BY IdleHas
<1>19. ring \o <<>> = ring
  BY <1>9, ConcatEmptySeq
<1> HIDE DEF t
<1>20. Pipe(Drainer', Reaped', ring', txq', lookup', order')
  <2>1. (ring \o t.q) \o txq = ring \o (t.q \o txq)
    <3> DEFINE a == t.q
    <3>1. ring \in Seq(Pkt) /\ txq \in Seq(Pkt) /\ a \in Seq(Pkt)
      BY <1>4, <1>9
    <3> HIDE DEF a
    <3>2. (ring \o a) \o txq = ring \o (a \o txq)
      BY <3>1, ConcatAssociative
    <3> QED
      BY <3>2 DEF a
  <2>2. (ring \o Has(t)) \o txq = (ring \o Has(Idle)) \o txq'
    BY <2>1, <1>1, <1>4, <1>18, <1>19
  <2>3. Pipe(Idle, Reaped, ring, txq', lookup, order)
    BY <2>2, <1>4, <1>17, <1>18 DEF Pipe
  <2> QED
    BY <2>3, <1>8, <1>11, <1>12
<1>21. PmBalanced'
  <2> DEFINE A == (ToSet(ring) \cup Reaped) \ PmPkt
             B == ToSet(t.q)
  <2>1. ASSUME ~stolen' PROVE usage' = Gets(Idle, Reaped, ring) /\ (bus # "on" => usage' = 0)
    <3>1. ~stolen /\ OnlyPm(t.q) = <<>>
      BY <2>1, <1>1
    <3>2. B \cap PmPkt = {}
      <4>1. /\ OnlyPm(t.q) \in Seq(Pkt) /\ ToSet(OnlyPm(t.q)) = B \ (Pkt \ PmPkt)
        BY <1>4, WithoutMembers DEF OnlyPm
      <4>2. ToSet(OnlyPm(t.q)) = {}
        BY <3>1, <4>1, ToSetType
      <4>3. B \subseteq Pkt /\ PmPkt \subseteq Pkt
        BY <1>4, ToSetType, TheConstants
      <4> QED
        BY <4>1, <4>2, <4>3
    <3>3. /\ ToSet(ring \o Has(t)) = ToSet(ring) \cup B /\ ToSet(ring) \cap B = {}
          /\ B \cap Reaped = {} /\ Reaped \subseteq Pkt /\ IsInjective(t.q)
      BY <1>3, <1>4 DEF Apart
    <3>4. A \in SUBSET Pkt /\ B \in SUBSET Pkt /\ A \cap B = {}
      BY <3>3, <1>4, <1>9, ToSetType
    <3>5. Cardinality(A \cup B) = Cardinality(A) + Cardinality(B)
      BY <3>4, DisjointCount
    <3>6. Cardinality(B) = Len(t.q) /\ Cardinality(A) \in Nat
      BY <3>3, <3>4, <1>4, DistinctLen, PktSets
    <3>7. (ToSet(ring \o Has(t)) \cup Reaped) \ PmPkt = A \cup B
      BY <3>2, <3>3
    <3>8. usage = Cardinality(A) + Len(t.q)
      BY <3>1, <3>5, <3>6, <3>7, <1>17 DEF Gets
    <3>9. usage' = Cardinality(A)
      BY <3>6, <3>8, <1>1, <1>15 DEF Put
    <3>10. Gets(Idle, Reaped, ring) = Cardinality(A)
      BY <1>18, <1>19 DEF Gets
    <3>11. bus # "on" => usage' = 0
      BY <3>1, <3>6, <3>8, <3>9, <1>15, <1>17
    <3> QED
      BY <3>9, <3>10, <3>11
  <2>2. ~stolen' => usage' = Gets(Drainer', Reaped', ring') /\ (bus' # "on" => usage' = 0)
    BY <2>1, <1>8, <1>11, <1>12
  <2> QED
    BY <2>2, PipeBack
<1>22. CreditsExact'
  <2>1. ToSet(<<>>) = {}
    BY DEF ToSet
  <2>2. Pays(Idle, ring, dma) = Pays(t, ring, dma)
    BY <2>1, <1>1, <1>18 DEF Pays
  <2>3. creditFlow' => credits' + Pays(Drainer', ring', dma') + held' + leaked' = Total
    BY <2>2, <1>8, <1>11, <1>17
  <2> QED
    BY <2>3, PipeBack
<1>23. free' + Len(ring') = free + Len(ring) + One(th[c].cmpl) - One(u.cmpl)
  <2> DEFINE x == One(u.cmpl)
             l == Len(ring)
  <2>1. x \in Int /\ One(th[c].cmpl) = x /\ l \in Int /\ free \in Int /\ Len(ring') = l /\ free' = free
    BY <1>6, <1>8, <1>9 DEF One, t
  <2> HIDE DEF x, l
  <2>2. free + l = free + l + x - x
    BY <2>1
  <2> QED
    BY <2>1, <2>2 DEF x, l
<1>24. /\ Cardinality(InHtc') = Cardinality(InHtc) + 0
       /\ pending' = pending + 0 + One(u.pc \in {"count", "send"})
                       - One(th[c].pc \in {"count", "send"})
       /\ 0 \in Int /\ 0 <= 0 /\ u.pc # "send"
  BY <1>1, <1>6, <1>8, <1>9, <1>13 DEF One, t
<1> QED
  BY <1>6, <1>7, <1>11, <1>14, <1>16, <1>20, <1>21, <1>22, <1>23, <1>24, Close

-----------------------------------------------------------------------------
(***************************************************************************)
(* The queue is filled and drained.                                        *)
(***************************************************************************)
\* What the caller of htc_try_send brings.
Mine(t) == IF t.pc = "send" THEN <<t.pkt>> ELSE <<>>

\* The packet of the caller is queued.
LEMMA QueueMine ==
  ASSUME IndInv, NEW c \in Ctx, th[c].pc \in {"send", "try"}, order' = order \o Mine(th[c])
  PROVE  /\ txq \o Mine(th[c]) \in Seq(Pkt) /\ order' \in Seq(Pkt)
         /\ Pipe(Drainer, Reaped, ring, txq \o Mine(th[c]), lookup, order')
         /\ Cardinality(InHtc') = Cardinality(InHtc) + One(th[c].pc = "send")
         /\ \A d \in Counted : d # c => th[d].pkt \notin InHtc'
<1>1. /\ th[c] \in Context /\ ContextFits(th[c]) /\ OneHolder /\ Drainer \in Context
      /\ ring \in Seq(Pkt) /\ txq \in Seq(Pkt) /\ order \in Seq(Pkt)
      /\ InHtc \in SUBSET Pkt /\ Cardinality(InHtc) \in Nat
  BY Types DEF IndInv
<1>2. Pipe(Drainer, Reaped, ring, txq, lookup, order)
  BY PipeOf
<1>3. CASE th[c].pc = "try"
  <2>1. Mine(th[c]) = <<>> /\ One(th[c].pc = "send") = 0
    BY <1>3 DEF Mine, One
  <2>2. order \o <<>> = order
    BY <1>1, ConcatEmptySeq
  <2>3. txq \o <<>> = txq
    BY <1>1, ConcatEmptySeq
  <2>4. order' = order /\ txq \o Mine(th[c]) = txq
    BY <2>1, <2>2, <2>3
  <2>5. InHtc' = InHtc
    BY <2>4 DEF InHtc
  <2>6. \A d \in Counted : d # c => th[d].pkt \notin InHtc'
    BY <2>5, <1>1 DEF OneHolder
  <2> QED
    BY <1>1, <1>2, <2>1, <2>4, <2>5, <2>6
<1>4. CASE th[c].pc = "send"
  <2> DEFINE m == th[c].pkt
             b == <<m>>
             q == txq \o b
             H == Has(Drainer)
             l == (ring \o H) \o txq
  <2>1. m # NoPkt /\ c \in Counted
    BY <1>1, <1>4 DEF ContextFits, Counted
  <2>2. m \in Pkt /\ m \notin InHtc
    BY <2>1, <1>1 DEF OneHolder, Context
  <2>3. Mine(th[c]) = b /\ One(th[c].pc = "send") = 1
    BY <1>4 DEF Mine, One
  <2>4. b \in Seq(Pkt) /\ ToSet(b) = {m} /\ H \in Seq(Pkt)
    BY <2>2, <1>1, ShortLists, HandType
  <2>5. /\ Placed(l, Reaped, order) /\ Ordered(l, order)
        /\ LooksUp(lookup, ring \o HandOf(Drainer), Reaped)
    BY <1>2 DEF Pipe
  <2>6. m \notin ToSet(order)
    BY <2>2 DEF InHtc
  <2> HIDE DEF l
  <2>7. Placed(l \o <<m>>, Reaped, order \o <<m>>) /\ Ordered(l \o <<m>>, order \o <<m>>)
    BY <2>2, <2>5, <2>6, QueuePlaced
  <2> HIDE DEF m, b, H
  <2>8. order' = order \o b
    BY <2>3
  <2>9. l \o b = (ring \o H) \o q
    <3> DEFINE a == ring \o H
    <3>1. a \in Seq(Pkt) /\ txq \in Seq(Pkt) /\ b \in Seq(Pkt)
      BY <1>1, <2>4, ConcatProperties
    <3> HIDE DEF a
    <3>2. (a \o txq) \o b = a \o (txq \o b)
      BY <3>1, ConcatAssociative
    <3> QED
      BY <3>2 DEF l, a
  <2>10. Pipe(Drainer, Reaped, ring, q, lookup, order')
    <3>1. Placed((ring \o H) \o q, Reaped, order') /\ Ordered((ring \o H) \o q, order')
      BY <2>7, <2>8, <2>9 DEF b
    <3> QED
      BY <3>1, <2>5 DEF Pipe, H
  <2>11. q \in Seq(Pkt)
    BY <1>1, <2>4, ConcatProperties
  <2>12. order' \in Seq(Pkt) /\ InHtc' = InHtc \cup {m}
    <3>1. order \o b \in Seq(Pkt) /\ ToSet(order \o b) = ToSet(order) \cup ToSet(b)
      BY <1>1, <2>4, ConcatMembers
    <3> QED
      BY <3>1, <2>4, <2>8 DEF InHtc
  <2>13. Cardinality(InHtc') = Cardinality(InHtc) + 1
    <3>1. IsFiniteSet(InHtc)
      BY <1>1, PktSets
    <3>2. Cardinality(InHtc \cup {m}) = IF m \in InHtc THEN Cardinality(InHtc)
                                        ELSE Cardinality(InHtc) + 1
      BY <3>1, FS_AddElement
    <3> QED
      BY <3>2, <2>2, <2>12
  <2>14. \A d \in Counted : d # c => th[d].pkt \notin InHtc'
    BY <1>1, <2>1, <2>12 DEF OneHolder, m
  <2> QED
    BY <2>3, <2>10, <2>11, <2>12, <2>13, <2>14
<1> QED
  BY <1>3, <1>4

\* Somebody drains: the rest is left to him.
LEMMA LeaveKeeps ==
  ASSUME IndInv, NEW c \in Ctx, th[c].pc \in {"send", "try"}, order' = order \o Mine(th[c]),
         txq' = txq \o Mine(th[c]), th' = [th EXCEPT ![c] = Return(@)],
         UNCHANGED <<creditFlow, lookup, credits, draining, need, pipeVars, pmVars, wmiVars,
                     histVars>>
  PROVE  IndInv'
<1> DEFINE t == th[c]
           u == Return(t)
<1>1. /\ TypeOK /\ th \in [Ctx -> Context] /\ t \in Context /\ free \in Nat /\ Len(ring) \in Nat
      /\ pending \in Nat /\ OneHolder
  BY Types DEF IndInv
<1>2. /\ txq' \in Seq(Pkt) /\ order' \in Seq(Pkt)
      /\ Pipe(Drainer, Reaped, ring, txq', lookup, order')
      /\ Cardinality(InHtc') = Cardinality(InHtc) + One(t.pc = "send")
      /\ \A d \in Counted : d # c => th[d].pkt \notin InHtc'
  BY QueueMine
<1>3. th' = [th EXCEPT ![c] = u]
  BY <1>1
<1>4. /\ u \in Context /\ u.cmpl = t.cmpl /\ ContextFits(u)
      /\ u.pc \in {"idle", "allow"} /\ ~Draining(u)
  BY <1>1, Returns
<1> HIDE DEF u
<1>5. Moves(c, u)
  BY <1>3, <1>4 DEF Moves
<1>6. UNCHANGED <<creditFlow, lookup, credits, draining, free, ring, dma, held, usage, bus, stolen,
                  pending, leaked>>
  BY DEF pipeVars, pmVars, wmiVars, histVars
<1>7. ~Draining(t) /\ t.pc # "found" /\ u.pc \notin {"found", "count", "send"}
  BY <1>4 DEF Draining
<1>8. OneDrainer' /\ Drainer' = Drainer /\ Reaped' = Reaped
  BY <1>4, <1>5, <1>6, <1>7, QuietMove
<1>9. OneHolder'
  BY <1>1, <1>2, <1>5, <1>7, HolderMoves
<1>10. TypeOK'
  BY <1>1, <1>2, <1>5, Moved DEF TypeOK, pipeVars, pmVars, wmiVars, histVars
<1>11. Pipe(Drainer', Reaped', ring', txq', lookup', order')
  BY <1>2, <1>6, <1>8
<1>12. PmBalanced' /\ CreditsExact'
  <2>1. /\ ~stolen => usage = Gets(Drainer, Reaped, ring) /\ (bus # "on" => usage = 0)
        /\ creditFlow => credits + Pays(Drainer, ring, dma) + held + leaked = Total
    BY PipeOf
  <2>2. ~stolen' => usage' = Gets(Drainer', Reaped', ring') /\ (bus' # "on" => usage' = 0)
    BY <2>1, <1>6, <1>8
  <2>3. creditFlow' => credits' + Pays(Drainer', ring', dma') + held' + leaked' = Total
    BY <2>1, <1>6, <1>8
  <2> QED
    BY <2>2, <2>3, PipeBack
<1>13. free' + Len(ring') = free + Len(ring) + One(t.cmpl) - One(u.cmpl)
  <2> DEFINE x == One(u.cmpl)
             l == Len(ring)
  <2>1. x \in Int /\ One(t.cmpl) = x /\ l \in Int /\ free \in Int /\ Len(ring') = l /\ free' = free
    BY <1>1, <1>4, <1>6 DEF One
  <2> HIDE DEF x, l
  <2>2. free + l = free + l + x - x
    BY <2>1
  <2> QED
    BY <2>1, <2>2 DEF x, l
<1> DEFINE k == One(t.pc = "send")
<1>14. /\ k \in Int /\ (k <= 0 \/ (k = 1 /\ t.pc = "send" /\ u.pc # "send")) /\ u.pc # "send"
       /\ pending' = pending + k + One(u.pc \in {"count", "send"}) - One(t.pc \in {"count", "send"})
  BY <1>1, <1>6, <1>7 DEF One
<1>15. Cardinality(InHtc') = Cardinality(InHtc) + k
  BY <1>2
<1> HIDE DEF k
<1> QED
  BY <1>4, <1>5, <1>8, <1>9, <1>10, <1>11, <1>12, <1>13, <1>14, <1>15, Close

\* What a turn of the loop leaves in the hands of the context.
LEMMA TurnMoves ==
  ASSUME NEW t \in Context, t.pc \in {"send", "try", "again"}, NEW n \in Nat,
         NEW take \in Seq(Pkt), Len(take) = n
  PROVE  LET u == IF n = 0 THEN Return(t)
                  ELSE [t EXCEPT !.pc = "issue", !.q = take, !.pkt = NoPkt]
         IN  /\ u \in Context /\ u.cmpl = t.cmpl /\ ContextFits(u)
             /\ u.pc \notin {"found", "count", "send", "putback"}
             /\ Draining(u) <=> n > 0
             /\ n > 0 => HandOf(u) = <<>> /\ Has(u) = take
<1>1. CASE n = 0
  BY <1>1, Returns
<1>2. CASE n > 0
  <2> DEFINE v == [t EXCEPT !.pc = "issue", !.q = take, !.pkt = NoPkt]
  <2>1. v \in Context /\ v.cmpl = t.cmpl /\ v.pc = "issue" /\ v.q = take /\ v.pkt = NoPkt
    BY DEF Context
  <2> HIDE DEF v
  <2>2. ContextFits(v) /\ Draining(v)
    BY <2>1 DEF ContextFits, Draining
  <2>3. HandOf(v) = <<>> /\ Has(v) = take
    BY <2>1, EmptyHand
  <2> QED
    BY <1>2, <2>1, <2>2, <2>3 DEF v
<1> QED
  BY <1>1, <1>2

\* What is taken leads the queue, the rest follows.
LEMMA TurnPipe ==
  ASSUME NEW D, HandOf(D) = <<>>, Has(D) = <<>>, NEW take \in Seq(Pkt), NEW rest \in Seq(Pkt),
         NEW E, HandOf(E) = <<>>, Has(E) = take, NEW q \in Seq(Pkt), NEW rg \in Seq(Pkt),
         NEW R, NEW lk, NEW od, Pipe(D, R, rg, q, lk, od),
         IsInjective(take \o rest), ToSet(take \o rest) = ToSet(q), Ordered(take \o rest, q)
  PROVE  Pipe(E, R, rg, rest, lk, od)
<1>1. rg \o <<>> = rg
  BY ConcatEmptySeq
<1>2. Placed(rg \o q, R, od) /\ Ordered(rg \o q, od) /\ LooksUp(lk, rg \o HandOf(E), R)
  BY <1>1 DEF Pipe
<1>3. take \o rest \in Seq(Pkt)
  BY ConcatProperties
<1>4. Placed(rg \o (take \o rest), R, od) /\ Ordered(rg \o (take \o rest), od)
  BY <1>2, <1>3, ArrangePlaced
<1>5. (rg \o take) \o rest = rg \o (take \o rest)
  BY ConcatAssociative
<1> QED
  BY <1>2, <1>4, <1>5 DEF Pipe

\* The queue does not hold what is elsewhere.
LEMMA TurnApart ==
  ASSUME NEW D \in Context, Has(D) = <<>>, NEW q \in Seq(Pkt), NEW rg \in Seq(Pkt),
         NEW R, NEW lk, NEW od, Pipe(D, R, rg, q, lk, od)
  PROVE  /\ IsInjective(q) /\ ToSet(q) \cap (ToSet(rg) \cup R) = {} /\ R \subseteq Pkt
         /\ ToSet(rg) \subseteq Pkt
<1>1. Apart(D, R, rg, q, od)
  BY PipeMembers
<1>2. ToSet(rg) \subseteq Pkt
  BY ToSetType
<1> QED
  BY <1>1, <1>2 DEF Apart

\* References are taken for the packets other than the PM ones.
LEMMA TurnGets ==
  ASSUME NEW D, Has(D) = <<>>, NEW take \in Seq(Pkt), IsInjective(take),
         NEW E, Has(E) = take, NEW rg \in Seq(Pkt), ToSet(rg) \subseteq Pkt,
         NEW R, R \subseteq Pkt, ToSet(take) \cap (ToSet(rg) \cup R) = {}
  PROVE  /\ ToSet(take) \subseteq PmPkt => Gets(E, R, rg) = Gets(D, R, rg)
         /\ ToSet(take) \cap PmPkt = {} => Gets(E, R, rg) = Gets(D, R, rg) + Len(take)
         /\ Gets(D, R, rg) \in Nat
<1> DEFINE A == (ToSet(rg) \cup R) \ PmPkt
           B == ToSet(take)
<1>1. rg \o <<>> = rg
  BY ConcatEmptySeq
<1>2. ToSet(rg \o take) = ToSet(rg) \cup B
  BY ConcatMembers
<1>3. Gets(D, R, rg) = Cardinality(A)
  BY <1>1 DEF Gets
<1>4. B \in SUBSET Pkt /\ A \in SUBSET Pkt
  BY ToSetType
<1>5. ((ToSet(rg) \cup B) \cup R) \ PmPkt = A \cup (B \ PmPkt)
  OBVIOUS
<1>6. Gets(E, R, rg) = Cardinality(A \cup (B \ PmPkt))
  BY <1>2, <1>5 DEF Gets
<1>7. A \cap B = {}
  OBVIOUS
<1>8. Cardinality(B) = Len(take)
  BY DistinctLen
<1> HIDE DEF A, B
<1>9. ASSUME B \subseteq PmPkt PROVE Gets(E, R, rg) = Gets(D, R, rg)
  <2>1. A \cup (B \ PmPkt) = A
    BY <1>9
  <2> QED
    BY <1>3, <1>6, <2>1
<1>10. ASSUME B \cap PmPkt = {} PROVE Gets(E, R, rg) = Gets(D, R, rg) + Len(take)
  <2>1. A \cup (B \ PmPkt) = A \cup B
    BY <1>10
  <2>2. Cardinality(A \cup B) = Cardinality(A) + Cardinality(B)
    BY <1>4, <1>7, DisjointCount
  <2> QED
    BY <1>3, <1>6, <1>8, <2>1, <2>2
<1>11. Cardinality(A) \in Nat
  BY <1>4, PktSets
<1> QED
  BY <1>3, <1>9, <1>10, <1>11 DEF B

\* The credits of what is taken are paid.
LEMMA TurnPays ==
  ASSUME NEW D \in Context, Has(D) = <<>>, NEW take \in Seq(Pkt),
         NEW E \in Context, Has(E) = take, E.pc # "putback", NEW rg \in Seq(Pkt),
         NEW n \in 0..Len(rg), ToSet(take) \cap ToSet(rg) = {}
  PROVE  /\ Pays(E, rg, n) = Pays(D, rg, n) + CostOf(ToSet(take))
         /\ Pays(D, rg, n) \in Nat /\ CostOf(ToSet(take)) \in Nat
<1>1. ToSet(<<>>) = {} /\ CostOf({}) = 0
  <2>1. CostOf({}) = 0 /\ CostOf({}) \in Nat
    <3>1. Cardinality({}) = 0 /\ PerMaxMsg \in Nat
      BY FS_EmptySet, TheConstants
    <3>2. {} \ BigPkt = {} /\ {} \cap BigPkt = {}
      OBVIOUS
    <3> QED
      BY <3>1, <3>2 DEF CostOf
  <2> QED
    BY <2>1 DEF ToSet
<1>2. ToSet(rg) \cap ToSet(Has(D)) = {} /\ ToSet(rg) \cap ToSet(Has(E)) = {}
  BY <1>1
<1>3. /\ Pays(D, rg, n) = IF D.pc = "putback" THEN Way(rg, n) ELSE Way(rg, n) + 0
      /\ Way(rg, n) \in Nat
  BY ZenonT(60), <1>1, <1>2, PaysSplit
<1>4. Pays(E, rg, n) = Way(rg, n) + CostOf(ToSet(take)) /\ CostOf(ToSet(take)) \in Nat
  BY <1>2, PaysSplit
<1> QED
  BY <1>3, <1>4

\* A turn of the loop of the context that drains, or begins to.
LEMMA LoopKeeps ==
  ASSUME IndInv, NEW c \in Ctx, NEW q \in Seq(Pkt), NEW res \in Nat, Loop(c, q, res),
         th[c].pc \in {"send", "try", "again"}, Draining(th[c]) \/ ~draining,
         HandOf(Drainer) = <<>>, Has(Drainer) = <<>>,
         order' \in Seq(Pkt), Pipe(Drainer, Reaped, ring, q, lookup, order'),
         Cardinality(InHtc') = Cardinality(InHtc) + One(th[c].pc = "send"),
         \A d \in Counted : d # c => th[d].pkt \notin InHtc'
  PROVE  IndInv'
<1> DEFINE t == th[c]
           s == Candidates(q)
           get == q # <<>> /\ OnlyPm(q) = <<>> /\ (creditFlow \/ res > 0)
<1>1. /\ TypeOK /\ th \in [Ctx -> Context] /\ t \in Context /\ free \in Nat /\ Len(ring) \in Nat
      /\ pending \in Nat /\ OneHolder /\ OneDrainer /\ Drainer \in Context /\ ring \in Seq(Pkt)
      /\ credits \in Nat /\ held \in Nat /\ leaked \in Nat /\ usage \in Nat
      /\ creditFlow \in BOOLEAN /\ draining \in BOOLEAN /\ dma \in 0..Len(ring)
  BY Types DEF IndInv, PipelineExact
<1>2. PICK n \in 0..Len(s) :
        /\ Fits(s, n, res)
        /\ txq' = Rest(q, SubSeq(s, 1, n))
        /\ need' = IF creditFlow THEN (need \ ToSet(SubSeq(s, 1, n))) \cup AskFor(SubSeq(s, 1, n))
                   ELSE need
        /\ credits' = IF creditFlow THEN credits - CostOf(ToSet(SubSeq(s, 1, n))) ELSE credits
        /\ usage' = IF get THEN usage + n ELSE usage
        /\ bus' = IF get /\ bus = "off" THEN "wanted" ELSE bus
        /\ draining' = (n > 0)
        /\ th' = [th EXCEPT ![c] = IF n = 0 THEN Return(@)
                      ELSE [@ EXCEPT !.pc = "issue", !.q = SubSeq(s, 1, n), !.pkt = NoPkt]]
        /\ UNCHANGED <<creditFlow, lookup, pipeVars, kick, stolen, wmiVars, histVars>>
  BY DEF Loop
<1> DEFINE take == SubSeq(s, 1, n)
           rest == Rest(q, take)
           u == IF n = 0 THEN Return(t)
                ELSE [t EXCEPT !.pc = "issue", !.q = take, !.pkt = NoPkt]
           D == Drainer
           E == IF n > 0 THEN u ELSE Idle
<1>3. /\ IsInjective(q) /\ ToSet(q) \cap (ToSet(ring) \cup Reaped) = {} /\ Reaped \subseteq Pkt
      /\ ToSet(ring) \subseteq Pkt
  BY <1>1, TurnApart
<1>4. n \in Nat /\ n \in 0..Len(Candidates(q))
  BY <1>2
<1>5. /\ take \in Seq(Pkt) /\ rest \in Seq(Pkt) /\ Len(take) = n
      /\ IsInjective(take) /\ ToSet(take) \cup ToSet(rest) = ToSet(q)
      /\ IsInjective(take \o rest) /\ ToSet(take \o rest) = ToSet(q) /\ Ordered(take \o rest, q)
      /\ OnlyPm(q) # <<>> => ToSet(take) \subseteq PmPkt
      /\ OnlyPm(q) = <<>> => ToSet(q) \cap PmPkt = {}
      /\ n > 0 /\ OnlyPm(q) = <<>> => bus = "on"
  BY <1>3, <1>4, TakeAndRest
<1>6. Affords(s, n, res)
  BY <1>2 DEF Fits
<1>7. /\ creditFlow => CostOf(ToSet(take)) <= credits
      /\ ~creditFlow => n <= res
  BY <1>6 DEF Affords
<1>8. n > 0 => q # <<>>
  <2> SUFFICES ASSUME q = <<>>, n > 0 PROVE FALSE
    OBVIOUS
  <2>1. take \in Seq(Pkt) /\ ToSet(take) \subseteq ToSet(q) /\ Len(take) > 0
    BY <1>5
  <2> HIDE DEF take
  <2>2. take # <<>>
    BY <2>1, EmptySeq
  <2>3. ToSet(take) # {}
    BY <2>1, <2>2, ToSetType
  <2>4. ToSet(q) = {}
    BY ToSetType
  <2> QED
    BY <2>1, <2>3, <2>4
<1>9. ToSet(take) \cap (ToSet(ring) \cup Reaped) = {} /\ ToSet(take) \subseteq ToSet(q)
  BY <1>3, <1>5
<1>10. AskFor(take) \subseteq Pkt
  <2>1. \A i \in 1..Len(take) : take[i] \in Pkt
    BY <1>5
  <2> HIDE DEF take
  <2> QED
    BY <2>1 DEF AskFor
<1>11. /\ txq' = rest
       /\ need' = IF creditFlow THEN (need \ ToSet(take)) \cup AskFor(take) ELSE need
       /\ credits' = IF creditFlow THEN credits - CostOf(ToSet(take)) ELSE credits
       /\ usage' = IF get THEN usage + n ELSE usage
       /\ bus' = IF get /\ bus = "off" THEN "wanted" ELSE bus
       /\ draining' = (n > 0)
       /\ th' = [th EXCEPT ![c] = u]
       /\ UNCHANGED <<creditFlow, lookup, free, ring, dma, held, asked, kick, stolen, pending, done,
                      leaked, failed>>
  BY <1>1, <1>2 DEF pipeVars, wmiVars, histVars
<1> HIDE DEF take, s
<1>12. /\ u \in Context /\ u.cmpl = t.cmpl /\ ContextFits(u)
       /\ u.pc \notin {"found", "count", "send", "putback"}
       /\ Draining(u) <=> n > 0
       /\ n > 0 => HandOf(u) = <<>> /\ Has(u) = take
  <2>1. t \in Context /\ t.pc \in {"send", "try", "again"} /\ take \in Seq(Pkt) /\ n \in Nat
        /\ Len(take) = n
    BY <1>1, <1>4, <1>5
  <2> HIDE DEF t
  <2> QED
    BY <2>1, TurnMoves
<1> HIDE DEF u, rest
<1>13. n = 0 => take = <<>>
  BY <1>5, EmptySeq
<1>14. E \in Context /\ HandOf(E) = <<>> /\ Has(E) = take /\ E.pc # "putback"
  BY <1>4, <1>12, <1>13, IdleHas
<1>15. Moves(c, u)
  BY <1>11, <1>12 DEF Moves
<1>16. OneDrainer' /\ Drainer' = E
  <2>1. draining' = IF Draining(u) THEN TRUE ELSE IF Draining(t) THEN FALSE ELSE draining
    <3>1. draining' \in BOOLEAN /\ draining \in BOOLEAN /\ (draining' <=> n > 0)
      <4>1. draining' = (n > 0) /\ draining \in BOOLEAN
        BY <1>1, <1>11
      <4>2. (n > 0) \in BOOLEAN
        BY <1>4
      <4> QED
        BY <4>1, <4>2
    <3>2. CASE Draining(u)
      <4>1. draining' = TRUE
        BY <3>1, <3>2, <1>12
      <4> QED
        BY <4>1, <3>2
    <3>3. CASE ~Draining(u)
      <4>1. draining' = FALSE
        BY <3>1, <3>3, <1>12
      <4> QED
        BY <4>1, <3>1, <3>3
    <3> QED
      BY <3>2, <3>3
  <2>2. /\ OneDrainer'
        /\ Drainer' = IF Draining(u) THEN u ELSE IF Draining(t) THEN Idle ELSE Drainer
    BY <1>1, <1>15, <2>1, DrainMoves
  <2>3. ~draining => Drainer = Idle
    BY <1>1, DrainerIs
  <2> QED
    BY <1>12, <2>2, <2>3
<1>17. Reaped' = Reaped /\ t.pc # "found"
  BY <1>1, <1>12, <1>15, ReapedMoves
<1>18. OneHolder'
  BY <1>1, <1>12, <1>15, HolderMoves
<1> HIDE DEF E
<1>19. Pipe(Drainer', Reaped', ring', txq', lookup', order')
  <2>1. Pipe(E, Reaped, ring, rest, lookup, order')
    BY <1>1, <1>5, <1>14, TurnPipe
  <2> QED
    BY <2>1, <1>11, <1>16, <1>17
<1>20. /\ Pays(E, ring, dma) = Pays(D, ring, dma) + CostOf(ToSet(take))
       /\ Pays(D, ring, dma) \in Nat /\ CostOf(ToSet(take)) \in Nat
  BY <1>1, <1>5, <1>9, <1>14, TurnPays
<1>21. CreditsExact' /\ credits' \in Nat
  <2> DEFINE x == CostOf(ToSet(take))
             y == Pays(D, ring, dma)
             e == credits'
  <2>1. creditFlow => credits + y + held + leaked = Total
    BY PipeOf
  <2>2. x \in Nat /\ y \in Nat /\ Pays(E, ring, dma) = y + x
    BY <1>20
  <2>3. e = (IF creditFlow THEN credits - x ELSE credits) /\ (creditFlow => x <= credits)
    BY <1>7, <1>11
  <2> HIDE DEF x, y, e
  <2>4. e \in Nat /\ (creditFlow => e + (y + x) + held + leaked = Total)
    BY SMTT(30), <1>1, <2>1, <2>2, <2>3
  <2>5. creditFlow' => credits' + Pays(Drainer', ring', dma') + held' + leaked' = Total
    BY <2>2, <2>4, <1>11, <1>16 DEF e
  <2> QED
    BY <2>4, <2>5, PipeBack DEF e
<1>22. PmBalanced' /\ usage' \in Nat
  <2> DEFINE g == Gets(D, Reaped, ring)
             e == usage'
  <2>1. ~stolen => usage = g /\ (bus # "on" => usage = 0)
    BY PipeOf
  <2>2. /\ ToSet(take) \subseteq PmPkt => Gets(E, Reaped, ring) = g
        /\ ToSet(take) \cap PmPkt = {} => Gets(E, Reaped, ring) = g + n
        /\ g \in Nat
    <3>1. /\ ToSet(take) \subseteq PmPkt => Gets(E, Reaped, ring) = g
          /\ ToSet(take) \cap PmPkt = {} => Gets(E, Reaped, ring) = g + Len(take)
          /\ g \in Nat
      <4>1. /\ ring \in Seq(Pkt) /\ ToSet(ring) \subseteq Pkt /\ Reaped \subseteq Pkt
            /\ ToSet(take) \cap (ToSet(ring) \cup Reaped) = {}
            /\ take \in Seq(Pkt) /\ IsInjective(take) /\ Has(E) = take /\ Has(D) = <<>>
        BY <1>1, <1>3, <1>5, <1>9, <1>14
      <4> HIDE DEF D
      <4> QED
        BY <4>1, TurnGets DEF g
    <3> QED
      BY <3>1, <1>5
  <2>3. e = (IF get THEN usage + n ELSE usage)
    BY <1>11
  <2>4. /\ OnlyPm(q) # <<>> => Gets(E, Reaped, ring) = g
        /\ OnlyPm(q) = <<>> => Gets(E, Reaped, ring) = g + n
    BY <1>5, <1>9, <2>2
  <2>5. OnlyPm(q) = <<>> /\ ~get => n = 0
    BY <1>4, <1>7, <1>8
  <2>6. bus' # "on" => bus # "on"
    BY <1>11
  <2> HIDE DEF g, e
  <2>7. e \in Nat
    BY <1>1, <1>4, <2>3
  <2>8. CASE OnlyPm(q) # <<>>
    <3>1. e = usage /\ Gets(E, Reaped, ring) = g
      BY <2>3, <2>4, <2>8
    <3>2. ~stolen' => usage' = Gets(Drainer', Reaped', ring') /\ (bus' # "on" => usage' = 0)
      BY <3>1, <2>1, <2>6, <1>11, <1>16, <1>17 DEF e
    <3> QED
      BY <3>2, <2>7, PipeBack DEF e
  <2>9. CASE OnlyPm(q) = <<>>
    <3>1. e = usage + n /\ Gets(E, Reaped, ring) = g + n
      BY <1>1, <1>4, <2>3, <2>4, <2>5, <2>9
    <3>2. bus' # "on" => n = 0 /\ bus # "on"
      BY <1>4, <1>5, <2>6, <2>9
    <3>3. ~stolen => e = g + n /\ (bus' # "on" => e = 0)
      BY <1>4, <2>1, <3>1, <3>2
    <3>4. ~stolen' => usage' = Gets(Drainer', Reaped', ring') /\ (bus' # "on" => usage' = 0)
      BY <3>1, <3>3, <1>11, <1>16, <1>17 DEF e
    <3> QED
      BY <3>4, <2>7, PipeBack DEF e
  <2> QED
    BY <2>8, <2>9
<1>23. TypeOK'
  <2>1. th' \in [Ctx -> Context]
    BY <1>1, <1>15, Moved
  <2>2. need' \subseteq Pkt
    <3>1. need \subseteq Pkt
      BY <1>1 DEF TypeOK
    <3> QED
      BY <3>1, <1>10, <1>11
  <2>3. txq' \in Seq(Pkt)
    BY <1>5, <1>11
  <2>4. bus' \in {"on", "off", "wanted"} /\ draining' \in BOOLEAN
    BY <1>1, <1>11 DEF TypeOK
  <2> QED
    BY <2>1, <2>2, <2>3, <2>4, <1>1, <1>11, <1>21, <1>22 DEF TypeOK
<1>24. free' + Len(ring') = free + Len(ring) + One(t.cmpl) - One(u.cmpl)
  <2> DEFINE x == One(u.cmpl)
             l == Len(ring)
  <2>1. x \in Int /\ One(t.cmpl) = x /\ l \in Int /\ free \in Int /\ Len(ring') = l /\ free' = free
    BY <1>1, <1>11, <1>12 DEF One
  <2> HIDE DEF x, l
  <2>2. free + l = free + l + x - x
    BY <2>1
  <2> QED
    BY <2>1, <2>2 DEF x, l
<1> DEFINE k == One(t.pc = "send")
<1>25. /\ k \in Int /\ (k <= 0 \/ (k = 1 /\ t.pc = "send" /\ u.pc # "send")) /\ u.pc # "send"
       /\ pending' = pending + k + One(u.pc \in {"count", "send"}) - One(t.pc \in {"count", "send"})
  BY <1>1, <1>11, <1>12 DEF One
<1>26. Cardinality(InHtc') = Cardinality(InHtc) + k
  OBVIOUS
<1> HIDE DEF k
<1> QED
  BY <1>12, <1>15, <1>16, <1>18, <1>19, <1>21, <1>22, <1>23, <1>24, <1>25, <1>26, Close

\* The caller's packet is queued, and the queue drained by one context.
LEMMA TrySendKeeps ==
  ASSUME IndInv, NEW c \in Ctx, TrySend(c)
  PROVE  IndInv'
<1>1. th[c].pc \in {"send", "try"} /\ order' = order \o Mine(th[c])
  BY DEF TrySend, Mine
<1>2. CASE draining /\ txq' = txq \o Mine(th[c]) /\ th' = [th EXCEPT ![c] = Return(@)]
           /\ UNCHANGED <<creditFlow, lookup, credits, draining, need, pipeVars, pmVars, wmiVars,
                          histVars>>
  BY <1>1, <1>2, LeaveKeeps
<1>3. CASE ~draining /\ Loop(c, txq \o Mine(th[c]), free)
  <2>1. /\ txq \o Mine(th[c]) \in Seq(Pkt) /\ order' \in Seq(Pkt)
        /\ Pipe(Drainer, Reaped, ring, txq \o Mine(th[c]), lookup, order')
        /\ Cardinality(InHtc') = Cardinality(InHtc) + One(th[c].pc = "send")
        /\ \A d \in Counted : d # c => th[d].pkt \notin InHtc'
    BY <1>1, QueueMine
  <2>2. OneDrainer /\ free \in Nat
    BY Types DEF IndInv, PipelineExact
  <2>3. Drainer = Idle
    BY <1>3, <2>2, DrainerIs
  <2>4. HandOf(Drainer) = <<>> /\ Has(Drainer) = <<>>
    BY <2>3, IdleHas
  <2> QED
    BY <1>1, <1>3, <2>1, <2>2, <2>4, LoopKeeps
<1> QED
  BY <1>2, <1>3 DEF TrySend, Mine

\* The context that drains looks at the queue again.
LEMMA TryAgainKeeps ==
  ASSUME IndInv, NEW c \in Ctx, TryAgain(c)
  PROVE  IndInv'
<1>1. th[c].pc = "again" /\ Loop(c, txq, th[c].res) /\ order' = order
  BY DEF TryAgain
<1>2. Draining(th[c])
  BY <1>1 DEF Draining
<1>3. /\ th[c] \in Context /\ ContextFits(th[c]) /\ Drainer = th[c]
      /\ Pipe(Drainer, Reaped, ring, txq, lookup, order')
  BY <1>1, <1>2, DrainFacts
<1>4. th[c].pkt = NoPkt /\ th[c].q = <<>> /\ th[c].res \in Nat
  <2>1. th[c].res \in 0..RingSize /\ RingSize \in Nat
    BY <1>3, TheConstants DEF Context
  <2> QED
    BY <1>1, <1>3, <2>1 DEF ContextFits
<1>5. HandOf(Drainer) = <<>> /\ Has(Drainer) = <<>>
  BY <1>3, <1>4, EmptyHand
<1>6. txq \in Seq(Pkt) /\ order' \in Seq(Pkt) /\ OneHolder /\ Cardinality(InHtc) \in Nat
  BY <1>1, Types DEF IndInv
<1>7. InHtc' = InHtc
  BY <1>1 DEF InHtc
<1>8. Cardinality(InHtc') = Cardinality(InHtc) + One(th[c].pc = "send")
  BY <1>1, <1>6, <1>7 DEF One
<1>9. \A d \in Counted : d # c => th[d].pkt \notin InHtc'
  BY <1>6, <1>7 DEF OneHolder
<1> QED
  BY <1>1, <1>2, <1>3, <1>4, <1>5, <1>6, <1>8, <1>9, LoopKeeps

-----------------------------------------------------------------------------
(***************************************************************************)
(* The invariant holds at the start and every step keeps it.               *)
(***************************************************************************)
\* Nothing is sent yet.
LEMMA InitHolds == Init => IndInv
<1> SUFFICES ASSUME Init PROVE IndInv
  OBVIOUS
<1>1. /\ <<>> \in Seq(Pkt) /\ ToSet(<<>>) = {} /\ IsInjective(<<>>) /\ Len(<<>>) = 0
      /\ \A y, z : ~Before(<<>>, y, z)
  <2>1. <<>> \in Seq(Pkt) /\ Len(<<>>) = 0
    OBVIOUS
  <2>2. ToSet(<<>>) = {}
    BY DEF ToSet
  <2>3. IsInjective(<<>>)
    BY DEF IsInjective
  <2>4. \A y, z : ~Before(<<>>, y, z)
    BY DEF Before
  <2> QED
    BY <2>1, <2>2, <2>3, <2>4
<1>2. <<>> \o <<>> = <<>>
  BY <1>1, ConcatEmptySeq
<1>3. \A c \in Ctx : th[c] = Idle
  BY DEF Init
<1>4. TypeOK
  <2>1. th \in [Ctx -> Context]
    BY <1>3, IdleHas DEF Init
  <2>2. txq \in Seq(Pkt) /\ lookup \in Seq(Pkt) /\ ring \in Seq(Pkt) /\ order \in Seq(Pkt)
    BY <1>1 DEF Init
  <2>3. dma \in 0..Len(ring)
    BY <1>1 DEF Init
  <2>4. need \subseteq Pkt /\ done \subseteq Pkt
    BY DEF Init
  <2>5. {credits, free, held, usage, pending, leaked} \subseteq Nat
    BY TheConstants DEF Init
  <2>6. /\ creditFlow \in BOOLEAN /\ draining \in BOOLEAN /\ asked \in BOOLEAN /\ kick \in BOOLEAN
        /\ failed \in BOOLEAN /\ stolen \in BOOLEAN /\ bus \in {"on", "off", "wanted"}
    BY DEF Init
  <2> QED
    BY <2>1, <2>2, <2>3, <2>4, <2>5, <2>6 DEF TypeOK
<1>5. \A c \in Ctx : ContextFits(th[c])
  BY <1>3, IdleHas DEF ContextFits
<1>6. Drainers = {} /\ Finders = {} /\ Counted = {} /\ Sending = {} /\ Completing = {}
  BY <1>3, IdleHas DEF Drainers, Draining, Finders, Counted, Sending, Completing
<1>7. Drainer = Idle /\ Reaped = {} /\ InHtc = {}
  BY <1>1, <1>6 DEF Drainer, Reaped, InHtc, Init
<1>8. Hand = <<>> /\ Carried = <<>> /\ Line = <<>> /\ ring \o Hand = <<>> /\ ring \o Carried = <<>>
  <2>1. Hand = <<>> /\ Drainer.q = <<>> /\ ring = <<>> /\ txq = <<>>
    BY <1>7, IdleHas DEF Hand, Init
  <2> QED
    BY <2>1, <1>2 DEF Carried, Line
<1>9. Cardinality({}) = 0
  BY FS_EmptySet
<1>10. IsInjective(order)
  BY <1>1 DEF Init
<1>11. OneHolder
  BY <1>6 DEF OneHolder
<1>12. RoomLeft
  BY <1>6, <1>7, <1>9, TheConstants DEF RoomLeft
<1>13. EntriesExact
  <2>1. free = RingSize /\ Len(ring) = 0 /\ Cardinality(Completing) = 0 /\ RingSize \in Nat
    BY <1>1, <1>6, <1>9, TheConstants DEF Init
  <2> QED
    BY <2>1 DEF EntriesExact
<1>14. PipelineExact
  <2>1. OneDrainer
    BY <1>6 DEF OneDrainer, Init
  <2>2. InOnePlace
    BY <1>1, <1>7, <1>8 DEF InOnePlace
  <2>3. OrderKept
    BY <1>1, <1>8 DEF OrderKept
  <2>4. LookupExact
    BY <1>1, <1>7, <1>8 DEF LookupExact, Init
  <2>5. WindowExact
    BY <1>6, <1>7, <1>9, TheConstants DEF WindowExact, Init
  <2> QED
    BY <2>1, <2>2, <2>3, <2>4, <2>5 DEF PipelineExact
<1>15. CreditsExact
  <2>1. SubSeq(<<>>, 1, 0) = <<>>
    <3>1. 0 \in 0..Len(<<>>)
      BY <1>1
    <3>2. SubSeq(<<>>, 1, 0) \in Seq(Pkt) /\ Len(SubSeq(<<>>, 1, 0)) = 0
      BY <1>1, <3>1, SplitAt
    <3> QED
      BY <3>2, EmptySeq
  <2>2. Unreceived = {}
    <3>1. ring = <<>> /\ dma + 1 = 1 /\ Len(ring) = 0
      BY <1>1 DEF Init
    <3> QED
      BY <1>1, <2>1, <3>1 DEF Unreceived
  <2>3. Paid = {}
    BY <1>1, <1>8, <2>2 DEF Paid
  <2>4. {} \ BigPkt = {} /\ {} \cap BigPkt = {}
    OBVIOUS
  <2>5. CostOf({}) = 0
    BY <2>4, <1>9, TheConstants DEF CostOf
  <2> QED
    BY <2>3, <2>5, TheConstants DEF CreditsExact, Init
<1>16. PmBalanced
  <2>1. (ToSet(ring \o Carried) \cup Reaped) \ PmPkt = {}
    BY <1>1, <1>7, <1>8
  <2> QED
    BY <2>1, <1>9 DEF PmBalanced, Init
<1> QED
  BY <1>4, <1>5, <1>10, <1>11, <1>12, <1>13, <1>14, <1>15, <1>16 DEF IndInv

\* Nothing changes.
LEMMA StutterKeeps ==
  ASSUME IndInv, UNCHANGED vars
  PROVE  IndInv'
<1>1. UNCHANGED <<creditFlow, txq, lookup, credits, draining, need, order, free, ring, dma, held,
                  asked, usage, bus, kick, stolen, pending, done, th, leaked, failed>>
  BY DEF vars, epVars, pipeVars, pmVars, wmiVars, histVars
<1>2. /\ TypeOK' = TypeOK /\ Drainer' = Drainer /\ Reaped' = Reaped /\ InHtc' = InHtc
      /\ Counted' = Counted /\ Finders' = Finders /\ Drainers' = Drainers
      /\ Sending' = Sending /\ Completing' = Completing
  BY <1>1 DEF TypeOK, Drainer, Drainers, Draining, Reaped, Finders, InHtc, Counted, Sending,
              Completing
<1>3. Hand' = Hand /\ Carried' = Carried /\ Line' = Line /\ Unreceived' = Unreceived /\ Paid' = Paid
  BY <1>1, <1>2 DEF Hand, Carried, Line, Unreceived, Paid
<1>4. PipelineExact'
  BY <1>1, <1>2, <1>3 DEF IndInv, PipelineExact, OneDrainer, InOnePlace, OrderKept, LookupExact,
                          WindowExact
<1>5. CreditsExact' /\ PmBalanced'
  BY <1>1, <1>2, <1>3 DEF IndInv, CreditsExact, PmBalanced
<1>6. OneHolder' /\ RoomLeft' /\ EntriesExact'
  BY <1>1, <1>2 DEF IndInv, OneHolder, RoomLeft, EntriesExact
<1> QED
  BY <1>1, <1>2, <1>4, <1>5, <1>6 DEF IndInv

\* One action at a time.
LEMMA NextKeeps ==
  ASSUME IndInv, [Next]_vars
  PROVE  IndInv'
<1>1. ASSUME NEW c \in Ctx, Step(c) PROVE IndInv'
  <2>1. CASE CmdRefuse(c)
    BY <2>1, CmdEndKeeps
  <2>2. CASE CmdSend(c)
    BY <2>2, CmdSendKeeps
  <2>3. CASE TrySend(c)
    BY <2>3, TrySendKeeps
  <2>4. CASE TryAgain(c)
    BY <2>4, TryAgainKeeps
  <2>5. CASE Reread(c)
    BY <2>5, RereadKeeps
  <2>6. CASE Issue(c)
    BY <2>6, IssueKeeps
  <2>7. CASE HifSend(c)
    BY <2>7, HifSendKeeps
  <2>8. CASE Unsend(c)
    BY <2>8, UnsendKeeps
  <2>9. CASE PutBack(c)
    BY <2>9, PutBackKeeps
  <2>10. CASE TxCompletion(c)
    BY <2>10, TxCompletionKeeps
  <2>11. CASE AllowSend(c)
    BY <2>11, AllowSendKeeps
  <2> QED
    BY <1>1, <2>1, <2>2, <2>3, <2>4, <2>5, <2>6, <2>7, <2>8, <2>9, <2>10, <2>11 DEF Step
<1>2. ASSUME NEW c \in Ctx, Reap(c) PROVE IndInv'
  BY <1>2, ReapKeeps
<1>3. ASSUME NEW c \in Ctx, CmdFail(c) PROVE IndInv'
  BY <1>3, CmdEndKeeps
<1>4. ASSUME NEW c \in Ctx, MapFail(c) PROVE IndInv'
  BY <1>4, MapFailKeeps
<1>5. ASSUME NEW c \in Ctx, NEW p \in Pkt, CmdCount(c, p) PROVE IndInv'
  BY <1>5, CmdCountKeeps
<1>6. CASE FwReceive
  BY <1>6, FwReceiveKeeps
<1>7. ASSUME NEW n \in 1..held, CreditRpt(n) PROVE IndInv'
  BY <1>7, CreditRptKeeps
<1>8. CASE Suspend \/ Resume
  BY <1>8, BusKeeps
<1>9. CASE KickQueues
  BY <1>9, KickQueuesKeeps
<1>10. CASE Flush
  BY <1>10, FlushKeeps
<1>11. CASE UNCHANGED vars
  BY <1>11, StutterKeeps
<1> QED
  BY <1>1, <1>2, <1>3, <1>4, <1>5, <1>6, <1>7, <1>8, <1>9, <1>10, <1>11 DEF Next

\* In every reachable state of the send path the properties hold together with
\* what ties the contexts to the queues: what each holds where it has got to,
\* who sends and completes a command, the room left in the window and the
\* entries of the pipe.
THEOREM Inductive == Spec => []IndInv
<1>1. Init => IndInv
  BY InitHolds
<1>2. IndInv /\ [Next]_vars => IndInv'
  BY NextKeeps
<1> QED
  BY <1>1, <1>2, PTL DEF Spec

\* Counters never drop below zero, queues hold commands, and a context is at
\* one of its places with at most RingSize free entries read.
THEOREM TypeCorrect == Spec => []TypeOK
<1>1. IndInv => TypeOK
  BY DEF IndInv
<1> QED
  BY <1>1, Inductive, PTL

\* Whatever context drains, fails, puts back, completes or flushes: one context
\* drains; every command WMI counts is in exactly one place; fewer than
\* wmi_max_cmds are in HTC; the order of the queue is kept but for PM commands;
\* and htc_lookup_tx_packet finds every command the copy engine completes.
THEOREM PipelineStaysExact == Spec => []PipelineExact
<1>1. IndInv => PipelineExact
  BY DEF IndInv
<1> QED
  BY <1>1, Inductive, PTL

\* Credits of the host, of the commands on their way, of the firmware and those
\* a failed mapping lost add up to what the service was given.
THEOREM CreditsStayExact == Spec => []CreditsExact
<1>1. IndInv => CreditsExact
  BY DEF IndInv
<1> QED
  BY <1>1, Inductive, PTL

\* Until a PM command is put back, the usage count is the number of other
\* commands that are neither queued nor completed, and the bus is suspended
\* under none of them.
THEOREM PmStaysBalanced == Spec => []PmBalanced
<1>1. IndInv => PmBalanced
  BY DEF IndInv
<1> QED
  BY <1>1, Inductive, PTL

\* An entry of the pipe is free, in use or about to be given back: at no time
\* does num_sends_allowed exceed the size of the pipe.
THEOREM EntriesStayExact == Spec => [](EntriesExact /\ free <= RingSize)
<1>1. IndInv => EntriesExact /\ free <= RingSize
  <2> SUFFICES ASSUME IndInv PROVE free <= RingSize
    BY DEF IndInv
  <2> DEFINE k == Cardinality(Completing)
             l == Len(ring)
  <2>1. free + l + k = RingSize /\ free \in Nat /\ l \in Nat /\ RingSize \in Nat
    BY Types DEF IndInv, EntriesExact
  <2>2. Completing \in SUBSET Ctx
    BY DEF Completing
  <2>3. k \in Nat
    BY <2>2, CtxSets
  <2> HIDE DEF k, l
  <2> QED
    BY <2>1, <2>3
<1> QED
  BY <1>1, Inductive, PTL
=============================================================================
