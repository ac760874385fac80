--------------------------- MODULE ScanMgrProofs ---------------------------
(***************************************************************************)
(* Proofs about ScanMgr, for any number of scans, vdevs, pdevs and cancel  *)
(* requests, any limit on active scans and any pool of at least as many    *)
(* timers.                                                                 *)
(*                                                                         *)
(* First come the lists, then lemmas that say by how much a change of the  *)
(* requests, the timers or a message queue changes a vdev's counter, then  *)
(* one lemma for each action of ScanMgr; the theorems follow them.         *)
(***************************************************************************)
EXTENDS ScanMgr, ListLemmas

-----------------------------------------------------------------------------
(***************************************************************************)
(* The messages, and the lists of a queue.                                 *)
(***************************************************************************)
LEMMA Messages ==
  /\ \A s \in Scan : /\ Start(s).op = "start" /\ Start(s).scan = s
                     /\ Start(s).vdev = VdevOf[s] /\ Start(s) \notin CancelReqs
  /\ \A c \in CancelReqs : /\ c.op # "start" /\ c.vdev \in Vdev
                           /\ c.op \in {"single", "wait", "vdev", "pdev"}
                           /\ c.op \in {"single", "wait"} => c.scan \in Scan
  /\ \A s, t \in Scan : Start(s) = Start(t) => s = t
  /\ \A s \in Scan : VdevOf[s] \in Vdev /\ PdevOfScan(s) \in Pdev
  /\ \A e \in Event : e.scan \in Scan
<1>1. \A c \in CancelReqs : /\ c.op # "start" /\ c.vdev \in Vdev
                            /\ c.op \in {"single", "wait", "vdev", "pdev"}
                            /\ c.op \in {"single", "wait"} => c.scan \in Scan
  BY ScanConstants DEF CancelReqType
<1>2. \A s \in Scan : /\ Start(s).op = "start" /\ Start(s).scan = s
                      /\ Start(s).vdev = VdevOf[s]
  BY DEF Start
<1>3. \A s, t \in Scan : Start(s) = Start(t) => s = t
  BY <1>2
<1> QED
  BY <1>1, <1>2, <1>3, ScanConstants DEF PdevOfScan, Event

\* Only the list of pdev p has changed.
Updated(q, r, p) ==
  /\ r \in [Pdev -> Seq(Scan)] /\ IsInjective(r[p]) /\ ToSet(r[p]) \subseteq OfPdev(p)
  /\ \A x \in Pdev \ {p} : r[x] = q[x]

\* When one list changed and is a list of its pdev's scans again, the lists are
\* right, and the scans in them changed by that list's.
LEMMA ListsUpdate ==
  ASSUME NEW q, NEW r, NEW p \in Pdev, ListsOK(q), Updated(q, r, p)
  PROVE  ListsOK(r) /\ InLists(r) = (InLists(q) \ ToSet(q[p])) \cup ToSet(r[p])
<1>1. r \in [Pdev -> Seq(Scan)] /\ \A x \in Pdev \ {p} : r[x] = q[x]
  BY DEF Updated
<1>2. ListsOK(r)
  BY DEF ListsOK, Updated
<1>3. \A x \in Pdev \ {p} : ToSet(q[x]) \cap ToSet(q[p]) = {}
  BY DEF ListsOK, OfPdev
<1>4. ToSet(r[p]) \subseteq Scan
  BY DEF OfPdev, Updated
<1>5. InLists(r) = (InLists(q) \ ToSet(q[p])) \cup ToSet(r[p])
  BY <1>1, <1>3, <1>4 DEF InLists
<1> QED
  BY <1>2, <1>5

\* A scan in the lists is in the list of its own pdev.
LEMMA ListsMember ==
  ASSUME NEW q, ListsOK(q), NEW s \in Scan
  PROVE  /\ s \in InLists(q) <=> s \in ToSet(q[PdevOfScan(s)])
         /\ q[PdevOfScan(s)] \in Seq(Scan) /\ IsInjective(q[PdevOfScan(s)])
         /\ ToSet(q[PdevOfScan(s)]) \subseteq OfPdev(PdevOfScan(s))
         /\ ToSet(q[PdevOfScan(s)]) \subseteq InLists(q)
<1>1. PdevOfScan(s) \in Pdev
  BY Messages
<1> QED
  BY <1>1 DEF ListsOK, InLists, OfPdev

\* qdf_list_insert_back of a command that is in no list.
LEMMA ListsAppend ==
  ASSUME NEW q, ListsOK(q), NEW s \in Scan, s \notin InLists(q),
         NEW r, r = [q EXCEPT ![PdevOfScan(s)] = Append(@, s)]
  PROVE  /\ ListsOK(r) /\ Updated(q, r, PdevOfScan(s))
         /\ InLists(r) = InLists(q) \cup {s}
<1> DEFINE p == PdevOfScan(s)
           l == Append(q[p], s)
<1>1. p \in Pdev /\ s \in Scan /\ s \in OfPdev(p)
  BY Messages DEF OfPdev, InLists
<1>2. /\ q[p] \in Seq(Scan) /\ IsInjective(q[p]) /\ s \notin ToSet(q[p])
      /\ ToSet(q[p]) \subseteq OfPdev(p) /\ ToSet(q[p]) \subseteq InLists(q)
  BY <1>1, ListsMember
<1>3. l \in Seq(Scan) /\ l # <<>> /\ IsInjective(l) /\ ToSet(l) = ToSet(q[p]) \cup {s}
  BY <1>2, AppendMembers

<1>4. r \in [Pdev -> Seq(Scan)] /\ r[p] = l /\ \A x \in Pdev \ {p} : r[x] = q[x]
  BY <1>1, <1>2, <1>3 DEF ListsOK
<1> HIDE DEF p, l
<1>7. Updated(q, r, p)
  BY <1>1, <1>2, <1>3, <1>4 DEF Updated
<1>5. ListsOK(r) /\ InLists(r) = (InLists(q) \ ToSet(q[p])) \cup ToSet(r[p])
  BY <1>1, <1>7, ListsUpdate
<1> QED
  BY <1>1, <1>2, <1>3, <1>4, <1>5, <1>7 DEF p

\* wlan_serialization_remove_node of a command that is in a list.
LEMMA ListsRemove ==
  ASSUME NEW q, ListsOK(q), NEW s \in InLists(q),
         NEW r, r = [q EXCEPT ![PdevOfScan(s)] = RemoveFirst(@, s)]
  PROVE  /\ ListsOK(r)
         /\ InLists(r) = InLists(q) \ {s}
<1> DEFINE p == PdevOfScan(s)
           l == RemoveFirst(q[p], s)
<1>1. p \in Pdev /\ s \in Scan /\ s \in OfPdev(p)
  BY Messages DEF OfPdev, InLists
<1>2. /\ q[p] \in Seq(Scan) /\ IsInjective(q[p]) /\ s \in ToSet(q[p])
      /\ ToSet(q[p]) \subseteq OfPdev(p) /\ ToSet(q[p]) \subseteq InLists(q)
  BY <1>1, ListsMember
<1>3. l \in Seq(Scan) /\ IsInjective(l) /\ ToSet(l) = ToSet(q[p]) \ {s}
  BY <1>2, RemoveMembers

<1>4. r \in [Pdev -> Seq(Scan)] /\ r[p] = l /\ \A x \in Pdev \ {p} : r[x] = q[x]
  BY <1>1, <1>2, <1>3 DEF ListsOK
<1> HIDE DEF p, l
<1>7. Updated(q, r, p)
  BY <1>1, <1>2, <1>3, <1>4 DEF Updated
<1>5. ListsOK(r) /\ InLists(r) = (InLists(q) \ ToSet(q[p])) \cup ToSet(r[p])
  BY <1>1, <1>7, ListsUpdate
<1> QED
  BY <1>1, <1>2, <1>3, <1>4, <1>5, <1>7 DEF p

\* Taking the head of a list, as moving a pending command does.
LEMMA ListsTail ==
  ASSUME NEW q, ListsOK(q), NEW p \in Pdev, q[p] # <<>>,
         NEW r, r = [q EXCEPT ![p] = Tail(@)]
  PROVE  /\ ListsOK(r)
         /\ Head(q[p]) \in InLists(q) /\ PdevOfScan(Head(q[p])) = p
         /\ InLists(r) = InLists(q) \ {Head(q[p])} /\ Updated(q, r, p)
<1> DEFINE l == Tail(q[p])
<1>1. p \in Pdev
  OBVIOUS
<1>2. /\ q[p] \in Seq(Scan) /\ IsInjective(q[p])
      /\ ToSet(q[p]) \subseteq OfPdev(p) /\ ToSet(q[p]) \subseteq InLists(q)
  BY DEF ListsOK, InLists, OfPdev
<1>3. l \in Seq(Scan) /\ IsInjective(l) /\ ToSet(l) = ToSet(q[p]) \ {Head(q[p])}
  BY <1>2, TailMembers

<1>6. Head(q[p]) \in ToSet(q[p])
  BY <1>2, ToSetType
<1>4. r \in [Pdev -> Seq(Scan)] /\ r[p] = l /\ \A x \in Pdev \ {p} : r[x] = q[x]
  BY <1>1, <1>2, <1>3 DEF ListsOK
<1> HIDE DEF l
<1>7. Updated(q, r, p)
  BY <1>2, <1>3, <1>4 DEF Updated
<1>5. ListsOK(r) /\ InLists(r) = (InLists(q) \ ToSet(q[p])) \cup ToSet(r[p])
  BY <1>1, <1>7, ListsUpdate
<1> QED
  BY <1>2, <1>3, <1>4, <1>5, <1>6, <1>7 DEF OfPdev

\* The scans T of pdev p's list are taken out of it (TakeOut).
CutFrom(q, r, p, T) ==
  /\ ListsOK(q) /\ p \in Pdev /\ T \subseteq ToSet(q[p])
  /\ r = [q EXCEPT ![p] = Without(@, T)]

\* Cancelling takes exactly the matching commands out of one list.
LEMMA ListsWithout ==
  ASSUME NEW q, NEW p, NEW T, NEW r, CutFrom(q, r, p, T)
  PROVE  /\ ListsOK(r) /\ T \subseteq InLists(q)
         /\ InLists(r) = InLists(q) \ T /\ Updated(q, r, p)
         /\ ToSet(r[p]) \subseteq ToSet(q[p])
<1> DEFINE l == Without(q[p], T)
<1>1. /\ ListsOK(q) /\ p \in Pdev /\ T \subseteq ToSet(q[p])
      /\ r = [q EXCEPT ![p] = l]
  BY DEF CutFrom
<1>2. /\ q[p] \in Seq(Scan) /\ IsInjective(q[p])
      /\ ToSet(q[p]) \subseteq OfPdev(p) /\ ToSet(q[p]) \subseteq InLists(q)
  BY <1>1 DEF ListsOK, InLists, OfPdev
<1>3. l \in Seq(Scan) /\ IsInjective(l) /\ ToSet(l) = ToSet(q[p]) \ T
  BY <1>2, WithoutMembers
<1>4. r \in [Pdev -> Seq(Scan)] /\ r[p] = l /\ \A x \in Pdev \ {p} : r[x] = q[x]
  BY <1>1, <1>2, <1>3 DEF ListsOK
<1> HIDE DEF l
<1>7. Updated(q, r, p)
  BY <1>2, <1>3, <1>4 DEF Updated
<1>5. ListsOK(r) /\ InLists(r) = (InLists(q) \ ToSet(q[p])) \cup ToSet(r[p])
  BY <1>1, <1>7, ListsUpdate
<1> QED
  BY <1>1, <1>2, <1>3, <1>4, <1>5, <1>7

\* A list with a member is not empty.
LEMMA ListsEmpty ==
  ASSUME NEW q, ListsOK(q), NEW p \in Pdev
  PROVE  q[p] = <<>> <=> ToSet(q[p]) = {}
<1>1. q[p] \in Seq(Scan)
  BY DEF ListsOK
<1> QED
  BY <1>1, ToSetType

\* The scans in the lists are finitely many.
LEMMA ListsFinite ==
  ASSUME NEW q
  PROVE  /\ IsFiniteSet(InLists(q)) /\ Cardinality(InLists(q)) \in Nat
         /\ InLists(q) \subseteq Scan
<1>1. InLists(q) \in SUBSET Scan
  BY DEF InLists
<1>2. IsFiniteSet(InLists(q))
  BY <1>1, ScanConstants, FS_Subset
<1> QED
  BY <1>1, <1>2, FS_CardinalityType

-----------------------------------------------------------------------------
(***************************************************************************)
(* Counting: the references of requests and of timers, as functions of     *)
(* what the counters are about.                                            *)
(***************************************************************************)
Held(f, v) == Cardinality({s \in OfVdev(v) : f[s] = "held"})
Timers(f, v) == Cardinality({i \in Slot : f[i] \in OfVdev(v)})

\* The timers point to scans, no two to the same.
TimersOK(f) ==
  /\ f \in [Slot -> Scan \cup {NoScan}]
  /\ \A i, j \in Slot : f[i] = f[j] /\ f[i] # NoScan => i = j

\* What a reference to vdev w adds to the counter of vdev v.
For(w, v) == IF w = v THEN 1 ELSE 0

\* A scan counts once, for its own vdev.
LEMMA OneScan ==
  ASSUME NEW s \in Scan, NEW v \in Vdev
  PROVE  /\ Cardinality({s} \cap OfVdev(v)) = For(VdevOf[s], v)
         /\ s \in OfVdev(v) <=> VdevOf[s] = v
<1>1. s \in OfVdev(v) <=> VdevOf[s] = v
  BY DEF OfVdev
<1>2. CASE VdevOf[s] = v
  <2>1. {s} \cap OfVdev(v) = {s}
    BY <1>1, <1>2
  <2> QED
    BY <1>1, <1>2, <2>1, FS_Singleton DEF For
<1>3. CASE VdevOf[s] # v
  <2>1. {s} \cap OfVdev(v) = {}
    BY <1>1, <1>3
  <2> QED
    BY <1>1, <1>3, <2>1, FS_EmptySet DEF For
<1> QED
  BY <1>2, <1>3

\* The scans of a vdev among given ones are finitely many.
LEMMA SomeScans ==
  ASSUME NEW S \in SUBSET Scan, NEW v \in Vdev
  PROVE  IsFiniteSet(S \cap OfVdev(v)) /\ Cardinality(S \cap OfVdev(v)) \in Nat
<1>1. S \cap OfVdev(v) \in SUBSET Scan
  OBVIOUS
<1>2. IsFiniteSet(S \cap OfVdev(v))
  BY <1>1, ScanConstants, FS_Subset
<1> QED
  BY <1>2, FS_CardinalityType

\* The requests of a vdev are finitely many.
LEMMA HeldFinite ==
  ASSUME NEW f, NEW v \in Vdev
  PROVE  IsFiniteSet({s \in OfVdev(v) : f[s] = "held"}) /\ Held(f, v) \in Nat
<1>1. {s \in OfVdev(v) : f[s] = "held"} \in SUBSET Scan
  BY DEF OfVdev
<1>2. IsFiniteSet({s \in OfVdev(v) : f[s] = "held"})
  BY <1>1, ScanConstants, FS_Subset
<1> QED
  BY <1>2, FS_CardinalityType DEF Held

AllHeld(f, S) == \A s \in S : f[s] = "held"
AllTimed(f, S) == \A s \in S : \E i \in Slot : f[i] = s

\* Freeing requests that are in memory lowers the number of their vdevs by them.
LEMMA HeldFreed ==
  ASSUME NEW f, NEW S \in SUBSET Scan, AllHeld(f, S),
         NEW g, g = [s \in Scan |-> IF s \in S THEN "freed" ELSE f[s]],
         NEW v \in Vdev
  PROVE  Held(g, v) = Held(f, v) - Cardinality(S \cap OfVdev(v))
<1> DEFINE F == {s \in OfVdev(v) : f[s] = "held"}
           G == {s \in OfVdev(v) : g[s] = "held"}
<1>1. G = F \ S
  BY DEF OfVdev
<1>2. F \cap S = S \cap OfVdev(v)
  BY DEF AllHeld
<1>3. IsFiniteSet(F)
  BY HeldFinite
<1>4. Cardinality(F \ S) = Cardinality(F) - Cardinality(F \cap S)
  BY <1>3, FS_Difference
<1> QED
  BY <1>1, <1>2, <1>4 DEF Held

\* A new request raises the number of its vdev by one.
LEMMA HeldAdded ==
  ASSUME NEW f, DOMAIN f = Scan, NEW s \in Scan, f[s] = "new",
         NEW g, g = [f EXCEPT ![s] = "held"], NEW v \in Vdev
  PROVE  Held(g, v) = Held(f, v) + For(VdevOf[s], v)
<1> DEFINE F == {x \in OfVdev(v) : f[x] = "held"}
           G == {x \in OfVdev(v) : g[x] = "held"}
<1>1. g[s] = "held" /\ \A x \in Scan \ {s} : g[x] = f[x]
  OBVIOUS
<1>2. IsFiniteSet(F) /\ Cardinality(F) \in Nat /\ s \notin F
  BY HeldFinite DEF Held
<1>3. CASE VdevOf[s] = v
  <2>1. G = F \cup {s}
    BY <1>1, <1>3 DEF OfVdev
  <2>2. Cardinality(F \cup {s}) = Cardinality(F) + 1
    BY <1>2, FS_AddElement
  <2> QED
    BY <1>2, <1>3, <2>1, <2>2 DEF Held, For
<1>4. CASE VdevOf[s] # v
  <2>1. G = F
    BY <1>1, <1>4 DEF OfVdev
  <2> QED
    BY <1>2, <1>4, <2>1 DEF Held, For
<1> QED
  BY <1>3, <1>4

\* The timers of a vdev are finitely many.
LEMMA TimersFinite ==
  ASSUME NEW f, NEW v \in Vdev
  PROVE  IsFiniteSet({i \in Slot : f[i] \in OfVdev(v)}) /\ Timers(f, v) \in Nat
<1>1. IsFiniteSet(Slot)
  BY ScanConstants, FS_Interval DEF Slot
<1>2. {i \in Slot : f[i] \in OfVdev(v)} \in SUBSET Slot
  OBVIOUS
<1>3. IsFiniteSet({i \in Slot : f[i] \in OfVdev(v)})
  BY <1>1, <1>2, FS_Subset
<1> QED
  BY <1>3, FS_CardinalityType DEF Timers

\* A timer that was free and points to a scan now adds one to that scan's vdev.
LEMMA TimersAdded ==
  ASSUME NEW f, TimersOK(f), NEW i \in Slot, f[i] = NoScan, NEW s \in Scan,
         NEW g, g = [f EXCEPT ![i] = s], NEW v \in Vdev
  PROVE  Timers(g, v) = Timers(f, v) + For(VdevOf[s], v)
<1> DEFINE F == {x \in Slot : f[x] \in OfVdev(v)}
           G == {x \in Slot : g[x] \in OfVdev(v)}
<1>1. g[i] = s /\ \A x \in Slot \ {i} : g[x] = f[x]
  BY DEF TimersOK
<1>2. IsFiniteSet(F) /\ Cardinality(F) \in Nat
  BY TimersFinite DEF Timers
<1>5. i \notin F
  BY ScanConstants DEF OfVdev
<1>3. CASE VdevOf[s] = v
  <2>1. G = F \cup {i}
    BY <1>1, <1>3 DEF OfVdev
  <2>2. Cardinality(F \cup {i}) = Cardinality(F) + 1
    BY <1>2, <1>5, FS_AddElement
  <2> QED
    BY <1>2, <1>3, <2>1, <2>2 DEF Timers, For
<1>4. CASE VdevOf[s] # v
  <2>1. G = F
    BY <1>1, <1>4, <1>5 DEF OfVdev
  <2> QED
    BY <1>2, <1>4, <2>1 DEF Timers, For
<1> QED
  BY <1>3, <1>4

\* Freeing the timers of scans that all have one lowers the number of their
\* vdevs by the scans: no two timers point to the same scan.
LEMMA TimersRemoved ==
  ASSUME NEW f, TimersOK(f), NEW S \in SUBSET Scan, AllTimed(f, S),
         NEW g, g = [i \in Slot |-> IF f[i] \in S THEN NoScan ELSE f[i]], NEW v \in Vdev
  PROVE  Timers(g, v) = Timers(f, v) - Cardinality(S \cap OfVdev(v))
<1> DEFINE F == {x \in Slot : f[x] \in OfVdev(v)}
           G == {x \in Slot : g[x] \in OfVdev(v)}
           R == {x \in Slot : f[x] \in S \cap OfVdev(v)}
           h == [x \in R |-> f[x]]
<1>1. G = F \ R
  BY ScanConstants DEF OfVdev
<1>2. IsFiniteSet(F) /\ F \cap R = R
  BY TimersFinite
<1>5. Cardinality(F \ R) = Cardinality(F) - Cardinality(F \cap R)
  BY <1>2, FS_Difference
<1>3. Cardinality(G) = Cardinality(F) - Cardinality(R)
  BY <1>1, <1>2, <1>5, Zenon
<1>4. Cardinality(R) = Cardinality(S \cap OfVdev(v))
  <2>1. h \in [R -> S \cap OfVdev(v)]
    OBVIOUS
  <2>2. \A x, y \in R : h[x] = h[y] => x = y
    BY ScanConstants DEF TimersOK
  <2>3. \A s \in S \cap OfVdev(v) : \E x \in R : h[x] = s
    BY DEF AllTimed
  <2> HIDE DEF h, R
  <2>4. h \in Bijection(R, S \cap OfVdev(v))
    BY <2>1, <2>2, <2>3, Zenon DEF Bijection, Injection, Surjection, IsInjective
  <2>5. ExistsBijection(R, S \cap OfVdev(v))
    BY <2>4 DEF ExistsBijection
  <2>6. IsFiniteSet(R)
    BY <1>2, FS_Subset DEF R
  <2> QED
    BY <2>5, <2>6, FS_Bijection
<1> QED
  BY <1>3, <1>4 DEF Timers

-----------------------------------------------------------------------------
(***************************************************************************)
(* The scheduler queues: posting a message and taking the first one.       *)
(***************************************************************************)
OsifOK(q) == q \in Seq(OsifMsg) /\ UniqueStarts(q)

Cancels(q, v) == Occurrences(q, {c \in CancelReqs : c.vdev = v})
Reports(q, v) == Occurrences(q, {e \in Event : VdevOf[e.scan] = v})

\* Posting a message keeps the queue well formed: no start message is in it twice.
LEMMA OsifPost ==
  ASSUME NEW q, OsifOK(q), NEW m \in OsifMsg, m.op = "start" => m \notin ToSet(q),
         NEW r, r = Append(q, m)
  PROVE  OsifOK(r) /\ ToSet(r) = ToSet(q) \cup {m}
<1>1. q \in Seq(OsifMsg) /\ UniqueStarts(q)
  BY DEF OsifOK
<1>2. r \in Seq(OsifMsg) /\ ToSet(r) = ToSet(q) \cup {m}
  BY <1>1, AppendMembers
<1>3. /\ Len(q) \in Nat
      /\ DOMAIN q = 1..Len(q) /\ DOMAIN r = 1..(Len(q) + 1)
      /\ \A i \in 1..Len(q) : r[i] = q[i]
      /\ r[Len(q) + 1] = m
  BY <1>1, AppendProperties, LenProperties
<1>4. \A i \in DOMAIN q : q[i] \in ToSet(q)
  BY DEF ToSet
<1>5. \A j \in DOMAIN r : j \in DOMAIN q \/ (j = Len(q) + 1 /\ j \notin DOMAIN q)
  BY <1>3
<1>6. UniqueStarts(r)
  <2> SUFFICES ASSUME NEW j \in DOMAIN r, NEW k \in DOMAIN r, r[j].op = "start", r[j] = r[k]
               PROVE  j = k
    BY DEF UniqueStarts
  <2>1. CASE j \in DOMAIN q /\ k \in DOMAIN q
    BY <2>1, <1>1, <1>3 DEF UniqueStarts
  <2>2. CASE j \in DOMAIN q /\ k \notin DOMAIN q
    BY <2>2, <1>3, <1>4, <1>5
  <2>3. CASE j \notin DOMAIN q /\ k \in DOMAIN q
    BY <2>3, <1>3, <1>4, <1>5
  <2> QED
    BY <2>1, <2>2, <2>3, <1>5
<1> QED
  BY <1>2, <1>6 DEF OsifOK

\* A cancel request that is posted adds one to its vdev, another message nothing.
LEMMA CancelsPost ==
  ASSUME NEW q, OsifOK(q), NEW m \in OsifMsg, NEW r, r = Append(q, m), NEW v \in Vdev
  PROVE  /\ m \in CancelReqs => Cancels(r, v) = Cancels(q, v) + For(m.vdev, v)
         /\ m \notin CancelReqs => Cancels(r, v) = Cancels(q, v)
<1> DEFINE T == {c \in CancelReqs : c.vdev = v}
<1>1. q \in Seq(OsifMsg)
  BY DEF OsifOK
<1>2. Occurrences(r, T) = Occurrences(q, T) + (IF m \in T THEN 1 ELSE 0)
  BY <1>1, AppendOccurrences
<1>3. Occurrences(q, T) \in Nat
  BY <1>1, PositionsFinite
<1> QED
  BY <1>2, <1>3 DEF Cancels, For

\* Taking the first message: a start message taken is not in the queue any more.
LEMMA OsifTake ==
  ASSUME NEW q, OsifOK(q), q # <<>>, NEW r, r = Tail(q)
  PROVE  /\ OsifOK(r) /\ Head(q) \in OsifMsg /\ Head(q) \in ToSet(q)
         /\ ToSet(q) = ToSet(r) \cup {Head(q)}
         /\ Head(q).op = "start" => Head(q) \notin ToSet(r)
<1>1. q \in Seq(OsifMsg) /\ UniqueStarts(q)
  BY DEF OsifOK
<1>2. /\ r \in Seq(OsifMsg) /\ Head(q) \in OsifMsg /\ Head(q) \in ToSet(q)
      /\ ToSet(q) = ToSet(r) \cup {Head(q)}
  BY <1>1, TailOccurrences
<1>3. /\ Len(q) \in Nat \ {0}
      /\ DOMAIN q = 1..Len(q) /\ DOMAIN r = 1..(Len(q) - 1)
      /\ \A i \in 1..(Len(q) - 1) : r[i] = q[i + 1]
      /\ Head(q) = q[1]
  BY <1>1, HeadTailProperties, LenProperties, EmptySeq
<1>4. \A j \in DOMAIN r : j + 1 \in DOMAIN q /\ r[j] = q[j + 1] /\ j + 1 # 1 /\ j \in Int
  BY <1>3
<1>5. \A j \in DOMAIN r : Head(q).op = "start" => r[j] # Head(q)
  BY <1>1, <1>3, <1>4 DEF UniqueStarts
<1>6. UniqueStarts(r)
  <2>1. \A j, k \in DOMAIN r : r[j].op = "start" /\ r[j] = r[k] => j + 1 = k + 1
    BY <1>1, <1>4 DEF UniqueStarts
  <2> QED
    BY <2>1, <1>4 DEF UniqueStarts
<1> QED
  BY <1>2, <1>5, <1>6 DEF OsifOK, ToSet

\* A cancel request that is taken counts no more for its vdev.
LEMMA CancelsTake ==
  ASSUME NEW q, OsifOK(q), q # <<>>, NEW r, r = Tail(q), NEW v \in Vdev
  PROVE  /\ Head(q) \in CancelReqs => Cancels(r, v) = Cancels(q, v) - For(Head(q).vdev, v)
         /\ Head(q) \notin CancelReqs => Cancels(r, v) = Cancels(q, v)
<1> DEFINE T == {c \in CancelReqs : c.vdev = v}
<1>1. q \in Seq(OsifMsg)
  BY DEF OsifOK
<1>2. Occurrences(r, T) = Occurrences(q, T) - (IF Head(q) \in T THEN 1 ELSE 0)
  BY <1>1, TailOccurrences
<1>3. Occurrences(q, T) \in Nat
  BY <1>1, PositionsFinite
<1> QED
  BY <1>2, <1>3 DEF Cancels, For

\* A firmware event is posted.
LEMMA EventPost ==
  ASSUME NEW q \in Seq(Event), NEW e \in Event, NEW r, r = Append(q, e)
  PROVE  r \in Seq(Event) /\ ToSet(r) = ToSet(q) \cup {e}
BY AppendMembers

\* The event posted adds one to its scan's vdev.
LEMMA ReportsPost ==
  ASSUME NEW q \in Seq(Event), NEW e \in Event, NEW r, r = Append(q, e), NEW v \in Vdev
  PROVE  Reports(r, v) = Reports(q, v) + For(VdevOf[e.scan], v)
<1> DEFINE T == {x \in Event : VdevOf[x.scan] = v}
<1>1. Occurrences(r, T) = Occurrences(q, T) + (IF e \in T THEN 1 ELSE 0)
  BY AppendOccurrences
<1> QED
  BY <1>1 DEF Reports, For

\* A firmware event is taken.
LEMMA EventTake ==
  ASSUME NEW q \in Seq(Event), q # <<>>, NEW r, r = Tail(q)
  PROVE  /\ r \in Seq(Event) /\ Head(q) \in Event /\ Head(q) \in ToSet(q)
         /\ ToSet(r) \subseteq ToSet(q)
BY TailOccurrences

\* The event taken counts no more for its scan's vdev.
LEMMA ReportsTake ==
  ASSUME NEW q \in Seq(Event), q # <<>>, NEW r, r = Tail(q), NEW v \in Vdev
  PROVE  Reports(r, v) = Reports(q, v) - For(VdevOf[Head(q).scan], v)
<1> DEFINE T == {x \in Event : VdevOf[x.scan] = v}
<1>1. /\ Head(q) \in Event
      /\ Occurrences(r, T) = Occurrences(q, T) - (IF Head(q) \in T THEN 1 ELSE 0)
  BY TailOccurrences
<1> QED
  BY <1>1 DEF Reports, For

-----------------------------------------------------------------------------
(***************************************************************************)
(* The parts of the invariant.  That a counter is a natural number follows *)
(* from its being exact, so the steps need not show it.                    *)
(***************************************************************************)
TypeRest ==
  /\ ListsOK(active) /\ ListsOK(pending)
  /\ timer \in [Slot -> Scan \cup {NoScan}] /\ armed \subseteq Slot
  /\ req \in [Scan -> {"new", "held", "freed"}]
  /\ done \in [Scan -> Nat]
  /\ DOMAIN refs = Vdev /\ refs = [v \in Vdev |-> refs[v]]
  /\ live \subseteq Vdev /\ fw \subseteq Scan /\ told \subseteq Scan
  /\ missed \subseteq Pdev
  /\ osif \in Seq(OsifMsg) /\ events \in Seq(Event) /\ sys \in Seq(Slot)
  /\ sched \in [pc: {"idle", "activate", "dequeue", "move", "finish"},
                scan: Scan \cup {NoScan},
                why: {"REQUEST", "REMOVE", "ACTIVATION_FAILED", "TIMEOUT"}, after: After]

Core == TypeRest /\ Places /\ Timed /\ Handling /\ Told /\ Firmware /\ Limit /\ RefsExact

\* The parts of the inductive invariant, as the proofs use them.
LEMMA Parts ==
  ASSUME IndInv
  PROVE  /\ TypeRest /\ Places /\ Timed /\ Handling /\ Told /\ Firmware /\ Limit /\ RefsExact
         /\ refs \in [Vdev -> Nat] /\ OsifOK(osif) /\ TimersOK(timer)
<1>1. TypeOK /\ Places /\ Timed /\ Handling /\ Told /\ Firmware /\ Limit /\ RefsExact
  BY DEF IndInv
<1>2. TypeRest /\ refs \in [Vdev -> Nat]
  BY <1>1 DEF TypeOK, TypeRest
<1> QED
  BY <1>1, <1>2 DEF OsifOK, TimersOK, Places, Timed, TypeRest

\* What a counter is before a step, term by term.
LEMMA Balance ==
  ASSUME IndInv, NEW v \in Vdev
  PROVE  /\ refs[v] = Held(req, v) + Timers(timer, v) + Cancels(osif, v)
                        + Reports(events, v) + OfHandler(v)
         /\ Held(req, v) \in Nat /\ Timers(timer, v) \in Nat /\ Cancels(osif, v) \in Nat
         /\ Reports(events, v) \in Nat /\ OfHandler(v) \in Nat
<1>1. TypeRest /\ RefsExact
  BY Parts
<1>2. Cancels(osif, v) \in Nat /\ Reports(events, v) \in Nat
  BY <1>1, PositionsFinite DEF TypeRest, Cancels, Reports
<1>3. Held(req, v) \in Nat /\ Timers(timer, v) \in Nat /\ OfHandler(v) \in Nat
  BY HeldFinite, TimersFinite DEF OfHandler
<1>4. refs[v] = OfRequests(v) + OfTimers(v) + OfCancels(v) + OfEvents(v) + OfHandler(v)
  BY <1>1 DEF RefsExact
<1> QED
  BY <1>2, <1>3, <1>4 DEF OfRequests, OfTimers, OfCancels, OfEvents, Held, Timers, Cancels, Reports

\* When the counters fit the terms after a step, they are exact.
LEMMA Balanced ==
  ASSUME \A v \in Vdev : refs'[v] = Held(req', v) + Timers(timer', v) + Cancels(osif', v)
                                      + Reports(events', v) + OfHandler(v)'
  PROVE  RefsExact'
BY DEF RefsExact, OfRequests, OfTimers, OfCancels, OfEvents, Held, Timers, Cancels, Reports

\* An action's lemma need not prove that counters are natural numbers: exact
\* counters are.
LEMMA CoreSuffices ==
  ASSUME Core'
  PROVE  IndInv'
<1>1. /\ TypeRest' /\ Places' /\ Timed' /\ Handling' /\ Told' /\ Firmware' /\ Limit'
      /\ RefsExact'
  BY DEF Core
<1>2. ASSUME NEW v \in Vdev PROVE refs'[v] \in Nat
  <2>1. refs'[v] = Held(req', v) + Timers(timer', v) + Cancels(osif', v)
                     + Reports(events', v) + OfHandler(v)'
    BY <1>1 DEF RefsExact, OfRequests, OfTimers, OfCancels, OfEvents, Held, Timers, Cancels, Reports
  <2>2. Cancels(osif', v) \in Nat /\ Reports(events', v) \in Nat
    BY <1>1, PositionsFinite DEF TypeRest, Cancels, Reports
  <2>3. Held(req', v) \in Nat /\ Timers(timer', v) \in Nat /\ OfHandler(v)' \in Nat
    BY HeldFinite, TimersFinite DEF OfHandler
  <2> QED
    BY <2>1, <2>2, <2>3
<1>3. refs' \in [Vdev -> Nat]
  BY <1>1, <1>2 DEF TypeRest
<1>4. TypeOK'
  BY <1>1, <1>3 DEF TypeRest, TypeOK
<1> QED
  BY <1>1, <1>4 DEF IndInv

-----------------------------------------------------------------------------
(***************************************************************************)
(* The clients.                                                            *)
(***************************************************************************)
LEMMA ScanStartStep ==
  ASSUME IndInv, NEW s \in Scan, ScanStart(s)
  PROVE  Core'
<1>1. /\ TypeRest /\ Places /\ Timed /\ Handling /\ Told /\ Firmware /\ Limit
      /\ refs \in [Vdev -> Nat] /\ OsifOK(osif)
  BY Parts
<1>2. /\ req[s] = "new" /\ req' = [req EXCEPT ![s] = "held"]
      /\ osif' = Append(osif, Start(s))
      /\ refs' = [refs EXCEPT ![VdevOf[s]] = @ + 1]
      /\ UNCHANGED <<active, pending, timer, armed, done, live, fw, told, events, sys, sched, missed>>
  BY Messages DEF ScanStart, PostOsif, queueVars, timerVars
<1>3. s \notin ActiveScans \cup Waiting \cup Asked
  BY <1>1, <1>2 DEF Places
<1>4. /\ OsifOK(osif') /\ ToSet(osif') = ToSet(osif) \cup {Start(s)}
  <2>1. Start(s) \in OsifMsg /\ Start(s) \notin ToSet(osif) /\ Start(s) \notin CancelReqs
    BY <1>3, Messages DEF OsifMsg, Asked
  <2>2. OsifOK(osif) /\ osif' = Append(osif, Start(s))
    BY <1>1, <1>2
  <2> QED
    BY <2>1, <2>2, OsifPost
<1>5. Asked' = Asked \cup {s} /\ ActiveScans' = ActiveScans /\ Waiting' = Waiting
  BY <1>2, <1>4, Messages DEF Asked, ActiveScans, Waiting
<1>6. req'[s] = "held" /\ \A x \in Scan \ {s} : req'[x] = req[x]
  BY <1>1, <1>2 DEF TypeRest
<1>7. TypeRest'
  BY <1>1, <1>2, <1>4 DEF TypeRest, OsifOK
<1>8. Places'
  BY <1>1, <1>2, <1>3, <1>4, <1>5, <1>6 DEF Places, OsifOK, ActiveScans, InLists
<1>9. Timed' /\ Limit'
  BY <1>1, <1>2, <1>5 DEF Timed, Limit, SlotOf, InHand, AtPc
<1>10. Handling' /\ Told'
  BY <1>1, <1>2, <1>5, <1>6 DEF Handling, Told, AtPc
<1>11. Firmware'
  BY <1>1, <1>2, <1>5, <1>6 DEF Firmware, NotBegun, FirmwareTold, AtPc
<1>12. RefsExact'
  <2>1. ASSUME NEW v \in Vdev
        PROVE  refs'[v] = Held(req', v) + Timers(timer', v) + Cancels(osif', v)
                            + Reports(events', v) + OfHandler(v)'
    <3>1. refs'[v] = refs[v] + For(VdevOf[s], v)
      BY <1>1, <1>2, Messages DEF For
    <3>0. DOMAIN req = Scan /\ req[s] = "new" /\ req' = [req EXCEPT ![s] = "held"]
      BY <1>1, <1>2 DEF TypeRest
    <3>2. Held(req', v) = Held(req, v) + For(VdevOf[s], v)
      BY <3>0, HeldAdded
    <3>5. OsifOK(osif) /\ Start(s) \in OsifMsg /\ Start(s) \notin CancelReqs
      BY <1>1, Messages DEF OsifMsg
    <3>6. osif' = Append(osif, Start(s))
      BY <1>2
    <3>7. Cancels(osif', v) = Cancels(osif, v)
      BY <3>5, <3>6, CancelsPost
    <3>3. OfHandler(v)' = OfHandler(v)
      BY <1>2 DEF OfHandler, HandlerHolds, AtPc
    <3>4. For(VdevOf[s], v) \in Nat
      BY DEF For
    <3> QED
      BY <1>2, <3>1, <3>2, <3>3, <3>4, <3>7, Balance
  <2> QED
    BY <2>1, Balanced
<1> QED
  BY <1>7, <1>8, <1>9, <1>10, <1>11, <1>12 DEF Core

\* scm_scan_cancel_req posts a cancel request with a reference to its vdev.
LEMMA ScanCancelStep ==
  ASSUME IndInv, NEW c \in CancelReqs, ScanCancel(c)
  PROVE  Core'
<1>1. /\ TypeRest /\ Places /\ Timed /\ Handling /\ Told /\ Firmware /\ Limit
      /\ refs \in [Vdev -> Nat] /\ OsifOK(osif)
  BY Parts
<1>2. /\ osif' = Append(osif, c)
      /\ refs' = [refs EXCEPT ![c.vdev] = @ + 1]
      /\ UNCHANGED <<active, pending, timer, armed, req, done, live, fw, told, events, sys,
                     sched, missed>>
  BY DEF ScanCancel, PostOsif, queueVars, timerVars
<1>3. c \in OsifMsg /\ c.op # "start" /\ c.vdev \in Vdev
  BY Messages DEF OsifMsg
<1>4. OsifOK(osif') /\ ToSet(osif') = ToSet(osif) \cup {c}
  <2>1. OsifOK(osif) /\ osif' = Append(osif, c)
    BY <1>1, <1>2
  <2> QED
    BY <1>3, <2>1, OsifPost
<1>5. Asked' = Asked /\ ActiveScans' = ActiveScans /\ Waiting' = Waiting
  BY <1>2, <1>3, <1>4, Messages DEF Asked, ActiveScans, Waiting
<1>7. TypeRest'
  BY <1>1, <1>2, <1>4 DEF TypeRest, OsifOK
<1>8. Places'
  BY <1>1, <1>2, <1>4, <1>5 DEF Places, OsifOK
<1>9. Timed' /\ Limit'
  BY <1>1, <1>2, <1>5 DEF Timed, Limit, SlotOf, InHand, AtPc
<1>10. Handling' /\ Told'
  BY <1>1, <1>2, <1>5 DEF Handling, Told, AtPc
<1>11. Firmware'
  BY <1>1, <1>2, <1>5 DEF Firmware, NotBegun, FirmwareTold, AtPc
<1>12. RefsExact'
  <2>1. ASSUME NEW v \in Vdev
        PROVE  refs'[v] = Held(req', v) + Timers(timer', v) + Cancels(osif', v)
                            + Reports(events', v) + OfHandler(v)'
    <3>1. refs'[v] = refs[v] + For(c.vdev, v)
      BY <1>1, <1>2, <1>3 DEF For
    <3>2. OsifOK(osif) /\ osif' = Append(osif, c)
      BY <1>1, <1>2
    <3>3. Cancels(osif', v) = Cancels(osif, v) + For(c.vdev, v)
      BY <3>2, <1>3, CancelsPost
    <3>4. OfHandler(v)' = OfHandler(v) /\ For(c.vdev, v) \in Nat
      BY <1>2 DEF OfHandler, HandlerHolds, AtPc, For
    <3> QED
      BY <1>2, <3>1, <3>3, <3>4, Balance
  <2> QED
    BY <2>1, Balanced
<1> QED
  BY <1>7, <1>8, <1>9, <1>10, <1>11, <1>12 DEF Core

\* A vdev starts to be deleted: only the liveness of its requests changes.
LEMMA VdevDeleteStep ==
  ASSUME IndInv, NEW v \in Vdev, VdevDelete(v)
  PROVE  Core'
<1>1. /\ TypeRest /\ Places /\ Timed /\ Handling /\ Told /\ Firmware /\ Limit /\ RefsExact
  BY Parts
<1>2. /\ live' \subseteq live
      /\ UNCHANGED <<active, pending, timer, armed, req, done, refs, fw, told, osif, events, sys,
                     sched, missed>>
  BY DEF VdevDelete, queueVars, timerVars, msgVars
<1>3. TypeRest'
  BY <1>1, <1>2 DEF TypeRest
<1>4. Places' /\ Timed' /\ Limit'
  BY <1>1, <1>2 DEF Places, Timed, Limit, SlotOf, InHand, AtPc, Asked, Waiting, ActiveScans
<1>5. Handling' /\ Firmware'
  BY <1>1, <1>2 DEF Handling, Firmware, NotBegun, FirmwareTold, AtPc, Asked, Waiting, ActiveScans
<1>6. Told'
  BY <1>1, <1>2 DEF Told, AtPc
<1>7. RefsExact'
  BY <1>1, <1>2 DEF RefsExact, OfRequests, OfTimers, OfCancels, OfEvents, OfHandler, HandlerHolds,
                    AtPc
<1> QED
  BY <1>3, <1>4, <1>5, <1>6, <1>7 DEF Core

-----------------------------------------------------------------------------
(***************************************************************************)
(* The firmware and the timers.                                            *)
(***************************************************************************)
LEMMA FwEventStep ==
  ASSUME IndInv, NEW s \in Scan, NEW terminal \in BOOLEAN, FwEvent(s, terminal)
  PROVE  Core'
<1> DEFINE e == [scan |-> s, terminal |-> terminal]
<1>1. /\ TypeRest /\ Places /\ Timed /\ Handling /\ Told /\ Firmware /\ Limit
      /\ refs \in [Vdev -> Nat]
  BY Parts
<1>2. /\ s \in fw /\ fw' = (IF terminal THEN fw \ {s} ELSE fw)
      /\ told' = IF terminal THEN told \ {s} ELSE told
      /\ UNCHANGED <<active, pending, timer, armed, req, done, live, osif, sys, sched, missed>>
  BY DEF FwEvent, queueVars, timerVars
<1>3. \/ events' = events /\ refs' = refs
      \/ events' = Append(events, e) /\ refs' = [refs EXCEPT ![VdevOf[s]] = @ + 1]
  BY DEF FwEvent
<1>4. e \in Event /\ e.scan = s /\ e.terminal = terminal
  BY DEF Event
<1> HIDE DEF e
<1>5. events' \in Seq(Event) /\ ToSet(events') \subseteq ToSet(events) \cup {e}
  <2>1. CASE events' = events
    BY <1>1, <2>1 DEF TypeRest
  <2>2. CASE events' = Append(events, e)
    <3>1. events \in Seq(Event)
      BY <1>1 DEF TypeRest
    <3> QED
      BY <3>1, <2>2, <1>4, EventPost
  <2> QED
    BY <1>3, <2>1, <2>2
<1>6. Asked' = Asked /\ ActiveScans' = ActiveScans /\ Waiting' = Waiting
  BY <1>2 DEF Asked, ActiveScans, Waiting
<1>7. TypeRest'
  <2>1. DOMAIN refs' = Vdev /\ refs' = [v \in Vdev |-> refs'[v]]
    BY <1>1, <1>3
  <2> QED
    BY <1>1, <1>2, <1>5, <2>1 DEF TypeRest
<1>8. Places' /\ Timed' /\ Limit'
  BY <1>1, <1>2, <1>6 DEF Places, Timed, Limit, SlotOf, InHand, AtPc
<1>9. Handling' /\ Told'
  BY <1>1, <1>2, <1>6 DEF Handling, Told, AtPc
<1>10. Firmware'
  <2>1. ASSUME NEW x \in Scan, NotBegun(x)'
        PROVE  x \notin fw' /\ \A y \in ToSet(events') : y.scan # x
    <3>1. NotBegun(x)
      BY <2>1, <1>2, <1>6 DEF NotBegun, AtPc
    <3>2. x \notin fw /\ \A y \in ToSet(events) : y.scan # x
      BY <3>1, <1>1 DEF Firmware
    <3> QED
      BY <3>2, <1>2, <1>4, <1>5
  <2>2. ASSUME NEW y \in ToSet(events'), y.terminal PROVE y.scan \notin fw'
    BY <2>2, <1>1, <1>2, <1>4, <1>5 DEF Firmware
  <2>3. (AtPc("dequeue") /\ sched.scan \in fw => sched.scan \in told)'
    BY <1>1, <1>2 DEF Firmware, AtPc
  <2>4. FirmwareTold'
    BY <1>1, <1>2, <1>6 DEF Firmware, FirmwareTold
  <2> QED
    BY <2>1, <2>2, <2>3, <2>4 DEF Firmware
<1>11. RefsExact'
  <2>1. ASSUME NEW v \in Vdev
        PROVE  refs'[v] = Held(req', v) + Timers(timer', v) + Cancels(osif', v)
                            + Reports(events', v) + OfHandler(v)'
    <3>1. OfHandler(v)' = OfHandler(v)
      BY <1>2 DEF OfHandler, HandlerHolds, AtPc
    <3>2. CASE events' = events /\ refs' = refs
      BY <3>1, <3>2, <1>2, Balance
    <3>3. CASE events' = Append(events, e) /\ refs' = [refs EXCEPT ![VdevOf[s]] = @ + 1]
      <4>1. refs'[v] = refs[v] + For(VdevOf[s], v)
        BY <1>1, <3>3, Messages DEF For
      <4>2. events \in Seq(Event)
        BY <1>1 DEF TypeRest
      <4>3. Reports(events', v) = Reports(events, v) + For(VdevOf[s], v)
        BY <3>3, <4>2, <1>4, ReportsPost
      <4>4. For(VdevOf[s], v) \in Nat
        BY DEF For
      <4> QED
        BY <3>1, <4>1, <4>3, <4>4, <1>2, Balance
    <3> QED
      BY <1>3, <3>2, <3>3
  <2> QED
    BY <2>1, Balanced
<1> QED
  BY <1>7, <1>8, <1>9, <1>10, <1>11 DEF Core

\* A timer expires and its callback is queued; nothing else changes.
LEMMA TimerHandlerStep ==
  ASSUME IndInv, NEW i \in Slot, TimerHandler(i)
  PROVE  Core'
<1>1. /\ TypeRest /\ Places /\ Timed /\ Handling /\ Told /\ Firmware /\ Limit /\ RefsExact
  BY Parts
<1>2. /\ armed' = armed \ {i} /\ sys' = Append(sys, i)
      /\ UNCHANGED <<active, pending, timer, req, done, refs, live, fw, told, osif, events, sched,
                     missed>>
  BY DEF TimerHandler, queueVars
<1>3. TypeRest'
  <2>1. sys' \in Seq(Slot)
    BY <1>1, <1>2 DEF TypeRest
  <2> QED
    BY <1>1, <1>2, <2>1 DEF TypeRest
<1>4. Places' /\ Timed' /\ Limit'
  BY <1>1, <1>2 DEF Places, Timed, Limit, SlotOf, InHand, AtPc, Asked, Waiting, ActiveScans
<1>5. Handling' /\ Firmware'
  BY <1>1, <1>2 DEF Handling, Firmware, NotBegun, FirmwareTold, AtPc, Asked, Waiting, ActiveScans
<1>6. Told'
  BY <1>1, <1>2 DEF Told, AtPc
<1>7. RefsExact'
  BY <1>1, <1>2 DEF RefsExact, OfRequests, OfTimers, OfCancels, OfEvents, OfHandler, HandlerHolds,
                    AtPc
<1> QED
  BY <1>3, <1>4, <1>5, <1>6, <1>7 DEF Core

-----------------------------------------------------------------------------
(***************************************************************************)
(* Start requests.                                                         *)
(***************************************************************************)
LEMMA TakeStartFacts ==
  ASSUME IndInv, NEW s \in Scan, TakeStart(s)
  PROVE  /\ sched = Idle /\ AtPc("idle")
         /\ OsifOK(osif') /\ Asked' = Asked \ {s}
         /\ s \in Asked /\ s \notin ActiveScans \cup Waiting /\ req[s] = "held" /\ done[s] = 0
         /\ UNCHANGED <<timer, armed, live, fw, told, events, sys, missed>>
         /\ \A v \in Vdev : Cancels(osif', v) = Cancels(osif, v)
<1>1. Places /\ Handling /\ Told /\ OsifOK(osif)
  BY Parts
<1>2. /\ AtPc("idle") /\ osif # <<>> /\ Head(osif) = Start(s) /\ osif' = Tail(osif)
      /\ UNCHANGED <<timer, armed, live, fw, told, events, sys, missed>>
  BY DEF TakeStart, timerVars
<1>3. /\ OsifOK(osif') /\ Start(s) \in ToSet(osif)
      /\ ToSet(osif) = ToSet(osif') \cup {Start(s)} /\ Start(s) \notin ToSet(osif')
  <2>1. OsifOK(osif) /\ osif # <<>> /\ osif' = Tail(osif)
    BY <1>1, <1>2
  <2>2. /\ OsifOK(osif') /\ Head(osif) \in ToSet(osif)
        /\ ToSet(osif) = ToSet(osif') \cup {Head(osif)}
        /\ Head(osif).op = "start" => Head(osif) \notin ToSet(osif')
    BY <2>1, OsifTake
  <2> QED
    BY <2>2, <1>2, Messages
<1>4. Asked' = Asked \ {s} /\ s \in Asked
  BY <1>3, Messages DEF Asked
<1>5. s \notin ActiveScans \cup Waiting /\ req[s] = "held"
  BY <1>1, <1>4 DEF Places
<1>6. done[s] = 0
  BY <1>1, <1>2, <1>5 DEF Told, AtPc
<1>7. ASSUME NEW v \in Vdev PROVE Cancels(osif', v) = Cancels(osif, v)
  <2>1. OsifOK(osif) /\ osif # <<>> /\ osif' = Tail(osif) /\ Head(osif) \notin CancelReqs
    BY <1>1, <1>2, Messages
  <2> QED
    BY <2>1, CancelsTake
<1> QED
  BY <1>1, <1>2, <1>3, <1>4, <1>5, <1>6, <1>7 DEF Handling

\* A start request becomes active when the limit allows it.
LEMMA StartReqActiveStep ==
  ASSUME IndInv, NEW s \in Scan, StartReqActive(s)
  PROVE  Core'
<1> DEFINE p == PdevOfScan(s)
<1>1. /\ TypeRest /\ Places /\ Timed /\ Handling /\ Told /\ Firmware /\ Limit
  BY Parts
<1>2. /\ TakeStart(s) /\ ActiveNow(p)
      /\ active' = [active EXCEPT ![p] = Append(@, s)]
      /\ sched' = [pc |-> "activate", scan |-> s, why |-> "REQUEST", after |-> NoAfter]
      /\ UNCHANGED <<pending, req, done, refs>>
  BY DEF StartReqActive, Run
<1>3. /\ sched = Idle /\ AtPc("idle")
      /\ OsifOK(osif') /\ Asked' = Asked \ {s}
      /\ s \in Asked /\ s \notin ActiveScans \cup Waiting /\ req[s] = "held" /\ done[s] = 0
      /\ UNCHANGED <<timer, armed, live, fw, told, events, sys, missed>>
  BY <1>2, TakeStartFacts
<1>4. ListsOK(active') /\ ActiveScans' = ActiveScans \cup {s} /\ Waiting' = Waiting
  <2>1. ListsOK(active) /\ s \notin InLists(active)
    BY <1>1, <1>3 DEF TypeRest, ActiveScans
  <2>2. active' = [active EXCEPT ![PdevOfScan(s)] = Append(@, s)]
    BY <1>2
  <2>3. ListsOK(active') /\ InLists(active') = InLists(active) \cup {s}
    BY <2>1, <2>2, ListsAppend
  <2> QED
    BY <2>3, <1>2 DEF ActiveScans, Waiting
<1>5. /\ sched'.pc = "activate" /\ sched'.scan = s /\ sched'.after = NoAfter
      /\ sched.pc = "idle" /\ sched.after = NoAfter /\ NoAfter.kind = "none"
      /\ NoAfter \in After
  BY <1>2, <1>3 DEF Idle, NoAfter, After
<1>6. TypeRest'
  BY <1>1, <1>2, <1>3, <1>4, <1>5 DEF TypeRest, OsifOK
<1>7. Places'
  BY <1>1, <1>2, <1>3, <1>4 DEF Places, OsifOK
<1>8. Timed'
  <2>1. \A i \in Slot : timer[i] # s
    BY <1>1, <1>3, ScanConstants DEF Timed
  <2>2. \A x \in ActiveScans : SlotOf(x) # {}
    BY <1>1, <1>5 DEF Timed, InHand, AtPc
  <2> QED
    BY <1>1, <1>3, <1>4, <1>5, <2>1, <2>2 DEF Timed, SlotOf, InHand, AtPc
<1>9. Handling'
  BY <1>2, <1>4, <1>5 DEF Handling, AtPc, Idle
<1>10. Told'
  BY <1>1, <1>2, <1>3, <1>5 DEF Told, AtPc
<1>11. Firmware'
  <2>1. \A x \in Scan : NotBegun(x)' => NotBegun(x)
    BY <1>2, <1>3, <1>4, <1>5 DEF NotBegun, AtPc
  <2> QED
    BY <1>1, <1>3, <1>4, <1>5, <2>1 DEF Firmware, FirmwareTold, AtPc
<1>12. Limit'
  <2>1. Cardinality(ActiveScans') = Cardinality(ActiveScans) + 1
    BY <1>3, <1>4, ListsFinite, FS_AddElement DEF ActiveScans
  <2>2. Cardinality(ActiveScans) \in Nat /\ MaxActive \in Nat
    BY ListsFinite, ScanConstants DEF ActiveScans
  <2>3. Cardinality(ActiveScans) < MaxActive
    BY <1>2 DEF ActiveNow, ActiveAllowed
  <2>4. \A x \in Pdev : pending[x] # <<>> /\ x \notin missed =>
                          Cardinality(ActiveScans) >= MaxActive
    BY <1>1, <1>5, <2>2 DEF Limit, AtPc
  <2> QED
    BY <1>2, <1>3, <1>5, <2>1, <2>2, <2>3, <2>4 DEF Limit, AtPc
<1>13. RefsExact'
  <2>1. ASSUME NEW v \in Vdev
        PROVE  refs'[v] = Held(req', v) + Timers(timer', v) + Cancels(osif', v)
                            + Reports(events', v) + OfHandler(v)'
    <3>1. OfHandler(v)' = OfHandler(v)
      BY <1>5 DEF OfHandler, HandlerHolds, AtPc
    <3>2. Cancels(osif', v) = Cancels(osif, v)
      BY <1>2, TakeStartFacts
    <3> QED
      BY <3>1, <3>2, <1>2, <1>3, Balance
  <2> QED
    BY <2>1, Balanced
<1> QED
  BY <1>6, <1>7, <1>8, <1>9, <1>10, <1>11, <1>12, <1>13 DEF Core

\* A start request waits when the limit is reached.
LEMMA StartReqPendingStep ==
  ASSUME IndInv, NEW s \in Scan, StartReqPending(s)
  PROVE  Core'
<1> DEFINE p == PdevOfScan(s)
<1>1. /\ TypeRest /\ Places /\ Timed /\ Handling /\ Told /\ Firmware /\ Limit
  BY Parts
<1>2. /\ TakeStart(s) /\ ~ActiveNow(p)
      /\ pending' = [pending EXCEPT ![p] = Append(@, s)]
      /\ UNCHANGED <<active, req, done, refs, sched>>
  BY DEF StartReqPending
<1>3. /\ sched = Idle /\ AtPc("idle")
      /\ OsifOK(osif') /\ Asked' = Asked \ {s}
      /\ s \in Asked /\ s \notin ActiveScans \cup Waiting /\ req[s] = "held" /\ done[s] = 0
      /\ UNCHANGED <<timer, armed, live, fw, told, events, sys, missed>>
  BY <1>2, TakeStartFacts
<1>4. /\ ListsOK(pending') /\ Waiting' = Waiting \cup {s} /\ ActiveScans' = ActiveScans
      /\ \A x \in Pdev \ {p} : pending'[x] = pending[x]
  <2>1. ListsOK(pending) /\ s \notin InLists(pending)
    BY <1>1, <1>3 DEF TypeRest, Waiting
  <2>2. pending' = [pending EXCEPT ![PdevOfScan(s)] = Append(@, s)]
    BY <1>2
  <2>3. /\ ListsOK(pending') /\ InLists(pending') = InLists(pending) \cup {s}
        /\ Updated(pending, pending', PdevOfScan(s))
    BY <2>1, <2>2, ListsAppend
  <2> QED
    BY <2>3, <1>2 DEF ActiveScans, Waiting, Updated
<1> HIDE DEF p
<1>6. TypeRest'
  BY <1>1, <1>2, <1>3, <1>4 DEF TypeRest, OsifOK
<1>7. Places'
  BY <1>1, <1>2, <1>3, <1>4 DEF Places, OsifOK
<1>8. Timed'
  BY <1>1, <1>2, <1>3, <1>4 DEF Timed, SlotOf, InHand, AtPc
<1>9. Handling' /\ Told'
  BY <1>1, <1>2, <1>3, <1>4 DEF Handling, Told, AtPc
<1>11. Firmware'
  <2>1. \A x \in Scan : NotBegun(x)' => NotBegun(x)
    BY <1>2, <1>3, <1>4 DEF NotBegun, AtPc
  <2> QED
    BY <1>1, <1>2, <1>3, <1>4, <2>1 DEF Firmware, FirmwareTold, AtPc
<1>12. Limit'
  <2>2. Cardinality(ActiveScans) \in Nat /\ MaxActive \in Nat
    BY ListsFinite, ScanConstants DEF ActiveScans
  <2>3. Cardinality(ActiveScans) >= MaxActive \/ pending[p] # <<>>
    BY <1>2, <2>2 DEF ActiveNow, ActiveAllowed
  <2>4. /\ Cardinality(ActiveScans) <= MaxActive
        /\ \A x \in Pdev : pending[x] # <<>> /\ x \notin missed =>
                          Cardinality(ActiveScans) >= MaxActive
    BY <1>1, <1>3, <2>2 DEF Limit, AtPc
  <2>5. \A x \in Pdev : pending'[x] # <<>> /\ x \notin missed =>
                          Cardinality(ActiveScans) >= MaxActive
    BY <2>3, <2>4, <1>4
  <2> QED
    BY <1>2, <1>3, <1>4, <2>2, <2>4, <2>5 DEF Limit, AtPc, Idle
<1>13. RefsExact'
  <2>1. ASSUME NEW v \in Vdev
        PROVE  refs'[v] = Held(req', v) + Timers(timer', v) + Cancels(osif', v)
                            + Reports(events', v) + OfHandler(v)'
    <3>1. OfHandler(v)' = OfHandler(v)
      BY <1>2 DEF OfHandler, HandlerHolds, AtPc
    <3>2. Cancels(osif', v) = Cancels(osif, v)
      BY <1>2, TakeStartFacts
    <3> QED
      BY <3>1, <3>2, <1>2, <1>3, Balance
  <2> QED
    BY <2>1, Balanced
<1> QED
  BY <1>6, <1>7, <1>8, <1>9, <1>11, <1>12, <1>13 DEF Core

\* A start request is refused: it is freed, its reference given back and the
\* requester told.
LEMMA StartReqRefusedStep ==
  ASSUME IndInv, NEW s \in Scan, StartReqRefused(s)
  PROVE  Core'
<1>1. /\ TypeRest /\ Places /\ Timed /\ Handling /\ Told /\ Firmware /\ Limit
      /\ refs \in [Vdev -> Nat]
  BY Parts
<1>2. /\ TakeStart(s) /\ done' = Completed({s}) /\ refs' = RefsLess({s}) /\ req' = Freed({s})
      /\ UNCHANGED <<active, pending, sched>>
  BY DEF StartReqRefused, queueVars
<1>3. /\ sched = Idle /\ AtPc("idle")
      /\ OsifOK(osif') /\ Asked' = Asked \ {s}
      /\ s \in Asked /\ s \notin ActiveScans \cup Waiting /\ req[s] = "held" /\ done[s] = 0
      /\ UNCHANGED <<timer, armed, live, fw, told, events, sys, missed>>
  BY <1>2, TakeStartFacts
<1>4. /\ done' \in [Scan -> Nat] /\ done'[s] = 1 /\ req'[s] = "freed"
      /\ req' \in [Scan -> {"new", "held", "freed"}]
      /\ \A x \in Scan \ {s} : done'[x] = done[x] /\ req'[x] = req[x]
  BY <1>1, <1>2, <1>3 DEF TypeRest, Completed, Freed
<1>5. ActiveScans' = ActiveScans /\ Waiting' = Waiting
  BY <1>2 DEF ActiveScans, Waiting
<1>6. TypeRest'
  <2>1. DOMAIN refs' = Vdev /\ refs' = [v \in Vdev |-> refs'[v]]
    BY <1>2 DEF RefsLess
  <2> QED
    BY <1>1, <1>2, <1>3, <1>4, <2>1 DEF TypeRest, OsifOK
<1>7. Places'
  BY <1>1, <1>2, <1>3, <1>4, <1>5, ListsFinite DEF Places, OsifOK, ActiveScans, Waiting, Asked
<1>8. Timed' /\ Limit'
  BY <1>1, <1>2, <1>3, <1>5 DEF Timed, Limit, SlotOf, InHand, AtPc
<1>9. Handling'
  BY <1>1, <1>2, <1>3, <1>4, <1>5 DEF Handling, AtPc, Idle, NoAfter
<1>10. Told'
  BY ZenonT(60), <1>1, <1>2, <1>3, <1>4 DEF Told, AtPc, Idle, NoAfter
<1>11. Firmware'
  <2>1. \A x \in Scan : NotBegun(x)' => NotBegun(x)
    BY <1>2, <1>3, <1>4, <1>5 DEF NotBegun, AtPc
  <2> QED
    BY <1>1, <1>2, <1>3, <1>5, <2>1 DEF Firmware, FirmwareTold, AtPc
<1>13. RefsExact'
  <2>1. ASSUME NEW v \in Vdev
        PROVE  refs'[v] = Held(req', v) + Timers(timer', v) + Cancels(osif', v)
                            + Reports(events', v) + OfHandler(v)'
    <3>1. OfHandler(v)' = OfHandler(v)
      BY <1>2 DEF OfHandler, HandlerHolds, AtPc
    <3>2. Cancels(osif', v) = Cancels(osif, v)
      BY <1>2, TakeStartFacts
    <3>3. refs'[v] = refs[v] - Cardinality({s} \cap OfVdev(v))
      BY <1>2 DEF RefsLess
    <3>4. {s} \in SUBSET Scan /\ AllHeld(req, {s})
      BY <1>3 DEF AllHeld
    <3>5. req' = [x \in Scan |-> IF x \in {s} THEN "freed" ELSE req[x]]
      BY <1>2 DEF Freed
    <3>6. Held(req', v) = Held(req, v) - Cardinality({s} \cap OfVdev(v))
      BY <3>4, <3>5, HeldFreed
    <3>7. Cardinality({s} \cap OfVdev(v)) \in Nat
      BY SomeScans
    <3> QED
      BY <3>1, <3>2, <3>3, <3>6, <3>7, <1>3, Balance
  <2> QED
    BY <2>1, Balanced
<1> QED
  BY <1>6, <1>7, <1>8, <1>9, <1>10, <1>11, <1>13 DEF Core

-----------------------------------------------------------------------------
(***************************************************************************)
(* Activation.  The command in hand is active and has no timer, so fewer   *)
(* timers are in use than scans are active, and one is free.               *)
(***************************************************************************)
LEMMA FreeSlot ==
  ASSUME IndInv, AtPc("activate")
  PROVE  Min(SlotOf(NoScan)) \in Slot /\ timer[Min(SlotOf(NoScan))] = NoScan
<1> DEFINE s == sched.scan
           U == ActiveScans \ {s}
<1>1. Timed /\ Limit /\ Handling /\ TypeRest
  BY Parts
<1>2. s \in ActiveScans /\ \A i \in Slot : timer[i] # s
  BY <1>1 DEF Handling, Timed, SlotOf, AtPc
<1>3. /\ IsFiniteSet(ActiveScans) /\ Cardinality(ActiveScans) \in Nat
      /\ MaxActive \in Nat /\ NTimers \in Nat /\ MaxActive <= NTimers
  BY ListsFinite, ScanConstants, TimersAssumption DEF ActiveScans
<1>4. IsFiniteSet(U) /\ Cardinality(U) = Cardinality(ActiveScans) - 1
  BY <1>2, <1>3, FS_RemoveElement
<1>5. Cardinality(ActiveScans) <= MaxActive
  BY <1>1, <1>3 DEF Limit, AtPc
<1>6. Cardinality(Slot) = NTimers
  BY <1>3, FS_Interval DEF Slot
<1>7. ASSUME SlotOf(NoScan) = {} PROVE FALSE
  <2>1. timer \in [Slot -> U]
    BY <1>7, <1>1, <1>2 DEF Timed, SlotOf, TypeRest
  <2>2. \A i, j \in Slot : timer[i] = timer[j] => i = j
    BY <1>7, <1>1 DEF Timed, SlotOf
  <2>3. timer \in Injection(Slot, U)
    BY <2>1, <2>2 DEF Injection, IsInjective
  <2>4. Cardinality(Slot) <= Cardinality(U)
    BY <2>3, <1>4, FS_Injection
  <2> QED
    BY <2>4, <1>3, <1>4, <1>5, <1>6
<1>8. SlotOf(NoScan) \in SUBSET Nat
  BY DEF SlotOf, Slot
<1>9. Min(SlotOf(NoScan)) \in SlotOf(NoScan)
  BY <1>7, <1>8, MinIsFirst
<1> QED
  BY <1>9 DEF SlotOf

\* Starting the timer of the command in hand: the only active scan without a timer
\* has one now, and a reference to its vdev with it.
LEMMA StartTimerFacts ==
  ASSUME IndInv, AtPc("activate"), StartTimer(sched.scan)
  PROVE  LET s == sched.scan IN
         /\ s \in Scan /\ VdevOf[s] \in live
         /\ timer' \in [Slot -> Scan \cup {NoScan}] /\ armed' \subseteq Slot
         /\ DOMAIN refs' = Vdev /\ refs' = [v \in Vdev |-> refs'[v]]
         /\ \A i \in Slot : timer'[i] \in {timer[i], s}
         /\ \A i, j \in Slot : timer'[i] = timer'[j] /\ timer'[i] # NoScan => i = j
         /\ \A x \in ActiveScans : \E i \in Slot : timer'[i] = x
         /\ \A v \in Vdev : refs'[v] = refs[v] + For(VdevOf[s], v)
         /\ \A v \in Vdev : Timers(timer', v) = Timers(timer, v) + For(VdevOf[s], v)
<1> DEFINE s == sched.scan
           n == Min(SlotOf(NoScan))
<1>1. Timed /\ Handling /\ TypeRest /\ TimersOK(timer) /\ refs \in [Vdev -> Nat]
  BY Parts
<1>2. n \in Slot /\ timer[n] = NoScan
  BY FreeSlot
<1> HIDE DEF n
<1>3. /\ VdevOf[s] \in live /\ timer' = [timer EXCEPT ![n] = s] /\ armed' = armed \cup {n}
      /\ refs' = [refs EXCEPT ![VdevOf[s]] = @ + 1]
  BY DEF StartTimer, n
<1>4. s \in Scan /\ s \in ActiveScans /\ \A i \in Slot : timer[i] # s
  BY <1>1 DEF Handling, Timed, SlotOf, AtPc
<1>10. \A x \in ActiveScans \ {s} : \E i \in Slot : timer[i] = x
  BY <1>1 DEF Timed, SlotOf, InHand
<1> HIDE DEF s
<1>5. timer \in [Slot -> Scan \cup {NoScan}]
  BY <1>1 DEF TypeRest
<1>6. /\ timer' \in [Slot -> Scan \cup {NoScan}] /\ timer'[n] = s
      /\ \A i \in Slot \ {n} : timer'[i] = timer[i]
  BY <1>2, <1>3, <1>4, <1>5
<1>7. \A i, j \in Slot : timer'[i] = timer'[j] /\ timer'[i] # NoScan => i = j
  BY <1>2, <1>6, <1>4, <1>1 DEF Timed
<1>8. \A x \in ActiveScans : \E i \in Slot : timer'[i] = x
  <2> TAKE x \in ActiveScans
  <2>1. CASE x = s
    BY <2>1, <1>2, <1>6
  <2>2. CASE x # s
    <3>1. PICK i \in Slot : timer[i] = x
      BY <2>2, <1>10
    <3>2. x # NoScan
      BY ScanConstants, ListsFinite DEF ActiveScans
    <3> QED
      BY <3>1, <3>2, <1>2, <1>6
  <2> QED
    BY <2>1, <2>2
<1>9. ASSUME NEW v \in Vdev
      PROVE  Timers(timer', v) = Timers(timer, v) + For(VdevOf[s], v)
  <2>1. /\ TimersOK(timer) /\ n \in Slot /\ timer[n] = NoScan /\ s \in Scan
        /\ timer' = [timer EXCEPT ![n] = s]
    BY <1>1, <1>2, <1>3, <1>4
  <2> QED
    BY <2>1, TimersAdded
<1>11. ASSUME NEW v \in Vdev
       PROVE  refs'[v] = refs[v] + For(VdevOf[s], v)
  BY <1>1, <1>3, <1>4, Messages DEF For
<1>12. DOMAIN refs' = Vdev /\ refs' = [v \in Vdev |-> refs'[v]]
  BY <1>1, <1>3
<1>13. armed' \subseteq Slot
  BY <1>1, <1>2, <1>3 DEF TypeRest
<1>14. \A i \in Slot : timer'[i] \in {timer[i], s}
  BY <1>6
<1> QED
  BY <1>3, <1>4, <1>6, <1>7, <1>8, <1>9, <1>11, <1>12, <1>13, <1>14 DEF s

\* Activation when the vdev is being deleted: there is no timer, the command goes
\* back out of the list.
LEMMA ActivateNoTimerStep ==
  ASSUME IndInv, ActivateNoTimer
  PROVE  Core'
<1>1. /\ TypeRest /\ Places /\ Timed /\ Handling /\ Told /\ Firmware /\ Limit /\ RefsExact
  BY Parts
<1>2. /\ AtPc("activate") /\ VdevOf[sched.scan] \notin live
      /\ sched' = [sched EXCEPT !.pc = "dequeue", !.why = "ACTIVATION_FAILED"]
      /\ UNCHANGED <<active, pending, timer, armed, req, done, refs, live, fw, told, osif, events,
                     sys, missed>>
  BY DEF ActivateNoTimer, queueVars, timerVars, msgVars
<1>3. /\ sched.pc = "activate" /\ sched'.pc = "dequeue" /\ sched'.why = "ACTIVATION_FAILED"
      /\ sched'.scan = sched.scan /\ sched'.after = sched.after
      /\ sched' \in [pc: {"idle", "activate", "dequeue", "move", "finish"},
                     scan: Scan \cup {NoScan},
                     why: {"REQUEST", "REMOVE", "ACTIVATION_FAILED", "TIMEOUT"}, after: After]
  BY <1>1, <1>2 DEF TypeRest, AtPc
<1>4. sched.scan \in Scan /\ sched.scan \in ActiveScans /\ req[sched.scan] = "held"
  BY <1>1, <1>3 DEF Handling, Places, AtPc
<1>5. Asked' = Asked /\ Waiting' = Waiting /\ ActiveScans' = ActiveScans
  BY <1>2 DEF Asked, Waiting, ActiveScans
<1>6. TypeRest'
  BY <1>1, <1>2, <1>3 DEF TypeRest
<1>7. Places' /\ Limit'
  BY <1>1, <1>2, <1>3, <1>5 DEF Places, Limit, AtPc
<1>8. Timed'
  BY <1>1, <1>2, <1>3, <1>5 DEF Timed, SlotOf, InHand, AtPc
<1>9. Handling'
  BY <1>1, <1>2, <1>3, <1>4, <1>5 DEF Handling, AtPc, Idle
<1>10. Told'
  BY <1>1, <1>2, <1>3, <1>4 DEF Told, AtPc
<1>11. Firmware'
  BY <1>1, <1>2, <1>3, <1>4, <1>5 DEF Firmware, NotBegun, FirmwareTold, AtPc
<1>12. RefsExact'
  BY <1>1, <1>2, <1>3 DEF RefsExact, OfRequests, OfTimers, OfCancels, OfEvents, OfHandler,
                          HandlerHolds, AtPc
<1> QED
  BY <1>6, <1>7, <1>8, <1>9, <1>10, <1>11, <1>12 DEF Core

\* Activation when the firmware takes the scan.
LEMMA ActivateOKStep ==
  ASSUME IndInv, ActivateOK
  PROVE  Core'
<1> DEFINE s == sched.scan
<1>1. /\ TypeRest /\ Places /\ Timed /\ Handling /\ Told /\ Firmware /\ Limit
  BY Parts
<1>2. /\ AtPc("activate") /\ StartTimer(s) /\ fw' = fw \cup {s}
      /\ sched' = [sched EXCEPT !.pc = "finish"]
      /\ UNCHANGED <<active, pending, req, done, live, told, osif, events, sys, missed>>
  BY DEF ActivateOK, Goto, queueVars, msgVars
<1>3. /\ sched.pc = "activate" /\ sched'.pc = "finish"
      /\ sched'.scan = s /\ sched'.after = sched.after
      /\ sched' \in [pc: {"idle", "activate", "dequeue", "move", "finish"},
                     scan: Scan \cup {NoScan},
                     why: {"REQUEST", "REMOVE", "ACTIVATION_FAILED", "TIMEOUT"}, after: After]
  BY <1>1, <1>2 DEF TypeRest, AtPc
<1>4. s \in Scan /\ s \in ActiveScans /\ s \notin Asked \cup Waiting /\ req[s] = "held"
  BY <1>1, <1>3 DEF Handling, Places, AtPc
<1>5. Asked' = Asked /\ Waiting' = Waiting /\ ActiveScans' = ActiveScans
  BY <1>2 DEF Asked, Waiting, ActiveScans
<1>6. /\ timer' \in [Slot -> Scan \cup {NoScan}] /\ armed' \subseteq Slot
      /\ DOMAIN refs' = Vdev /\ refs' = [v \in Vdev |-> refs'[v]]
      /\ \A i \in Slot : timer'[i] \in {timer[i], s}
      /\ \A i, j \in Slot : timer'[i] = timer'[j] /\ timer'[i] # NoScan => i = j
      /\ \A x \in ActiveScans : \E i \in Slot : timer'[i] = x
  BY <1>2, StartTimerFacts
<1>7. TypeRest'
  BY <1>1, <1>2, <1>3, <1>4, <1>6 DEF TypeRest
<1>8. Places' /\ Limit'
  BY <1>1, <1>2, <1>3, <1>5 DEF Places, Limit, AtPc
<1>9. Timed'
  <2>1. \A i \in Slot : timer'[i] \in ActiveScans \cup {NoScan}
    BY <1>1, <1>4, <1>6 DEF Timed
  <2> QED
    BY <1>3, <1>5, <1>6, <2>1 DEF Timed, SlotOf, AtPc
<1>10. Handling'
  BY <1>1, <1>2, <1>3, <1>4 DEF Handling, AtPc, Idle
<1>11. Told'
  BY <1>1, <1>2, <1>3 DEF Told, AtPc
<1>12. Firmware'
  <2>1. s \notin fw /\ \A e \in ToSet(events) : e.scan # s
    BY <1>1, <1>3, <1>4 DEF Firmware, NotBegun, AtPc
  <2>2. ASSUME NEW x \in Scan, NotBegun(x)' PROVE NotBegun(x) /\ x # s
    BY <2>2, <1>2, <1>3, <1>4, <1>5 DEF NotBegun, AtPc
  <2> QED
    BY <1>1, <1>2, <1>3, <1>4, <1>5, <2>1, <2>2 DEF Firmware, FirmwareTold, AtPc
<1>13. RefsExact'
  <2>1. ASSUME NEW v \in Vdev
        PROVE  refs'[v] = Held(req', v) + Timers(timer', v) + Cancels(osif', v)
                            + Reports(events', v) + OfHandler(v)'
    <3>1. OfHandler(v)' = OfHandler(v)
      BY <1>3 DEF OfHandler, HandlerHolds, AtPc
    <3>2. /\ refs'[v] = refs[v] + For(VdevOf[s], v)
          /\ Timers(timer', v) = Timers(timer, v) + For(VdevOf[s], v)
      BY <1>2, StartTimerFacts
    <3>3. For(VdevOf[s], v) \in Nat
      BY DEF For
    <3> QED
      BY <3>1, <3>2, <3>3, <1>2, Balance
  <2> QED
    BY <2>1, Balanced
<1> QED
  BY <1>7, <1>8, <1>9, <1>10, <1>11, <1>12, <1>13 DEF Core

\* Activation when the firmware call fails: the command goes back out of the list.
LEMMA ActivateFailsStep ==
  ASSUME IndInv, ActivateFails
  PROVE  Core'
<1> DEFINE s == sched.scan
<1>1. /\ TypeRest /\ Places /\ Timed /\ Handling /\ Told /\ Firmware /\ Limit
  BY Parts
<1>2. /\ AtPc("activate") /\ StartTimer(s) /\ done' = Completed({s})
      /\ sched' = [sched EXCEPT !.pc = "dequeue", !.why = "ACTIVATION_FAILED"]
      /\ UNCHANGED <<active, pending, req, live, fw, told, osif, events, sys, missed>>
  BY DEF ActivateFails, queueVars, msgVars
<1>3. /\ sched.pc = "activate" /\ sched'.pc = "dequeue" /\ sched'.why = "ACTIVATION_FAILED"
      /\ sched'.scan = s /\ sched'.after = sched.after
      /\ sched' \in [pc: {"idle", "activate", "dequeue", "move", "finish"},
                     scan: Scan \cup {NoScan},
                     why: {"REQUEST", "REMOVE", "ACTIVATION_FAILED", "TIMEOUT"}, after: After]
  BY <1>1, <1>2 DEF TypeRest, AtPc
<1>4. s \in Scan /\ s \in ActiveScans /\ s \notin Asked \cup Waiting /\ req[s] = "held"
  BY <1>1, <1>3 DEF Handling, Places, AtPc
<1>14. done[s] = 0
  BY <1>1, <1>3, <1>4 DEF Told, AtPc
<1>15. /\ done' \in [Scan -> Nat] /\ done'[s] = 1
       /\ \A x \in Scan \ {s} : done'[x] = done[x]
  BY <1>1, <1>2, <1>4, <1>14 DEF TypeRest, Completed
<1>5. Asked' = Asked /\ Waiting' = Waiting /\ ActiveScans' = ActiveScans
  BY <1>2 DEF Asked, Waiting, ActiveScans
<1>6. /\ timer' \in [Slot -> Scan \cup {NoScan}] /\ armed' \subseteq Slot
      /\ DOMAIN refs' = Vdev /\ refs' = [v \in Vdev |-> refs'[v]]
      /\ \A i \in Slot : timer'[i] \in {timer[i], s}
      /\ \A i, j \in Slot : timer'[i] = timer'[j] /\ timer'[i] # NoScan => i = j
      /\ \A x \in ActiveScans : \E i \in Slot : timer'[i] = x
  BY <1>2, StartTimerFacts
<1>7. TypeRest'
  BY <1>1, <1>2, <1>3, <1>15, <1>6 DEF TypeRest
<1>8. Places' /\ Limit'
  BY <1>1, <1>2, <1>3, <1>5 DEF Places, Limit, AtPc
<1>9. Timed'
  <2>1. \A i \in Slot : timer'[i] \in ActiveScans \cup {NoScan}
    BY <1>1, <1>4, <1>6 DEF Timed
  <2> QED
    BY <1>3, <1>5, <1>6, <2>1 DEF Timed, SlotOf, AtPc
<1>10. Handling'
  BY <1>1, <1>2, <1>3, <1>4, <1>5, <1>15 DEF Handling, AtPc, Idle
<1>11. Told'
  BY <1>1, <1>2, <1>3, <1>4, <1>15 DEF Told, AtPc
<1>12. Firmware'
  <2>1. s \notin fw
    BY <1>1, <1>3, <1>4 DEF Firmware, NotBegun, AtPc
  <2>2. ASSUME NEW x \in Scan, NotBegun(x)' PROVE NotBegun(x)
    BY <2>2, <1>2, <1>3, <1>4, <1>5 DEF NotBegun, AtPc
  <2> QED
    BY <1>1, <1>2, <1>3, <1>4, <1>5, <2>1, <2>2 DEF Firmware, FirmwareTold, AtPc
<1>13. RefsExact'
  <2>1. ASSUME NEW v \in Vdev
        PROVE  refs'[v] = Held(req', v) + Timers(timer', v) + Cancels(osif', v)
                            + Reports(events', v) + OfHandler(v)'
    <3>1. OfHandler(v)' = OfHandler(v)
      BY <1>3 DEF OfHandler, HandlerHolds, AtPc
    <3>2. /\ refs'[v] = refs[v] + For(VdevOf[s], v)
          /\ Timers(timer', v) = Timers(timer, v) + For(VdevOf[s], v)
      BY <1>2, StartTimerFacts
    <3>3. For(VdevOf[s], v) \in Nat
      BY DEF For
    <3> QED
      BY <3>1, <3>2, <3>3, <1>2, Balance
  <2> QED
    BY <2>1, Balanced
<1> QED
  BY <1>7, <1>8, <1>9, <1>10, <1>11, <1>12, <1>13 DEF Core

-----------------------------------------------------------------------------
(***************************************************************************)
(* The end of a command, and the next one of its pdev.                     *)
(***************************************************************************)
LEMMA DequeueStep ==
  ASSUME IndInv, Dequeue
  PROVE  Core'
<1> DEFINE s == sched.scan
           ofTimer == IF SlotOf(s) # {} /\ sched.why # "TIMEOUT" THEN 1 ELSE 0
<1>1. /\ TypeRest /\ Places /\ Timed /\ Handling /\ Told /\ Firmware /\ Limit
      /\ refs \in [Vdev -> Nat] /\ TimersOK(timer)
  BY Parts
<1>2. /\ AtPc("dequeue")
      /\ active' = [active EXCEPT ![PdevOfScan(s)] = RemoveFirst(@, s)]
      /\ timer' = [i \in Slot |-> IF timer[i] \in {s} THEN NoScan ELSE timer[i]]
      /\ armed' \subseteq armed
      /\ refs' = [refs EXCEPT ![VdevOf[s]] = @ - 1 - ofTimer]
      /\ req' = Freed({s})
      /\ sched' = [sched EXCEPT !.pc = "move"]
      /\ UNCHANGED <<pending, done, live, fw, told, osif, events, sys, missed>>
  BY DEF Dequeue, Goto, TimersLess, msgVars
<1>3. /\ sched.pc = "dequeue" /\ sched'.pc = "move"
      /\ sched'.scan = s /\ sched'.after = sched.after
      /\ sched' \in [pc: {"idle", "activate", "dequeue", "move", "finish"},
                     scan: Scan \cup {NoScan},
                     why: {"REQUEST", "REMOVE", "ACTIVATION_FAILED", "TIMEOUT"}, after: After]
  BY <1>1, <1>2 DEF TypeRest, AtPc
<1>4. s \in Scan /\ s \in ActiveScans /\ s \notin Asked \cup Waiting /\ req[s] = "held"
  BY <1>1, <1>3 DEF Handling, Places, AtPc
<1>5. /\ ListsOK(active') /\ ActiveScans' = ActiveScans \ {s}
      /\ Asked' = Asked /\ Waiting' = Waiting
  <2>1. ListsOK(active) /\ s \in InLists(active)
    BY <1>1, <1>4 DEF TypeRest, ActiveScans
  <2>2. active' = [active EXCEPT ![PdevOfScan(s)] = RemoveFirst(@, s)]
    BY <1>2
  <2>3. ListsOK(active') /\ InLists(active') = InLists(active) \ {s}
    BY <2>1, <2>2, ListsRemove
  <2> QED
    BY <2>3, <1>2 DEF ActiveScans, Waiting, Asked
<1>6. /\ req' \in [Scan -> {"new", "held", "freed"}] /\ req'[s] = "freed"
      /\ \A x \in Scan \ {s} : req'[x] = req[x]
  BY <1>1, <1>2, <1>4 DEF TypeRest, Freed
<1>7. TypeRest'
  <2>1. timer' \in [Slot -> Scan \cup {NoScan}]
    BY <1>1, <1>2 DEF TypeRest
  <2>2. DOMAIN refs' = Vdev /\ refs' = [v \in Vdev |-> refs'[v]]
    BY <1>1, <1>2
  <2> QED
    BY <1>1, <1>2, <1>3, <1>5, <1>6, <2>1, <2>2 DEF TypeRest
<1>8. Places'
  BY <1>1, <1>2, <1>4, <1>5, <1>6, ListsFinite DEF Places, ActiveScans, Waiting, Asked
<1>9. Timed'
  <2>1. \A i \in Slot : timer'[i] = IF timer[i] = s THEN NoScan ELSE timer[i]
    BY <1>2
  <2>2. s # NoScan
    BY <1>4, ScanConstants
  <2>3. \A i \in Slot : timer'[i] \in ActiveScans' \cup {NoScan}
    BY <1>1, <1>5, <2>1 DEF Timed
  <2>4. \A i, j \in Slot : timer'[i] = timer'[j] /\ timer'[i] # NoScan => i = j
    BY <1>1, <2>1 DEF Timed
  <2>5. \A x \in ActiveScans \ {s} : \E i \in Slot : timer[i] = x
    BY <1>1 DEF Timed, SlotOf, InHand
  <2>6. \A x \in ActiveScans \ {s} : \E i \in Slot : timer'[i] = x
    BY <2>1, <2>5
  <2> QED
    BY <1>3, <1>5, <2>3, <2>4, <2>6 DEF Timed, SlotOf, AtPc
<1>10. Handling'
  <2>1. sched.after.kind = "event" => req'[sched.after.scan] = "freed" /\ done[sched.after.scan] = 0
    <3>1. CASE sched.why = "REMOVE"
      <4>1. sched.after = [kind |-> "event", scan |-> s]
        BY <3>1, <1>1, <1>3 DEF Handling, AtPc
      <4>2. done[s] = 0
        BY <3>1, <1>1, <1>3, <1>4 DEF Told, AtPc
      <4> QED
        BY <4>1, <4>2, <1>6
    <3>2. CASE sched.why # "REMOVE"
      BY <3>2, <1>1, <1>3, <1>6 DEF Handling, AtPc
    <3> QED
      BY <3>1, <3>2
  <2> QED
    BY <1>1, <1>2, <1>3, <1>4, <2>1 DEF Handling, AtPc, Idle
<1>11. Told'
  <2>1. sched.why = "REMOVE" => sched.after = [kind |-> "event", scan |-> s]
    BY <1>1, <1>3 DEF Handling, AtPc
  <2>2. /\ done[s] \in {0, 1}
        /\ VdevOf[s] \in live => done[s] = 1 \/ sched.after = [kind |-> "event", scan |-> s]
    BY <1>1, <1>3, <1>4, <2>1 DEF Told, AtPc
  <2>3. \A x \in Scan \ {s} :
          /\ req[x] = "freed" => done[x] \in {0, 1}
          /\ req[x] # "freed" => done[x] = 0
          /\ req[x] = "freed" /\ VdevOf[x] \in live =>
               done[x] = 1 \/ sched.after = [kind |-> "event", scan |-> x]
    BY <1>1, <1>3 DEF Told, AtPc
  <2> QED
    BY ZenonT(60), <1>2, <1>3, <1>6, <2>2, <2>3 DEF Told, AtPc
<1>12. Firmware'
  <2>1. s \in fw => s \in told
    BY <1>1, <1>3 DEF Firmware, AtPc
  <2>2. ASSUME NEW x \in Scan, NotBegun(x)' PROVE NotBegun(x)
    BY <2>2, <1>2, <1>3, <1>4, <1>5, <1>6 DEF NotBegun, AtPc
  <2> QED
    BY <1>1, <1>2, <1>3, <1>5, <2>1, <2>2 DEF Firmware, FirmwareTold, AtPc
<1>13. Limit'
  <2>1. Cardinality(ActiveScans') = Cardinality(ActiveScans) - 1
    BY <1>4, <1>5, ListsFinite, FS_RemoveElement DEF ActiveScans
  <2>2. Cardinality(ActiveScans) \in Nat /\ MaxActive \in Nat
    BY ListsFinite, ScanConstants DEF ActiveScans
  <2> QED
    BY <1>1, <1>2, <1>3, <2>1, <2>2 DEF Limit, AtPc
<1>14. RefsExact'
  <2>1. ASSUME NEW v \in Vdev
        PROVE  refs'[v] = Held(req', v) + Timers(timer', v) + Cancels(osif', v)
                            + Reports(events', v) + OfHandler(v)'
    <3>0. For(VdevOf[s], v) \in {0, 1}
      BY DEF For
    <3>1. refs'[v] = IF VdevOf[s] = v THEN refs[v] - 1 - ofTimer ELSE refs[v]
      BY <1>1, <1>2, <1>4, Messages
    <3>2. {s} \in SUBSET Scan /\ AllHeld(req, {s})
      BY <1>4 DEF AllHeld
    <3>3. req' = [x \in Scan |-> IF x \in {s} THEN "freed" ELSE req[x]]
      BY <1>2 DEF Freed
    <3>4. Held(req', v) = Held(req, v) - Cardinality({s} \cap OfVdev(v))
      BY <3>2, <3>3, HeldFreed
    <3>5. Cardinality({s} \cap OfVdev(v)) = For(VdevOf[s], v)
      BY <1>4, OneScan
    <3>6. CASE SlotOf(s) = {}
      <4>1. timer' = timer
        BY <3>6, <1>1, <1>2 DEF SlotOf, TypeRest
      <4>2. ofTimer = 0 /\ sched.why # "TIMEOUT"
        BY <3>6, <1>1, <1>3 DEF Timed, AtPc
      <4>3. OfHandler(v)' = OfHandler(v)
        BY <4>2, <1>3 DEF OfHandler, HandlerHolds, AtPc
      <4> HIDE DEF ofTimer
      <4> QED
        BY <3>0, <3>1, <3>4, <3>5, <4>1, <4>2, <4>3, <1>2, Balance DEF For
    <3>7. CASE SlotOf(s) # {}
      <4>1. AllTimed(timer, {s}) /\ TimersOK(timer)
        BY <3>7, <1>1 DEF AllTimed, SlotOf
      <4>2. timer' = [i \in Slot |-> IF timer[i] \in {s} THEN NoScan ELSE timer[i]]
        BY <1>2
      <4>3. Timers(timer', v) = Timers(timer, v) - Cardinality({s} \cap OfVdev(v))
        BY <3>2, <4>1, <4>2, TimersRemoved
      <4>4. CASE sched.why = "TIMEOUT"
        <5>1. sched.after = [kind |-> "timeout", scan |-> s]
          BY <4>4, <1>1, <1>3 DEF Handling, AtPc
        <5>4. sched.after.kind = "timeout" /\ sched.after.scan = s
          BY <5>1
        <5>5. ~HandlerHolds /\ HandlerHolds'
          BY <4>4, <5>4, <1>3 DEF HandlerHolds, AtPc
        <5>6. s \in OfVdev(v) <=> VdevOf[s] = v
          BY <1>4, OneScan
        <5>2. OfHandler(v) = 0 /\ OfHandler(v)' = For(VdevOf[s], v)
          BY <5>4, <5>5, <5>6, <1>3 DEF OfHandler, For
        <5>3. ofTimer = 0
          BY <4>4
        <5> HIDE DEF ofTimer
        <5> QED
          BY <3>0, <3>1, <3>4, <3>5, <4>3, <5>2, <5>3, <1>2, Balance DEF For
      <4>5. CASE sched.why # "TIMEOUT"
        <5>1. OfHandler(v)' = OfHandler(v)
          BY <4>5, <1>3 DEF OfHandler, HandlerHolds, AtPc
        <5>2. ofTimer = 1
          BY <3>7, <4>5
        <5> HIDE DEF ofTimer
        <5> QED
          BY <3>0, <3>1, <3>4, <3>5, <4>3, <5>1, <5>2, <1>2, Balance DEF For
      <4> QED
        BY <4>4, <4>5
    <3> QED
      BY <3>6, <3>7
  <2> QED
    BY <2>1, Balanced
<1> QED
  BY <1>7, <1>8, <1>9, <1>10, <1>11, <1>12, <1>13, <1>14 DEF Core

\* A pending command takes the place that became free.
LEMMA MovePendingStep ==
  ASSUME IndInv, MovePending
  PROVE  Core'
<1> DEFINE p == PdevOfScan(sched.scan)
           h == Head(pending[p])
<1>1. /\ TypeRest /\ Places /\ Timed /\ Handling /\ Told /\ Firmware /\ Limit
  BY Parts
<1>2. /\ AtPc("move") /\ pending[p] # <<>> /\ ActiveAllowed(p)
      /\ active' = [active EXCEPT ![p] = Append(@, h)]
      /\ pending' = [pending EXCEPT ![p] = Tail(@)]
      /\ sched' = [sched EXCEPT !.pc = "activate", !.scan = h]
      /\ missed' = Passed(p, pending', Cardinality(ActiveScans) + 1)
      /\ UNCHANGED <<timer, armed, req, done, refs, live, fw, told, osif, events, sys>>
  BY DEF MovePending, timerVars, msgVars
<1>3. p \in Pdev
  BY <1>1, <1>2, Messages DEF Handling, AtPc
<1>4. /\ ListsOK(pending') /\ Updated(pending, pending', p) /\ Waiting' = Waiting \ {h}
      /\ h \in Waiting /\ h \in Scan /\ PdevOfScan(h) = p
  <2>1. ListsOK(pending) /\ pending[p] # <<>> /\ pending' = [pending EXCEPT ![p] = Tail(@)]
    BY <1>1, <1>2 DEF TypeRest
  <2>2. /\ ListsOK(pending') /\ Updated(pending, pending', p)
        /\ InLists(pending') = InLists(pending) \ {h}
        /\ h \in InLists(pending) /\ PdevOfScan(h) = p
    BY <1>3, <2>1, ListsTail
  <2> QED
    BY <2>2, ListsFinite DEF Waiting
<1>5. h \notin ActiveScans \cup Asked /\ req[h] = "held" /\ done[h] = 0
  BY <1>1, <1>2, <1>4 DEF Places, Told, AtPc
<1>6. ListsOK(active') /\ ActiveScans' = ActiveScans \cup {h} /\ Asked' = Asked
  <2>1. ListsOK(active) /\ h \notin InLists(active) /\ h \in Scan
    BY <1>1, <1>4, <1>5 DEF TypeRest, ActiveScans
  <2>2. active' = [active EXCEPT ![PdevOfScan(h)] = Append(@, h)]
    BY <1>2, <1>4
  <2> HIDE DEF h, p
  <2>3. ListsOK(active') /\ InLists(active') = InLists(active) \cup {h}
    BY <2>1, <2>2, ListsAppend
  <2> QED
    BY <2>3, <1>2 DEF ActiveScans, Asked
<1> HIDE DEF h, p
<1>7. /\ sched.pc = "move" /\ sched'.pc = "activate"
      /\ sched'.scan = h /\ sched'.after = sched.after
      /\ sched' \in [pc: {"idle", "activate", "dequeue", "move", "finish"},
                     scan: Scan \cup {NoScan},
                     why: {"REQUEST", "REMOVE", "ACTIVATION_FAILED", "TIMEOUT"}, after: After]
  BY <1>1, <1>2, <1>4 DEF TypeRest, AtPc
<1>8. TypeRest'
  <2>1. missed' \subseteq Pdev
    BY <1>2 DEF Passed
  <2> QED
    BY <1>1, <1>2, <1>4, <1>6, <1>7, <2>1 DEF TypeRest
<1>9. Places'
  BY <1>1, <1>2, <1>4, <1>5, <1>6 DEF Places
<1>10. Timed'
  <2>1. \A i \in Slot : timer[i] # h
    BY <1>1, <1>4, <1>5, ScanConstants DEF Timed
  <2>2. \A x \in ActiveScans : SlotOf(x) # {}
    BY <1>1, <1>7 DEF Timed, InHand, AtPc
  <2> QED
    BY <1>1, <1>2, <1>6, <1>7, <2>1, <2>2 DEF Timed, SlotOf, InHand, AtPc
<1>11. Handling'
  BY <1>1, <1>2, <1>4, <1>6, <1>7 DEF Handling, AtPc, Idle
<1>12. Told'
  BY <1>1, <1>2, <1>7 DEF Told, AtPc
<1>13. Firmware'
  <2>1. ASSUME NEW x \in Scan, NotBegun(x)' PROVE NotBegun(x)
    BY <2>1, <1>2, <1>4, <1>6, <1>7 DEF NotBegun, AtPc
  <2> QED
    BY <1>1, <1>2, <1>6, <1>7, <2>1 DEF Firmware, FirmwareTold, AtPc
<1>14. Limit'
  <2>1. Cardinality(ActiveScans') = Cardinality(ActiveScans) + 1
    BY ZenonT(60), <1>5, <1>6, ListsFinite, FS_AddElement DEF ActiveScans
  <2>2. Cardinality(ActiveScans) \in Nat /\ MaxActive \in Nat
    BY ListsFinite, ScanConstants DEF ActiveScans
  <2>3. /\ Cardinality(ActiveScans) + 1 <= MaxActive
        /\ \A x \in Pdev : pending[x] # <<>> /\ x \notin missed =>
                             Cardinality(ActiveScans) + 1 >= MaxActive
    BY <1>1, <1>7 DEF Limit, AtPc
  <2>4. \A x \in Pdev : pending'[x] # <<>> /\ x \notin missed' =>
                          Cardinality(ActiveScans) + 1 >= MaxActive
    BY <1>2, <2>2, <2>3 DEF Passed
  <2> QED
    BY <1>7, <2>1, <2>2, <2>3, <2>4 DEF Limit, AtPc
<1>15. RefsExact'
  <2>1. ASSUME NEW v \in Vdev
        PROVE  refs'[v] = Held(req', v) + Timers(timer', v) + Cancels(osif', v)
                            + Reports(events', v) + OfHandler(v)'
    <3>1. OfHandler(v)' = OfHandler(v)
      BY <1>7 DEF OfHandler, HandlerHolds, AtPc
    <3> QED
      BY <3>1, <1>2, Balance
  <2> QED
    BY <2>1, Balanced
<1> QED
  BY <1>8, <1>9, <1>10, <1>11, <1>12, <1>13, <1>14, <1>15 DEF Core

\* No pending command of the pdev is there to take the place.
LEMMA MoveNothingStep ==
  ASSUME IndInv, MoveNothing
  PROVE  Core'
<1> DEFINE p == PdevOfScan(sched.scan)
<1>1. /\ TypeRest /\ Places /\ Timed /\ Handling /\ Told /\ Firmware /\ Limit
  BY Parts
<1>2. /\ AtPc("move") /\ (pending[p] = <<>> \/ ~ActiveAllowed(p))
      /\ sched' = [sched EXCEPT !.pc = "finish"]
      /\ missed' = Passed(p, pending, Cardinality(ActiveScans))
      /\ UNCHANGED <<active, pending, timer, armed, req, done, refs, live, fw, told, osif, events,
                     sys>>
  BY DEF MoveNothing, Goto, queueVars, timerVars, msgVars
<1> HIDE DEF p
<1>3. /\ sched.pc = "move" /\ sched'.pc = "finish"
      /\ sched'.scan = sched.scan /\ sched'.after = sched.after
      /\ sched' \in [pc: {"idle", "activate", "dequeue", "move", "finish"},
                     scan: Scan \cup {NoScan},
                     why: {"REQUEST", "REMOVE", "ACTIVATION_FAILED", "TIMEOUT"}, after: After]
  BY <1>1, <1>2 DEF TypeRest, AtPc
<1>4. Asked' = Asked /\ Waiting' = Waiting /\ ActiveScans' = ActiveScans
  BY <1>2 DEF Asked, Waiting, ActiveScans
<1>5. TypeRest'
  <2>1. missed' \subseteq Pdev
    BY <1>2 DEF Passed
  <2> QED
    BY <1>1, <1>2, <1>3, <2>1 DEF TypeRest
<1>6. Places' /\ Timed'
  BY <1>1, <1>2, <1>3, <1>4 DEF Places, Timed, SlotOf, InHand, AtPc
<1>7. Handling' /\ Told'
  BY <1>1, <1>2, <1>3, <1>4 DEF Handling, Told, AtPc, Idle
<1>8. Firmware'
  BY <1>1, <1>2, <1>3, <1>4 DEF Firmware, NotBegun, FirmwareTold, AtPc
<1>9. Limit'
  <2>1. Cardinality(ActiveScans) \in Nat /\ MaxActive \in Nat
    BY ListsFinite, ScanConstants DEF ActiveScans
  <2>2. Cardinality(ActiveScans) + 1 <= MaxActive
    BY <1>1, <1>3 DEF Limit, AtPc
  <2>3. \A x \in Pdev : pending[x] # <<>> /\ x \notin missed' =>
                          Cardinality(ActiveScans) >= MaxActive
    BY <1>2, <2>1 DEF Passed, ActiveAllowed
  <2> QED
    BY <1>2, <1>3, <1>4, <2>1, <2>2, <2>3 DEF Limit, AtPc
<1>10. RefsExact'
  <2>1. ASSUME NEW v \in Vdev
        PROVE  refs'[v] = Held(req', v) + Timers(timer', v) + Cancels(osif', v)
                            + Reports(events', v) + OfHandler(v)'
    <3>1. OfHandler(v)' = OfHandler(v)
      BY <1>3 DEF OfHandler, HandlerHolds, AtPc
    <3> QED
      BY <3>1, <1>2, Balance
  <2> QED
    BY <2>1, Balanced
<1> QED
  BY <1>5, <1>6, <1>7, <1>8, <1>9, <1>10 DEF Core

\* The end of the handler posts the event and gives back the reference it holds.
LEMMA FinishStep ==
  ASSUME IndInv, Finish
  PROVE  Core'
<1> DEFINE a == sched.after
<1>1. /\ TypeRest /\ Places /\ Timed /\ Handling /\ Told /\ Firmware /\ Limit
      /\ refs \in [Vdev -> Nat]
  BY Parts
<1>2. /\ AtPc("finish")
      /\ done' = (IF a.kind = "event" THEN Completed({a.scan}) ELSE done)
      /\ refs' = (IF a.kind = "none" THEN refs ELSE RefsLess({a.scan}))
      /\ sched' = Idle
      /\ UNCHANGED <<active, pending, timer, armed, req, live, fw, told, osif, events, sys, missed>>
  BY DEF Finish, queueVars, timerVars, msgVars
<1>3. /\ sched.pc = "finish" /\ sched'.pc = "idle" /\ sched'.after = NoAfter
      /\ NoAfter.kind = "none" /\ NoAfter \in After
      /\ sched' \in [pc: {"idle", "activate", "dequeue", "move", "finish"},
                     scan: Scan \cup {NoScan},
                     why: {"REQUEST", "REMOVE", "ACTIVATION_FAILED", "TIMEOUT"}, after: After]
  BY <1>2 DEF AtPc, Idle, NoAfter, After
<1>4. Asked' = Asked /\ Waiting' = Waiting /\ ActiveScans' = ActiveScans
  BY <1>2 DEF Asked, Waiting, ActiveScans
<1>5. /\ a.kind \in {"none", "event", "timeout"}
      /\ a.kind # "none" => a.scan \in Scan
  BY <1>1 DEF TypeRest, After, Handling
<1>6. a.kind = "event" => req[a.scan] = "freed" /\ done[a.scan] = 0
  BY <1>1, <1>3 DEF Handling, AtPc
<1>7. /\ done' \in [Scan -> Nat]
      /\ a.kind = "event" => done'[a.scan] = 1
      /\ \A x \in Scan : a.kind # "event" \/ x # a.scan => done'[x] = done[x]
  BY <1>1, <1>2, <1>5, <1>6 DEF TypeRest, Completed
<1>8. TypeRest'
  <2>1. DOMAIN refs' = Vdev /\ refs' = [v \in Vdev |-> refs'[v]]
    BY <1>1, <1>2 DEF RefsLess
  <2> QED
    BY <1>1, <1>2, <1>3, <1>7, <2>1 DEF TypeRest
<1>9. Places' /\ Timed'
  BY <1>1, <1>2, <1>3, <1>4 DEF Places, Timed, SlotOf, InHand, AtPc
<1>10. Limit'
  BY <1>1, <1>2, <1>3, <1>4 DEF Limit, AtPc
<1>11. Handling'
  BY <1>2, <1>3 DEF Handling, AtPc
<1>12. Told'
  <2>1. \A x \in Scan :
          /\ req[x] = "freed" => done[x] \in {0, 1}
          /\ req[x] # "freed" => done[x] = 0
          /\ req[x] = "freed" /\ VdevOf[x] \in live =>
               done[x] = 1 \/ (a.kind = "event" /\ a.scan = x)
    <3> TAKE x \in Scan
    <3>1. /\ req[x] = "freed" => done[x] \in {0, 1}
          /\ req[x] # "freed" => done[x] = 0
          /\ req[x] = "freed" /\ VdevOf[x] \in live =>
               done[x] = 1 \/ a = [kind |-> "event", scan |-> x]
      BY <1>1, <1>3 DEF Told, AtPc
    <3> HIDE DEF a
    <3> QED
      BY <3>1
  <2>2. \A x \in Scan :
          /\ req[x] = "freed" => done'[x] \in {0, 1}
          /\ req[x] # "freed" => done'[x] = 0
          /\ req[x] = "freed" /\ VdevOf[x] \in live => done'[x] = 1
    BY <2>1, <1>5, <1>6, <1>7
  <2> QED
    BY <1>2, <1>3, <2>2 DEF Told, AtPc
<1>13. Firmware'
  BY <1>1, <1>2, <1>3, <1>4 DEF Firmware, NotBegun, FirmwareTold, AtPc
<1>14. RefsExact'
  <2>1. ASSUME NEW v \in Vdev
        PROVE  refs'[v] = Held(req', v) + Timers(timer', v) + Cancels(osif', v)
                            + Reports(events', v) + OfHandler(v)'
    <3>1. OfHandler(v)' = 0
      BY <1>3 DEF OfHandler, HandlerHolds
    <3>2. CASE a.kind = "none"
      <4>1. OfHandler(v) = 0
        BY <3>2 DEF OfHandler, HandlerHolds
      <4> QED
        BY <3>1, <3>2, <4>1, <1>2, Balance
    <3>3. CASE a.kind # "none"
      <4>1. HandlerHolds /\ a.scan \in Scan
        BY <3>3, <1>3, <1>5 DEF HandlerHolds, AtPc
      <4>2. a.scan \in OfVdev(v) <=> VdevOf[a.scan] = v
        BY <4>1, OneScan
      <4>3. OfHandler(v) = For(VdevOf[a.scan], v)
        BY <4>1, <4>2 DEF OfHandler, For
      <4>4. Cardinality({a.scan} \cap OfVdev(v)) = For(VdevOf[a.scan], v)
        BY <4>1, OneScan
      <4>5. refs'[v] = refs[v] - Cardinality({a.scan} \cap OfVdev(v))
        BY <3>3, <1>2 DEF RefsLess
      <4> QED
        BY <3>1, <4>3, <4>4, <4>5, <1>2, Balance
    <3> QED
      BY <3>2, <3>3
  <2> QED
    BY <2>1, Balanced
<1> QED
  BY <1>8, <1>9, <1>10, <1>11, <1>12, <1>13, <1>14 DEF Core

-----------------------------------------------------------------------------
(***************************************************************************)
(* The other messages: firmware events, expired timers, cancel requests.   *)
(***************************************************************************)
LEMMA EventHandlerStep ==
  ASSUME IndInv, EventHandler
  PROVE  Core'
<1> DEFINE e == Head(events)
           s == e.scan
<1>1. /\ TypeRest /\ Places /\ Timed /\ Handling /\ Told /\ Firmware /\ Limit
      /\ refs \in [Vdev -> Nat]
  BY Parts
<1>2. /\ AtPc("idle") /\ events # <<>> /\ events' = Tail(events)
      /\ UNCHANGED <<active, pending, timer, armed, req, done, live, fw, told, osif, sys, missed>>
  BY DEF EventHandler, queueVars, timerVars
<1>3. \/ /\ e.terminal /\ ~Dropped(s) /\ refs' = refs
         /\ sched' = [pc |-> "dequeue", scan |-> s, why |-> "REMOVE",
                      after |-> [kind |-> "event", scan |-> s]]
      \/ refs' = RefsLess({s}) /\ sched' = sched
  BY DEF EventHandler, Run
<1>4. /\ events' \in Seq(Event) /\ e \in Event /\ e \in ToSet(events)
      /\ ToSet(events') \subseteq ToSet(events) /\ s \in Scan
  <2>1. events \in Seq(Event) /\ events # <<>> /\ events' = Tail(events)
    BY <1>1, <1>2 DEF TypeRest
  <2>2. /\ events' \in Seq(Event) /\ e \in Event /\ e \in ToSet(events)
        /\ ToSet(events') \subseteq ToSet(events)
    BY <2>1, EventTake
  <2> QED
    BY <2>2, Messages
<1>5. sched = Idle /\ sched.pc = "idle" /\ sched.after.kind = "none" /\ sched.after = NoAfter
  BY <1>1, <1>2 DEF Handling, AtPc, Idle, NoAfter
<1>6. Asked' = Asked /\ Waiting' = Waiting /\ ActiveScans' = ActiveScans
  BY <1>2 DEF Asked, Waiting, ActiveScans
<1>7. Places'
  BY <1>1, <1>2, <1>6 DEF Places
<1>8. ASSUME NEW v \in Vdev
      PROVE  Reports(events', v) = Reports(events, v) - For(VdevOf[s], v)
  <2>1. events \in Seq(Event) /\ events # <<>> /\ events' = Tail(events)
    BY <1>1, <1>2 DEF TypeRest
  <2> QED
    BY <2>1, ReportsTake
<1> HIDE DEF e
<1>9. CASE /\ e.terminal /\ ~Dropped(s) /\ refs' = refs
           /\ sched' = [pc |-> "dequeue", scan |-> s, why |-> "REMOVE",
                        after |-> [kind |-> "event", scan |-> s]]
  <2>1. /\ s \in ActiveScans /\ req[s] = "held" /\ done[s] = 0 /\ s \notin fw
    BY <1>9, <1>1, <1>4, <1>5 DEF Dropped, Places, Told, Firmware, AtPc
  <2> HIDE DEF s
  <2>2. /\ sched'.pc = "dequeue" /\ sched'.scan = s /\ sched'.why = "REMOVE"
        /\ sched'.after = [kind |-> "event", scan |-> s]
        /\ sched'.after.kind = "event" /\ sched'.after.scan = s
        /\ [kind |-> "event", scan |-> s] \in After
    BY <1>9, <1>4 DEF After
  <2>3. TypeRest'
    BY <1>1, <1>2, <1>4, <1>9, <2>2 DEF TypeRest
  <2>4. Timed'
    <3>1. \A x \in ActiveScans : SlotOf(x) # {}
      BY <1>1, <1>5 DEF Timed, InHand, AtPc
    <3> QED
      BY <1>1, <1>2, <1>6, <2>2, <3>1 DEF Timed, SlotOf, InHand, AtPc
  <2>5. Limit'
    BY <1>1, <1>2, <1>5, <1>6, <2>2 DEF Limit, AtPc
  <2>6. Handling'
    BY <1>4, <1>6, <2>1, <2>2 DEF Handling, AtPc, Idle
  <2>7. Told'
    <3>1. \A x \in Scan :
            /\ req[x] = "freed" => done[x] \in {0, 1}
            /\ req[x] # "freed" => done[x] = 0
            /\ req[x] = "freed" /\ VdevOf[x] \in live => done[x] = 1
      <4> TAKE x \in Scan
      <4>1. sched.after # [kind |-> "event", scan |-> x]
        BY <1>5
      <4> QED
        BY <1>1, <1>5, <4>1 DEF Told, AtPc
    <3> QED
      BY <1>2, <2>1, <2>2, <3>1 DEF Told, AtPc
  <2>8. Firmware'
    <3>1. ASSUME NEW x \in Scan, NotBegun(x)' PROVE NotBegun(x)
      BY <3>1, <1>2, <1>6, <2>2 DEF NotBegun, AtPc
    <3> QED
      BY <1>1, <1>2, <1>4, <1>6, <2>1, <2>2, <3>1 DEF Firmware, FirmwareTold, AtPc
  <2>9. RefsExact'
    <3>1. ASSUME NEW v \in Vdev
          PROVE  refs'[v] = Held(req', v) + Timers(timer', v) + Cancels(osif', v)
                              + Reports(events', v) + OfHandler(v)'
      <4>1. s \in OfVdev(v) <=> VdevOf[s] = v
        BY <1>4, OneScan
      <4>2. OfHandler(v)' = For(VdevOf[s], v)
        BY <2>2, <4>1 DEF OfHandler, HandlerHolds, For
      <4>3. OfHandler(v) = 0
        BY <1>5 DEF OfHandler, HandlerHolds
      <4>4. For(VdevOf[s], v) \in Nat
        BY DEF For
      <4> QED
        BY <4>2, <4>3, <4>4, <1>2, <1>8, <1>9, Balance
    <3> QED
      BY <3>1, Balanced
  <2> QED
    BY <1>7, <2>3, <2>4, <2>5, <2>6, <2>7, <2>8, <2>9 DEF Core
<1>10. CASE refs' = RefsLess({s}) /\ sched' = sched
  <2> HIDE DEF s
  <2>3. TypeRest'
    <3>1. DOMAIN refs' = Vdev /\ refs' = [v \in Vdev |-> refs'[v]]
      BY <1>10 DEF RefsLess
    <3> QED
      BY <1>1, <1>2, <1>4, <1>10, <3>1 DEF TypeRest
  <2>4. Timed' /\ Limit'
    BY <1>1, <1>2, <1>6, <1>10 DEF Timed, Limit, SlotOf, InHand, AtPc
  <2>6. Handling' /\ Told'
    BY <1>1, <1>2, <1>6, <1>10 DEF Handling, Told, AtPc
  <2>8. Firmware'
    BY <1>1, <1>2, <1>4, <1>6, <1>10 DEF Firmware, NotBegun, FirmwareTold, AtPc
  <2>9. RefsExact'
    <3>1. ASSUME NEW v \in Vdev
          PROVE  refs'[v] = Held(req', v) + Timers(timer', v) + Cancels(osif', v)
                              + Reports(events', v) + OfHandler(v)'
      <4>1. Cardinality({s} \cap OfVdev(v)) = For(VdevOf[s], v)
        BY <1>4, OneScan
      <4>2. refs'[v] = refs[v] - Cardinality({s} \cap OfVdev(v))
        BY <1>10 DEF RefsLess
      <4>3. OfHandler(v)' = OfHandler(v)
        BY <1>10 DEF OfHandler, HandlerHolds, AtPc
      <4>4. For(VdevOf[s], v) \in Nat
        BY DEF For
      <4> QED
        BY <4>1, <4>2, <4>3, <4>4, <1>2, <1>8, Balance
    <3> QED
      BY <3>1, Balanced
  <2> QED
    BY <1>7, <2>3, <2>4, <2>6, <2>8, <2>9 DEF Core
<1> QED
  BY <1>3, <1>9, <1>10

\* A timer's callback: it finds its command active, or the timer is not its own
\* any more.
LEMMA GenericTimerCbStep ==
  ASSUME IndInv, GenericTimerCb
  PROVE  Core'
<1> DEFINE s == timer[Head(sys)]
<1>1. /\ TypeRest /\ Places /\ Timed /\ Handling /\ Told /\ Firmware /\ Limit /\ RefsExact
  BY Parts
<1>2. /\ AtPc("idle") /\ sys # <<>> /\ sys' = Tail(sys)
      /\ UNCHANGED <<active, pending, timer, armed, req, refs, live, fw, osif, events, missed>>
  BY DEF GenericTimerCb, queueVars, timerVars
<1>3. \/ s = NoScan /\ UNCHANGED <<told, done, sched>>
      \/ /\ s # NoScan /\ told' = told \cup ({s} \cap fw) /\ done' = Completed({s})
         /\ sched' = [pc |-> "dequeue", scan |-> s, why |-> "TIMEOUT",
                      after |-> [kind |-> "timeout", scan |-> s]]
  BY DEF GenericTimerCb, Run
<1>4. sys' \in Seq(Slot) /\ Head(sys) \in Slot
  BY <1>1, <1>2 DEF TypeRest
<1>5. sched = Idle /\ sched.pc = "idle" /\ sched.after.kind = "none" /\ sched.after = NoAfter
  BY <1>1, <1>2 DEF Handling, AtPc, Idle, NoAfter
<1>6. Asked' = Asked /\ Waiting' = Waiting /\ ActiveScans' = ActiveScans
  BY <1>2 DEF Asked, Waiting, ActiveScans
<1>7. Places'
  BY <1>1, <1>2, <1>6 DEF Places
<1>8. CASE s = NoScan /\ UNCHANGED <<told, done, sched>>
  <2>1. TypeRest'
    BY <1>1, <1>2, <1>4, <1>8 DEF TypeRest
  <2>2. Timed' /\ Limit' /\ Handling' /\ Told'
    BY <1>1, <1>2, <1>6, <1>8 DEF Timed, Limit, Handling, Told, SlotOf, InHand, AtPc
  <2>3. Firmware'
    BY <1>1, <1>2, <1>6, <1>8 DEF Firmware, NotBegun, FirmwareTold, AtPc
  <2>4. RefsExact'
    BY <1>1, <1>2, <1>8 DEF RefsExact, OfRequests, OfTimers, OfCancels, OfEvents, OfHandler,
                            HandlerHolds, AtPc
  <2> QED
    BY <1>7, <2>1, <2>2, <2>3, <2>4 DEF Core
<1>9. CASE /\ s # NoScan /\ told' = told \cup ({s} \cap fw) /\ done' = Completed({s})
           /\ sched' = [pc |-> "dequeue", scan |-> s, why |-> "TIMEOUT",
                        after |-> [kind |-> "timeout", scan |-> s]]
  <2>1. s \in ActiveScans /\ s \in Scan /\ SlotOf(s) # {}
    BY <1>9, <1>1, <1>4, ListsFinite DEF Timed, SlotOf, ActiveScans
  <2>2. req[s] = "held" /\ done[s] = 0
    BY <2>1, <1>1, <1>5 DEF Places, Told, AtPc
  <2> HIDE DEF s
  <2>3. /\ sched'.pc = "dequeue" /\ sched'.scan = s /\ sched'.why = "TIMEOUT"
        /\ sched'.after = [kind |-> "timeout", scan |-> s]
        /\ sched'.after.kind = "timeout" /\ sched'.after.scan = s
        /\ [kind |-> "timeout", scan |-> s] \in After
    BY <1>9, <2>1 DEF After
  <2>4. /\ done' \in [Scan -> Nat] /\ done'[s] = 1
        /\ \A x \in Scan \ {s} : done'[x] = done[x]
    BY <1>1, <1>9, <2>1, <2>2 DEF TypeRest, Completed
  <2>5. TypeRest'
    BY <1>1, <1>2, <1>4, <1>9, <2>1, <2>3, <2>4 DEF TypeRest
  <2>6. Timed'
    <3>1. \A x \in ActiveScans : SlotOf(x) # {}
      BY <1>1, <1>5 DEF Timed, InHand, AtPc
    <3> QED
      BY <1>1, <1>2, <1>6, <2>1, <2>3, <3>1 DEF Timed, SlotOf, InHand, AtPc
  <2>7. Limit'
    BY <1>1, <1>2, <1>5, <1>6, <2>3 DEF Limit, AtPc
  <2>8. Handling'
    BY <1>6, <2>1, <2>3 DEF Handling, AtPc, Idle
  <2>9. Told'
    <3>1. \A x \in Scan :
            /\ req[x] = "freed" => done[x] \in {0, 1}
            /\ req[x] # "freed" => done[x] = 0
            /\ req[x] = "freed" /\ VdevOf[x] \in live => done[x] = 1
      <4> TAKE x \in Scan
      <4>1. sched.after # [kind |-> "event", scan |-> x]
        BY <1>5
      <4> QED
        BY <1>1, <1>5, <4>1 DEF Told, AtPc
    <3> QED
      BY <1>2, <2>2, <2>3, <2>4, <3>1 DEF Told, AtPc
  <2>10. Firmware'
    <3>1. ASSUME NEW x \in Scan, NotBegun(x)' PROVE NotBegun(x)
      BY <3>1, <1>2, <1>6, <2>3 DEF NotBegun, AtPc
    <3> QED
      BY <1>1, <1>2, <1>6, <1>9, <2>3, <3>1 DEF Firmware, FirmwareTold, AtPc
  <2>11. RefsExact'
    <3>1. ASSUME NEW v \in Vdev
          PROVE  refs'[v] = Held(req', v) + Timers(timer', v) + Cancels(osif', v)
                              + Reports(events', v) + OfHandler(v)'
      <4>1. OfHandler(v)' = 0 /\ OfHandler(v) = 0
        BY <1>5, <2>3 DEF OfHandler, HandlerHolds, AtPc
      <4> QED
        BY <4>1, <1>2, Balance
    <3> QED
      BY <3>1, Balanced
  <2> QED
    BY <1>7, <2>5, <2>6, <2>7, <2>8, <2>9, <2>10, <2>11 DEF Core
<1> QED
  BY <1>3, <1>8, <1>9

\* A cancel request takes all it matches out of the lists at once, with their
\* timers, references and completions.
LEMMA CancelReqStep ==
  ASSUME IndInv, CancelReq
  PROVE  Core'
<1> DEFINE c == Head(osif)
           p == PdevOf[c.vdev]
           on == Matching(c) \cap ToSet(active[p])
           off == Matching(c) \cap ToSet(pending[p])
           out == on \cup off
           stop == IF c.op = "wait" THEN {c.scan} \cap ActiveScans ELSE on
<1>1. /\ TypeRest /\ Places /\ Timed /\ Handling /\ Told /\ Firmware /\ Limit
      /\ refs \in [Vdev -> Nat] /\ OsifOK(osif) /\ TimersOK(timer)
  BY Parts
<1>2. /\ AtPc("idle") /\ osif # <<>> /\ c.op # "start" /\ osif' = Tail(osif)
      /\ active' = [active EXCEPT ![p] = Without(@, on)]
      /\ pending' = [pending EXCEPT ![p] = Without(@, off)]
      /\ timer' = [i \in Slot |-> IF timer[i] \in on THEN NoScan ELSE timer[i]]
      /\ armed' \subseteq armed
      /\ done' = Completed(out) /\ req' = Freed(out)
      /\ told' = told \cup (fw \cap stop)
      /\ refs' = [v \in Vdev |-> RefsLess(on)[v] - Cardinality(out \cap OfVdev(v))
                                   - (IF v = c.vdev THEN 1 ELSE 0)]
      /\ missed' = {q \in Pdev : pending'[q] # <<>> /\ (q \in missed \/ on # {})}
      /\ UNCHANGED <<live, fw, events, sys, sched>>
  BY DEF CancelReq, TakeOut, TimersLess
<1>3. /\ OsifOK(osif') /\ ToSet(osif) = ToSet(osif') \cup {c}
      /\ c \in CancelReqs /\ c.vdev \in Vdev /\ p \in Pdev
  <2>1. OsifOK(osif) /\ osif # <<>> /\ osif' = Tail(osif)
    BY <1>1, <1>2
  <2>2. OsifOK(osif') /\ ToSet(osif) = ToSet(osif') \cup {c} /\ c \in OsifMsg
    BY <2>1, OsifTake
  <2>3. c.op # "start"
    BY <1>2
  <2>4. \A s \in Scan : Start(s).op = "start"
    BY Messages
  <2>5. c \in CancelReqs
    BY <2>2, <2>3, <2>4 DEF OsifMsg
  <2> QED
    BY <2>2, <2>5, Messages, ScanConstants
<1>16. ASSUME NEW v \in Vdev
       PROVE  Cancels(osif', v) = Cancels(osif, v) - For(c.vdev, v)
  <2>1. OsifOK(osif) /\ osif # <<>> /\ osif' = Tail(osif) /\ Head(osif) \in CancelReqs
    BY <1>1, <1>2, <1>3
  <2> QED
    BY <2>1, CancelsTake
<1>4. on \subseteq stop \/ on = {}
  BY DEF Matching
<1>5. on \in SUBSET ToSet(active[p]) /\ off \in SUBSET ToSet(pending[p])
  OBVIOUS
<1> HIDE DEF c, p, on, off, stop
<1>6. ListsOK(active') /\ on \subseteq ActiveScans /\ ActiveScans' = ActiveScans \ on
  <2>1. CutFrom(active, active', p, on)
    BY <1>1, <1>2, <1>3, <1>5 DEF TypeRest, CutFrom
  <2>2. ListsOK(active') /\ on \subseteq InLists(active) /\ InLists(active') = InLists(active) \ on
    BY <2>1, ListsWithout
  <2> QED
    BY <2>2 DEF ActiveScans
<1>7. /\ ListsOK(pending') /\ off \subseteq Waiting /\ Waiting' = Waiting \ off
      /\ Updated(pending, pending', p) /\ ToSet(pending'[p]) \subseteq ToSet(pending[p])
  <2>1. CutFrom(pending, pending', p, off)
    BY <1>1, <1>2, <1>3, <1>5 DEF TypeRest, CutFrom
  <2>2. /\ ListsOK(pending') /\ off \subseteq InLists(pending)
        /\ InLists(pending') = InLists(pending) \ off
        /\ Updated(pending, pending', p) /\ ToSet(pending'[p]) \subseteq ToSet(pending[p])
    BY <2>1, ListsWithout
  <2> QED
    BY <2>2 DEF Waiting
<1>8. Asked' = Asked
  BY <1>2, <1>3, Messages DEF Asked
<1>9. /\ sched = Idle /\ sched.pc = "idle" /\ sched.after.kind = "none" /\ sched' = sched
      /\ Idle.pc = "idle" /\ Idle.after.kind = "none"
  BY <1>1, <1>2 DEF Handling, AtPc, Idle, NoAfter
<1>10. on \subseteq Scan /\ off \subseteq Scan /\ out \subseteq Scan
  BY <1>6, <1>7, ListsFinite DEF ActiveScans, Waiting
<1>11. \A s \in out : req[s] = "held" /\ done[s] = 0 /\ s \notin Asked
  BY <1>1, <1>6, <1>7, <1>9, <1>10 DEF Places, Told, AtPc
<1> HIDE DEF out
<1>12. /\ done' \in [Scan -> Nat] /\ req' \in [Scan -> {"new", "held", "freed"}]
       /\ \A x \in out : done'[x] = 1 /\ req'[x] = "freed"
       /\ \A x \in Scan \ out : done'[x] = done[x] /\ req'[x] = req[x]
  BY <1>1, <1>2, <1>10, <1>11 DEF TypeRest, Completed, Freed
<1>13. told' \subseteq Scan /\ told \subseteq told' /\ fw \cap on \subseteq told'
  BY <1>1, <1>2, <1>4 DEF TypeRest
<1>14. TypeRest'
  <2>1. timer' \in [Slot -> Scan \cup {NoScan}]
    BY <1>1, <1>2 DEF TypeRest
  <2>2. DOMAIN refs' = Vdev /\ refs' = [v \in Vdev |-> refs'[v]]
    BY <1>2
  <2>3. missed' \subseteq Pdev
    BY <1>2
  <2> QED
    BY <1>1, <1>2, <1>3, <1>6, <1>7, <1>12, <1>13, <2>1, <2>2, <2>3 DEF TypeRest, OsifOK
<1>15. Places'
  <2>1. on \subseteq out /\ off \subseteq out
    BY DEF out
  <2>2. ActiveScans' \cap out = {} /\ Waiting' \cap out = {}
    BY <1>1, <1>6, <1>7 DEF Places, out
  <2>3. ActiveScans' \cup Waiting' \cup Asked' \subseteq Scan
    BY ListsFinite DEF ActiveScans, Waiting, Asked
  <2> QED
    BY <1>1, <1>3, <1>6, <1>7, <1>8, <1>11, <1>12, <2>2, <2>3 DEF Places, OsifOK
<1>17. Timed'
  <2>1. \A i \in Slot : timer'[i] = IF timer[i] \in on THEN NoScan ELSE timer[i]
    BY <1>2
  <2>2. \A i \in Slot : timer'[i] \in ActiveScans' \cup {NoScan}
    BY <1>1, <1>6, <2>1 DEF Timed
  <2>3. \A i, j \in Slot : timer'[i] = timer'[j] /\ timer'[i] # NoScan => i = j
    BY <1>1, <2>1 DEF Timed
  <2>4. \A x \in ActiveScans : \E i \in Slot : timer[i] = x
    BY <1>1, <1>9 DEF Timed, SlotOf, InHand, AtPc
  <2>5. \A x \in ActiveScans \ on : \E i \in Slot : timer'[i] = x
    BY <2>1, <2>4
  <2> QED
    BY <1>6, <1>9, <2>2, <2>3, <2>5 DEF Timed, SlotOf, AtPc
<1>18. Handling'
  BY <1>9 DEF Handling, AtPc
<1>19. Told'
  <2>1. \A x \in Scan :
          /\ req[x] = "freed" => done[x] \in {0, 1}
          /\ req[x] # "freed" => done[x] = 0
          /\ req[x] = "freed" /\ VdevOf[x] \in live => done[x] = 1
    <3> TAKE x \in Scan
    <3>1. sched.after # [kind |-> "event", scan |-> x]
      BY <1>9
    <3> QED
      BY <1>1, <1>9, <3>1 DEF Told, AtPc
  <2> QED
    BY <1>2, <1>9, <1>10, <1>12, <2>1 DEF Told, AtPc
<1>20. Firmware'
  <2>1. ASSUME NEW x \in Scan, NotBegun(x)' PROVE NotBegun(x)
    BY <2>1, <1>7, <1>8, <1>9, <1>12 DEF NotBegun, AtPc
  <2>2. FirmwareTold'
    BY <1>1, <1>2, <1>6, <1>13 DEF Firmware, FirmwareTold
  <2> QED
    BY <1>1, <1>2, <1>9, <2>1, <2>2 DEF Firmware, AtPc
<1>21. Limit'
  <2>1. Cardinality(ActiveScans) \in Nat /\ MaxActive \in Nat
    BY ListsFinite, ScanConstants DEF ActiveScans
  <2>2. Cardinality(ActiveScans') \in Nat /\ Cardinality(ActiveScans') <= Cardinality(ActiveScans)
    <3>1. IsFiniteSet(ActiveScans) /\ Cardinality(ActiveScans') \in Nat
      BY ListsFinite DEF ActiveScans
    <3>2. ActiveScans' \in SUBSET ActiveScans
      BY <1>6
    <3> QED
      BY <3>1, <3>2, FS_Subset
  <2>3. /\ Cardinality(ActiveScans) <= MaxActive
        /\ \A x \in Pdev : pending[x] # <<>> /\ x \notin missed =>
                             Cardinality(ActiveScans) >= MaxActive
    BY <1>1, <1>9, <2>1 DEF Limit, AtPc
  <2>4. ASSUME NEW x \in Pdev, pending'[x] # <<>>, x \notin missed'
        PROVE  Cardinality(ActiveScans') >= MaxActive
    <3>1. x \notin missed /\ on = {}
      BY <2>4, <1>2
    <3>2. ActiveScans' = ActiveScans
      BY <3>1, <1>6
    <3>3. pending[x] # <<>>
      <4>1. CASE x = p
        <5>1. ListsOK(pending) /\ ListsOK(pending')
          BY <1>1, <1>7 DEF TypeRest
        <5>2. ToSet(pending'[p]) # {}
          BY <2>4, <4>1, <5>1, ListsEmpty
        <5>3. ToSet(pending[p]) # {}
          BY <5>2, <1>7
        <5> QED
          BY <4>1, <5>1, <5>3, <1>3, ListsEmpty
      <4>2. CASE x # p
        BY <2>4, <4>2, <1>7 DEF Updated
      <4> QED
        BY <4>1, <4>2
    <3> QED
      BY <2>3, <3>1, <3>2, <3>3
  <2> QED
    BY <1>9, <2>1, <2>2, <2>3, <2>4 DEF Limit, AtPc
<1>22. RefsExact'
  <2>1. ASSUME NEW v \in Vdev
        PROVE  refs'[v] = Held(req', v) + Timers(timer', v) + Cancels(osif', v)
                            + Reports(events', v) + OfHandler(v)'
    <3>1. refs'[v] = refs[v] - Cardinality(on \cap OfVdev(v)) - Cardinality(out \cap OfVdev(v))
                             - For(c.vdev, v)
      BY <1>2 DEF RefsLess, For
    <3>2. out \in SUBSET Scan /\ AllHeld(req, out)
      BY <1>10, <1>11 DEF AllHeld
    <3>3. req' = [x \in Scan |-> IF x \in out THEN "freed" ELSE req[x]]
      BY <1>2 DEF Freed
    <3>4. Held(req', v) = Held(req, v) - Cardinality(out \cap OfVdev(v))
      BY <3>2, <3>3, HeldFreed
    <3>5. on \in SUBSET Scan /\ TimersOK(timer)
      BY <1>1, <1>10
    <3>6. AllTimed(timer, on)
      BY <1>1, <1>6, <1>9 DEF Timed, SlotOf, InHand, AtPc, AllTimed
    <3>7. timer' = [i \in Slot |-> IF timer[i] \in on THEN NoScan ELSE timer[i]]
      BY <1>2
    <3>8. Timers(timer', v) = Timers(timer, v) - Cardinality(on \cap OfVdev(v))
      BY <3>5, <3>6, <3>7, TimersRemoved
    <3>9. OfHandler(v)' = OfHandler(v)
      BY <1>9 DEF OfHandler, HandlerHolds, AtPc
    <3>10. /\ For(c.vdev, v) \in Nat /\ Cardinality(on \cap OfVdev(v)) \in Nat
           /\ Cardinality(out \cap OfVdev(v)) \in Nat
      BY <3>2, <3>5, SomeScans DEF For
    <3> QED
      BY SMTT(30), <3>1, <3>4, <3>8, <3>9, <3>10, <1>2, <1>16, Balance
  <2> QED
    BY <2>1, Balanced
<1> QED
  BY <1>14, <1>15, <1>17, <1>18, <1>19, <1>20, <1>21, <1>22 DEF Core

-----------------------------------------------------------------------------
(***************************************************************************)
(* The theorems.                                                           *)
(***************************************************************************)
LEMMA InitHolds == Init => IndInv
<1> SUFFICES ASSUME Init PROVE IndInv
  OBVIOUS
<1>1. /\ active = [p \in Pdev |-> <<>>] /\ pending = [p \in Pdev |-> <<>>]
      /\ timer = [i \in Slot |-> NoScan] /\ armed = {}
      /\ req = [s \in Scan |-> "new"] /\ done = [s \in Scan |-> 0]
      /\ refs = [v \in Vdev |-> 0] /\ live = Vdev /\ fw = {} /\ told = {}
      /\ osif = <<>> /\ events = <<>> /\ sys = <<>> /\ sched = Idle /\ missed = {}
  BY DEF Init
<1>2. ToSet(<<>>) = {} /\ IsInjective(<<>>) /\ DOMAIN <<>> = {}
  <2>1. DOMAIN <<>> = {}
    OBVIOUS
  <2> QED
    BY <2>1 DEF ToSet, IsInjective
<1>3. ListsOK(active) /\ ListsOK(pending)
  BY <1>1, <1>2 DEF ListsOK
<1>4. ActiveScans = {} /\ Waiting = {} /\ Asked = {}
  BY <1>1, <1>2 DEF ActiveScans, Waiting, Asked, InLists
<1>5. /\ Idle.pc = "idle" /\ Idle.scan = NoScan /\ Idle.after = NoAfter /\ NoAfter.kind = "none"
      /\ Idle \in [pc: {"idle", "activate", "dequeue", "move", "finish"},
                   scan: Scan \cup {NoScan},
                   why: {"REQUEST", "REMOVE", "ACTIVATION_FAILED", "TIMEOUT"}, after: After]
  BY DEF Idle, NoAfter, After
<1>6. TypeOK
  BY <1>1, <1>3, <1>5 DEF TypeOK
<1>7. Places
  BY <1>1, <1>2, <1>4 DEF Places, UniqueStarts
<1>8. Timed
  BY <1>1, <1>4, <1>5 DEF Timed, AtPc
<1>9. Handling /\ Told
  BY <1>1, <1>5 DEF Handling, Told, AtPc
<1>10. Firmware
  BY <1>1, <1>2, <1>5 DEF Firmware, FirmwareTold, AtPc
<1>11. Limit
  <2>1. Cardinality(ActiveScans) = 0 /\ MaxActive \in Nat
    BY <1>4, FS_EmptySet, ScanConstants
  <2> QED
    BY <1>1, <1>5, <2>1 DEF Limit, AtPc
<1>12. RefsExact
  <2> SUFFICES ASSUME NEW v \in Vdev
               PROVE  refs[v] = OfRequests(v) + OfTimers(v) + OfCancels(v) + OfEvents(v)
                                  + OfHandler(v)
    BY DEF RefsExact
  <2>1. {s \in OfVdev(v) : req[s] = "held"} = {}
    BY <1>1 DEF OfVdev
  <2>2. {i \in Slot : timer[i] \in OfVdev(v)} = {}
    BY <1>1, ScanConstants DEF OfVdev
  <2>3. \A T : Positions(<<>>, T) = {}
    BY <1>2 DEF Positions
  <2>4. OfRequests(v) = 0 /\ OfTimers(v) = 0
    BY <2>1, <2>2, FS_EmptySet DEF OfRequests, OfTimers
  <2>5. OfCancels(v) = 0 /\ OfEvents(v) = 0
    BY <1>1, <2>3, FS_EmptySet DEF OfCancels, OfEvents, Occurrences
  <2>6. OfHandler(v) = 0 /\ refs[v] = 0
    BY <1>1, <1>5 DEF OfHandler, HandlerHolds
  <2> QED
    BY <2>4, <2>5, <2>6
<1> QED
  BY <1>6, <1>7, <1>8, <1>9, <1>10, <1>11, <1>12 DEF IndInv

\* Every step keeps the inductive invariant.
LEMMA NextPreserves == IndInv /\ [Next]_vars => IndInv'
<1> SUFFICES ASSUME IndInv, [Next]_vars PROVE IndInv'
  OBVIOUS
<1>1. CASE UNCHANGED vars
  <2>1. UNCHANGED <<active, pending, timer, armed, req, done, refs, live, fw, told, osif, events,
                    sys, sched, missed>>
    BY <1>1 DEF vars, queueVars, timerVars, msgVars
  <2>2. /\ TypeRest /\ Places /\ Timed /\ Handling /\ Told /\ Firmware /\ Limit /\ RefsExact
    BY Parts
  <2>3. TypeRest' /\ Places' /\ Timed' /\ Limit'
    BY <2>1, <2>2 DEF TypeRest, Places, Timed, Limit, SlotOf, InHand, AtPc, Asked, Waiting,
                      ActiveScans
  <2>4. Handling' /\ Told' /\ Firmware'
    BY <2>1, <2>2 DEF Handling, Told, Firmware, NotBegun, FirmwareTold, AtPc, Asked, Waiting,
                      ActiveScans
  <2>5. RefsExact'
    BY <2>1, <2>2 DEF RefsExact, OfRequests, OfTimers, OfCancels, OfEvents, OfHandler,
                      HandlerHolds, AtPc
  <2> QED
    BY <2>3, <2>4, <2>5, CoreSuffices DEF Core
<1>2. CASE Next
  <2>1. ASSUME NEW s \in Scan, ScanStart(s) PROVE IndInv'
    BY <2>1, ScanStartStep, CoreSuffices
  <2>2. ASSUME NEW s \in Scan, StartReqActive(s) PROVE IndInv'
    BY <2>2, StartReqActiveStep, CoreSuffices
  <2>3. ASSUME NEW s \in Scan, StartReqPending(s) PROVE IndInv'
    BY <2>3, StartReqPendingStep, CoreSuffices
  <2>4. ASSUME NEW s \in Scan, StartReqRefused(s) PROVE IndInv'
    BY <2>4, StartReqRefusedStep, CoreSuffices
  <2>5. ASSUME NEW s \in Scan, NEW terminal \in BOOLEAN, FwEvent(s, terminal) PROVE IndInv'
    BY <2>5, FwEventStep, CoreSuffices
  <2>6. ASSUME NEW c \in CancelReqs, ScanCancel(c) PROVE IndInv'
    BY <2>6, ScanCancelStep, CoreSuffices
  <2>7. ASSUME NEW v \in Vdev, VdevDelete(v) PROVE IndInv'
    BY <2>7, VdevDeleteStep, CoreSuffices
  <2>8. ASSUME NEW i \in Slot, TimerHandler(i) PROVE IndInv'
    BY <2>8, TimerHandlerStep, CoreSuffices
  <2>9. CASE ActivateNoTimer \/ ActivateOK \/ ActivateFails
    BY <2>9, ActivateNoTimerStep, ActivateOKStep, ActivateFailsStep, CoreSuffices
  <2>10. CASE Dequeue \/ MovePending \/ MoveNothing \/ Finish
    BY <2>10, DequeueStep, MovePendingStep, MoveNothingStep, FinishStep, CoreSuffices
  <2>11. CASE EventHandler \/ GenericTimerCb \/ CancelReq
    BY <2>11, EventHandlerStep, GenericTimerCbStep, CancelReqStep, CoreSuffices
  <2> QED
    BY <1>2, <2>1, <2>2, <2>3, <2>4, <2>5, <2>6, <2>7, <2>8, <2>9, <2>10, <2>11, Zenon DEF Next
<1> QED
  BY <1>1, <1>2

\* The inductive invariant holds: where each request is, which timers belong to
\* it, what the handler that runs has left to do, who has been told, what the
\* firmware knows, and how many places are taken.
THEOREM Inductive == Spec => []IndInv
BY InitHolds, NextPreserves, PTL DEF Spec

\* The queues of every pdev hold commands of that pdev, none of them twice, and no
\* reference counter of a vdev ever becomes negative.
THEOREM TypeCorrect == Spec => []TypeOK
<1>1. IndInv => TypeOK
  BY DEF IndInv
<1> QED
  BY <1>1, Inductive, PTL

\* The references a vdev has are those of its requests, timers, messages and of
\* the handler that runs, whatever order timeouts, cancels, firmware events and
\* the deletion of the vdev come in: none is leaked or given back twice.
THEOREM CountersExact == Spec => []RefsExact
<1>1. IndInv => RefsExact
  BY DEF IndInv
<1> QED
  BY <1>1, Inductive, PTL

\* A scan whose timer, cancel request and completion event race is completed once
\* (scm_post_internal_scan_complete_event, scm_scan_event_handler).
THEOREM CompletedOnce == Spec => []OneCompletion
<1>1. IndInv => OneCompletion
  <2> SUFFICES ASSUME IndInv, NEW s \in Scan
               PROVE  /\ done[s] <= 1
                      /\ req[s] = "freed" /\ VdevOf[s] \in live =>
                           done[s] = 1 \/ sched.after = [kind |-> "event", scan |-> s]
                      /\ done[s] = 1 => req[s] = "freed" \/ (AtPc("dequeue") /\ sched.scan = s)
    BY DEF OneCompletion
  <2>1. Told
    BY DEF IndInv
  <2>2. done[s] \in {0, 1}
    BY <2>1 DEF Told
  <2> QED
    BY <2>1, <2>2 DEF Told
<1> QED
  BY <1>1, Inductive, PTL

\* Between two messages the active scans have one timer each and nothing else has
\* one: the assertion of wlan_ser_cancel_scan_cmd holds, and a timer's callback
\* never ends a command that is not active.
THEOREM ActiveHaveTimers == Spec => []ActiveTimed
<1>1. IndInv => ActiveTimed
  <2> SUFFICES ASSUME IndInv PROVE ActiveTimed
    OBVIOUS
  <2>1. Timed /\ Handling /\ Places
    BY DEF IndInv
  <2>2. ASSUME AtPc("idle"), NEW s \in Scan
        PROVE  Cardinality(SlotOf(s)) = IF s \in ActiveScans THEN 1 ELSE 0
    <3>1. CASE s \in ActiveScans
      <4>1. SlotOf(s) # {}
        BY <2>1, <2>2, <3>1 DEF Timed, InHand, AtPc
      <4>2. PICK i \in Slot : SlotOf(s) = {i}
        BY <2>1, <4>1, ScanConstants DEF Timed, SlotOf
      <4> QED
        BY <3>1, <4>2, FS_Singleton
    <3>2. CASE s \notin ActiveScans
      <4>1. SlotOf(s) = {}
        BY <2>1, <3>2, ScanConstants DEF Timed, SlotOf
      <4> QED
        BY <3>2, <4>1, FS_EmptySet
    <3> QED
      BY <3>1, <3>2
  <2>3. AtPc("dequeue") => sched.scan \in ActiveScans
    BY <2>1 DEF Handling
  <2>4. \A p \in Pdev, s \in Scan : s \in ToSet(active[p]) \cup ToSet(pending[p]) => req[s] = "held"
    BY <2>1 DEF Places, ActiveScans, Waiting, InLists
  <2> QED
    BY <2>2, <2>3, <2>4 DEF ActiveTimed
<1> QED
  BY <1>1, Inductive, PTL

\* A scan the firmware runs is active, or the firmware was told to stop it.
THEOREM FirmwareIsTold == Spec => []FirmwareTold
<1>1. IndInv => FirmwareTold
  BY DEF IndInv, Firmware
<1> QED
  BY <1>1, Inductive, PTL

\* No more scans are active than the limit, over all pdevs, although activation,
\* failure and the move of the next command are separate steps; a request waits
\* only at the limit or in a pdev that was missed.
THEOREM LimitHolds == Spec => []WaitsForLimit
<1>1. IndInv => WaitsForLimit
  <2> SUFFICES ASSUME IndInv PROVE WaitsForLimit
    OBVIOUS
  <2>1. Limit
    BY DEF IndInv
  <2>2. Cardinality(ActiveScans) \in Nat /\ MaxActive \in Nat
    BY ListsFinite, ScanConstants DEF ActiveScans
  <2> QED
    BY <2>1, <2>2 DEF Limit, WaitsForLimit, AtPc
<1> QED
  BY <1>1, Inductive, PTL
=============================================================================
