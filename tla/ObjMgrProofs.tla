---------------------------- MODULE ObjMgrProofs ----------------------------
(***************************************************************************)
(* Proofs about ObjMgr, for any number of objects, clients and components. *)
(*                                                                         *)
(* IndInv adds to the exact counters what an object is while the call on   *)
(* it is at some place (Fits).  A step changes the number of users of one  *)
(* object by one (ChildGained and its companions) and must change its      *)
(* counter with it; then the object of the call and the object whose       *)
(* counter moved have to fit again.  There is one lemma for each action of *)
(* ObjMgr; the theorems follow them, and the refinement of ObjLife is last.*)
(***************************************************************************)
EXTENDS ObjMgr, ListLemmas

\* What the constants say of an object, its kind and its parent.
LEMMA TheObjects ==
  /\ Psoc \in Obj /\ Kind[Psoc] = "psoc" /\ NoObj \notin Obj
  /\ \A o \in Obj : Kind[o] \in Kinds /\ Parent[o] # o
  /\ \A o \in Obj : Kind[o] = "psoc" <=> o = Psoc
  /\ \A o \in Obj : Kind[o] = "pdev" => Parent[o] = Psoc
  /\ \A o \in Obj : Kind[o] = "vdev" => Parent[o] \in Obj /\ Kind[Parent[o]] = "pdev"
  /\ \A o \in Obj : Kind[o] = "peer" => Parent[o] \in Obj /\ Kind[Parent[o]] = "vdev"
  /\ \A o \in Sta \cup Bss : o \in Obj /\ Kind[o] = "peer"
  /\ Sta \cap Bss = {}
<1>1. IsFiniteSet(Of("psoc")) /\ Cardinality(Of("psoc")) = 1
  BY ConstantsAssumption, FS_Subset DEF Of
<1>2. PICK s : Of("psoc") = {s}
  BY <1>1, FS_Singleton
<1>3. s \in Obj /\ Kind[s] = "psoc" /\ \A o \in Obj : Kind[o] = "psoc" <=> o = s
  BY <1>2 DEF Of
<1>4. Psoc = s
  BY <1>3 DEF Psoc
<1>5. \A o \in Obj : Kind[o] \in Kinds
  BY ConstantsAssumption
<1>6. /\ \A o \in Obj : Kind[o] = "pdev" => Parent[o] = Psoc
      /\ \A o \in Obj : Kind[o] = "vdev" => Parent[o] \in Obj /\ Kind[Parent[o]] = "pdev"
      /\ \A o \in Obj : Kind[o] = "peer" => Parent[o] \in Obj /\ Kind[Parent[o]] = "vdev"
      /\ \A o \in Sta \cup Bss : o \in Obj /\ Kind[o] = "peer"
      /\ Sta \cap Bss = {}
  BY ConstantsAssumption DEF Of
<1>7. \A o \in Obj : Parent[o] # o
  BY ConstantsAssumption, <1>3, <1>4, <1>5, <1>6 DEF Kinds
<1>. QED BY <1>3, <1>4, <1>5, <1>6, <1>7, ConstantsAssumption

\* Objects and clients are finitely many, so every set of them has a size.
LEMMA Finite ==
  /\ \A S \in SUBSET Obj : IsFiniteSet(S) /\ Cardinality(S) \in Nat
  /\ \A S \in SUBSET Client : IsFiniteSet(S) /\ Cardinality(S) \in Nat
BY ConstantsAssumption, FS_Subset, FS_CardinalityType

\* Adding a member, and removing one, changes a size by one.
LEMMA OneMore ==
  ASSUME NEW S, IsFiniteSet(S), NEW x, x \notin S
  PROVE  Cardinality(S \cup {x}) = Cardinality(S) + 1
BY FS_AddElement

LEMMA OneLess ==
  ASSUME NEW S, IsFiniteSet(S), NEW x \in S
  PROVE  Cardinality(S \ {x}) = Cardinality(S) - 1
BY FS_RemoveElement

-----------------------------------------------------------------------------
\* Nothing that is counted changes, apart from what is said.
SameOwners == \A x \in Obj : HasOwnerRef(x)' <=> HasOwnerRef(x)
SameChildren == \A x \in Obj : IsChild(x)' <=> IsChild(x)
SameStas == \A x \in Sta : KeepsBss(x)' <=> KeepsBss(x)
SameBss == \A x \in Sta : KeepsBss(x) \/ KeepsBss(x)' => bss'[Parent[x]] = bss[Parent[x]]
SameCalls == \A x \in Of("peer") : KeepsVdev(x)' <=> KeepsVdev(x)

SameUsers == SameOwners /\ SameChildren /\ SameStas /\ SameBss /\ SameCalls /\ UNCHANGED held

\* The sets of users do not change when what they are made of does not.
LEMMA ChildrenSame == ASSUME SameChildren PROVE \A o \in Obj : ChildRefs(o)' = ChildRefs(o)
BY DEF SameChildren, ChildRefs
LEMMA StasSame == ASSUME SameStas, SameBss PROVE \A o \in Obj : BssRefs(o)' = BssRefs(o)
BY DEF SameStas, SameBss, BssRefs
LEMMA CallsSame == ASSUME SameCalls PROVE \A o \in Obj : CallRefs(o)' = CallRefs(o)
BY DEF SameCalls, CallRefs

\* A step that changes none of them leaves every number of users alone.
LEMMA UsersSame ==
  ASSUME SameUsers
  PROVE  \A o \in Obj : Users(o)' = Users(o)
BY ChildrenSame, StasSame, CallsSame DEF SameUsers, Users, SameOwners

\* Every number of users is a sum of naturals.
LEMMA UsersNat ==
  ASSUME TypeOK, NEW o \in Obj
  PROVE  /\ Users(o) \in Nat
         /\ IsFiniteSet(ChildRefs(o)) /\ Cardinality(ChildRefs(o)) \in Nat
         /\ IsFiniteSet(BssRefs(o)) /\ Cardinality(BssRefs(o)) \in Nat
         /\ IsFiniteSet(CallRefs(o)) /\ Cardinality(CallRefs(o)) \in Nat
         /\ IsFiniteSet(held[o]) /\ Cardinality(held[o]) \in Nat
<1>1. ChildRefs(o) \in SUBSET Obj
  BY DEF ChildRefs
<1>2. BssRefs(o) \in SUBSET Obj
  BY TheObjects DEF BssRefs
<1>3. CallRefs(o) \in SUBSET Obj
  BY DEF CallRefs, Of
<1>4. held[o] \in SUBSET Client
  BY DEF TypeOK
<1>. QED BY <1>1, <1>2, <1>3, <1>4, Finite DEF Users

\* A child enters the list of its parent: one user more.
LEMMA ChildGained ==
  ASSUME TypeOK, NEW o \in Obj, ~IsChild(o), IsChild(o)',
         \A x \in Obj : x # o => (IsChild(x)' <=> IsChild(x)),
         SameOwners, SameStas, SameBss, SameCalls, UNCHANGED held
  PROVE  \A x \in Obj : Users(x)' = IF x = Parent[o] THEN Users(x) + 1 ELSE Users(x)
<1>. TAKE x \in Obj
<1>1. x # Parent[o] => ChildRefs(x)' = ChildRefs(x)
  BY DEF ChildRefs
<1>2. x = Parent[o] => ChildRefs(x)' = ChildRefs(x) \cup {o} /\ o \notin ChildRefs(x)
  BY DEF ChildRefs
<1>3. x = Parent[o] => Cardinality(ChildRefs(x)') = Cardinality(ChildRefs(x)) + 1
  BY <1>2, UsersNat, OneMore
<1>4. CASE x = Parent[o]
  <2>1. BssRefs(x)' = BssRefs(x) /\ CallRefs(x)' = CallRefs(x) /\ held'[x] = held[x]
    BY StasSame, CallsSame
  <2>2. HasOwnerRef(x)' <=> HasOwnerRef(x)
    BY DEF SameOwners
  <2>3. /\ Cardinality(held[x]) \in Nat /\ Cardinality(ChildRefs(x)) \in Nat
        /\ Cardinality(BssRefs(x)) \in Nat /\ Cardinality(CallRefs(x)) \in Nat
    BY UsersNat
  <2>. QED BY <1>3, <1>4, <2>1, <2>2, <2>3 DEF Users
<1>5. CASE x # Parent[o]
  BY <1>1, <1>5, StasSame, CallsSame DEF Users, SameOwners
<1>. QED BY <1>4, <1>5

\* A child gives its parent up: one user less.
LEMMA ChildLost ==
  ASSUME TypeOK, NEW o \in Obj, IsChild(o), ~IsChild(o)',
         \A x \in Obj : x # o => (IsChild(x)' <=> IsChild(x)),
         SameOwners, SameStas, SameBss, SameCalls, UNCHANGED held
  PROVE  \A x \in Obj : Users(x)' = IF x = Parent[o] THEN Users(x) - 1 ELSE Users(x)
<1>. TAKE x \in Obj
<1>1. x # Parent[o] => ChildRefs(x)' = ChildRefs(x)
  BY DEF ChildRefs
<1>2. x = Parent[o] => ChildRefs(x)' = ChildRefs(x) \ {o} /\ o \in ChildRefs(x)
  BY DEF ChildRefs
<1>3. x = Parent[o] => Cardinality(ChildRefs(x)') = Cardinality(ChildRefs(x)) - 1
  BY <1>2, UsersNat, OneLess
<1>4. CASE x = Parent[o]
  <2>1. BssRefs(x)' = BssRefs(x) /\ CallRefs(x)' = CallRefs(x) /\ held'[x] = held[x]
    BY StasSame, CallsSame
  <2>2. HasOwnerRef(x)' <=> HasOwnerRef(x)
    BY DEF SameOwners
  <2>3. /\ Cardinality(held[x]) \in Nat /\ Cardinality(ChildRefs(x)) \in Nat
        /\ Cardinality(BssRefs(x)) \in Nat /\ Cardinality(CallRefs(x)) \in Nat
    BY UsersNat
  <2>. QED BY <1>3, <1>4, <2>1, <2>2, <2>3 DEF Users
<1>5. CASE x # Parent[o]
  BY <1>1, <1>5, StasSame, CallsSame DEF Users, SameOwners
<1>. QED BY <1>4, <1>5

\* The peer of a station takes the BSS peer.
LEMMA StaGained ==
  ASSUME TypeOK, NEW o \in Sta, ~KeepsBss(o), KeepsBss(o)',
         \A x \in Sta : x # o => (KeepsBss(x)' <=> KeepsBss(x)),
         SameOwners, SameChildren, SameBss, SameCalls, UNCHANGED held
  PROVE  \A x \in Obj : Users(x)' = IF x = bss[Parent[o]] THEN Users(x) + 1 ELSE Users(x)
<1>. TAKE x \in Obj
<1>1. x # bss[Parent[o]] => BssRefs(x)' = BssRefs(x)
  BY DEF BssRefs, SameBss
<1>2. x = bss[Parent[o]] => BssRefs(x)' = BssRefs(x) \cup {o} /\ o \notin BssRefs(x)
  BY DEF BssRefs, SameBss
<1>3. x = bss[Parent[o]] => Cardinality(BssRefs(x)') = Cardinality(BssRefs(x)) + 1
  BY <1>2, UsersNat, OneMore
<1>4. CASE x = bss[Parent[o]]
  <2>1. ChildRefs(x)' = ChildRefs(x) /\ CallRefs(x)' = CallRefs(x) /\ held'[x] = held[x]
    BY ChildrenSame, CallsSame
  <2>2. HasOwnerRef(x)' <=> HasOwnerRef(x)
    BY DEF SameOwners
  <2>3. /\ Cardinality(held[x]) \in Nat /\ Cardinality(ChildRefs(x)) \in Nat
        /\ Cardinality(BssRefs(x)) \in Nat /\ Cardinality(CallRefs(x)) \in Nat
    BY UsersNat
  <2>. QED BY <1>3, <1>4, <2>1, <2>2, <2>3 DEF Users
<1>5. CASE x # bss[Parent[o]]
  BY <1>1, <1>5, ChildrenSame, CallsSame DEF Users, SameOwners
<1>. QED BY <1>4, <1>5

\* The peer of a station gives the BSS peer up.
LEMMA StaLost ==
  ASSUME TypeOK, NEW o \in Sta, KeepsBss(o), ~KeepsBss(o)',
         \A x \in Sta : x # o => (KeepsBss(x)' <=> KeepsBss(x)),
         SameOwners, SameChildren, SameBss, SameCalls, UNCHANGED held
  PROVE  \A x \in Obj : Users(x)' = IF x = bss[Parent[o]] THEN Users(x) - 1 ELSE Users(x)
<1>. TAKE x \in Obj
<1>1. x # bss[Parent[o]] => BssRefs(x)' = BssRefs(x)
  BY DEF BssRefs, SameBss
<1>2. x = bss[Parent[o]] => BssRefs(x)' = BssRefs(x) \ {o} /\ o \in BssRefs(x)
  BY DEF BssRefs, SameBss
<1>3. x = bss[Parent[o]] => Cardinality(BssRefs(x)') = Cardinality(BssRefs(x)) - 1
  BY <1>2, UsersNat, OneLess
<1>4. CASE x = bss[Parent[o]]
  <2>1. ChildRefs(x)' = ChildRefs(x) /\ CallRefs(x)' = CallRefs(x) /\ held'[x] = held[x]
    BY ChildrenSame, CallsSame
  <2>2. HasOwnerRef(x)' <=> HasOwnerRef(x)
    BY DEF SameOwners
  <2>3. /\ Cardinality(held[x]) \in Nat /\ Cardinality(ChildRefs(x)) \in Nat
        /\ Cardinality(BssRefs(x)) \in Nat /\ Cardinality(CallRefs(x)) \in Nat
    BY UsersNat
  <2>. QED BY <1>3, <1>4, <2>1, <2>2, <2>3 DEF Users
<1>5. CASE x # bss[Parent[o]]
  BY <1>1, <1>5, ChildrenSame, CallsSame DEF Users, SameOwners
<1>. QED BY <1>4, <1>5

\* A call that frees a peer takes the vdev.
LEMMA CallGained ==
  ASSUME TypeOK, NEW o \in Of("peer"), ~KeepsVdev(o), KeepsVdev(o)',
         \A x \in Of("peer") : x # o => (KeepsVdev(x)' <=> KeepsVdev(x)),
         SameOwners, SameChildren, SameStas, SameBss, UNCHANGED held
  PROVE  \A x \in Obj : Users(x)' = IF x = Parent[o] THEN Users(x) + 1 ELSE Users(x)
<1>. TAKE x \in Obj
<1>1. x # Parent[o] => CallRefs(x)' = CallRefs(x)
  BY DEF CallRefs, Of
<1>2. x = Parent[o] => CallRefs(x)' = CallRefs(x) \cup {o} /\ o \notin CallRefs(x)
  BY DEF CallRefs, Of
<1>3. x = Parent[o] => Cardinality(CallRefs(x)') = Cardinality(CallRefs(x)) + 1
  BY <1>2, UsersNat, OneMore
<1>4. CASE x = Parent[o]
  <2>1. ChildRefs(x)' = ChildRefs(x) /\ BssRefs(x)' = BssRefs(x) /\ held'[x] = held[x]
    BY ChildrenSame, StasSame
  <2>2. HasOwnerRef(x)' <=> HasOwnerRef(x)
    BY DEF SameOwners
  <2>3. /\ Cardinality(held[x]) \in Nat /\ Cardinality(ChildRefs(x)) \in Nat
        /\ Cardinality(BssRefs(x)) \in Nat /\ Cardinality(CallRefs(x)) \in Nat
    BY UsersNat
  <2>. QED BY <1>3, <1>4, <2>1, <2>2, <2>3 DEF Users
<1>5. CASE x # Parent[o]
  BY <1>1, <1>5, ChildrenSame, StasSame DEF Users, SameOwners
<1>. QED BY <1>4, <1>5

\* A call that has freed a peer gives the vdev up.
LEMMA CallLost ==
  ASSUME TypeOK, NEW o \in Of("peer"), KeepsVdev(o), ~KeepsVdev(o)',
         \A x \in Of("peer") : x # o => (KeepsVdev(x)' <=> KeepsVdev(x)),
         SameOwners, SameChildren, SameStas, SameBss, UNCHANGED held
  PROVE  \A x \in Obj : Users(x)' = IF x = Parent[o] THEN Users(x) - 1 ELSE Users(x)
<1>. TAKE x \in Obj
<1>1. x # Parent[o] => CallRefs(x)' = CallRefs(x)
  BY DEF CallRefs, Of
<1>2. x = Parent[o] => CallRefs(x)' = CallRefs(x) \ {o} /\ o \in CallRefs(x)
  BY DEF CallRefs, Of
<1>3. x = Parent[o] => Cardinality(CallRefs(x)') = Cardinality(CallRefs(x)) - 1
  BY <1>2, UsersNat, OneLess
<1>4. CASE x = Parent[o]
  <2>1. ChildRefs(x)' = ChildRefs(x) /\ BssRefs(x)' = BssRefs(x) /\ held'[x] = held[x]
    BY ChildrenSame, StasSame
  <2>2. HasOwnerRef(x)' <=> HasOwnerRef(x)
    BY DEF SameOwners
  <2>3. /\ Cardinality(held[x]) \in Nat /\ Cardinality(ChildRefs(x)) \in Nat
        /\ Cardinality(BssRefs(x)) \in Nat /\ Cardinality(CallRefs(x)) \in Nat
    BY UsersNat
  <2>. QED BY <1>3, <1>4, <2>1, <2>2, <2>3 DEF Users
<1>5. CASE x # Parent[o]
  BY <1>1, <1>5, ChildrenSame, StasSame DEF Users, SameOwners
<1>. QED BY <1>4, <1>5

\* A client looks an object up.
LEMMA ClientGained ==
  ASSUME TypeOK, NEW o \in Obj, NEW c, c \notin held[o],
         held' = [held EXCEPT ![o] = @ \cup {c}],
         SameOwners, SameChildren, SameStas, SameBss, SameCalls
  PROVE  \A x \in Obj : Users(x)' = IF x = o THEN Users(x) + 1 ELSE Users(x)
<1>. TAKE x \in Obj
<1>1. CASE x = o
  <2>1. held'[x] = held[x] \cup {c}
    BY <1>1 DEF TypeOK
  <2>2. Cardinality(held'[x]) = Cardinality(held[x]) + 1
    BY <1>1, <2>1, UsersNat, OneMore
  <2>. QED BY <1>1, <2>2, UsersNat, ChildrenSame, StasSame, CallsSame DEF Users, SameOwners
<1>2. CASE x # o
  <2>1. held'[x] = held[x]
    BY <1>2 DEF TypeOK
  <2>. QED BY <1>2, <2>1, ChildrenSame, StasSame, CallsSame DEF Users, SameOwners
<1>. QED BY <1>1, <1>2

\* A client gives up what it looked up.
LEMMA ClientLost ==
  ASSUME TypeOK, NEW o \in Obj, NEW c, c \in held[o],
         held' = [held EXCEPT ![o] = @ \ {c}],
         SameOwners, SameChildren, SameStas, SameBss, SameCalls
  PROVE  \A x \in Obj : Users(x)' = IF x = o THEN Users(x) - 1 ELSE Users(x)
<1>. TAKE x \in Obj
<1>1. CASE x = o
  <2>1. held'[x] = held[x] \ {c}
    BY <1>1 DEF TypeOK
  <2>2. Cardinality(held'[x]) = Cardinality(held[x]) - 1
    BY <1>1, <2>1, UsersNat, OneLess
  <2>. QED BY <1>1, <2>2, UsersNat, ChildrenSame, StasSame, CallsSame DEF Users, SameOwners
<1>2. CASE x # o
  <2>1. held'[x] = held[x]
    BY <1>2 DEF TypeOK
  <2>. QED BY <1>2, <2>1, ChildrenSame, StasSame, CallsSame DEF Users, SameOwners
<1>. QED BY <1>1, <1>2

\* An object gets the reference of its owner.
LEMMA OwnerGained ==
  ASSUME TypeOK, NEW o \in Obj, ~HasOwnerRef(o), HasOwnerRef(o)',
         \A x \in Obj : x # o => (HasOwnerRef(x)' <=> HasOwnerRef(x)),
         SameChildren, SameStas, SameBss, SameCalls, UNCHANGED held
  PROVE  \A x \in Obj : Users(x)' = IF x = o THEN Users(x) + 1 ELSE Users(x)
BY UsersNat, ChildrenSame, StasSame, CallsSame DEF Users

\* The owner gives its reference up.
LEMMA OwnerLost ==
  ASSUME TypeOK, NEW o \in Obj, HasOwnerRef(o), ~HasOwnerRef(o)',
         \A x \in Obj : x # o => (HasOwnerRef(x)' <=> HasOwnerRef(x)),
         SameChildren, SameStas, SameBss, SameCalls, UNCHANGED held
  PROVE  \A x \in Obj : Users(x)' = IF x = o THEN Users(x) - 1 ELSE Users(x)
BY UsersNat, ChildrenSame, StasSame, CallsSame DEF Users

-----------------------------------------------------------------------------
\* A step leaves an object alone, or destroys it with its last reference.
Same(x) ==
  /\ Pc(x)' = Pc(x) /\ state'[x] = state[x]
  /\ x \in attached' <=> x \in attached
  /\ x \in listed' <=> x \in listed

Doom(x) ==
  /\ Pc(x) = "idle" /\ Pc(x)' = "destroy" /\ state'[x] = state[x]
  /\ x \in attached' <=> x \in attached
  /\ x \in listed' <=> x \in listed

\* A step of the call on o that neither creates nor deletes o, nor changes
\* the peers of a vdev; a calm one does not count a peer either.
Quiet(o) ==
  /\ \A x \in Obj : x # o => Same(x) \/ Doom(x)
  /\ UNCHANGED bss
  /\ Live(o)' => Live(o)
  /\ state[o] \in Owned => state'[o] \in Owned
  /\ Creating(o)' => Creating(o)
  /\ Kind[o] = "peer" =>
       /\ o \in attached' <=> o \in attached
       /\ Pc(o)' \in Unshared => Pc(o) \in Unshared
       /\ Pc(o) \in {"vget", "vdetach"} => Pc(o)' \in {"vget", "vdetach"} \/ o \notin attached'
       /\ state'[o] \in Owned \cup {"ALLOCATED"} => state[o] \in Owned \cup {"ALLOCATED"}

Calm(o) ==
  /\ Quiet(o) /\ UNCHANGED peers
  /\ Kind[o] = "peer" => (IsCounted(o)' <=> IsCounted(o))

PeersExact == \A o \in Of("pdev") : peers[o] = Cardinality(Counted(o)) /\ peers[o] <= MaxPdevPeers

\* A calm step leaves the peers of every pdev counted.
LEMMA CalmPeers ==
  ASSUME IndInv, NEW o \in Obj, Calm(o)
  PROVE  PeersExact'
<1>1. \A x \in Obj : Kind[x] = "peer" => (IsCounted(x)' <=> IsCounted(x))
  BY DEF Calm, Quiet, Same, Doom, IsCounted, Pc
<1>2. \A d \in Of("pdev") : Counted(d)' = Counted(d)
  BY <1>1 DEF Counted, Of
<1>. QED BY <1>2 DEF IndInv, RefExact, PeersExact, Calm, Quiet

\* A quiet step keeps the order of the BSS peer and its stations,
LEMMA QuietBss ==
  ASSUME IndInv, NEW o \in Obj, Quiet(o)
  PROVE  BssFits' /\ \A x \in Sta : StaFits(x)'
<1>1. \A x \in Obj : Kind[x] = "peer" =>
        /\ x \in attached' <=> x \in attached
        /\ Live(x)' => Live(x)
        /\ Pc(x)' \in Unshared => Pc(x) \in Unshared
        /\ Pc(x) \in {"vget", "vdetach"} => Pc(x)' \in {"vget", "vdetach"} \/ x \notin attached'
        /\ state[x] \in Owned => state'[x] \in Owned
        /\ state'[x] \in Owned \cup {"ALLOCATED"} => state[x] \in Owned \cup {"ALLOCATED"}
  BY DEF Quiet, Same, Doom, Live, Unshared
<1>2. BssFits'
  <2>1. BssFits /\ TypeOK /\ UNCHANGED bss
    BY DEF IndInv, Fits, Quiet
  <2>2. ASSUME NEW v \in Of("vdev"), bss[v] # NoObj
        PROVE  bss[v] \in attached' /\ Parent[bss[v]] = v
    <3>1. bss[v] \in Bss /\ bss[v] \in attached /\ Parent[bss[v]] = v
      BY <2>1, <2>2 DEF BssFits, TypeOK
    <3>. QED BY <1>1, <3>1, TheObjects
  <2>3. \A x \in Bss \cap attached' : bss[Parent[x]] = x
    BY <1>1, <2>1, TheObjects DEF BssFits
  <2>4. ASSUME NEW x \in Bss, NEW y \in Siblings(x) PROVE
          /\ y \in Bss /\ Live(x)' => ~Live(y)'
          /\ y \in Sta /\ Pc(x)' \in Unshared => ~Live(y)'
    <3>1. /\ y \in Bss /\ Live(x) => ~Live(y)
          /\ y \in Sta /\ Pc(x) \in Unshared => ~Live(y)
      BY <2>1 DEF BssFits
    <3>. QED BY <1>1, <3>1, TheObjects
  <2>. QED BY <2>1, <2>2, <2>3, <2>4 DEF BssFits
<1>3. ASSUME NEW x \in Sta PROVE StaFits(x)'
  <2>1. StaFits(x) /\ Kind[x] = "peer" /\ x \in Obj /\ Parent[x] \in Of("vdev")
    BY TheObjects DEF IndInv, Fits, Of
  <2>2. bss[Parent[x]] # NoObj => bss[Parent[x]] \in Obj /\ Kind[bss[Parent[x]]] = "peer"
    BY <2>1, TheObjects DEF IndInv, TypeOK
  <2>. QED BY <1>1, <2>1, <2>2 DEF StaFits, Quiet
<1>. QED BY <1>2, <1>3

\* the psoc while it has vdevs,
LEMMA QuietPsoc ==
  ASSUME IndInv, NEW o \in Obj, Quiet(o)
  PROVE  PsocThere'
<1>1. \A x \in Of("vdev") : Live(x)' => Live(x)
  BY DEF Quiet, Same, Doom, Live, Of
<1>2. state[Psoc] \in Owned => state'[Psoc] \in Owned
  BY TheObjects DEF Quiet, Same, Doom
<1>. QED BY <1>1, <1>2 DEF IndInv, PsocThere

\* and the parents of the objects that are being created.
LEMMA QuietHolds ==
  ASSUME IndInv, NEW o \in Obj, Quiet(o), UNCHANGED held
  PROVE  \A x \in Obj : CreatorHolds(x)'
BY DEF IndInv, Fits, Quiet, Same, Doom, CreatorHolds, Creating, CreatePC, Pc

\* An object that is left alone still fits the place of its call.
LEMMA SameFits ==
  ASSUME NEW x \in Obj, ObjFits(x), Same(x), ref'[x] = ref[x]
  PROVE  ObjFits(x)'
BY DEF ObjFits, StateFits, KindFits, RefFits, ListFits, Same, Live

\* A shared object: its counter moves and stays positive, or it is destroyed.
LEMMA SharedFits ==
  ASSUME NEW x \in Obj, ObjFits(x), Same(x), ref[x] # 0, ref'[x] # 0, Pc(x) \notin Unshared
  PROVE  ObjFits(x)'
BY DEF ObjFits, StateFits, KindFits, RefFits, ListFits, Same, Live

\* A closed object whose last reference was given up is about to be destroyed.
LEMMA DoomFits ==
  ASSUME NEW x \in Obj, ObjFits(x), Doom(x), ref'[x] = 0, state[x] = "LOGICALLY_DELETED"
  PROVE  ObjFits(x)'
BY DEF ObjFits, StateFits, KindFits, RefFits, ListFits, Doom, Live, CreatePC, FreePC, Unshared,
   Detached

\* An object with a user other than its owner is shared; with no other user
\* left it is closed and no call is in progress on it.
LEMMA UsedByOther ==
  ASSUME IndInv, NEW x \in Obj,
         held[x] # {} \/ ChildRefs(x) # {} \/ BssRefs(x) # {} \/ CallRefs(x) # {}
  PROVE  /\ ref[x] > 0 /\ ref[x] \in Nat /\ Live(x) /\ Pc(x) \notin Unshared
         /\ ref[x] = 1 => Pc(x) = "idle" /\ state[x] = "LOGICALLY_DELETED"
<1>1. TypeOK /\ ref[x] = Users(x) /\ ObjFits(x)
  BY DEF IndInv, RefExact, Fits
<1>2. /\ Cardinality(held[x]) \in Nat /\ Cardinality(ChildRefs(x)) \in Nat
      /\ Cardinality(BssRefs(x)) \in Nat /\ Cardinality(CallRefs(x)) \in Nat
  BY <1>1, UsersNat
<1>3. \/ Cardinality(held[x]) # 0 \/ Cardinality(ChildRefs(x)) # 0
      \/ Cardinality(BssRefs(x)) # 0 \/ Cardinality(CallRefs(x)) # 0
  BY <1>1, UsersNat, FS_EmptySet
<1>4. ref[x] > 0 /\ ref[x] \in Nat /\ (HasOwnerRef(x) => ref[x] > 1)
  BY <1>1, <1>2, <1>3 DEF Users
<1>5. Live(x) /\ Pc(x) \notin DeletePC \ {"put"}
  BY <1>1, <1>4 DEF ObjFits, RefFits, Live
<1>6. Pc(x) \notin Unshared
  <2>1. Pc(x) \in Unshared /\ Kind[x] = "peer" => HasOwnerRef(x)
    BY <1>1 DEF ObjFits, StateFits, HasOwnerRef, Unshared, CreatePC
  <2>. QED BY <1>1, <1>4, <2>1 DEF ObjFits, RefFits
<1>7. ~HasOwnerRef(x) => Pc(x) = "idle" /\ state[x] = "LOGICALLY_DELETED"
  <2>1. Pc(x) \in {"idle"} \cup CreatePC \cup DeletePC /\ state[x] \in States
    BY <1>1 DEF TypeOK, Calls, Pc
  <2>. QED BY <1>1, <1>4, <1>5, <1>6, <2>1, TheObjects DEF HasOwnerRef, ObjFits, StateFits, RefFits,
     KindFits, CreatePC, DeletePC, Unshared, States, Pc
<1>. QED BY <1>4, <1>5, <1>6, <1>7

-----------------------------------------------------------------------------
\* Only the call on o moves.
Moves(o, l) ==
  /\ proc' \in [Obj -> Calls]
  /\ Pc(o)' = l /\ \A x \in Obj : x # o => Pc(x)' = Pc(x)

Places == {"idle"} \cup CreatePC \cup DeletePC

\* The call on an object goes to another place.
LEMMA GotoMoves ==
  ASSUME TypeOK, NEW o \in Obj, NEW l \in Places, Goto(o, l)
  PROVE  Moves(o, l)
BY DEF TypeOK, Goto, At, Moves, Pc, Calls, Places

\* A call ends with another one, and whoever waited for it waits for that one.
LEMMA TailCallType ==
  ASSUME TypeOK, NEW o \in Obj, NEW y \in Obj \cup {NoObj}
  PROVE  /\ TailCall(o, y) \in [Obj -> Calls]
         /\ TailCall(o, y)[o].at = "idle"
         /\ \A x \in Obj : x # o => TailCall(o, y)[x].at = Pc(x)
<1>1. \A x \in Obj : proc[x] \in Calls /\ [proc[x] EXCEPT !.callee = y] \in Calls
                     /\ [proc[x] EXCEPT !.callee = y].at = proc[x].at
  BY DEF TypeOK, Calls
<1>2. Idle \in Calls /\ Idle.at = "idle"
  BY DEF Idle, Calls
<1>. QED BY <1>1, <1>2 DEF TailCall, Pc

\* A call returns.
LEMMA ReturnMoves ==
  ASSUME TypeOK, NEW o \in Obj, proc' = Return(o)
  PROVE  Moves(o, "idle")
BY TailCallType DEF Return, Moves, Pc

\* A reference to t is given up; the last one destroys it.
LEMMA PutMoves ==
  ASSUME TypeOK, NEW t \in Obj, NEW ps \in [Obj -> Calls], Put(t, ps)
  PROVE  /\ ref' = [ref EXCEPT ![t] = @ - 1]
         /\ proc' \in [Obj -> Calls]
         /\ ref[t] = 1 => Pc(t)' = "destroy"
         /\ \A x \in Obj : (x = t /\ ref[t] = 1) \/ Pc(x)' = ps[x].at
<1>1. At("destroy") \in Calls /\ At("destroy").at = "destroy"
  BY DEF At, Calls, DeletePC
<1>. QED BY <1>1 DEF Put, Pc

\* The call on o gives a reference up and goes on.
LEMMA PutFromMoves ==
  ASSUME TypeOK, NEW o \in Obj, NEW t \in Obj, t # o, NEW l \in Places, PutFrom(o, t, l)
  PROVE  /\ ref' = [ref EXCEPT ![t] = @ - 1]
         /\ proc' \in [Obj -> Calls]
         /\ ref[t] = 1 => Pc(t)' = "destroy"
         /\ Pc(o)' = l
         /\ \A x \in Obj \ {o} : (x = t /\ ref[t] = 1) \/ Pc(x)' = Pc(x)
<1> DEFINE r == [at |-> l, callee |-> IF ref[t] = 1 THEN t ELSE NoObj]
           ps == [proc EXCEPT ![o] = r]
<1>1. r \in Calls /\ r.at = l
  BY DEF Calls, Places
<1>2. ps \in [Obj -> Calls] /\ ps[o] = r /\ \A x \in Obj \ {o} : ps[x] = proc[x]
  BY <1>1 DEF TypeOK
<1>3. Put(t, ps)
  BY DEF PutFrom
<1>4. /\ ref' = [ref EXCEPT ![t] = @ - 1]
      /\ proc' \in [Obj -> Calls]
      /\ ref[t] = 1 => Pc(t)' = "destroy"
      /\ \A x \in Obj : (x = t /\ ref[t] = 1) \/ Pc(x)' = ps[x].at
  BY <1>2, <1>3, PutMoves
<1>. QED BY <1>1, <1>2, <1>4 DEF Pc

\* The components agree on success, on waiting or on failure, never on nothing.
LEMMA StatusType ==
  ASSUME NEW st \in [Comp -> {"SUCCESS", "ASYNC", "FAILURE", "DISABLED"}], NEW pr
  PROVE  ObjectStatus(st, pr) \in {"SUCCESS", "ASYNC", "FAILURE"}
<1> DEFINE open == Pending(st, pr) \cup Failed(st)
<1>1. open \in SUBSET Nat
  BY ConstantsAssumption DEF Pending, Failed, Comp
<1>2. ASSUME open # {} PROVE Min(open) \in open
  BY <1>1, <1>2, MinIsFirst
<1>. QED BY <1>2 DEF ObjectStatus, Pending, Failed

\* An object that is left alone uses what it used.
LEMMA OthersUse ==
  ASSUME NEW x \in Obj, Same(x) \/ Doom(x)
  PROVE  /\ HasOwnerRef(x)' <=> HasOwnerRef(x)
         /\ IsChild(x)' <=> IsChild(x)
         /\ KeepsBss(x)' <=> KeepsBss(x)
         /\ KeepsVdev(x)' <=> KeepsVdev(x)
BY DEF Same, Doom, HasOwnerRef, IsChild, KeepsBss, KeepsVdev, Pc

\* What a step has to show, a quiet one and a calm one.
LEMMA AnyStep ==
  ASSUME TypeOK', PsocThere', PeersExact', BssFits', \A x \in Sta : StaFits(x)',
         \A x \in Obj : ref'[x] = Users(x)' /\ ObjFits(x)' /\ CreatorHolds(x)'
  PROVE  IndInv'
BY DEF IndInv, RefExact, Fits, PeersExact

LEMMA QuietStep ==
  ASSUME IndInv, NEW o \in Obj, Quiet(o), TypeOK', PeersExact',
         \A x \in Obj : ref'[x] = Users(x)' /\ ObjFits(x)' /\ CreatorHolds(x)'
  PROVE  IndInv'
BY QuietBss, QuietPsoc, AnyStep

LEMMA CalmStep ==
  ASSUME IndInv, NEW o \in Obj, Calm(o), TypeOK',
         \A x \in Obj : ref'[x] = Users(x)',
         \A x \in Obj : ObjFits(x)',
         \A x \in Obj : CreatorHolds(x)'
  PROVE  IndInv'
BY CalmPeers, QuietStep DEF Calm

\* The uses of o stay as they are.
SameUse(o) ==
  /\ HasOwnerRef(o)' <=> HasOwnerRef(o)
  /\ IsChild(o)' <=> IsChild(o)
  /\ o \in Sta => (KeepsBss(o)' <=> KeepsBss(o))
  /\ Kind[o] = "peer" => (KeepsVdev(o)' <=> KeepsVdev(o))

\* A step that moves no reference.
LEMMA QuietLocalStep ==
  ASSUME IndInv, NEW o \in Obj, Quiet(o), PeersExact', TypeOK', UNCHANGED <<ref, held>>,
         \A x \in Obj : x # o => Same(x),
         SameUse(o), ObjFits(o)'
  PROVE  IndInv'
<1>1. SameUsers
  BY OthersUse, TheObjects DEF SameUsers, SameOwners, SameChildren, SameStas, SameBss, SameCalls,
     SameUse, Quiet, Of
<1>2. \A x \in Obj : ref'[x] = Users(x)'
  BY <1>1, UsersSame DEF IndInv, RefExact
<1>3. \A x \in Obj : ObjFits(x)'
  BY SameFits DEF IndInv, Fits
<1>. QED BY <1>2, <1>3, QuietHolds, QuietStep

LEMMA LocalStep ==
  ASSUME IndInv, NEW o \in Obj, Calm(o), TypeOK', UNCHANGED <<ref, held>>,
         \A x \in Obj : x # o => Same(x),
         SameUse(o), ObjFits(o)'
  PROVE  IndInv'
BY CalmPeers, QuietLocalStep DEF Calm

-----------------------------------------------------------------------------
\* Steps that move no reference.
LEMMA VdevPeerCheckStep ==
  ASSUME IndInv, NEW o \in Obj, VdevPeerCheck(o)
  PROVE  IndInv'
<1>1. TypeOK /\ ObjFits(o) /\ Pc(o) = "check"
  BY DEF IndInv, Fits, VdevPeerCheck, Is, At, Pc
<1>2. PICK l \in {"undo", "count"} : Moves(o, l)
  BY <1>1, GotoMoves DEF VdevPeerCheck, Places, CreatePC, DeletePC
<1>3. TypeOK'
  BY <1>1, <1>2 DEF VdevPeerCheck, TypeOK, Moves, compVars, listVars
<1>4. \A x \in Obj : x # o => Same(x)
  BY <1>1, <1>2 DEF VdevPeerCheck, TypeOK, Moves, Same, listVars
<1>5. Calm(o)
  BY <1>1, <1>2, <1>4 DEF VdevPeerCheck, TypeOK, Moves, Calm, Quiet, Live, Creating, CreatePC,
     IsCounted, Unshared, Owned, ObjFits, StateFits, KindFits, ListFits, FreePC, Detached, listVars,
     Pc
<1>6. SameUse(o)
  BY <1>1, <1>2, TheObjects DEF VdevPeerCheck, TypeOK, Moves, SameUse, HasOwnerRef, IsChild,
     KeepsBss, KeepsVdev, ObjFits, StateFits, ListFits, KindFits, Live, Owned, CreatePC, FreePC,
     Detached, listVars, Pc
<1>7. ObjFits(o)'
  BY <1>1, <1>2, TheObjects DEF VdevPeerCheck, TypeOK, Moves, ObjFits, StateFits, KindFits, RefFits,
     ListFits, Live, Owned, CreatePC, FreePC, DeletePC, Unshared, Detached, listVars, Pc
<1>. QED BY <1>3, <1>4, <1>5, <1>6, <1>7, LocalStep DEF VdevPeerCheck

\* The create handlers of the components.
LEMMA CreateCompsStep ==
  ASSUME IndInv, NEW o \in Obj, CreateComps(o)
  PROVE  IndInv'
<1>1. TypeOK /\ ObjFits(o) /\ Pc(o) = "comps"
  BY DEF IndInv, Fits, CreateComps, Is, At, Pc
<1>2. Moves(o, "derive")
  BY <1>1, GotoMoves DEF CreateComps, Places, CreatePC, DeletePC
<1>3. /\ status' \in [Obj -> [Comp -> {"SUCCESS", "ASYNC", "FAILURE", "DISABLED"}]]
      /\ priv' \in [Obj -> SUBSET Comp]
  BY <1>1 DEF CreateComps, TypeOK, CreateResults
<1>4. TypeOK'
  BY <1>1, <1>2, <1>3 DEF CreateComps, TypeOK, Moves, compVars, listVars
<1>5. \A x \in Obj : x # o => Same(x)
  BY <1>1, <1>2 DEF CreateComps, TypeOK, Moves, Same, listVars
<1>6. Calm(o)
  BY <1>1, <1>2, <1>5 DEF CreateComps, TypeOK, Moves, Calm, Quiet, Live, Creating, CreatePC,
     IsCounted, Unshared, Owned, ObjFits, StateFits, KindFits, ListFits, FreePC, Detached, listVars,
     Pc
<1>7. SameUse(o)
  BY <1>1, <1>2, TheObjects DEF CreateComps, TypeOK, Moves, SameUse, HasOwnerRef, IsChild, KeepsBss,
     KeepsVdev, ObjFits, StateFits, ListFits, KindFits, Live, Owned, CreatePC, FreePC, Detached,
     listVars, Pc
<1>8. ObjFits(o)'
  BY <1>1, <1>2, TheObjects DEF CreateComps, TypeOK, Moves, ObjFits, StateFits, KindFits, RefFits,
     ListFits, Live, Owned, CreatePC, FreePC, DeletePC, Unshared, Detached, listVars, Pc
<1>. QED BY <1>4, <1>5, <1>6, <1>7, <1>8, LocalStep DEF CreateComps

\* The destroy handlers of the components.
LEMMA ObjDestroyStep ==
  ASSUME IndInv, NEW o \in Obj, ObjDestroy(o)
  PROVE  IndInv'
<1>1. TypeOK /\ ObjFits(o) /\ Pc(o) = "destroy"
  BY DEF IndInv, Fits, ObjDestroy, Is, At, Pc
<1>2. Moves(o, "destroyed")
  BY <1>1, GotoMoves DEF ObjDestroy, Places, CreatePC, DeletePC
<1>3. /\ status' \in [Obj -> [Comp -> {"SUCCESS", "ASYNC", "FAILURE", "DISABLED"}]]
      /\ priv' \in [Obj -> SUBSET Comp]
  BY <1>1 DEF ObjDestroy, TypeOK, DestroyResults
<1>4. TypeOK'
  BY <1>1, <1>2, <1>3 DEF ObjDestroy, TypeOK, Moves, compVars, listVars
<1>5. \A x \in Obj : x # o => Same(x)
  BY <1>1, <1>2 DEF ObjDestroy, TypeOK, Moves, Same, listVars
<1>6. Calm(o)
  BY <1>1, <1>2, <1>5 DEF ObjDestroy, TypeOK, Moves, Calm, Quiet, Live, Creating, CreatePC,
     IsCounted, Unshared, Owned, ObjFits, StateFits, KindFits, ListFits, FreePC, Detached, listVars,
     Pc
<1>7. SameUse(o)
  BY <1>1, <1>2, TheObjects DEF ObjDestroy, TypeOK, Moves, SameUse, HasOwnerRef, IsChild, KeepsBss,
     KeepsVdev, ObjFits, StateFits, ListFits, KindFits, Live, Owned, CreatePC, FreePC, Detached,
     listVars, Pc
<1>8. ObjFits(o)'
  BY <1>1, <1>2, TheObjects DEF ObjDestroy, TypeOK, Moves, ObjFits, StateFits, KindFits, RefFits,
     ListFits, Live, Owned, CreatePC, FreePC, DeletePC, Unshared, Detached, listVars, Pc
<1>. QED BY <1>4, <1>5, <1>6, <1>7, <1>8, LocalStep DEF ObjDestroy

\* A vdev, and a pdev, leaves the list of its parent; it keeps the reference.
LEMMA VdevFreeStep ==
  ASSUME IndInv, NEW o \in Obj, VdevFree(o)
  PROVE  IndInv'
<1>1. TypeOK /\ ObjFits(o) /\ Pc(o) = "free" /\ Kind[o] = "vdev"
  BY DEF IndInv, Fits, VdevFree, Is, At, Pc
<1>2. Moves(o, "pput")
  BY <1>1, GotoMoves DEF VdevFree, Places, CreatePC, DeletePC
<1>3. TypeOK'
  BY <1>1, <1>2 DEF VdevFree, TypeOK, Moves, compVars, listVars
<1>4. \A x \in Obj : x # o => Same(x)
  BY <1>1, <1>2 DEF VdevFree, TypeOK, Moves, Same, listVars
<1>5. Calm(o)
  BY <1>1, <1>2, <1>4, TheObjects DEF VdevFree, TypeOK, Moves, Calm, Quiet, Live, Creating,
     CreatePC, IsCounted, Unshared, Owned, ObjFits, StateFits, KindFits, ListFits, FreePC, Detached,
     listVars, Pc
<1>6. SameUse(o)
  BY <1>1, <1>2, TheObjects DEF VdevFree, TypeOK, Moves, SameUse, HasOwnerRef, IsChild, KeepsBss,
     KeepsVdev, ObjFits, StateFits, ListFits, KindFits, Live, Owned, CreatePC, FreePC, Detached,
     listVars, Pc
<1>7. ObjFits(o)'
  BY <1>1, <1>2, TheObjects DEF VdevFree, TypeOK, Moves, ObjFits, StateFits, KindFits, RefFits,
     ListFits, Live, Owned, CreatePC, FreePC, DeletePC, Unshared, Detached, listVars, Pc
<1>. QED BY <1>3, <1>4, <1>5, <1>6, <1>7, LocalStep DEF VdevFree

LEMMA PdevFreeStep ==
  ASSUME IndInv, NEW o \in Obj, PdevFree(o)
  PROVE  IndInv'
<1>1. TypeOK /\ ObjFits(o) /\ Pc(o) = "free" /\ Kind[o] = "pdev"
  BY DEF IndInv, Fits, PdevFree, Is, At, Pc
<1>2. Moves(o, "pput")
  BY <1>1, GotoMoves DEF PdevFree, Places, CreatePC, DeletePC
<1>3. TypeOK'
  BY <1>1, <1>2 DEF PdevFree, TypeOK, Moves, compVars, listVars
<1>4. \A x \in Obj : x # o => Same(x)
  BY <1>1, <1>2 DEF PdevFree, TypeOK, Moves, Same, listVars
<1>5. Calm(o)
  BY <1>1, <1>2, <1>4, TheObjects DEF PdevFree, TypeOK, Moves, Calm, Quiet, Live, Creating,
     CreatePC, IsCounted, Unshared, Owned, ObjFits, StateFits, KindFits, ListFits, FreePC, Detached,
     listVars, Pc
<1>6. SameUse(o)
  BY <1>1, <1>2, TheObjects DEF PdevFree, TypeOK, Moves, SameUse, HasOwnerRef, IsChild, KeepsBss,
     KeepsVdev, ObjFits, StateFits, ListFits, KindFits, Live, Owned, CreatePC, FreePC, Detached,
     listVars, Pc
<1>7. ObjFits(o)'
  BY <1>1, <1>2, TheObjects DEF PdevFree, TypeOK, Moves, ObjFits, StateFits, KindFits, RefFits,
     ListFits, Live, Owned, CreatePC, FreePC, DeletePC, Unshared, Detached, listVars, Pc
<1>. QED BY <1>3, <1>4, <1>5, <1>6, <1>7, LocalStep DEF PdevFree

\* The end of a creation: the object is open, waits for a component or is closed.
LEMMA CreateDoneStep ==
  ASSUME IndInv, NEW o \in Obj, CreateDone(o)
  PROVE  IndInv'
<1>1. TypeOK /\ ObjFits(o) /\ Pc(o) = "derive"
  BY DEF IndInv, Fits, CreateDone, Is, At, Pc
<1>2. \/ /\ Moves(o, "idle")
         /\ \E s \in {"CREATED", "PARTIALLY_CREATED"} : state' = [state EXCEPT ![o] = s]
         /\ listed' = listed \cup {o}
      \/ /\ Moves(o, "put")
         /\ state' = [state EXCEPT ![o] = "LOGICALLY_DELETED"] /\ listed' = listed
  <2>1. ObjectStatus(status[o], priv[o]) \in {"SUCCESS", "ASYNC", "FAILURE"}
    BY <1>1, StatusType DEF TypeOK
  <2>2. CASE ObjectStatus(status[o], priv[o]) = "FAILURE"
    <3>1. Goto(o, "put")
      BY <2>2 DEF CreateDone, Goto
    <3>. QED BY <1>1, <2>2, <3>1, GotoMoves DEF CreateDone, Places, DeletePC
  <2>3. CASE ObjectStatus(status[o], priv[o]) # "FAILURE"
    <3>1. Moves(o, "idle")
      BY <1>1, <2>3, ReturnMoves DEF CreateDone
    <3>2. CASE ObjectStatus(status[o], priv[o]) = "SUCCESS"
      BY <3>1, <3>2 DEF CreateDone
    <3>3. CASE ObjectStatus(status[o], priv[o]) = "ASYNC"
      BY <3>1, <3>3 DEF CreateDone
    <3>. QED BY <2>1, <2>3, <3>2, <3>3
  <2>. QED BY <2>2, <2>3
<1>3. TypeOK'
  BY <1>1, <1>2 DEF CreateDone, TypeOK, Moves, compVars, States, Owned
<1>4. \A x \in Obj : x # o => Same(x)
  BY <1>1, <1>2 DEF CreateDone, TypeOK, Moves, Same, listVars
<1>5. Calm(o)
  BY <1>1, <1>2, <1>4, TheObjects DEF CreateDone, TypeOK, Moves, Calm, Quiet, Live, Creating,
     CreatePC, IsCounted, Unshared, Owned, ObjFits, StateFits, KindFits, ListFits, FreePC, Detached,
     listVars, Pc
<1>6. SameUse(o)
  BY <1>1, <1>2, TheObjects DEF CreateDone, TypeOK, Moves, SameUse, HasOwnerRef, IsChild, KeepsBss,
     KeepsVdev, ObjFits, StateFits, ListFits, KindFits, Live, Owned, CreatePC, FreePC, Detached,
     listVars, Pc
<1>7. ObjFits(o)'
  BY <1>1, <1>2, TheObjects DEF CreateDone, TypeOK, Moves, ObjFits, StateFits, KindFits, RefFits,
     ListFits, Live, Owned, CreatePC, FreePC, DeletePC, Unshared, Detached, listVars, Pc
<1>. QED BY <1>3, <1>4, <1>5, <1>6, <1>7, LocalStep DEF CreateDone

\* The end of a destruction: the object is freed, waits for a component or is leaked.
LEMMA DestroyDoneStep ==
  ASSUME IndInv, NEW o \in Obj, DestroyDone(o)
  PROVE  IndInv'
<1>1. TypeOK /\ ObjFits(o) /\ Pc(o) = "destroyed"
  BY DEF IndInv, Fits, DestroyDone, Is, At, Pc
<1>2. \/ Moves(o, "free") /\ state' = state
      \/ Moves(o, "idle") /\ (state' = state \/ state' = [state EXCEPT ![o] = "PARTIALLY_DELETED"])
  <2>1. CASE ObjectStatus(status[o], priv[o]) = "SUCCESS"
    <3>1. Goto(o, "free")
      BY <2>1 DEF DestroyDone, Goto
    <3>. QED BY <1>1, <2>1, <3>1, GotoMoves DEF DestroyDone, Places, DeletePC
  <2>2. CASE ObjectStatus(status[o], priv[o]) # "SUCCESS"
    BY <1>1, <2>2, ReturnMoves DEF DestroyDone
  <2>. QED BY <2>1, <2>2
<1>3. TypeOK'
  BY <1>1, <1>2 DEF DestroyDone, TypeOK, Moves, compVars, listVars, States
<1>4. \A x \in Obj : x # o => Same(x)
  BY <1>1, <1>2 DEF DestroyDone, TypeOK, Moves, Same, listVars
<1>5. Calm(o)
  BY <1>1, <1>2, <1>4, TheObjects DEF DestroyDone, TypeOK, Moves, Calm, Quiet, Live, Creating,
     CreatePC, IsCounted, Unshared, Owned, ObjFits, StateFits, KindFits, ListFits, FreePC, Detached,
     listVars, Pc
<1>6. SameUse(o)
  BY <1>1, <1>2, TheObjects DEF DestroyDone, TypeOK, Moves, SameUse, HasOwnerRef, IsChild, KeepsBss,
     KeepsVdev, ObjFits, StateFits, ListFits, KindFits, Live, Owned, CreatePC, FreePC, Detached,
     listVars, Pc
<1>7. ObjFits(o)'
  BY <1>1, <1>2, TheObjects DEF DestroyDone, TypeOK, Moves, ObjFits, StateFits, KindFits, RefFits,
     ListFits, Live, Owned, CreatePC, FreePC, DeletePC, Unshared, Detached, listVars, Pc
<1>. QED BY <1>3, <1>4, <1>5, <1>6, <1>7, LocalStep DEF DestroyDone

\* An object leaves the tables of the psoc and its memory is freed.
LEMMA PsocDetachStep ==
  ASSUME IndInv, NEW o \in Obj, PsocDetach(o)
  PROVE  IndInv'
<1>1. TypeOK /\ ObjFits(o) /\ Pc(o) = "psoc"
  BY DEF IndInv, Fits, PsocDetach, Is, At, Pc
<1>2. Moves(o, IF Kind[o] = "peer" THEN "last" ELSE "idle")
  <2>1. CASE Kind[o] = "peer"
    <3>1. Goto(o, "last")
      BY <2>1 DEF PsocDetach, Goto
    <3>. QED BY <1>1, <2>1, <3>1, GotoMoves DEF Places, DeletePC
  <2>2. CASE Kind[o] # "peer"
    BY <1>1, <2>2, ReturnMoves DEF PsocDetach
  <2>. QED BY <2>1, <2>2
<1>3. TypeOK'
  BY <1>1, <1>2 DEF PsocDetach, TypeOK, Moves, compVars, States
<1>4. \A x \in Obj : x # o => Same(x)
  BY <1>1, <1>2 DEF PsocDetach, TypeOK, Moves, Same, listVars
<1>5. Calm(o)
  BY <1>1, <1>2, <1>4, TheObjects DEF PsocDetach, TypeOK, Moves, Calm, Quiet, Live, Creating,
     CreatePC, IsCounted, Unshared, Owned, ObjFits, StateFits, KindFits, ListFits, FreePC, Detached,
     listVars, Pc
<1>6. SameUse(o)
  BY <1>1, <1>2, TheObjects DEF PsocDetach, TypeOK, Moves, SameUse, HasOwnerRef, IsChild, KeepsBss,
     KeepsVdev, ObjFits, StateFits, ListFits, KindFits, Live, Owned, CreatePC, FreePC, Detached,
     listVars, Pc
<1>7. ObjFits(o)'
  BY <1>1, <1>2, TheObjects DEF PsocDetach, TypeOK, Moves, ObjFits, StateFits, KindFits, RefFits,
     ListFits, Live, Owned, CreatePC, FreePC, DeletePC, Unshared, Detached, listVars, Pc
<1>. QED BY <1>3, <1>4, <1>5, <1>6, <1>7, LocalStep DEF PsocDetach

\* The psoc is freed.
LEMMA PsocFreeStep ==
  ASSUME IndInv, NEW o \in Obj, PsocFree(o)
  PROVE  IndInv'
<1>1. TypeOK /\ ObjFits(o) /\ Pc(o) = "free" /\ Kind[o] = "psoc"
  BY DEF IndInv, Fits, PsocFree, Is, At, Pc
<1>2. Moves(o, "idle")
  BY <1>1, ReturnMoves DEF PsocFree
<1>3. TypeOK'
  BY <1>1, <1>2 DEF PsocFree, TypeOK, Moves, compVars, States
<1>4. \A x \in Obj : x # o => Same(x)
  BY <1>1, <1>2 DEF PsocFree, TypeOK, Moves, Same, listVars
<1>5. Calm(o)
  BY <1>1, <1>2, <1>4, TheObjects DEF PsocFree, TypeOK, Moves, Calm, Quiet, Live, Creating,
     CreatePC, IsCounted, Unshared, Owned, ObjFits, StateFits, KindFits, ListFits, FreePC, Detached,
     listVars, Pc
<1>6. SameUse(o)
  BY <1>1, <1>2, TheObjects DEF PsocFree, TypeOK, Moves, SameUse, HasOwnerRef, IsChild, KeepsBss,
     KeepsVdev, ObjFits, StateFits, ListFits, KindFits, Live, Owned, CreatePC, FreePC, Detached,
     listVars, Pc
<1>7. ObjFits(o)'
  BY <1>1, <1>2, TheObjects DEF PsocFree, TypeOK, Moves, ObjFits, StateFits, KindFits, RefFits,
     ListFits, Live, Owned, CreatePC, FreePC, DeletePC, Unshared, Detached, listVars, Pc
<1>. QED BY <1>3, <1>4, <1>5, <1>6, <1>7, LocalStep DEF PsocFree

\* An operation on the components of o.
CompOp(o) ==
  /\ state' = state \/ \E s \in Owned : state[o] \in Owned /\ state' = [state EXCEPT ![o] = s]
  /\ UNCHANGED <<ref, listVars, held, proc>>

CompTypes ==
  /\ status \in [Obj -> [Comp -> {"SUCCESS", "ASYNC", "FAILURE", "DISABLED"}]]
  /\ priv \in [Obj -> SUBSET Comp]

\* It moves no reference and no call.
LEMMA CompOpStep ==
  ASSUME IndInv, NEW o \in Obj, CompOp(o), CompTypes'
  PROVE  IndInv'
<1>1. TypeOK /\ ObjFits(o)
  BY DEF IndInv, Fits
<1>2. Moves(o, Pc(o))
  BY <1>1 DEF TypeOK, CompOp, Moves, Pc
<1>3. TypeOK'
  BY <1>1, <1>2 DEF CompOp, TypeOK, Moves, listVars, States, CompTypes
<1>4. \A x \in Obj : x # o => Same(x)
  BY <1>1, <1>2 DEF CompOp, TypeOK, Moves, Same, listVars
<1>5. Calm(o)
  BY <1>1, <1>2, <1>4, TheObjects DEF CompOp, TypeOK, Moves, Calm, Quiet, Live, Creating, CreatePC,
     IsCounted, Unshared, Owned, ObjFits, StateFits, KindFits, ListFits, FreePC, Detached, listVars,
     Pc
<1>6. SameUse(o)
  BY <1>1, <1>2, TheObjects DEF CompOp, TypeOK, Moves, SameUse, HasOwnerRef, IsChild, KeepsBss,
     KeepsVdev, ObjFits, StateFits, ListFits, KindFits, Live, Owned, CreatePC, FreePC, Detached,
     listVars, Pc
<1>7. ObjFits(o)'
  BY <1>1, <1>2, TheObjects DEF CompOp, TypeOK, Moves, ObjFits, StateFits, KindFits, RefFits,
     ListFits, Live, Owned, CreatePC, FreePC, DeletePC, Unshared, Detached, listVars, Pc
<1>. QED BY <1>3, <1>4, <1>5, <1>6, <1>7, LocalStep DEF CompOp

\* The operations on components, one by one.
LEMMA CompAttachStep ==
  ASSUME IndInv, NEW o \in Obj, NEW c \in Comp, CompAttach(o, c)
  PROVE  IndInv'
<1>1. TypeOK
  BY DEF IndInv
<1>2. CompOp(o)
  BY <1>1 DEF CompAttach, CompOp, TypeOK, Owned
<1>3. CompTypes'
  BY <1>1 DEF CompAttach, CompTypes, TypeOK
<1>. QED BY <1>2, <1>3, CompOpStep

LEMMA TriggerCreationStep ==
  ASSUME IndInv, NEW o \in Obj, NEW c \in Comp, TriggerCreation(o, c)
  PROVE  IndInv'
<1>1. TypeOK
  BY DEF IndInv
<1>2. CompOp(o)
  BY <1>1 DEF TriggerCreation, CompOp, TypeOK, Owned
<1>3. CompTypes'
  BY <1>1 DEF TriggerCreation, CompTypes, TypeOK
<1>. QED BY <1>2, <1>3, CompOpStep

LEMMA TriggerDeletionStep ==
  ASSUME IndInv, NEW o \in Obj, NEW c \in Comp, TriggerDeletion(o, c)
  PROVE  IndInv'
<1>1. TypeOK
  BY DEF IndInv
<1>2. CompOp(o)
  BY <1>1 DEF TriggerDeletion, CompOp, TypeOK, Owned
<1>3. CompTypes'
  BY <1>1 DEF TriggerDeletion, CompTypes, TypeOK
<1>. QED BY <1>2, <1>3, CompOpStep

\* The last component may free an object that waited for it.
LEMMA CompDetachStep ==
  ASSUME IndInv, NEW o \in Obj, NEW c \in Comp, CompDetach(o, c)
  PROVE  IndInv'
<1>1. TypeOK /\ ObjFits(o) /\ Pc(o) = "idle"
  BY DEF IndInv, Fits, CompDetach, Idle, Pc
<1>2. \/ CompOp(o)
      \/ /\ state[o] = "PARTIALLY_DELETED" /\ state' = [state EXCEPT ![o] = "DELETED"]
         /\ Moves(o, "free")
      \/ /\ state[o] = "PARTIALLY_DELETED" /\ state' = [state EXCEPT ![o] = "DELETION_FAILED"]
         /\ Moves(o, "idle")
  <2> DEFINE s == ObjectStatus([status[o] EXCEPT ![c] = "SUCCESS"], priv[o] \ {c})
  <2>1. CASE state[o] = "PARTIALLY_DELETED" /\ s = "SUCCESS"
    <3>1. state' = [state EXCEPT ![o] = "DELETED"]
      BY <2>1 DEF CompDetach
    <3>2. state'[o] = "DELETED"
      BY <1>1, <3>1 DEF TypeOK
    <3>3. Goto(o, "free")
      BY <3>2 DEF CompDetach, Goto
    <3>. QED BY <1>1, <2>1, <3>1, <3>3, GotoMoves DEF Places, DeletePC
  <2>2. CASE state[o] = "PARTIALLY_DELETED" /\ s = "FAILURE"
    <3>1. state' = [state EXCEPT ![o] = "DELETION_FAILED"]
      BY <2>2 DEF CompDetach
    <3>2. state'[o] = "DELETION_FAILED"
      BY <1>1, <3>1 DEF TypeOK
    <3>. QED BY <1>1, <2>2, <3>1, <3>2 DEF CompDetach, Moves, TypeOK, Pc
  <2>3. CASE state[o] = "COMP_DEL_PROGRESS" /\ s # "ASYNC"
    <3>1. state' = [state EXCEPT ![o] = "CREATED"]
      BY <2>3 DEF CompDetach
    <3>2. state'[o] = "CREATED"
      BY <1>1, <3>1 DEF TypeOK
    <3>. QED BY <2>3, <3>1, <3>2 DEF CompDetach, CompOp, Owned
  <2>4. CASE /\ ~(state[o] = "PARTIALLY_DELETED" /\ s \in {"SUCCESS", "FAILURE"})
             /\ ~(state[o] = "COMP_DEL_PROGRESS" /\ s # "ASYNC")
    <3>1. state' = state
      BY <2>4 DEF CompDetach
    <3>2. state[o] # "DELETED"
      BY <1>1 DEF ObjFits, StateFits, FreePC
    <3>. QED BY <3>1, <3>2 DEF CompDetach, CompOp
  <2>. QED BY <2>1, <2>2, <2>3, <2>4
<1>3. CompTypes'
  BY <1>1 DEF CompDetach, CompTypes, TypeOK
<1>4. CASE CompOp(o)
  BY <1>3, <1>4, CompOpStep
<1>5. CASE ~CompOp(o)
  <2>1. TypeOK'
    BY <1>1, <1>2, <1>3, <1>5 DEF CompDetach, TypeOK, Moves, compVars, listVars, States, CompTypes
  <2>2. \A x \in Obj : x # o => Same(x)
    BY <1>1, <1>2, <1>5 DEF CompDetach, TypeOK, Moves, Same, listVars
  <2>3. Calm(o)
    BY <1>1, <1>2, <1>5, <2>2, TheObjects DEF CompDetach, TypeOK, Moves, Calm, Quiet, Live,
       Creating, CreatePC, IsCounted, Unshared, Owned, ObjFits, StateFits, KindFits, ListFits,
       FreePC, Detached, listVars, Pc
  <2>4. SameUse(o)
    BY <1>1, <1>2, <1>5, TheObjects DEF CompDetach, TypeOK, Moves, SameUse, HasOwnerRef, IsChild,
       KeepsBss, KeepsVdev, ObjFits, StateFits, ListFits, KindFits, Live, Owned, CreatePC, FreePC,
       Detached, listVars, Pc
  <2>5. ObjFits(o)'
    BY <1>1, <1>2, <1>5, TheObjects DEF CompDetach, TypeOK, Moves, ObjFits, StateFits, KindFits,
       RefFits, ListFits, Live, Owned, CreatePC, FreePC, DeletePC, Unshared, Detached, listVars, Pc
  <2>. QED BY <2>1, <2>2, <2>3, <2>4, <2>5, LocalStep DEF CompDetach
<1>. QED BY <1>4, <1>5

-----------------------------------------------------------------------------
\* A step of the call on o that takes a reference to a shared object.
LEMMA GetStep ==
  ASSUME IndInv, NEW o \in Obj, NEW t \in Obj, t # o, Calm(o), TypeOK', Get(t), UNCHANGED held,
         \A x \in Obj : x # o => Same(x), ObjFits(o)',
         ref[t] > 0, Pc(t) \notin Unshared,
         \A x \in Obj : Users(x)' = IF x = t THEN Users(x) + 1 ELSE Users(x)
  PROVE  IndInv'
<1>1. ref \in [Obj -> Nat] /\ \A x \in Obj : ref[x] = Users(x) /\ ObjFits(x)
  BY DEF IndInv, RefExact, Fits, TypeOK
<1>2. ref'[t] = ref[t] + 1 /\ ref'[t] # 0 /\ \A x \in Obj : x # t => ref'[x] = ref[x]
  BY <1>1 DEF Get
<1>3. \A x \in Obj : ref'[x] = Users(x)'
  BY <1>1, <1>2
<1>4. \A x \in Obj : ObjFits(x)'
  <2>1. ObjFits(t)'
    BY <1>1, <1>2, SharedFits
  <2>. QED BY <1>1, <1>2, <2>1, SameFits
<1>. QED BY <1>3, <1>4, QuietHolds, CalmStep DEF Calm

\* A step of the call on o that gives up a reference to a shared object.
LEMMA PutStep ==
  ASSUME IndInv, NEW o \in Obj, NEW t \in Obj, t # o, Calm(o), TypeOK',
         ref' = [ref EXCEPT ![t] = @ - 1], UNCHANGED held,
         \A x \in Obj : x # o => Same(x) \/ (x = t /\ ref[t] = 1 /\ Doom(t)), ObjFits(o)',
         ref[t] > 0, Pc(t) \notin Unshared, ref[t] = 1 => Doom(t) /\ state[t] = "LOGICALLY_DELETED",
         \A x \in Obj : Users(x)' = IF x = t THEN Users(x) - 1 ELSE Users(x)
  PROVE  IndInv'
<1>1. ref \in [Obj -> Nat] /\ \A x \in Obj : ref[x] = Users(x) /\ ObjFits(x)
  BY DEF IndInv, RefExact, Fits, TypeOK
<1>2. ref'[t] = ref[t] - 1 /\ \A x \in Obj : x # t => ref'[x] = ref[x]
  BY <1>1
<1>3. \A x \in Obj : ref'[x] = Users(x)'
  BY <1>1, <1>2
<1>4. \A x \in Obj : ObjFits(x)'
  <2>1. CASE ref[t] = 1
    <3>1. ref'[t] = 0
      BY <1>2, <2>1
    <3>2. ObjFits(t)'
      BY <1>1, <2>1, <3>1, DoomFits
    <3>. QED BY <1>1, <1>2, <3>2, SameFits
  <2>2. CASE ref[t] # 1
    <3>1. ref'[t] # 0 /\ ref[t] # 0
      BY <1>1, <1>2, <2>2
    <3>2. Same(t)
      BY <2>2
    <3>3. ObjFits(t)'
      BY <1>1, <3>1, <3>2, SharedFits
    <3>. QED BY <1>1, <1>2, <2>2, <3>3, SameFits
  <2>. QED BY <2>1, <2>2
<1>. QED BY <1>3, <1>4, QuietHolds, CalmStep DEF Calm

\* The uses of the objects other than o.
LEMMA OthersAll ==
  ASSUME NEW o \in Obj, \A x \in Obj : x # o => Same(x) \/ Doom(x)
  PROVE  /\ \A x \in Obj : x # o => (HasOwnerRef(x)' <=> HasOwnerRef(x))
         /\ \A x \in Obj : x # o => (IsChild(x)' <=> IsChild(x))
         /\ \A x \in Sta : x # o => (KeepsBss(x)' <=> KeepsBss(x))
         /\ \A x \in Of("peer") : x # o => (KeepsVdev(x)' <=> KeepsVdev(x))
BY OthersUse, TheObjects DEF Of

\* An object enters the tables of the psoc, a pdev its list too.
LEMMA PsocAttachStep ==
  ASSUME IndInv, NEW o \in Obj, PsocAttach(o)
  PROVE  IndInv'
<1> DEFINE full == Cardinality(listed \cap Of(Kind[o])) >= Limit[Kind[o]]
<1>1. /\ TypeOK /\ ObjFits(o) /\ CreatorHolds(o) /\ Pc(o) = "table"
      /\ Kind[o] \in {"pdev", "vdev", "peer"} /\ o # Psoc
  BY TheObjects DEF IndInv, Fits, PsocAttach, Is, At, Pc, ObjFits, KindFits, Kinds
<1>2. CASE full
  <2>1. Moves(o, "undo")
    BY <1>1, <1>2, GotoMoves DEF PsocAttach, Places, CreatePC, DeletePC
  <2>2. TypeOK'
    BY <1>1, <1>2, <2>1 DEF PsocAttach, TypeOK, Moves, compVars, listVars
  <2>3. \A x \in Obj : x # o => Same(x)
    BY <1>1, <1>2, <2>1 DEF PsocAttach, TypeOK, Moves, Same, listVars
  <2>4. Calm(o)
    BY <1>1, <1>2, <2>1, <2>3, TheObjects DEF PsocAttach, TypeOK, Moves, Calm, Quiet, Live,
       Creating, CreatePC, IsCounted, Unshared, Owned, ObjFits, StateFits, KindFits, ListFits,
       FreePC, Detached, listVars, Pc
  <2>5. SameUse(o)
    BY <1>1, <1>2, <2>1, TheObjects DEF PsocAttach, TypeOK, Moves, SameUse, HasOwnerRef, IsChild,
       KeepsBss, KeepsVdev, ObjFits, StateFits, ListFits, KindFits, Live, Owned, CreatePC, FreePC,
       Detached, listVars, Pc
  <2>6. ObjFits(o)'
    BY <1>1, <1>2, <2>1, TheObjects DEF PsocAttach, TypeOK, Moves, ObjFits, StateFits, KindFits,
       RefFits, ListFits, Live, Owned, CreatePC, FreePC, DeletePC, Unshared, Detached, listVars, Pc
  <2>. QED BY <1>2, <2>2, <2>3, <2>4, <2>5, <2>6, LocalStep DEF PsocAttach
<1>3. CASE ~full /\ Kind[o] = "vdev"
  <2>1. Moves(o, "add")
    BY <1>1, <1>3, GotoMoves DEF PsocAttach, Places, CreatePC, DeletePC
  <2>2. TypeOK'
    BY <1>1, <1>3, <2>1 DEF PsocAttach, TypeOK, Moves, compVars, listVars
  <2>3. \A x \in Obj : x # o => Same(x)
    BY <1>1, <1>3, <2>1 DEF PsocAttach, TypeOK, Moves, Same, listVars
  <2>4. Calm(o)
    BY <1>1, <1>3, <2>1, <2>3, TheObjects DEF PsocAttach, TypeOK, Moves, Calm, Quiet, Live,
       Creating, CreatePC, IsCounted, Unshared, Owned, ObjFits, StateFits, KindFits, ListFits,
       FreePC, Detached, listVars, Pc
  <2>5. SameUse(o)
    BY <1>1, <1>3, <2>1, TheObjects DEF PsocAttach, TypeOK, Moves, SameUse, HasOwnerRef, IsChild,
       KeepsBss, KeepsVdev, ObjFits, StateFits, ListFits, KindFits, Live, Owned, CreatePC, FreePC,
       Detached, listVars, Pc
  <2>6. ObjFits(o)'
    BY <1>1, <1>3, <2>1, TheObjects DEF PsocAttach, TypeOK, Moves, ObjFits, StateFits, KindFits,
       RefFits, ListFits, Live, Owned, CreatePC, FreePC, DeletePC, Unshared, Detached, listVars, Pc
  <2>. QED BY <1>3, <2>2, <2>3, <2>4, <2>5, <2>6, LocalStep DEF PsocAttach
<1>4. CASE ~full /\ Kind[o] = "peer"
  <2>1. Moves(o, "check")
    BY <1>1, <1>4, GotoMoves DEF PsocAttach, Places, CreatePC, DeletePC
  <2>2. TypeOK'
    BY <1>1, <1>4, <2>1 DEF PsocAttach, TypeOK, Moves, compVars, listVars
  <2>3. \A x \in Obj : x # o => Same(x)
    BY <1>1, <1>4, <2>1 DEF PsocAttach, TypeOK, Moves, Same, listVars
  <2>4. Calm(o)
    BY <1>1, <1>4, <2>1, <2>3, TheObjects DEF PsocAttach, TypeOK, Moves, Calm, Quiet, Live,
       Creating, CreatePC, IsCounted, Unshared, Owned, ObjFits, StateFits, KindFits, ListFits,
       FreePC, Detached, listVars, Pc
  <2>5. SameUse(o)
    BY <1>1, <1>4, <2>1, TheObjects DEF PsocAttach, TypeOK, Moves, SameUse, HasOwnerRef, IsChild,
       KeepsBss, KeepsVdev, ObjFits, StateFits, ListFits, KindFits, Live, Owned, CreatePC, FreePC,
       Detached, listVars, Pc
  <2>6. ObjFits(o)'
    BY <1>1, <1>4, <2>1, TheObjects DEF PsocAttach, TypeOK, Moves, ObjFits, StateFits, KindFits,
       RefFits, ListFits, Live, Owned, CreatePC, FreePC, DeletePC, Unshared, Detached, listVars, Pc
  <2>. QED BY <1>4, <2>2, <2>3, <2>4, <2>5, <2>6, LocalStep DEF PsocAttach
<1>5. CASE ~full /\ Kind[o] = "pdev"
  <2>1. Moves(o, "init")
    BY <1>1, <1>5, GotoMoves DEF PsocAttach, Places, CreatePC
  <2>2. Get(Psoc) /\ Psoc \in Obj /\ Psoc # o /\ Parent[o] = Psoc
    BY <1>1, <1>5, TheObjects DEF PsocAttach
  <2>3. TypeOK'
    BY <1>1, <1>5, <2>1, <2>2 DEF PsocAttach, TypeOK, Moves, compVars, Get
  <2>4. \A x \in Obj : x # o => Same(x)
    BY <1>1, <1>5, <2>1 DEF PsocAttach, TypeOK, Moves, Same
  <2>5. Calm(o)
    BY <1>1, <1>5, <2>1, <2>4 DEF PsocAttach, TypeOK, Moves, Calm, Quiet, Live, Creating, CreatePC,
       Pc
  <2>6. ref[Psoc] > 0 /\ Pc(Psoc) \notin Unshared
    <3>1. held[Psoc] # {}
      BY <1>1, <2>2 DEF CreatorHolds, Creating, CreatePC, Pc
    <3>. QED BY <2>2, <3>1, UsedByOther
  <2>7. ObjFits(o)'
    BY <1>1, <1>5, <2>1, <2>2 DEF PsocAttach, Get, TypeOK, Moves, ObjFits, StateFits, KindFits,
       RefFits, ListFits, Live, Owned, CreatePC, FreePC, DeletePC, Unshared, Detached, listVars, Pc
  <2>8. /\ ~IsChild(o) /\ IsChild(o)' /\ (HasOwnerRef(o)' <=> HasOwnerRef(o)) /\ o \notin Sta
        /\ o \notin Of("peer")
    BY <1>1, <1>5, <2>1, TheObjects DEF PsocAttach, Moves, IsChild, HasOwnerRef, ObjFits, ListFits,
       Detached, Of, Pc
  <2>9. \A x \in Obj : Users(x)' = IF x = Psoc THEN Users(x) + 1 ELSE Users(x)
    <3>1. SameOwners /\ SameStas /\ SameBss /\ SameCalls /\ UNCHANGED held
          /\ \A x \in Obj : x # o => (IsChild(x)' <=> IsChild(x))
      BY <2>4, <2>8, OthersAll DEF PsocAttach, SameOwners, SameStas, SameBss, SameCalls
    <3>. QED BY <1>1, <2>2, <2>8, <3>1, ChildGained
  <2>. QED BY <2>2, <2>3, <2>4, <2>5, <2>6, <2>7, <2>9, GetStep DEF PsocAttach
<1>. QED BY <1>1, <1>2, <1>3, <1>4, <1>5

\* A vdev enters the list of its pdev, which its creator holds.
LEMMA PdevVdevAttachStep ==
  ASSUME IndInv, NEW o \in Obj, PdevVdevAttach(o)
  PROVE  IndInv'
<1> DEFINE room == Cardinality({x \in attached : Parent[x] = Parent[o]}) < MaxVdevs
<1>1. TypeOK /\ ObjFits(o) /\ CreatorHolds(o) /\ Pc(o) = "add" /\ Kind[o] = "vdev"
  BY DEF IndInv, Fits, PdevVdevAttach, Is, At, Pc
<1>2. CASE ~room
  <2>1. Moves(o, "undo")
    BY <1>1, <1>2, GotoMoves DEF PdevVdevAttach, Places, CreatePC, DeletePC
  <2>2. TypeOK'
    BY <1>1, <1>2, <2>1 DEF PdevVdevAttach, TypeOK, Moves, compVars, listVars
  <2>3. \A x \in Obj : x # o => Same(x)
    BY <1>1, <1>2, <2>1 DEF PdevVdevAttach, TypeOK, Moves, Same, listVars
  <2>4. Calm(o)
    BY <1>1, <1>2, <2>1, <2>3, TheObjects DEF PdevVdevAttach, TypeOK, Moves, Calm, Quiet, Live,
       Creating, CreatePC, IsCounted, Unshared, Owned, ObjFits, StateFits, KindFits, ListFits,
       FreePC, Detached, listVars, Pc
  <2>5. SameUse(o)
    BY <1>1, <1>2, <2>1, TheObjects DEF PdevVdevAttach, TypeOK, Moves, SameUse, HasOwnerRef,
       IsChild, KeepsBss, KeepsVdev, ObjFits, StateFits, ListFits, KindFits, Live, Owned, CreatePC,
       FreePC, Detached, listVars, Pc
  <2>6. ObjFits(o)'
    BY <1>1, <1>2, <2>1, TheObjects DEF PdevVdevAttach, TypeOK, Moves, ObjFits, StateFits, KindFits,
       RefFits, ListFits, Live, Owned, CreatePC, FreePC, DeletePC, Unshared, Detached, listVars, Pc
  <2>. QED BY <1>2, <2>2, <2>3, <2>4, <2>5, <2>6, LocalStep DEF PdevVdevAttach
<1>3. CASE room
  <2>1. Moves(o, "init")
    BY <1>1, <1>3, GotoMoves DEF PdevVdevAttach, Places, CreatePC
  <2>2. Get(Parent[o]) /\ Parent[o] \in Obj /\ Parent[o] # o /\ o # Psoc
    BY <1>1, <1>3, TheObjects DEF PdevVdevAttach
  <2>3. TypeOK'
    BY <1>1, <1>3, <2>1, <2>2 DEF PdevVdevAttach, TypeOK, Moves, compVars, Get
  <2>4. \A x \in Obj : x # o => Same(x)
    BY <1>1, <1>3, <2>1 DEF PdevVdevAttach, TypeOK, Moves, Same
  <2>5. Calm(o)
    BY <1>1, <1>3, <2>1, <2>4 DEF PdevVdevAttach, TypeOK, Moves, Calm, Quiet, Live, Creating,
       CreatePC, Pc
  <2>6. ref[Parent[o]] > 0 /\ Pc(Parent[o]) \notin Unshared
    <3>1. held[Parent[o]] # {}
      BY <1>1, <2>2 DEF CreatorHolds, Creating, CreatePC, Pc
    <3>. QED BY <2>2, <3>1, UsedByOther
  <2>7. ObjFits(o)'
    BY <1>1, <1>3, <2>1, <2>2 DEF PdevVdevAttach, Get, TypeOK, Moves, ObjFits, StateFits, KindFits,
       RefFits, ListFits, Live, Owned, CreatePC, FreePC, DeletePC, Unshared, Detached, listVars, Pc
  <2>8. /\ ~IsChild(o) /\ IsChild(o)' /\ (HasOwnerRef(o)' <=> HasOwnerRef(o)) /\ o \notin Sta
        /\ o \notin Of("peer")
    BY <1>1, <1>3, <2>1, TheObjects DEF PdevVdevAttach, Moves, IsChild, HasOwnerRef, ObjFits,
       ListFits, Detached, Of, Pc
  <2>9. \A x \in Obj : Users(x)' = IF x = Parent[o] THEN Users(x) + 1 ELSE Users(x)
    <3>1. SameOwners /\ SameStas /\ SameBss /\ SameCalls /\ UNCHANGED held
          /\ \A x \in Obj : x # o => (IsChild(x)' <=> IsChild(x))
      BY <2>4, <2>8, OthersAll DEF PdevVdevAttach, SameOwners, SameStas, SameBss, SameCalls
    <3>. QED BY <1>1, <2>2, <2>8, <3>1, ChildGained
  <2>. QED BY <2>2, <2>3, <2>4, <2>5, <2>6, <2>7, <2>9, GetStep DEF PdevVdevAttach
<1>. QED BY <1>2, <1>3

\* The call that frees a peer keeps the vdev, of which the peer still is a child.
LEMMA PeerFreeHoldStep ==
  ASSUME IndInv, NEW o \in Obj, PeerFreeHold(o)
  PROVE  IndInv'
<1>1. /\ TypeOK /\ ObjFits(o) /\ Pc(o) = "vget" /\ Kind[o] = "peer" /\ o # Psoc
      /\ Parent[o] \in Obj /\ Parent[o] # o
  BY TheObjects DEF IndInv, Fits, PeerFreeHold, Is, At, Pc, ObjFits, KindFits
<1>2. Moves(o, "vdetach")
  BY <1>1, GotoMoves DEF PeerFreeHold, Places, DeletePC
<1>3. TypeOK'
  BY <1>1, <1>2 DEF PeerFreeHold, TypeOK, Moves, compVars, listVars, Get
<1>4. \A x \in Obj : x # o => Same(x)
  BY <1>1, <1>2 DEF PeerFreeHold, TypeOK, Moves, Same, listVars
<1>5. Calm(o)
  BY <1>1, <1>2, <1>4 DEF PeerFreeHold, TypeOK, Moves, Calm, Quiet, Live, Creating, CreatePC,
     IsCounted, Unshared, Owned, ObjFits, StateFits, KindFits, ListFits, FreePC, Detached, listVars,
     Pc
<1>6. o \in attached /\ IsChild(o)
  BY <1>1 DEF IsChild, ObjFits, StateFits, ListFits, Live, FreePC, Detached
<1>7. ref[Parent[o]] > 0 /\ Pc(Parent[o]) \notin Unshared
  BY <1>1, <1>6, UsedByOther DEF ChildRefs
<1>8. ObjFits(o)'
  BY <1>1, <1>2 DEF PeerFreeHold, Get, TypeOK, Moves, ObjFits, StateFits, KindFits, RefFits,
     ListFits, Live, Owned, CreatePC, FreePC, DeletePC, Unshared, Detached, listVars, Pc
<1>9. \A x \in Obj : Users(x)' = IF x = Parent[o] THEN Users(x) + 1 ELSE Users(x)
  <2>1. /\ ~KeepsVdev(o) /\ KeepsVdev(o)' /\ (HasOwnerRef(o)' <=> HasOwnerRef(o))
        /\ (IsChild(o)' <=> IsChild(o)) /\ (KeepsBss(o)' <=> KeepsBss(o))
    BY <1>1, <1>2, <1>6 DEF PeerFreeHold, Moves, IsChild, HasOwnerRef, KeepsBss, KeepsVdev,
       listVars, Pc
  <2>2. SameOwners /\ SameChildren /\ SameStas /\ SameBss /\ UNCHANGED held
        /\ \A x \in Of("peer") : x # o => (KeepsVdev(x)' <=> KeepsVdev(x))
    BY <1>4, <2>1, OthersAll DEF PeerFreeHold, SameOwners, SameChildren, SameStas, SameBss, listVars
  <2>. QED BY <1>1, <2>1, <2>2, CallGained DEF Of
<1>. QED BY <1>1, <1>3, <1>4, <1>5, <1>7, <1>8, <1>9, GetStep DEF PeerFreeHold

\* A freed peer, a freed vdev or pdev, gives up its parent.
LEMMA PeerFreePutStep ==
  ASSUME IndInv, NEW o \in Obj, PeerFreePut(o)
  PROVE  IndInv'
<1>1. /\ TypeOK /\ ObjFits(o) /\ Pc(o) = "vput" /\ Kind[o] = "peer" /\ o # Psoc
      /\ Parent[o] \in Obj /\ Parent[o] # o
  BY TheObjects DEF IndInv, Fits, PeerFreePut, Is, At, Pc, ObjFits, KindFits
<1>2. /\ ref' = [ref EXCEPT ![Parent[o]] = @ - 1]
      /\ proc' \in [Obj -> Calls]
      /\ ref[Parent[o]] = 1 => Pc(Parent[o])' = "destroy"
      /\ Pc(o)' = "psoc"
      /\ \A x \in Obj \ {o} : (x = Parent[o] /\ ref[Parent[o]] = 1) \/ Pc(x)' = Pc(x)
  BY <1>1, PutFromMoves DEF PeerFreePut, Places, DeletePC
<1>3. /\ ref[Parent[o]] > 0 /\ ref[Parent[o]] \in Nat /\ Pc(Parent[o]) \notin Unshared
      /\ ref[Parent[o]] = 1 => Pc(Parent[o]) = "idle" /\ state[Parent[o]] = "LOGICALLY_DELETED"
  <2>1. o \in ChildRefs(Parent[o])
    BY <1>1 DEF ChildRefs, IsChild, Pc
  <2>. QED BY <1>1, <2>1, UsedByOther
<1>4. TypeOK'
  BY <1>1, <1>2, <1>3 DEF PeerFreePut, TypeOK, compVars, listVars
<1>5. /\ \A x \in Obj : x # o => Same(x) \/ (x = Parent[o] /\ ref[Parent[o]] = 1 /\ Doom(Parent[o]))
      /\ ref[Parent[o]] = 1 => Doom(Parent[o])
  BY <1>1, <1>2, <1>3 DEF PeerFreePut, Same, Doom, listVars
<1>6. Calm(o)
  BY <1>1, <1>2, <1>5 DEF PeerFreePut, Calm, Quiet, Live, Creating, CreatePC, IsCounted, Unshared,
     Owned, ObjFits, StateFits, KindFits, ListFits, FreePC, Detached, listVars, Pc
<1>7. ObjFits(o)'
  BY <1>1, <1>2 DEF PeerFreePut, TypeOK, Moves, ObjFits, StateFits, KindFits, RefFits, ListFits,
     Live, Owned, CreatePC, FreePC, DeletePC, Unshared, Detached, listVars, Pc
<1>8. \A x \in Obj : Users(x)' = IF x = Parent[o] THEN Users(x) - 1 ELSE Users(x)
  <2>1. /\ IsChild(o) /\ ~IsChild(o)' /\ (HasOwnerRef(o)' <=> HasOwnerRef(o))
        /\ o \in Sta => (KeepsBss(o)' <=> KeepsBss(o))
        /\ Kind[o] = "peer" => (KeepsVdev(o)' <=> KeepsVdev(o))
    BY <1>1, <1>2, TheObjects DEF PeerFreePut, IsChild, HasOwnerRef, KeepsBss, KeepsVdev, ObjFits,
       StateFits, ListFits, FreePC, Detached, listVars, Pc
  <2>2. SameOwners /\ SameStas /\ SameBss /\ SameCalls /\ UNCHANGED held
        /\ \A x \in Obj : x # o => (IsChild(x)' <=> IsChild(x))
    BY <1>5, <2>1, OthersAll DEF PeerFreePut, SameOwners, SameStas, SameBss, SameCalls, Of, listVars
  <2>. QED BY <1>1, <2>1, <2>2, ChildLost
<1>. QED BY <1>1, <1>2, <1>3, <1>4, <1>5, <1>6, <1>7, <1>8, PutStep DEF PeerFreePut

LEMMA ParentPutStep ==
  ASSUME IndInv, NEW o \in Obj, ParentPut(o)
  PROVE  IndInv'
<1>1. /\ TypeOK /\ ObjFits(o) /\ Pc(o) = "pput" /\ Kind[o] \in {"pdev", "vdev"} /\ o # Psoc
      /\ Parent[o] \in Obj /\ Parent[o] # o
  BY TheObjects DEF IndInv, Fits, ParentPut, Is, At, Pc, ObjFits, KindFits
<1>2. /\ ref' = [ref EXCEPT ![Parent[o]] = @ - 1]
      /\ proc' \in [Obj -> Calls]
      /\ ref[Parent[o]] = 1 => Pc(Parent[o])' = "destroy"
      /\ Pc(o)' = "psoc"
      /\ \A x \in Obj \ {o} : (x = Parent[o] /\ ref[Parent[o]] = 1) \/ Pc(x)' = Pc(x)
  BY <1>1, PutFromMoves DEF ParentPut, Places, DeletePC
<1>3. /\ ref[Parent[o]] > 0 /\ ref[Parent[o]] \in Nat /\ Pc(Parent[o]) \notin Unshared
      /\ ref[Parent[o]] = 1 => Pc(Parent[o]) = "idle" /\ state[Parent[o]] = "LOGICALLY_DELETED"
  <2>1. o \in ChildRefs(Parent[o])
    BY <1>1 DEF ChildRefs, IsChild, Pc
  <2>. QED BY <1>1, <2>1, UsedByOther
<1>4. TypeOK'
  BY <1>1, <1>2, <1>3 DEF ParentPut, TypeOK, compVars, listVars
<1>5. /\ \A x \in Obj : x # o => Same(x) \/ (x = Parent[o] /\ ref[Parent[o]] = 1 /\ Doom(Parent[o]))
      /\ ref[Parent[o]] = 1 => Doom(Parent[o])
  BY <1>1, <1>2, <1>3 DEF ParentPut, Same, Doom, listVars
<1>6. Calm(o)
  BY <1>1, <1>2, <1>5 DEF ParentPut, Calm, Quiet, Live, Creating, CreatePC, IsCounted, Unshared,
     Owned, ObjFits, StateFits, KindFits, ListFits, FreePC, Detached, listVars, Pc
<1>7. ObjFits(o)'
  BY <1>1, <1>2 DEF ParentPut, TypeOK, Moves, ObjFits, StateFits, KindFits, RefFits, ListFits, Live,
     Owned, CreatePC, FreePC, DeletePC, Unshared, Detached, listVars, Pc
<1>8. \A x \in Obj : Users(x)' = IF x = Parent[o] THEN Users(x) - 1 ELSE Users(x)
  <2>1. /\ IsChild(o) /\ ~IsChild(o)' /\ (HasOwnerRef(o)' <=> HasOwnerRef(o))
        /\ o \in Sta => (KeepsBss(o)' <=> KeepsBss(o))
        /\ Kind[o] = "peer" => (KeepsVdev(o)' <=> KeepsVdev(o))
    BY <1>1, <1>2, TheObjects DEF ParentPut, IsChild, HasOwnerRef, KeepsBss, KeepsVdev, ObjFits,
       StateFits, ListFits, FreePC, Detached, listVars, Pc
  <2>2. SameOwners /\ SameStas /\ SameBss /\ SameCalls /\ UNCHANGED held
        /\ \A x \in Obj : x # o => (IsChild(x)' <=> IsChild(x))
    BY <1>5, <2>1, OthersAll DEF ParentPut, SameOwners, SameStas, SameBss, SameCalls, Of, listVars
  <2>. QED BY <1>1, <2>1, <2>2, ChildLost
<1>. QED BY <1>1, <1>2, <1>3, <1>4, <1>5, <1>6, <1>7, <1>8, PutStep DEF ParentPut

\* The call that freed a peer gives up the vdev, and may destroy it.
LEMMA PeerFreeLastStep ==
  ASSUME IndInv, NEW o \in Obj, PeerFreeLast(o)
  PROVE  IndInv'
<1>1. /\ TypeOK /\ ObjFits(o) /\ Pc(o) = "last" /\ Kind[o] = "peer" /\ o # Psoc
      /\ Parent[o] \in Obj /\ Parent[o] # o
  BY TheObjects DEF IndInv, Fits, PeerFreeLast, Is, At, Pc, ObjFits, KindFits
<1>2. /\ ref' = [ref EXCEPT ![Parent[o]] = @ - 1]
      /\ proc' \in [Obj -> Calls]
      /\ ref[Parent[o]] = 1 => Pc(Parent[o])' = "destroy"
      /\ Pc(o)' = "idle"
      /\ \A x \in Obj \ {o} : (x = Parent[o] /\ ref[Parent[o]] = 1) \/ Pc(x)' = Pc(x)
  <2> DEFINE ps == TailCall(o, IF ref[Parent[o]] = 1 THEN Parent[o] ELSE NoObj)
  <2>1. ps \in [Obj -> Calls] /\ ps[o].at = "idle" /\ \A x \in Obj : x # o => ps[x].at = Pc(x)
    BY <1>1, TailCallType
  <2>2. Put(Parent[o], ps)
    BY DEF PeerFreeLast
  <2>. QED BY <1>1, <2>1, <2>2, PutMoves DEF Pc
<1>3. /\ ref[Parent[o]] > 0 /\ ref[Parent[o]] \in Nat /\ Pc(Parent[o]) \notin Unshared
      /\ ref[Parent[o]] = 1 => Pc(Parent[o]) = "idle" /\ state[Parent[o]] = "LOGICALLY_DELETED"
  <2>1. o \in CallRefs(Parent[o])
    BY <1>1 DEF CallRefs, KeepsVdev, Of, Pc
  <2>. QED BY <1>1, <2>1, UsedByOther
<1>4. TypeOK'
  BY <1>1, <1>2, <1>3 DEF PeerFreeLast, TypeOK, compVars, listVars
<1>5. /\ \A x \in Obj : x # o => Same(x) \/ (x = Parent[o] /\ ref[Parent[o]] = 1 /\ Doom(Parent[o]))
      /\ ref[Parent[o]] = 1 => Doom(Parent[o])
  BY <1>1, <1>2, <1>3 DEF PeerFreeLast, Same, Doom, listVars
<1>6. Calm(o)
  BY <1>1, <1>2, <1>5 DEF PeerFreeLast, Calm, Quiet, Live, Creating, CreatePC, IsCounted, Unshared,
     Owned, ObjFits, StateFits, KindFits, ListFits, FreePC, Detached, listVars, Pc
<1>7. ObjFits(o)'
  BY <1>1, <1>2 DEF PeerFreeLast, TypeOK, Moves, ObjFits, StateFits, KindFits, RefFits, ListFits,
     Live, Owned, CreatePC, FreePC, DeletePC, Unshared, Detached, listVars, Pc
<1>8. \A x \in Obj : Users(x)' = IF x = Parent[o] THEN Users(x) - 1 ELSE Users(x)
  <2>1. /\ KeepsVdev(o) /\ ~KeepsVdev(o)' /\ (HasOwnerRef(o)' <=> HasOwnerRef(o))
        /\ (IsChild(o)' <=> IsChild(o)) /\ (KeepsBss(o)' <=> KeepsBss(o))
    BY <1>1, <1>2 DEF PeerFreeLast, IsChild, HasOwnerRef, KeepsBss, KeepsVdev, ObjFits, StateFits,
       ListFits, Live, Detached, listVars, Pc
  <2>2. SameOwners /\ SameChildren /\ SameStas /\ SameBss /\ UNCHANGED held
        /\ \A x \in Of("peer") : x # o => (KeepsVdev(x)' <=> KeepsVdev(x))
    BY <1>5, <2>1, OthersAll DEF PeerFreeLast, SameOwners, SameChildren, SameStas, SameBss, listVars
  <2>. QED BY <1>1, <2>1, <2>2, CallLost DEF Of
<1>. QED BY <1>1, <1>2, <1>3, <1>4, <1>5, <1>6, <1>7, <1>8, PutStep DEF PeerFreeLast

\* The peer of a station gives up the BSS peer, which is still there.
LEMMA PeerFreeBssStep ==
  ASSUME IndInv, NEW o \in Obj, PeerFreeBss(o)
  PROVE  IndInv'
<1>1. /\ TypeOK /\ ObjFits(o) /\ Pc(o) = "free" /\ Kind[o] = "peer" /\ o # Psoc
      /\ o \in attached /\ Parent[o] \in Of("vdev")
      /\ o \in Sta => bss[Parent[o]] # NoObj
  <2>1. /\ TypeOK /\ ObjFits(o) /\ Pc(o) = "free"
        /\ Kind[o] = "peer" /\ o # Psoc /\ Parent[o] \in Of("vdev")
    BY TheObjects DEF IndInv, Fits, PeerFreeBss, Is, At, Pc, Of
  <2>2. o \in attached
    BY <2>1 DEF ObjFits, StateFits, ListFits, Live, FreePC, Detached
  <2>3. o \in Sta => bss[Parent[o]] # NoObj
    BY <2>1, <2>2 DEF IndInv, Fits, StaFits
  <2>. QED BY <2>1, <2>2, <2>3
<1>2. CASE o \notin Sta
  <2>1. Moves(o, "vget")
    BY <1>1, <1>2, GotoMoves DEF PeerFreeBss, Places, CreatePC, DeletePC
  <2>2. TypeOK'
    BY <1>1, <1>2, <2>1 DEF PeerFreeBss, TypeOK, Moves, compVars, listVars
  <2>3. \A x \in Obj : x # o => Same(x)
    BY <1>1, <1>2, <2>1 DEF PeerFreeBss, TypeOK, Moves, Same, listVars
  <2>4. Calm(o)
    BY <1>1, <1>2, <2>1, <2>3, TheObjects DEF PeerFreeBss, TypeOK, Moves, Calm, Quiet, Live,
       Creating, CreatePC, IsCounted, Unshared, Owned, ObjFits, StateFits, KindFits, ListFits,
       FreePC, Detached, listVars, Pc
  <2>5. SameUse(o)
    BY <1>1, <1>2, <2>1, TheObjects DEF PeerFreeBss, TypeOK, Moves, SameUse, HasOwnerRef, IsChild,
       KeepsBss, KeepsVdev, ObjFits, StateFits, ListFits, KindFits, Live, Owned, CreatePC, FreePC,
       Detached, listVars, Pc
  <2>6. ObjFits(o)'
    BY <1>1, <1>2, <2>1, TheObjects DEF PeerFreeBss, TypeOK, Moves, ObjFits, StateFits, KindFits,
       RefFits, ListFits, Live, Owned, CreatePC, FreePC, DeletePC, Unshared, Detached, listVars, Pc
  <2>. QED BY <1>2, <2>2, <2>3, <2>4, <2>5, <2>6, LocalStep DEF PeerFreeBss
<1>3. CASE o \in Sta
  <2>1. PICK t \in Obj : t = bss[Parent[o]] /\ t # o /\ PutFrom(o, t, "vget")
    BY <1>1, <1>3, TheObjects DEF PeerFreeBss, TypeOK
  <2>2. /\ ref' = [ref EXCEPT ![t] = @ - 1]
        /\ proc' \in [Obj -> Calls]
        /\ ref[t] = 1 => Pc(t)' = "destroy"
        /\ Pc(o)' = "vget"
        /\ \A x \in Obj \ {o} : (x = t /\ ref[t] = 1) \/ Pc(x)' = Pc(x)
    BY <1>1, <1>3, <2>1, PutFromMoves DEF PeerFreeBss, Places, DeletePC
  <2>3. /\ ref[t] > 0 /\ ref[t] \in Nat /\ Pc(t) \notin Unshared
        /\ ref[t] = 1 => Pc(t) = "idle" /\ state[t] = "LOGICALLY_DELETED"
    <3>1. o \in BssRefs(t)
      BY <1>1, <1>3, <2>1 DEF BssRefs, KeepsBss, Pc
    <3>. QED BY <1>1, <1>3, <3>1, UsedByOther
  <2>4. TypeOK'
    BY <1>1, <1>3, <2>1, <2>2, <2>3 DEF PeerFreeBss, TypeOK, compVars, listVars
  <2>5. /\ \A x \in Obj : x # o => Same(x) \/ (x = t /\ ref[t] = 1 /\ Doom(t))
        /\ ref[t] = 1 => Doom(t)
    BY <1>1, <1>3, <2>1, <2>2, <2>3 DEF PeerFreeBss, Same, Doom, listVars
  <2>6. Calm(o)
    BY <1>1, <1>3, <2>1, <2>2, <2>5 DEF PeerFreeBss, Calm, Quiet, Live, Creating, CreatePC,
       IsCounted, Unshared, Owned, ObjFits, StateFits, KindFits, ListFits, FreePC, Detached,
       listVars, Pc
  <2>7. ObjFits(o)'
    BY <1>1, <1>3, <2>1, <2>2 DEF PeerFreeBss, TypeOK, Moves, ObjFits, StateFits, KindFits, RefFits,
       ListFits, Live, Owned, CreatePC, FreePC, DeletePC, Unshared, Detached, listVars, Pc
  <2>8. \A x \in Obj : Users(x)' = IF x = t THEN Users(x) - 1 ELSE Users(x)
    <3>1. /\ KeepsBss(o) /\ ~KeepsBss(o)' /\ (HasOwnerRef(o)' <=> HasOwnerRef(o))
          /\ (IsChild(o)' <=> IsChild(o)) /\ (KeepsVdev(o)' <=> KeepsVdev(o))
      BY <1>1, <1>3, <2>1, <2>2 DEF PeerFreeBss, IsChild, HasOwnerRef, KeepsBss, KeepsVdev, ObjFits,
         StateFits, FreePC, listVars, Pc
    <3>2. SameOwners /\ SameChildren /\ SameBss /\ SameCalls /\ UNCHANGED held
          /\ \A x \in Sta : x # o => (KeepsBss(x)' <=> KeepsBss(x))
      BY <2>5, <3>1, OthersAll DEF PeerFreeBss, SameOwners, SameChildren, SameBss, SameCalls,
         listVars
    <3>. QED BY <1>1, <1>3, <2>1, <3>1, <3>2, StaLost
  <2>. QED BY <1>1, <1>3, <2>1, <2>2, <2>3, <2>4, <2>5, <2>6, <2>7, <2>8, PutStep DEF PeerFreeBss
<1>. QED BY <1>2, <1>3

\* The owner of an object keeps it.
LEMMA OwnerCounts ==
  ASSUME TypeOK, NEW x \in Obj, ref[x] = Users(x), HasOwnerRef(x)
  PROVE  ref[x] \in Nat /\ ref[x] > 0
<1>1. /\ Cardinality(held[x]) \in Nat /\ Cardinality(ChildRefs(x)) \in Nat
      /\ Cardinality(BssRefs(x)) \in Nat /\ Cardinality(CallRefs(x)) \in Nat
  BY UsersNat
<1>. QED BY <1>1 DEF Users

\* An object that was not deleted is there for everybody.
LEMMA OwnedShared ==
  ASSUME IndInv, NEW x \in Obj, state[x] \in Owned
  PROVE  ref[x] > 0 /\ Pc(x) \notin Unshared
<1>1. TypeOK /\ ref[x] = Users(x) /\ HasOwnerRef(x) /\ ObjFits(x)
  BY DEF IndInv, RefExact, Fits, HasOwnerRef
<1>. QED BY <1>1, OwnerCounts DEF ObjFits, StateFits, CreatePC, Unshared, Owned

\* The peer of a station takes the BSS peer, which was not deleted.
LEMMA GetBssRefStep ==
  ASSUME IndInv, NEW o \in Obj, GetBssRef(o)
  PROVE  IndInv'
<1>1. /\ TypeOK /\ ObjFits(o) /\ Pc(o) = "bss" /\ o \in Sta /\ state[o] = "ALLOCATED"
      /\ Kind[o] = "peer" /\ o # Psoc /\ Parent[o] \in Of("vdev") /\ o \in attached
  <2>1. TypeOK /\ ObjFits(o) /\ Pc(o) = "bss"
    BY DEF IndInv, Fits, GetBssRef, Is, At, Pc
  <2>2. o \in Sta /\ state[o] = "ALLOCATED"
    BY <2>1 DEF ObjFits, KindFits, StateFits, CreatePC
  <2>3. Kind[o] = "peer" /\ o # Psoc /\ Parent[o] \in Of("vdev")
    BY <2>2, TheObjects DEF Of
  <2>4. o \in attached
    BY <2>1, <2>2, <2>3 DEF ObjFits, ListFits, Live, Detached
  <2>. QED BY <2>1, <2>2, <2>3, <2>4
<1>2. PICK t \in Obj : t = bss[Parent[o]] /\ t # o /\ state[t] \in Owned /\ Get(t)
  <2>1. bss[Parent[o]] # NoObj /\ state[bss[Parent[o]]] \in Owned
    BY <1>1 DEF IndInv, Fits, StaFits
  <2>. QED BY <1>1, <2>1, TheObjects DEF GetBssRef, TypeOK
<1>3. Moves(o, "comps")
  BY <1>1, GotoMoves DEF GetBssRef, Places, CreatePC
<1>4. TypeOK'
  <2>1. ref' = [ref EXCEPT ![t] = @ + 1] /\ ref \in [Obj -> Nat]
    BY <1>1, <1>2 DEF Get, TypeOK
  <2>2. ref' \in [Obj -> Nat]
    BY <2>1
  <2>. QED BY <1>1, <1>3, <2>2 DEF GetBssRef, TypeOK, Moves, compVars, listVars
<1>5. \A x \in Obj : x # o => Same(x)
  BY <1>1, <1>3 DEF GetBssRef, TypeOK, Moves, Same, listVars
<1>6. Calm(o)
  BY <1>1, <1>3, <1>5 DEF GetBssRef, TypeOK, Moves, Calm, Quiet, Live, Creating, CreatePC,
     IsCounted, Unshared, Owned, ObjFits, StateFits, KindFits, ListFits, FreePC, Detached, listVars,
     Pc
<1>7. ref[t] > 0 /\ Pc(t) \notin Unshared
  BY <1>2, OwnedShared
<1>8. ObjFits(o)'
  BY <1>1, <1>2, <1>3 DEF GetBssRef, Get, TypeOK, Moves, ObjFits, StateFits, KindFits, RefFits,
     ListFits, Live, Owned, CreatePC, FreePC, DeletePC, Unshared, Detached, listVars, Pc
<1>9. \A x \in Obj : Users(x)' = IF x = t THEN Users(x) + 1 ELSE Users(x)
  <2>1. /\ ~KeepsBss(o) /\ KeepsBss(o)' /\ (HasOwnerRef(o)' <=> HasOwnerRef(o))
        /\ (IsChild(o)' <=> IsChild(o)) /\ (KeepsVdev(o)' <=> KeepsVdev(o))
    BY <1>1, <1>3 DEF GetBssRef, Moves, IsChild, HasOwnerRef, KeepsBss, KeepsVdev, listVars, Pc
  <2>2. SameOwners /\ SameChildren /\ SameBss /\ SameCalls /\ UNCHANGED held
        /\ \A x \in Sta : x # o => (KeepsBss(x)' <=> KeepsBss(x))
    BY <1>5, <2>1, OthersAll DEF GetBssRef, SameOwners, SameChildren, SameBss, SameCalls, listVars
  <2>. QED BY <1>1, <1>2, <2>1, <2>2, StaGained
<1>. QED BY <1>2, <1>4, <1>5, <1>6, <1>7, <1>8, <1>9, GetStep DEF GetBssRef

\* The owner gives up its reference.
LEMMA OwnerPutStep ==
  ASSUME IndInv, NEW o \in Obj, OwnerPut(o)
  PROVE  IndInv'
<1>1. /\ TypeOK /\ ObjFits(o) /\ Pc(o) = "put" /\ state[o] = "LOGICALLY_DELETED"
      /\ \A x \in Obj : ref[x] = Users(x) /\ ObjFits(x)
  BY DEF IndInv, Fits, OwnerPut, Is, At, Pc, ObjFits, StateFits, RefExact
<1>2. /\ ref' = [ref EXCEPT ![o] = @ - 1]
      /\ proc' \in [Obj -> Calls]
      /\ Pc(o)' = IF ref[o] = 1 THEN "destroy" ELSE "idle"
      /\ \A x \in Obj : x # o => Pc(x)' = Pc(x)
  <2>1. /\ Return(o) \in [Obj -> Calls] /\ Return(o)[o].at = "idle"
        /\ \A x \in Obj : x # o => Return(o)[x].at = Pc(x)
    BY <1>1, TailCallType DEF Return
  <2>2. Put(o, Return(o))
    BY DEF OwnerPut
  <2>. QED BY <1>1, <2>1, <2>2, PutMoves
<1>3. ref[o] \in Nat /\ ref[o] > 0
  <2>1. HasOwnerRef(o)
    BY <1>1 DEF HasOwnerRef, Pc
  <2>. QED BY <1>1, <2>1, OwnerCounts
<1>4. TypeOK'
  BY <1>1, <1>2, <1>3 DEF OwnerPut, TypeOK, compVars, listVars
<1>5. \A x \in Obj : x # o => Same(x)
  BY <1>1, <1>2 DEF OwnerPut, Same, listVars
<1>6. Calm(o)
  BY <1>1, <1>2, <1>5 DEF OwnerPut, TypeOK, Moves, Calm, Quiet, Live, Creating, CreatePC, IsCounted,
     Unshared, Owned, ObjFits, StateFits, KindFits, ListFits, FreePC, Detached, listVars, Pc
<1>7. \A x \in Obj : Users(x)' = IF x = o THEN Users(x) - 1 ELSE Users(x)
  <2>1. /\ HasOwnerRef(o) /\ ~HasOwnerRef(o)'
        /\ IsChild(o)' <=> IsChild(o)
        /\ KeepsBss(o)' <=> KeepsBss(o)
        /\ KeepsVdev(o)' <=> KeepsVdev(o)
    BY <1>1, <1>2 DEF OwnerPut, HasOwnerRef, IsChild, KeepsBss, KeepsVdev, Owned, listVars, Pc
  <2>2. SameChildren /\ SameStas /\ SameBss /\ SameCalls /\ UNCHANGED held
        /\ \A x \in Obj : x # o => (HasOwnerRef(x)' <=> HasOwnerRef(x))
    BY <1>5, <2>1, OthersAll DEF OwnerPut, SameChildren, SameStas, SameBss, SameCalls, listVars
  <2>. QED BY <1>1, <2>1, <2>2, OwnerLost
<1>8. ref'[o] = ref[o] - 1 /\ \A x \in Obj : x # o => ref'[x] = ref[x]
  BY <1>1, <1>2 DEF TypeOK
<1>9. \A x \in Obj : ref'[x] = Users(x)'
  BY <1>1, <1>7, <1>8
<1>10. ObjFits(o)'
  BY <1>1, <1>2, <1>3, <1>8 DEF OwnerPut, TypeOK, Moves, ObjFits, StateFits, KindFits, RefFits,
     ListFits, Live, Owned, CreatePC, FreePC, DeletePC, Unshared, Detached, listVars, Pc
<1>11. \A x \in Obj : ObjFits(x)'
  BY <1>1, <1>5, <1>8, <1>10, SameFits
<1>. QED BY <1>4, <1>6, <1>9, <1>11, QuietHolds, CalmStep DEF OwnerPut, Calm

\* A pdev or a vdev gets the reference of its owner after it is in the lists.
LEMMA InitRefStep ==
  ASSUME IndInv, NEW o \in Obj, InitRef(o)
  PROVE  IndInv'
<1>1. /\ TypeOK /\ ObjFits(o) /\ Pc(o) = "init" /\ state[o] = "ALLOCATED" /\ ref[o] = 0
      /\ Kind[o] \in {"pdev", "vdev"} /\ \A x \in Obj : ref[x] = Users(x) /\ ObjFits(x)
  BY DEF IndInv, Fits, InitRef, Is, At, Pc, ObjFits, StateFits, KindFits, RefFits, RefExact,
     CreatePC, Unshared
<1>2. Moves(o, "comps")
  BY <1>1, GotoMoves DEF InitRef, Places, CreatePC
<1>3. TypeOK'
  BY <1>1, <1>2 DEF InitRef, TypeOK, Moves, compVars, listVars
<1>4. \A x \in Obj : x # o => Same(x)
  BY <1>1, <1>2 DEF InitRef, Moves, Same, listVars
<1>5. Calm(o)
  BY <1>1, <1>2, <1>4 DEF InitRef, TypeOK, Moves, Calm, Quiet, Live, Creating, CreatePC, IsCounted,
     Unshared, Owned, ObjFits, StateFits, KindFits, ListFits, FreePC, Detached, listVars, Pc
<1>6. \A x \in Obj : Users(x)' = IF x = o THEN Users(x) + 1 ELSE Users(x)
  <2>1. /\ ~HasOwnerRef(o) /\ HasOwnerRef(o)' /\ o \notin Sta
        /\ IsChild(o)' <=> IsChild(o)
        /\ KeepsVdev(o)' <=> KeepsVdev(o)
    BY <1>1, <1>2, TheObjects DEF InitRef, Moves, HasOwnerRef, IsChild, KeepsVdev, Owned, listVars,
       Pc
  <2>2. SameChildren /\ SameStas /\ SameBss /\ SameCalls /\ UNCHANGED held
        /\ \A x \in Obj : x # o => (HasOwnerRef(x)' <=> HasOwnerRef(x))
    BY <1>4, <2>1, OthersAll DEF InitRef, SameChildren, SameStas, SameBss, SameCalls, listVars
  <2>. QED BY <1>1, <2>1, <2>2, OwnerGained
<1>7. ref'[o] = 1 /\ \A x \in Obj : x # o => ref'[x] = ref[x]
  BY <1>1 DEF InitRef, TypeOK
<1>8. \A x \in Obj : ref'[x] = Users(x)'
  BY <1>1, <1>6, <1>7
<1>9. ObjFits(o)'
  BY <1>1, <1>2 DEF InitRef, TypeOK, Moves, ObjFits, StateFits, KindFits, RefFits, ListFits, Live,
     Owned, CreatePC, FreePC, DeletePC, Unshared, Detached, listVars, Pc
<1>10. \A x \in Obj : ObjFits(x)'
  BY <1>1, <1>4, <1>7, <1>9, SameFits
<1>. QED BY <1>3, <1>5, <1>8, <1>10, QuietHolds, CalmStep DEF InitRef, Calm

\* A creation that failed is undone; nobody else refers to the object.
LEMMA CreateUndoStep ==
  ASSUME IndInv, NEW o \in Obj, CreateUndo(o)
  PROVE  IndInv'
<1>1. /\ TypeOK /\ ObjFits(o) /\ Pc(o) = "undo" /\ state[o] = "ALLOCATED"
      /\ ref[o] = (IF Kind[o] = "peer" THEN 1 ELSE 0) /\ Kind[o] # "psoc" /\ o \notin attached
      /\ \A x \in Obj : ref[x] = Users(x) /\ ObjFits(x)
  BY DEF IndInv, Fits, CreateUndo, Is, At, Pc, ObjFits, StateFits, KindFits, RefFits, ListFits,
     RefExact, CreatePC, Unshared, Detached
<1>2. Moves(o, "idle")
  BY <1>1, ReturnMoves DEF CreateUndo
<1>3. TypeOK'
  BY <1>1, <1>2 DEF CreateUndo, TypeOK, Moves, compVars, listVars, States
<1>4. \A x \in Obj : x # o => Same(x)
  BY <1>1, <1>2 DEF CreateUndo, TypeOK, Moves, Same, listVars
<1>5. Calm(o)
  BY <1>1, <1>2, <1>4 DEF CreateUndo, TypeOK, Moves, Calm, Quiet, Live, Creating, CreatePC,
     IsCounted, Unshared, Owned, ObjFits, StateFits, KindFits, ListFits, FreePC, Detached, listVars,
     Pc
<1>6. /\ IsChild(o)' <=> IsChild(o)
      /\ KeepsBss(o)' <=> KeepsBss(o)
      /\ KeepsVdev(o)' <=> KeepsVdev(o)
      /\ HasOwnerRef(o) <=> Kind[o] = "peer"
      /\ ~HasOwnerRef(o)'
  BY <1>1, <1>2 DEF CreateUndo, TypeOK, Moves, HasOwnerRef, IsChild, KeepsBss, KeepsVdev, Owned, Pc
<1>7. /\ SameChildren /\ SameStas /\ SameBss /\ SameCalls /\ UNCHANGED held
      /\ \A x \in Obj : x # o => (HasOwnerRef(x)' <=> HasOwnerRef(x))
  BY <1>4, <1>6, OthersAll DEF CreateUndo, SameChildren, SameStas, SameBss, SameCalls
<1>8. ref'[o] = 0 /\ \A x \in Obj : x # o => ref'[x] = ref[x]
  BY <1>1 DEF CreateUndo, TypeOK
<1>9. \A x \in Obj : ref'[x] = Users(x)'
  <2>1. CASE Kind[o] = "peer"
    <3>1. \A x \in Obj : Users(x)' = IF x = o THEN Users(x) - 1 ELSE Users(x)
      BY <1>1, <1>6, <1>7, <2>1, OwnerLost
    <3>. QED BY <1>1, <1>8, <2>1, <3>1
  <2>2. CASE Kind[o] # "peer"
    <3>1. SameUsers
      BY <1>6, <1>7, <2>2 DEF SameUsers, SameOwners
    <3>. QED BY <1>1, <1>8, <2>2, <3>1, UsersSame
  <2>. QED BY <2>1, <2>2
<1>10. ObjFits(o)'
  BY <1>1, <1>2, TheObjects DEF CreateUndo, TypeOK, Moves, ObjFits, StateFits, KindFits, RefFits,
     ListFits, Live, Owned, CreatePC, FreePC, DeletePC, Unshared, Detached, listVars, Pc
<1>11. \A x \in Obj : ObjFits(x)'
  BY <1>1, <1>4, <1>8, <1>10, SameFits
<1>. QED BY <1>3, <1>5, <1>9, <1>11, QuietHolds, CalmStep DEF CreateUndo, Calm

\* A client takes a reference to a shared object.
LEMMA ClientGets ==
  ASSUME IndInv, NEW o \in Obj, NEW c \in Client, c \notin held[o],
         held' = [held EXCEPT ![o] = @ \cup {c}], Get(o), ref[o] > 0, Pc(o) \notin Unshared,
         UNCHANGED <<state, compVars, listVars, proc>>
  PROVE  IndInv'
<1>1. TypeOK /\ \A x \in Obj : ref[x] = Users(x) /\ ObjFits(x) /\ CreatorHolds(x)
  BY DEF IndInv, Fits, RefExact
<1>2. TypeOK'
  BY <1>1 DEF TypeOK, Get, compVars, listVars
<1>3. \A x \in Obj : Same(x)
  BY DEF Same, listVars, Pc
<1>4. Calm(o)
  BY <1>3 DEF Calm, Quiet, Same, Live, Creating, IsCounted, listVars, Pc
<1>5. SameOwners /\ SameChildren /\ SameStas /\ SameBss /\ SameCalls
  BY <1>3, OthersUse, TheObjects DEF SameOwners, SameChildren, SameStas, SameBss, SameCalls, Of,
     listVars
<1>6. \A x \in Obj : Users(x)' = IF x = o THEN Users(x) + 1 ELSE Users(x)
  BY <1>1, <1>5, ClientGained
<1>7. ref'[o] = ref[o] + 1 /\ ref'[o] # 0 /\ ref[o] # 0 /\ \A x \in Obj : x # o => ref'[x] = ref[x]
  BY <1>1 DEF Get, TypeOK
<1>8. \A x \in Obj : ref'[x] = Users(x)'
  BY <1>1, <1>6, <1>7
<1>9. \A x \in Obj : ObjFits(x)'
  BY <1>1, <1>3, <1>7, SameFits, SharedFits
<1>10. \A x \in Obj : CreatorHolds(x)'
  BY <1>1, <1>3 DEF CreatorHolds, Creating, Same, TypeOK, Pc
<1>. QED BY <1>2, <1>4, <1>8, <1>9, <1>10, CalmStep

\* A lookup of an open object, and one that does not look at the state.
LEMMA LookupStep ==
  ASSUME IndInv, NEW o \in Obj, NEW c \in Client, Lookup(c, o)
  PROVE  IndInv'
<1>1. ref[o] > 0 /\ Pc(o) \notin Unshared
  BY OwnedShared DEF Lookup, Owned
<1>. QED BY <1>1, ClientGets DEF Lookup, MayHold

LEMMA LookupNoStateStep ==
  ASSUME IndInv, NEW o \in Obj, NEW c \in Client, LookupNoState(c, o)
  PROVE  IndInv'
<1>1. ObjFits(o) /\ ref[o] > 0 /\ (o # Psoc => o \in attached)
  BY DEF IndInv, Fits, LookupNoState
<1>2. Pc(o) \notin Unshared
  <2>1. CASE o = Psoc
    BY <1>1, <2>1, TheObjects DEF ObjFits, KindFits, Unshared
  <2>2. CASE o # Psoc
    <3>1. Pc(o) \in Unshared => Pc(o) = "init"
      BY <1>1, <2>2 DEF ObjFits, ListFits, Unshared, Detached
    <3>2. Pc(o) # "init"
      BY <1>1 DEF ObjFits, KindFits, RefFits, Unshared
    <3>. QED BY <3>1, <3>2
  <2>. QED BY <2>1, <2>2
<1>. QED BY <1>1, <1>2, ClientGets DEF LookupNoState, MayHold

\* A client gives up what it looked up, and may destroy it.
LEMMA ReleaseStep ==
  ASSUME IndInv, NEW o \in Obj, NEW c \in Client, Release(c, o)
  PROVE  IndInv'
<1>1. TypeOK /\ c \in held[o] /\ \A x \in Obj : ref[x] = Users(x) /\ ObjFits(x) /\ CreatorHolds(x)
  BY DEF IndInv, Fits, RefExact, Release
<1>2. /\ ref[o] > 0 /\ ref[o] \in Nat /\ Pc(o) \notin Unshared
      /\ ref[o] = 1 => Pc(o) = "idle" /\ state[o] = "LOGICALLY_DELETED"
  BY <1>1, UsedByOther
<1>3. /\ ref' = [ref EXCEPT ![o] = @ - 1]
      /\ proc' \in [Obj -> Calls]
      /\ ref[o] = 1 => Pc(o)' = "destroy"
      /\ \A x \in Obj : (x = o /\ ref[o] = 1) \/ Pc(x)' = Pc(x)
  <2>1. proc \in [Obj -> Calls] /\ Put(o, proc)
    BY <1>1 DEF Release, TypeOK
  <2>. QED BY <1>1, <2>1, PutMoves DEF Pc
<1>4. TypeOK'
  <2>1. ref' \in [Obj -> Nat]
    BY <1>1, <1>2, <1>3 DEF TypeOK
  <2>2. held' \in [Obj -> SUBSET Client]
    BY <1>1 DEF Release, TypeOK
  <2>. QED BY <1>1, <1>3, <2>1, <2>2 DEF Release, TypeOK, compVars, listVars
<1>5. (\A x \in Obj : x # o => Same(x)) /\ (IF ref[o] = 1 THEN Doom(o) ELSE Same(o))
  BY <1>2, <1>3 DEF Release, Same, Doom, listVars
<1>6. Calm(o)
  BY <1>1, <1>2, <1>3, <1>5 DEF Release, Calm, Quiet, Live, Creating, IsCounted, CreatePC, Unshared,
     listVars, Pc
<1>7. \A x \in Obj : Users(x)' = IF x = o THEN Users(x) - 1 ELSE Users(x)
  <2>1. SameOwners /\ SameChildren /\ SameStas /\ SameBss /\ SameCalls
    BY <1>5, OthersUse, TheObjects DEF Release, SameOwners, SameChildren, SameStas, SameBss,
       SameCalls, Of, listVars
  <2>. QED BY <1>1, <2>1, ClientLost DEF Release
<1>8. ref'[o] = ref[o] - 1 /\ \A x \in Obj : x # o => ref'[x] = ref[x]
  BY <1>1, <1>3 DEF TypeOK
<1>9. \A x \in Obj : ref'[x] = Users(x)'
  BY <1>1, <1>7, <1>8
<1>10. ObjFits(o)'
  <2>1. CASE ref[o] = 1
    BY <1>1, <1>2, <1>5, <1>8, <2>1, DoomFits
  <2>2. CASE ref[o] # 1
    <3>1. ref'[o] # 0 /\ ref[o] # 0
      BY <1>2, <1>8, <2>2
    <3>. QED BY <1>1, <1>2, <1>5, <2>2, <3>1, SharedFits
  <2>. QED BY <2>1, <2>2
<1>11. \A x \in Obj : ObjFits(x)'
  BY <1>1, <1>5, <1>8, <1>10, SameFits
<1>12. ASSUME NEW x \in Obj PROVE CreatorHolds(x)'
  <2>1. SUFFICES ASSUME Creating(x)', x # Psoc PROVE held'[Parent[x]] # {}
    BY DEF CreatorHolds
  <2>2. Creating(x)
    BY <1>3, <1>5, <2>1 DEF Creating, CreatePC, Same, Doom, Pc
  <2>3. held[Parent[x]] # {} /\ Parent[x] \in Obj
    BY <1>1, <2>1, <2>2, TheObjects DEF CreatorHolds, Kinds
  <2>4. CASE Parent[x] = o
    <3>1. held[o] # {c}
      BY <2>2, <2>4 DEF Release
    <3>2. held'[o] = held[o] \ {c}
      BY <1>1 DEF Release, TypeOK
    <3>. QED BY <1>1, <2>4, <3>1, <3>2
  <2>5. CASE Parent[x] # o
    BY <1>1, <2>3, <2>5 DEF Release, TypeOK
  <2>. QED BY <2>4, <2>5
<1>. QED BY <1>4, <1>6, <1>9, <1>11, <1>12, CalmStep

-----------------------------------------------------------------------------
\* A pdev counts one peer more, or one less.
LEMMA CountGained ==
  ASSUME IndInv, NEW o \in Of("peer"), ~IsCounted(o), IsCounted(o)',
         \A x \in Obj : x # o => Same(x), peers[Parent[Parent[o]]] < MaxPdevPeers,
         peers' = [peers EXCEPT ![Parent[Parent[o]]] = @ + 1]
  PROVE  PeersExact'
<1>1. /\ TypeOK /\ \A x \in Of("peer") : x # o => (IsCounted(x)' <=> IsCounted(x))
      /\ PeersExact /\ MaxPdevPeers \in Nat
  BY ConstantsAssumption DEF IndInv, RefExact, PeersExact, Same, IsCounted, Pc, Of
<1>. SUFFICES ASSUME NEW d \in Of("pdev")
              PROVE  peers'[d] = Cardinality(Counted(d)') /\ peers'[d] <= MaxPdevPeers
  BY DEF PeersExact
<1>2. peers[d] \in Nat /\ peers[d] = Cardinality(Counted(d)) /\ peers[d] <= MaxPdevPeers
  BY <1>1 DEF PeersExact, TypeOK
<1>3. CASE d = Parent[Parent[o]]
  <2>1. Counted(d)' = Counted(d) \cup {o} /\ o \notin Counted(d)
    BY <1>1, <1>3 DEF Counted
  <2>2. IsFiniteSet(Counted(d))
    BY Finite DEF Counted, Of
  <2>3. Cardinality(Counted(d)') = Cardinality(Counted(d)) + 1
    BY <2>1, <2>2, OneMore
  <2>4. peers'[d] = peers[d] + 1
    BY <1>1, <1>3 DEF TypeOK
  <2>. QED BY <1>1, <1>2, <1>3, <2>3, <2>4
<1>4. CASE d # Parent[Parent[o]]
  <2>1. Counted(d)' = Counted(d)
    BY <1>1, <1>4 DEF Counted
  <2>2. peers'[d] = peers[d]
    BY <1>1, <1>4 DEF TypeOK
  <2>. QED BY <1>2, <2>1, <2>2
<1>. QED BY <1>3, <1>4

LEMMA CountLost ==
  ASSUME IndInv, NEW o \in Of("peer"), IsCounted(o), ~IsCounted(o)',
         \A x \in Obj : x # o => Same(x),
         peers' = [peers EXCEPT ![Parent[Parent[o]]] = @ - 1]
  PROVE  PeersExact' /\ peers' \in [Of("pdev") -> Nat]
<1>1. /\ TypeOK /\ \A x \in Of("peer") : x # o => (IsCounted(x)' <=> IsCounted(x))
      /\ PeersExact /\ MaxPdevPeers \in Nat
  BY ConstantsAssumption DEF IndInv, RefExact, PeersExact, Same, IsCounted, Pc, Of
<1>2. ASSUME NEW d \in Of("pdev")
      PROVE  peers'[d] \in Nat /\ peers'[d] = Cardinality(Counted(d)') /\ peers'[d] <= MaxPdevPeers
  <2>1. peers[d] \in Nat /\ peers[d] = Cardinality(Counted(d)) /\ peers[d] <= MaxPdevPeers
    BY <1>1 DEF PeersExact, TypeOK
  <2>2. CASE d = Parent[Parent[o]]
    <3>1. Counted(d)' = Counted(d) \ {o} /\ o \in Counted(d)
      BY <1>1, <2>2 DEF Counted
    <3>2. IsFiniteSet(Counted(d)) /\ IsFiniteSet(Counted(d)') /\ Cardinality(Counted(d)') \in Nat
      BY Finite DEF Counted, Of
    <3>3. Cardinality(Counted(d)') = Cardinality(Counted(d)) - 1
      BY <3>1, <3>2, OneLess
    <3>4. peers'[d] = peers[d] - 1
      BY <1>1, <2>2 DEF TypeOK
    <3>. QED BY <1>1, <2>1, <3>2, <3>3, <3>4
  <2>3. CASE d # Parent[Parent[o]]
    <3>1. Counted(d)' = Counted(d)
      BY <1>1, <2>3 DEF Counted
    <3>2. peers'[d] = peers[d]
      BY <1>1, <2>3 DEF TypeOK
    <3>. QED BY <2>1, <3>1, <3>2
  <2>. QED BY <2>2, <2>3
<1>. QED BY <1>1, <1>2 DEF PeersExact, TypeOK

\* A peer is counted before it is in the list of its vdev,
LEMMA PdevPeerCountStep ==
  ASSUME IndInv, NEW o \in Obj, PdevPeerCount(o)
  PROVE  IndInv'
<1> DEFINE full == peers[Parent[Parent[o]]] >= MaxPdevPeers
<1>1. TypeOK /\ ObjFits(o) /\ Pc(o) = "count" /\ Kind[o] = "peer"
  BY DEF IndInv, Fits, PdevPeerCount, Is, At, Pc, ObjFits, KindFits
<1>2. CASE full
  <2>1. Moves(o, "undo")
    BY <1>1, <1>2, GotoMoves DEF PdevPeerCount, Places, CreatePC, DeletePC
  <2>2. TypeOK'
    BY <1>1, <1>2, <2>1 DEF PdevPeerCount, TypeOK, Moves, compVars, listVars
  <2>3. \A x \in Obj : x # o => Same(x)
    BY <1>1, <1>2, <2>1 DEF PdevPeerCount, TypeOK, Moves, Same, listVars
  <2>4. Calm(o)
    BY <1>1, <1>2, <2>1, <2>3, TheObjects DEF PdevPeerCount, TypeOK, Moves, Calm, Quiet, Live,
       Creating, CreatePC, IsCounted, Unshared, Owned, ObjFits, StateFits, KindFits, ListFits,
       FreePC, Detached, listVars, Pc
  <2>5. SameUse(o)
    BY <1>1, <1>2, <2>1, TheObjects DEF PdevPeerCount, TypeOK, Moves, SameUse, HasOwnerRef, IsChild,
       KeepsBss, KeepsVdev, ObjFits, StateFits, ListFits, KindFits, Live, Owned, CreatePC, FreePC,
       Detached, listVars, Pc
  <2>6. ObjFits(o)'
    BY <1>1, <1>2, <2>1, TheObjects DEF PdevPeerCount, TypeOK, Moves, ObjFits, StateFits, KindFits,
       RefFits, ListFits, Live, Owned, CreatePC, FreePC, DeletePC, Unshared, Detached, listVars, Pc
  <2>. QED BY <1>2, <2>2, <2>3, <2>4, <2>5, <2>6, LocalStep DEF PdevPeerCount
<1>3. CASE ~full
  <2>1. Moves(o, "add") /\ peers' = [peers EXCEPT ![Parent[Parent[o]]] = @ + 1]
    BY <1>1, <1>3, GotoMoves DEF PdevPeerCount, Places, CreatePC
  <2>2. Parent[Parent[o]] \in Of("pdev")
    BY <1>1, TheObjects DEF Of
  <2>3. TypeOK'
    BY <1>1, <2>1, <2>2 DEF PdevPeerCount, TypeOK, Moves, compVars
  <2>4. \A x \in Obj : x # o => Same(x)
    BY <1>1, <2>1 DEF PdevPeerCount, TypeOK, Moves, Same
  <2>5. Quiet(o)
    BY <1>1, <2>1, <2>4 DEF PdevPeerCount, TypeOK, Moves, Quiet, Live, Creating, CreatePC,
       IsCounted, Unshared, Owned, ObjFits, StateFits, KindFits, ListFits, FreePC, Detached,
       listVars, Pc
  <2>6. SameUse(o)
    BY <1>1, <2>1 DEF PdevPeerCount, SameUse, TypeOK, Moves, HasOwnerRef, IsChild, KeepsBss,
       KeepsVdev, ObjFits, StateFits, ListFits, KindFits, Live, Owned, CreatePC, FreePC, Detached,
       listVars, Pc
  <2>7. ObjFits(o)'
    BY <1>1, <2>1 DEF PdevPeerCount, TypeOK, Moves, ObjFits, StateFits, KindFits, RefFits, ListFits,
       Live, Owned, CreatePC, FreePC, DeletePC, Unshared, Detached, listVars, Pc
  <2>8. ~IsCounted(o) /\ IsCounted(o)'
    BY <1>1, <2>1 DEF Moves, IsCounted, ObjFits, ListFits, Detached, Pc
  <2>9. peers[Parent[Parent[o]]] < MaxPdevPeers
    BY <1>1, <1>3, <2>2, ConstantsAssumption DEF TypeOK
  <2>10. PeersExact'
    BY <1>1, <2>1, <2>4, <2>8, <2>9, CountGained DEF Of
  <2>. QED BY <2>3, <2>4, <2>5, <2>6, <2>7, <2>10, QuietLocalStep DEF PdevPeerCount
<1>. QED BY <1>2, <1>3

\* and until it has left it.
LEMMA PdevPeerUncountStep ==
  ASSUME IndInv, NEW o \in Obj, PdevPeerUncount(o)
  PROVE  IndInv'
<1>1. TypeOK /\ ObjFits(o) /\ Pc(o) = "uncount" /\ Kind[o] = "peer"
  BY DEF IndInv, Fits, PdevPeerUncount, Is, At, Pc, ObjFits, KindFits
<1>2. Moves(o, "vput")
  BY <1>1, GotoMoves DEF PdevPeerUncount, Places, DeletePC
<1>3. \A x \in Obj : x # o => Same(x)
  BY <1>1, <1>2 DEF PdevPeerUncount, TypeOK, Moves, Same
<1>4. IsCounted(o) /\ ~IsCounted(o)'
  BY <1>1, <1>2 DEF PdevPeerUncount, Moves, IsCounted, ObjFits, ListFits, Detached, Pc
<1>5. PeersExact' /\ peers' \in [Of("pdev") -> Nat]
  BY <1>1, <1>3, <1>4, CountLost DEF PdevPeerUncount, Of
<1>6. TypeOK'
  BY <1>1, <1>2, <1>5 DEF PdevPeerUncount, TypeOK, Moves, compVars
<1>7. Quiet(o)
  BY <1>1, <1>2, <1>3 DEF PdevPeerUncount, TypeOK, Moves, Quiet, Live, Creating, CreatePC,
     IsCounted, Unshared, Owned, ObjFits, StateFits, KindFits, ListFits, FreePC, Detached, listVars,
     Pc
<1>8. SameUse(o)
  BY <1>1, <1>2 DEF PdevPeerUncount, SameUse, TypeOK, Moves, HasOwnerRef, IsChild, KeepsBss,
     KeepsVdev, ObjFits, StateFits, ListFits, KindFits, Live, Owned, CreatePC, FreePC, Detached,
     listVars, Pc
<1>9. ObjFits(o)'
  BY <1>1, <1>2 DEF PdevPeerUncount, TypeOK, Moves, ObjFits, StateFits, KindFits, RefFits, ListFits,
     Live, Owned, CreatePC, FreePC, DeletePC, Unshared, Detached, listVars, Pc
<1>. QED BY <1>3, <1>5, <1>6, <1>7, <1>8, <1>9, QuietLocalStep DEF PdevPeerUncount

-----------------------------------------------------------------------------
\* The peers of the BSS and of the stations, and their vdevs.
LEMMA Siblings2 ==
  /\ \A x \in Sta \cup Bss : x \in Obj /\ Kind[x] = "peer" /\ Parent[x] \in Of("vdev") /\ x # Psoc
  /\ \A x, y \in Sta \cup Bss : x # y /\ Parent[x] = Parent[y] => y \in Siblings(x)
  /\ \A x \in Sta : x \notin Bss
BY TheObjects DEF Siblings, Of

\* The peers of a pdev are counted as before.
LEMMA CountSame ==
  ASSUME IndInv, UNCHANGED peers, \A x \in Of("peer") : IsCounted(x)' <=> IsCounted(x)
  PROVE  PeersExact'
<1>1. \A d \in Of("pdev") : Counted(d)' = Counted(d)
  BY DEF Counted
<1>. QED BY <1>1 DEF IndInv, RefExact, PeersExact

\* A deletion: the BSS peer after its stations, the psoc after its vdevs.
LEMMA ObjDeleteStep ==
  ASSUME IndInv, NEW o \in Obj, ObjDelete(o)
  PROVE  IndInv'
<1>1. /\ TypeOK /\ Pc(o) = "idle" /\ state[o] \in Owned /\ BssFits /\ \A x \in Sta : StaFits(x)
      /\ \A x \in Obj : ref[x] = Users(x) /\ ObjFits(x) /\ CreatorHolds(x)
  BY DEF IndInv, RefExact, Fits, ObjDelete, Idle, Pc
<1>2. Moves(o, "put") /\ state' = [state EXCEPT ![o] = "LOGICALLY_DELETED"]
  BY <1>1, GotoMoves DEF ObjDelete, Places, DeletePC
<1>3. TypeOK'
  BY <1>1, <1>2 DEF ObjDelete, TypeOK, Moves, compVars, listVars, States
<1>4. /\ \A x \in Obj : x # o => Same(x)
      /\ state'[o] = "LOGICALLY_DELETED" /\ \A x \in Obj : x # o => state'[x] = state[x]
  BY <1>1, <1>2 DEF ObjDelete, TypeOK, Moves, Same, listVars
<1>5. SameUsers
  <2>1. SameUse(o)
    BY <1>1, <1>2 DEF ObjDelete, TypeOK, Moves, SameUse, HasOwnerRef, IsChild, KeepsBss, KeepsVdev,
       listVars, Pc
  <2>. QED BY <1>4, <2>1, OthersUse, TheObjects DEF ObjDelete, SameUsers, SameOwners, SameChildren,
     SameStas, SameBss, SameCalls, SameUse, Of, listVars
<1>6. \A x \in Obj : ref'[x] = Users(x)'
  BY <1>1, <1>5, UsersSame DEF ObjDelete
<1>7. \A x \in Obj : ObjFits(x)'
  <2>1. ObjFits(o)'
    BY <1>1, <1>2, <1>4 DEF ObjDelete, Moves, ObjFits, StateFits, KindFits, RefFits, ListFits, Live,
       Owned, CreatePC, FreePC, DeletePC, Unshared, Detached, listVars, Pc
  <2>. QED BY <1>1, <1>4, <2>1, SameFits DEF ObjDelete
<1>8. \A x \in Obj : CreatorHolds(x)'
  BY <1>1, <1>2 DEF ObjDelete, CreatorHolds, Creating, CreatePC, Moves, Pc
<1>9. PeersExact'
  BY <1>1, <1>2, CountSame DEF ObjDelete, IsCounted, Moves, Of, listVars, Pc
<1>10. /\ UNCHANGED <<bss, attached>>
       /\ \A x \in Obj : (Live(x)' <=> Live(x)) /\ (Pc(x)' \in Unshared => Pc(x) \in Unshared)
  BY <1>1, <1>2, <1>4 DEF ObjDelete, Moves, Live, Owned, Unshared, listVars
<1>11. BssFits'
  BY <1>1, <1>10, Siblings2 DEF BssFits, Siblings
<1>12. ASSUME NEW x \in Sta PROVE StaFits(x)'
  <2>1. StaFits(x) /\ x \in Obj /\ Parent[x] \in Of("vdev")
    BY <1>1, Siblings2
  <2>2. bss[Parent[x]] # NoObj => bss[Parent[x]] \in Bss /\ Parent[bss[Parent[x]]] = Parent[x]
    BY <1>1, <2>1 DEF TypeOK, BssFits
  <2>3. ASSUME state'[x] \in Owned \cup {"ALLOCATED"}
        PROVE  bss'[Parent[x]] # NoObj /\ state'[bss'[Parent[x]]] \in Owned
    <3>1. x # o /\ state[x] \in Owned \cup {"ALLOCATED"}
      BY <1>4, <2>1, <2>3 DEF Owned
    <3>2. bss[Parent[x]] # NoObj /\ state[bss[Parent[x]]] \in Owned
      BY <2>1, <3>1 DEF StaFits
    <3>3. bss[Parent[x]] = o => x \in Siblings(o) /\ o \in Bss
      BY <2>2, <3>1, <3>2, Siblings2
    <3>4. bss[Parent[x]] # o
      BY <3>1, <3>3 DEF ObjDelete, MayDelete, Owned
    <3>. QED BY <1>4, <1>10, <2>2, <3>2, <3>4, Siblings2
  <2>4. Pc(x) \in {"vget", "vdetach"} => Pc(x)' \in {"vget", "vdetach"}
    BY <1>1, <1>2, <2>1 DEF Moves
  <2>. QED BY <1>10, <2>1, <2>3, <2>4 DEF StaFits
<1>13. PsocThere'
  <2>1. \A x \in Of("vdev") : Live(x)' => Live(x)
    BY <1>10 DEF Of
  <2>2. CASE o = Psoc
    BY <2>1, <2>2 DEF ObjDelete, MayDelete, PsocThere
  <2>3. CASE o # Psoc
    BY <1>4, <2>1, <2>3, TheObjects DEF IndInv, PsocThere
  <2>. QED BY <2>2, <2>3
<1>. QED BY <1>3, <1>6, <1>7, <1>8, <1>9, <1>11, <1>12, <1>13, AnyStep

\* A peer leaves the list of its vdev; nobody refers to a BSS peer that does.
LEMMA VdevPeerDetachStep ==
  ASSUME IndInv, NEW o \in Obj, VdevPeerDetach(o)
  PROVE  IndInv'
<1>1. /\ TypeOK /\ Pc(o) = "vdetach" /\ BssFits /\ \A x \in Sta : StaFits(x)
      /\ \A x \in Obj : ref[x] = Users(x) /\ ObjFits(x) /\ CreatorHolds(x)
  BY DEF IndInv, RefExact, Fits, VdevPeerDetach, Is, At, Pc
<1>2. /\ Kind[o] = "peer" /\ o # Psoc /\ Parent[o] \in Of("vdev") /\ o \in attached /\ ref[o] = 0
      /\ state[o] \notin Owned \cup {"ALLOCATED"}
  <2>1. Kind[o] = "peer" /\ ref[o] = 0 /\ state[o] \in {"LOGICALLY_DELETED", "DELETED"}
    BY <1>1 DEF ObjFits, StateFits, KindFits, RefFits, FreePC, DeletePC
  <2>2. o # Psoc /\ Parent[o] \in Of("vdev")
    BY <2>1, TheObjects DEF Of
  <2>. QED BY <1>1, <2>1, <2>2 DEF ObjFits, ListFits, Live, Detached, Owned
<1>3. Moves(o, "uncount")
  BY <1>1, GotoMoves DEF VdevPeerDetach, Places, DeletePC
<1>4. /\ \A v \in Of("vdev") : bss'[v] = IF bss[v] = o THEN NoObj ELSE bss[v]
      /\ bss' \in [Of("vdev") -> Bss \cup {NoObj}]
  <2>1. \A v \in Of("vdev") : bss[v] = o => v = Parent[o]
    BY <1>1, TheObjects DEF BssFits
  <2>. QED BY <1>1, <1>2, <2>1 DEF VdevPeerDetach, TypeOK
<1>5. TypeOK'
  BY <1>1, <1>3, <1>4 DEF VdevPeerDetach, TypeOK, Moves, compVars
<1>6. \A x \in Obj : x # o => Same(x)
  BY <1>1, <1>3 DEF VdevPeerDetach, Moves, Same
<1>7. /\ IsChild(o)' <=> IsChild(o)
      /\ HasOwnerRef(o)' <=> HasOwnerRef(o)
      /\ ~KeepsBss(o)' /\ ~KeepsBss(o)
      /\ KeepsVdev(o)' <=> KeepsVdev(o)
      /\ IsCounted(o)' <=> IsCounted(o)
  BY <1>1, <1>2, <1>3 DEF VdevPeerDetach, Moves, HasOwnerRef, IsChild, KeepsBss, KeepsVdev,
     IsCounted, Pc
<1>8. SameUsers
  <2>1. BssRefs(o) = {}
    <3>1. BssRefs(o) # {} => ref[o] > 0
      BY UsedByOther
    <3>. QED BY <1>2, <3>1
  <2>2. ASSUME NEW x \in Sta, KeepsBss(x) PROVE bss[Parent[x]] # o
    BY <2>1, <2>2 DEF BssRefs
  <2>3. SameStas /\ SameOwners /\ SameChildren /\ SameCalls
    BY <1>6, <1>7, OthersAll DEF SameStas, SameOwners, SameChildren, SameCalls
  <2>4. SameBss
    BY <1>4, <2>2, <2>3, Siblings2 DEF SameBss, SameStas
  <2>. QED BY <2>3, <2>4 DEF VdevPeerDetach, SameUsers
<1>9. \A x \in Obj : ref'[x] = Users(x)'
  BY <1>1, <1>8, UsersSame DEF VdevPeerDetach
<1>10. \A x \in Obj : ObjFits(x)'
  <2>1. ObjFits(o)'
    BY <1>1, <1>2, <1>3 DEF VdevPeerDetach, Moves, ObjFits, StateFits, KindFits, RefFits, ListFits,
       Live, Owned, CreatePC, FreePC, DeletePC, Unshared, Detached, listVars, Pc
  <2>. QED BY <1>1, <1>6, <2>1, SameFits DEF VdevPeerDetach
<1>11. \A x \in Obj : CreatorHolds(x)'
  BY <1>1, <1>3 DEF VdevPeerDetach, CreatorHolds, Creating, CreatePC, Moves, Pc
<1>12. PeersExact'
  <2>1. \A x \in Of("peer") : IsCounted(x)' <=> IsCounted(x)
    BY <1>6, <1>7 DEF Same, IsCounted, Of, Pc
  <2>. QED BY <2>1, CountSame DEF VdevPeerDetach
<1>13. /\ UNCHANGED state /\ \A x \in Obj : Live(x)' <=> Live(x)
       /\ \A x \in Obj : Pc(x)' \in Unshared => Pc(x) \in Unshared
  BY <1>1, <1>3 DEF VdevPeerDetach, Live, Moves, Unshared
<1>14. BssFits'
  <2>1. ASSUME NEW v \in Of("vdev"), bss'[v] # NoObj
        PROVE  bss'[v] \in attached' /\ Parent[bss'[v]] = v
    BY <1>1, <1>4, <2>1 DEF VdevPeerDetach, BssFits
  <2>2. \A x \in Bss \cap attached' : bss'[Parent[x]] = x
    BY <1>1, <1>4, Siblings2 DEF VdevPeerDetach, BssFits
  <2>3. ASSUME NEW x \in Bss, NEW y \in Siblings(x) PROVE
          /\ y \in Bss /\ Live(x)' => ~Live(y)'
          /\ y \in Sta /\ Pc(x)' \in Unshared => ~Live(y)'
    BY <1>1, <1>13, Siblings2 DEF BssFits
  <2>. QED BY <2>1, <2>2, <2>3 DEF BssFits
<1>15. ASSUME NEW x \in Sta PROVE StaFits(x)'
  <2>1. StaFits(x) /\ x \in Obj /\ Parent[x] \in Of("vdev")
    BY <1>1, Siblings2
  <2>2. ASSUME state'[x] \in Owned \cup {"ALLOCATED"}
        PROVE  bss'[Parent[x]] # NoObj /\ state'[bss'[Parent[x]]] \in Owned
    BY <1>2, <1>4, <1>13, <2>1, <2>2 DEF StaFits
  <2>3. ASSUME x \in attached', Pc(x)' \notin {"vget", "vdetach"} PROVE bss'[Parent[x]] # NoObj
    <3>1. x # o /\ x \in attached /\ Pc(x)' = Pc(x)
      BY <1>3, <2>1, <2>3 DEF VdevPeerDetach, Moves
    <3>2. bss[Parent[x]] # NoObj
      BY <2>1, <2>3, <3>1 DEF StaFits
    <3>3. CASE KeepsBss(x)
      BY <1>2, <1>4, <1>8, <2>1, <3>2, <3>3 DEF SameUsers, SameBss
    <3>4. CASE ~KeepsBss(x)
      <4>1. Pc(x) = "bss"
        BY <2>3, <3>1, <3>4 DEF KeepsBss, Pc
      <4>2. state[x] = "ALLOCATED"
        BY <1>1, <2>1, <4>1 DEF ObjFits, StateFits, CreatePC
      <4>. QED BY <1>13, <2>2, <4>2
    <3>. QED BY <3>3, <3>4
  <2>. QED BY <2>1, <2>2, <2>3 DEF StaFits
<1>16. PsocThere'
  BY <1>13 DEF IndInv, PsocThere, Of
<1>. QED BY <1>5, <1>9, <1>10, <1>11, <1>12, <1>14, <1>15, <1>16, AnyStep

\* A peer enters the list of its vdev, the BSS peer before every other.
LEMMA VdevPeerAttachStep ==
  ASSUME IndInv, NEW o \in Obj, VdevPeerAttach(o)
  PROVE  IndInv'
<1>1. /\ TypeOK /\ Pc(o) = "add" /\ Kind[o] = "peer" /\ BssFits /\ \A x \in Sta : StaFits(x)
      /\ \A x \in Obj : ref[x] = Users(x) /\ ObjFits(x) /\ CreatorHolds(x)
  BY DEF IndInv, RefExact, Fits, VdevPeerAttach, Is, At, Pc
<1>2. /\ o # Psoc /\ Parent[o] \in Of("vdev") /\ Parent[o] \in Obj /\ Parent[o] # o
      /\ o \notin attached /\ state[o] = "ALLOCATED" /\ Live(o)
  <2>1. o # Psoc /\ Parent[o] \in Of("vdev") /\ Parent[o] \in Obj /\ Parent[o] # o
    BY <1>1, TheObjects DEF Of
  <2>. QED BY <1>1, <2>1 DEF ObjFits, StateFits, ListFits, Live, CreatePC, Detached
<1>3. PICK l \in {"bss", "comps"} : Moves(o, l) /\ (l = "bss" <=> o \in Sta)
  BY <1>1, GotoMoves DEF VdevPeerAttach, Places, CreatePC
<1>4. /\ \A v \in Of("vdev") : bss'[v] = IF o \in Bss /\ v = Parent[o] THEN o ELSE bss[v]
      /\ bss' \in [Of("vdev") -> Bss \cup {NoObj}]
  BY <1>1, <1>2 DEF VdevPeerAttach, TypeOK
<1>5. /\ ref' \in [Obj -> Nat] /\ ref'[Parent[o]] = ref[Parent[o]] + 1
      /\ \A x \in Obj : x # Parent[o] => ref'[x] = ref[x]
  BY <1>1, <1>2 DEF VdevPeerAttach, Get, TypeOK
<1>6. TypeOK'
  BY <1>1, <1>3, <1>4, <1>5 DEF VdevPeerAttach, TypeOK, Moves, compVars
<1>7. \A x \in Obj : x # o => Same(x)
  BY <1>1, <1>3 DEF VdevPeerAttach, Moves, Same
\* A BSS peer enters a vdev that has no other peer.
<1>8. ASSUME o \in Bss, NEW x \in Sta \cup Bss, x # o, Parent[x] = Parent[o]
      PROVE  ~Live(x) /\ x \notin attached
  <2>1. x \in Siblings(o) /\ x \in Obj
    BY <1>8, Siblings2
  <2>2. ~Live(x)
    BY <1>1, <1>2, <1>8, <2>1 DEF BssFits, Unshared
  <2>. QED BY <1>1, <2>1, <2>2 DEF ObjFits, ListFits
<1>9. \A x \in Obj : Users(x)' = IF x = Parent[o] THEN Users(x) + 1 ELSE Users(x)
  <2>1. /\ ~IsChild(o) /\ IsChild(o)'
        /\ HasOwnerRef(o)' <=> HasOwnerRef(o)
        /\ o \in Sta => ~KeepsBss(o) /\ ~KeepsBss(o)'
        /\ KeepsVdev(o)' <=> KeepsVdev(o)
    BY <1>1, <1>2, <1>3 DEF VdevPeerAttach, Moves, IsChild, HasOwnerRef, KeepsBss, KeepsVdev, Pc
  <2>2. SameOwners /\ SameStas /\ SameCalls
        /\ \A x \in Obj : x # o => (IsChild(x)' <=> IsChild(x))
    BY <1>7, <2>1, OthersAll DEF SameOwners, SameStas, SameCalls
  <2>3. ASSUME NEW x \in Sta, KeepsBss(x) PROVE bss'[Parent[x]] = bss[Parent[x]]
    <3>1. x \in attached /\ x # o
      BY <1>2, <2>3 DEF KeepsBss
    <3>. QED BY <1>4, <1>8, <3>1, Siblings2
  <2>4. SameBss
    BY <2>2, <2>3 DEF SameBss, SameStas
  <2>. QED BY <1>1, <2>1, <2>2, <2>4, ChildGained DEF VdevPeerAttach
<1>10. \A x \in Obj : ref'[x] = Users(x)'
  BY <1>1, <1>5, <1>9
<1>11. \A x \in Obj : ObjFits(x)'
  <2>1. ref[Parent[o]] > 0 /\ Pc(Parent[o]) \notin Unshared
    <3>1. held[Parent[o]] # {}
      BY <1>1, <1>2 DEF CreatorHolds, Creating, CreatePC, Pc
    <3>. QED BY <1>2, <3>1, UsedByOther
  <2>2. ref[Parent[o]] # 0 /\ ref'[Parent[o]] # 0
    BY <1>1, <1>2, <1>5, <2>1 DEF TypeOK
  <2>3. ObjFits(Parent[o])'
    BY <1>1, <1>2, <1>7, <2>1, <2>2, SharedFits
  <2>4. ObjFits(o)'
    BY <1>1, <1>2, <1>3, <1>5 DEF VdevPeerAttach, Moves, ObjFits, StateFits, KindFits, RefFits,
       ListFits, Live, CreatePC, FreePC, DeletePC, Unshared, Detached
  <2>. QED BY <1>1, <1>5, <1>7, <2>3, <2>4, SameFits
<1>12. \A x \in Obj : CreatorHolds(x)'
  BY <1>1, <1>3 DEF VdevPeerAttach, CreatorHolds, Creating, CreatePC, Moves, Pc
<1>13. PeersExact'
  <2>1. \A x \in Of("peer") : IsCounted(x)' <=> IsCounted(x)
    BY <1>1, <1>3 DEF VdevPeerAttach, Moves, IsCounted, Of, Pc
  <2>. QED BY <2>1, CountSame DEF VdevPeerAttach
<1>14. /\ UNCHANGED state /\ \A x \in Obj : Live(x)' <=> Live(x)
       /\ \A x \in Obj : Pc(x)' \in Unshared => Pc(x) \in Unshared
  BY <1>1, <1>3 DEF VdevPeerAttach, Live, Moves, Unshared
<1>15. BssFits'
  <2>1. ASSUME NEW v \in Of("vdev"), bss'[v] # NoObj
        PROVE  bss'[v] \in attached' /\ Parent[bss'[v]] = v
    BY <1>1, <1>4, <2>1 DEF VdevPeerAttach, BssFits
  <2>2. ASSUME NEW x \in Bss \cap attached' PROVE bss'[Parent[x]] = x
    <3>1. CASE x = o
      BY <1>2, <1>4, <3>1
    <3>2. CASE x # o
      <4>1. x \in attached /\ bss[Parent[x]] = x /\ Parent[x] \in Of("vdev")
        BY <1>1, <2>2, <3>2, Siblings2 DEF VdevPeerAttach, BssFits
      <4>. QED BY <1>4, <1>8, <3>2, <4>1
    <3>. QED BY <3>1, <3>2
  <2>3. ASSUME NEW x \in Bss, NEW y \in Siblings(x) PROVE
          /\ y \in Bss /\ Live(x)' => ~Live(y)'
          /\ y \in Sta /\ Pc(x)' \in Unshared => ~Live(y)'
    BY <1>1, <1>14, Siblings2 DEF BssFits
  <2>. QED BY <2>1, <2>2, <2>3 DEF BssFits
<1>16. ASSUME NEW x \in Sta PROVE StaFits(x)'
  <2>1. StaFits(x) /\ x \in Obj /\ Parent[x] \in Of("vdev") /\ (o \in Bss => x # o)
    BY <1>1, Siblings2
  <2>2. Live(x) => bss'[Parent[x]] = bss[Parent[x]]
    BY <1>4, <1>8, <2>1
  <2>3. ASSUME state'[x] \in Owned \cup {"ALLOCATED"}
        PROVE  bss'[Parent[x]] # NoObj /\ state'[bss'[Parent[x]]] \in Owned
    BY <1>14, <2>1, <2>2, <2>3 DEF StaFits, Live, Owned
  <2>4. ASSUME x \in attached', Pc(x)' \notin {"vget", "vdetach"} PROVE bss'[Parent[x]] # NoObj
    <3>1. CASE x = o
      BY <1>2, <1>14, <2>3, <3>1
    <3>2. CASE x # o
      <4>1. x \in attached /\ Pc(x)' = Pc(x) /\ Live(x)
        BY <1>1, <1>3, <2>1, <2>4, <3>2 DEF VdevPeerAttach, Moves, ObjFits, ListFits
      <4>. QED BY <2>1, <2>2, <2>4, <4>1 DEF StaFits
    <3>. QED BY <3>1, <3>2
  <2>. QED BY <2>3, <2>4 DEF StaFits
<1>17. PsocThere'
  BY <1>14 DEF IndInv, PsocThere, Of
<1>. QED BY <1>6, <1>10, <1>11, <1>12, <1>13, <1>15, <1>16, <1>17, AnyStep

\* A new object: the BSS peer on a vdev without peers, a station while it is there.
LEMMA ObjCreateStep ==
  ASSUME IndInv, NEW o \in Obj, ObjCreate(o)
  PROVE  IndInv'
<1>1. /\ TypeOK /\ Pc(o) = "idle" /\ ~Live(o) /\ MayCreate(o) /\ BssFits /\ \A x \in Sta : StaFits(x)
      /\ \A x \in Obj : ref[x] = Users(x) /\ ObjFits(x) /\ CreatorHolds(x)
  BY DEF IndInv, RefExact, Fits, ObjCreate, Idle, Pc
<1>2. ref[o] = 0 /\ o \notin attached /\ o \notin listed /\ state[o] = "NONE"
  BY <1>1 DEF ObjFits, RefFits, ListFits, Live
<1>3. Moves(o, IF o = Psoc THEN "comps" ELSE "table")
  BY <1>1, GotoMoves DEF ObjCreate, Places, CreatePC
<1>4. /\ state'[o] = "ALLOCATED" /\ \A x \in Obj : x # o => state'[x] = state[x]
      /\ ref'[o] = (IF Kind[o] \in {"peer", "psoc"} THEN 1 ELSE 0)
      /\ \A x \in Obj : x # o => ref'[x] = ref[x]
      /\ state' \in [Obj -> States] /\ ref' \in [Obj -> Nat]
  BY <1>1 DEF ObjCreate, TypeOK, States
<1>5. TypeOK'
  BY <1>1, <1>3, <1>4 DEF ObjCreate, TypeOK, Moves, compVars, listVars
<1>6. \A x \in Obj : x # o => Same(x)
  BY <1>3, <1>4 DEF ObjCreate, Moves, Same, listVars
<1>7. /\ IsChild(o)' <=> IsChild(o)
      /\ KeepsBss(o)' <=> KeepsBss(o)
      /\ KeepsVdev(o)' <=> KeepsVdev(o)
      /\ IsCounted(o)' <=> IsCounted(o)
      /\ ~HasOwnerRef(o) /\ (HasOwnerRef(o)' <=> Kind[o] \in {"peer", "psoc"})
  BY <1>1, <1>2, <1>3, <1>4, TheObjects DEF ObjCreate, Moves, HasOwnerRef, IsChild, KeepsBss,
     KeepsVdev, IsCounted, Owned, listVars, Pc
<1>8. SameChildren /\ SameStas /\ SameBss /\ SameCalls /\ UNCHANGED held
      /\ \A x \in Obj : x # o => (HasOwnerRef(x)' <=> HasOwnerRef(x))
  BY <1>6, <1>7, OthersAll DEF ObjCreate, SameChildren, SameStas, SameBss, SameCalls, listVars
<1>9. \A x \in Obj : ref'[x] = Users(x)'
  <2>1. CASE Kind[o] \in {"peer", "psoc"}
    <3>1. \A x \in Obj : Users(x)' = IF x = o THEN Users(x) + 1 ELSE Users(x)
      BY <1>1, <1>7, <1>8, <2>1, OwnerGained
    <3>. QED BY <1>1, <1>2, <1>4, <2>1, <3>1
  <2>2. CASE Kind[o] \notin {"peer", "psoc"}
    <3>1. SameUsers
      BY <1>7, <1>8, <2>2 DEF SameUsers, SameOwners
    <3>. QED BY <1>1, <1>2, <1>4, <2>2, <3>1, UsersSame
  <2>. QED BY <2>1, <2>2
<1>10. \A x \in Obj : ObjFits(x)'
  <2>1. ObjFits(o)'
    BY <1>2, <1>3, <1>4, TheObjects DEF ObjCreate, Moves, ObjFits, StateFits, KindFits, RefFits,
       ListFits, Live, CreatePC, FreePC, DeletePC, Unshared, Detached, listVars
  <2>. QED BY <1>1, <1>4, <1>6, <2>1, SameFits
<1>11. \A x \in Obj : CreatorHolds(x)'
  <2>1. CreatorHolds(o)'
    BY DEF ObjCreate, CreatorHolds
  <2>2. \A x \in Obj : x # o => CreatorHolds(x)'
    BY <1>1, <1>3 DEF ObjCreate, CreatorHolds, Creating, Moves, Pc
  <2>. QED BY <2>1, <2>2
<1>12. PeersExact'
  <2>1. \A x \in Of("peer") : IsCounted(x)' <=> IsCounted(x)
    BY <1>6, <1>7 DEF Same, IsCounted, Of, Pc
  <2>. QED BY <2>1, CountSame DEF ObjCreate, listVars
<1>13. /\ UNCHANGED <<bss, attached>> /\ Pc(o)' \notin {"vget", "vdetach"}
       /\ \A x \in Obj : x # o => (Live(x)' <=> Live(x)) /\ Pc(x)' = Pc(x)
  BY <1>3, <1>4 DEF ObjCreate, Live, Moves, listVars
<1>14. BssFits'
  <2>1. ASSUME NEW x \in Bss, NEW y \in Siblings(x)
        PROVE  /\ y \in Bss /\ Live(x)' => ~Live(y)'
               /\ y \in Sta /\ Pc(x)' \in Unshared => ~Live(y)'
    <3>1. x \in Obj /\ y \in Obj /\ x # y /\ Parent[x] = Parent[y] /\ Parent[x] \in Of("vdev")
      BY Siblings2 DEF Siblings
    <3>2. CASE x = o
      <4>1. o \in Bss /\ y \in Siblings(o)
        BY <3>2
      <4>2. ~Live(y)
        BY <1>1, <4>1 DEF MayCreate
      <4>. QED BY <1>13, <3>1, <3>2, <4>2
    <3>3. CASE y = o /\ y \in Bss
      <4>1. x \in Siblings(o)
        BY <3>1, <3>3 DEF Siblings
      <4>2. ~Live(x)
        BY <1>1, <3>3, <4>1 DEF MayCreate
      <4>. QED BY <1>13, <3>1, <3>3, <4>2, Siblings2
    <3>4. CASE y = o /\ y \in Sta
      <4>1. PICK b \in Bss : b = bss[Parent[o]] /\ state[b] = "CREATED"
        BY <1>1, <3>1, <3>4 DEF MayCreate, TypeOK
      <4>2. Parent[b] = Parent[x] /\ b \in Obj /\ Live(b)
        BY <1>1, <3>1, <3>4, <4>1, Siblings2, TheObjects DEF BssFits, Live
      <4>3. Pc(x) \notin Unshared
        <5>1. CASE x = b
          BY <1>1, <4>1, <4>2, <5>1 DEF ObjFits, StateFits, CreatePC, Unshared
        <5>2. CASE x # b
          <6>1. ~Live(x)
            BY <1>1, <4>2, <5>2, Siblings2 DEF BssFits
          <6>. QED BY <1>1, <3>1, <6>1 DEF ObjFits, StateFits, CreatePC, Unshared, Live
        <5>. QED BY <5>1, <5>2
      <4>. QED BY <1>13, <3>1, <3>4, <4>3, Siblings2
    <3>5. CASE x # o /\ y # o
      BY <1>1, <1>13, <3>1, <3>5 DEF BssFits
    <3>. QED BY <3>2, <3>3, <3>4, <3>5
  <2>2. /\ \A v \in Of("vdev") : bss'[v] # NoObj => bss'[v] \in attached' /\ Parent[bss'[v]] = v
        /\ \A x \in Bss \cap attached' : bss'[Parent[x]] = x
    BY <1>1, <1>13 DEF BssFits
  <2>. QED BY <2>1, <2>2 DEF BssFits
<1>15. ASSUME NEW x \in Sta PROVE StaFits(x)'
  <2>1. StaFits(x) /\ x \in Obj /\ Parent[x] \in Of("vdev")
    BY <1>1, Siblings2
  <2>2. bss[Parent[x]] # NoObj => bss[Parent[x]] # o /\ bss[Parent[x]] \in Obj
    BY <1>1, <1>2, <2>1, TheObjects DEF BssFits, TypeOK
  <2>3. CASE x = o
    BY <1>1, <1>2, <1>4, <1>13, <2>2, <2>3 DEF StaFits, MayCreate, Owned
  <2>4. CASE x # o
    BY <1>4, <1>13, <2>1, <2>2, <2>4 DEF StaFits
  <2>. QED BY <2>3, <2>4
<1>16. PsocThere'
  <2>1. SUFFICES ASSUME PsocLast, NEW v \in Of("vdev"), Live(v)' PROVE state'[Psoc] \in Owned
    BY DEF PsocThere
  <2>2. state[Psoc] \in Owned
    <3>1. CASE v = o
      <4>1. Kind[o] = "vdev"
        BY <3>1 DEF Of
      <4>. QED BY <1>1, <2>1, <4>1 DEF MayCreate
    <3>2. CASE v # o
      <4>1. Live(v)
        BY <1>13, <2>1, <3>2 DEF Of
      <4>. QED BY <2>1, <4>1 DEF IndInv, PsocThere
    <3>. QED BY <3>1, <3>2
  <2>3. Psoc # o
    BY <1>2, <2>2 DEF Owned
  <2>. QED BY <1>4, <2>2, <2>3, TheObjects
<1>. QED BY <1>5, <1>9, <1>10, <1>11, <1>12, <1>14, <1>15, <1>16, AnyStep

-----------------------------------------------------------------------------
\* Nothing is there at first.
LEMMA InitInv == Init => IndInv
<1>. SUFFICES ASSUME Init PROVE IndInv
  OBVIOUS
<1>1. TypeOK
  BY DEF Init, TypeOK, States, Calls, Idle
<1>2. \A x \in Obj : /\ Pc(x) = "idle" /\ state[x] = "NONE" /\ ref[x] = 0
                    /\ held[x] = {} /\ x \notin attached
  BY DEF Init, Idle, Pc
<1>3. \A x \in Obj : ref[x] = Users(x)
  <2>1. ASSUME NEW x \in Obj PROVE Users(x) = 0
    <3>1. ~HasOwnerRef(x)
      BY <1>2 DEF HasOwnerRef, Owned, Pc
    <3>2. ChildRefs(x) = {} /\ BssRefs(x) = {} /\ CallRefs(x) = {} /\ held[x] = {}
      BY <1>2, TheObjects DEF ChildRefs, IsChild, BssRefs, KeepsBss, CallRefs, KeepsVdev, Of, Pc
    <3>. QED BY <3>1, <3>2, FS_EmptySet DEF Users
  <2>. QED BY <1>2, <2>1
<1>4. \A d \in Of("pdev") : peers[d] = Cardinality(Counted(d)) /\ peers[d] <= MaxPdevPeers
  <2>1. \A d \in Of("pdev") : Counted(d) = {} /\ peers[d] = 0
    BY <1>2 DEF Counted, IsCounted, Of, Pc, Init
  <2>. QED BY SMTT(30), <2>1, FS_EmptySet, ConstantsAssumption
<1>5. \A x \in Obj : ObjFits(x) /\ CreatorHolds(x)
  BY <1>2 DEF Init, ObjFits, StateFits, KindFits, RefFits, ListFits, CreatorHolds, Creating,
     CreatePC, FreePC, DeletePC, Unshared, Live, Pc
<1>6. BssFits
  BY <1>2, Siblings2 DEF Init, BssFits, Siblings, Live
<1>7. \A x \in Sta : StaFits(x)
  BY <1>2, Siblings2 DEF StaFits, Owned
<1>8. PsocThere
  BY <1>2 DEF PsocThere, Live, Of
<1>. QED BY <1>1, <1>3, <1>4, <1>5, <1>6, <1>7, <1>8 DEF IndInv, RefExact, Fits

\* Every step keeps the invariant.
LEMMA NextInv == IndInv /\ [Next]_vars => IndInv'
<1>. SUFFICES ASSUME IndInv, [Next]_vars PROVE IndInv'
  OBVIOUS
<1>1. CASE UNCHANGED vars
  <2>1. Psoc \in Obj /\ CompOp(Psoc) /\ CompTypes'
    BY <1>1, TheObjects DEF vars, compVars, listVars, CompOp, CompTypes, IndInv, TypeOK
  <2>. QED BY <2>1, CompOpStep
<1>2. ASSUME NEW o \in Obj, ObjCreate(o) PROVE IndInv'
  BY <1>2, ObjCreateStep
<1>3. ASSUME NEW o \in Obj, CreateStep(o) PROVE IndInv'
  BY <1>3, PsocAttachStep, VdevPeerCheckStep, PdevPeerCountStep, VdevPeerAttachStep,
     PdevVdevAttachStep, CreateUndoStep, InitRefStep, GetBssRefStep, CreateCompsStep, CreateDoneStep
     DEF CreateStep
<1>4. ASSUME NEW o \in Obj, ObjDelete(o) PROVE IndInv'
  BY <1>4, ObjDeleteStep
<1>5. ASSUME NEW o \in Obj, DeleteStep(o) PROVE IndInv'
  BY <1>5, OwnerPutStep, ObjDestroyStep, DestroyDoneStep, PeerFreeBssStep, PeerFreeHoldStep,
     VdevPeerDetachStep, PdevPeerUncountStep, PeerFreePutStep, PsocDetachStep, PeerFreeLastStep,
     VdevFreeStep, PdevFreeStep, ParentPutStep, PsocFreeStep DEF DeleteStep
<1>6. ASSUME NEW o \in Obj, CompStep(o) PROVE IndInv'
  BY <1>6, CompAttachStep, CompDetachStep, TriggerCreationStep, TriggerDeletionStep DEF CompStep
<1>7. ASSUME NEW o \in Obj, NEW c \in Client, Lookup(c, o) \/ LookupNoState(c, o) \/ Release(c, o)
      PROVE  IndInv'
  BY <1>7, LookupStep, LookupNoStateStep, ReleaseStep
<1>. QED BY <1>1, <1>2, <1>3, <1>4, <1>5, <1>6, <1>7 DEF Next

(***************************************************************************)
(* The inductive invariant: the counters are exact, and what every call    *)
(* has left behind at the place it has got to fits its object.             *)
(***************************************************************************)
THEOREM Inductive == Spec => []IndInv
<1>1. Init => IndInv
  BY InitInv
<1>2. IndInv /\ [Next]_vars => IndInv'
  BY NextInv
<1>. QED BY <1>1, <1>2, PTL DEF Spec

(***************************************************************************)
(* Every variable keeps its type: in particular no reference counter and   *)
(* no peer counter goes below zero.                                        *)
(***************************************************************************)
THEOREM TypeCorrect == Spec => []TypeOK
<1>1. IndInv => TypeOK
  BY DEF IndInv
<1>. QED BY <1>1, Inductive, PTL

(***************************************************************************)
(* The reference counter of every object is the number of its users, for   *)
(* every interleaving of creations, deletions, frees and lookups of any    *)
(* number of objects and clients, and a pdev counts its peers exactly and  *)
(* within its limit.                                                       *)
(***************************************************************************)
THEOREM CountersExact == Spec => []RefExact
<1>1. IndInv => RefExact
  BY DEF IndInv
<1>. QED BY <1>1, Inductive, PTL

-----------------------------------------------------------------------------
\* A child, a creator and a call that keeps the vdev are users of the parent.
LEMMA ParentUsed ==
  ASSUME IndInv, NEW o \in Obj, o # Psoc,
         IsChild(o) \/ Creating(o) \/ (Kind[o] = "peer" /\ KeepsVdev(o))
  PROVE  /\ Parent[o] \in Obj /\ Live(Parent[o])
         /\ \/ held[Parent[o]] # {} \/ ChildRefs(Parent[o]) # {}
            \/ BssRefs(Parent[o]) # {} \/ CallRefs(Parent[o]) # {}
<1>1. Parent[o] \in Obj
  BY TheObjects DEF Kinds
<1>2. CASE IsChild(o)
  <2>1. o \in ChildRefs(Parent[o])
    BY <1>2 DEF ChildRefs
  <2>. QED BY <1>1, <2>1, UsedByOther
<1>3. CASE Creating(o)
  <2>1. held[Parent[o]] # {}
    BY <1>3 DEF IndInv, Fits, CreatorHolds
  <2>. QED BY <1>1, <2>1, UsedByOther
<1>4. CASE Kind[o] = "peer" /\ KeepsVdev(o)
  <2>1. o \in CallRefs(Parent[o])
    BY <1>4 DEF CallRefs, Of
  <2>. QED BY <1>1, <2>1, UsedByOther
<1>. QED BY <1>2, <1>3, <1>4

\* An object that somebody other than its owner uses is in its parent's list.
LEMMA UsedAttached ==
  ASSUME IndInv, NEW x \in Obj, x # Psoc,
         held[x] # {} \/ ChildRefs(x) # {} \/ BssRefs(x) # {} \/ CallRefs(x) # {}
  PROVE  x \in attached /\ Live(Parent[x])
<1>1. ref[x] > 0 /\ Live(x) /\ Pc(x) \notin Unshared /\ ObjFits(x)
  BY UsedByOther DEF IndInv, Fits
<1>2. Pc(x) \notin DeletePC \ {"put"}
  BY <1>1 DEF ObjFits, RefFits
<1>3. x \in attached
  BY <1>1, <1>2 DEF ObjFits, ListFits, Detached, DeletePC, Unshared
<1>. QED BY <1>3, ParentUsed DEF IsChild

\* The next step of every call finds the objects it uses.
LEMMA TouchedLive ==
  ASSUME IndInv, PsocLast, NEW o \in Obj, NEW x \in Touches(o)
  PROVE  Live(x)
<1>1. TypeOK /\ ObjFits(o) /\ BssFits
  BY DEF IndInv, Fits
<1>2. Pc(o) # "idle" /\ Pc(o) \in CreatePC \cup DeletePC
  BY <1>1 DEF Touches, TypeOK, Calls, Pc
<1>3. \/ x = o /\ Pc(o) # "last"
      \/ x = Parent[o] /\ x # NoObj
         /\ Pc(o) \in {"check", "add", "bss", "vget", "vdetach", "vput", "last", "pput", "free"}
      \/ x = Parent[Parent[o]] /\ Pc(o) \in {"count", "uncount"}
      \/ x = Psoc /\ Pc(o) \in {"table", "undo", "psoc"} /\ Kind[o] \in {"peer", "vdev"}
      \/ x = bss[Parent[o]] /\ x # NoObj /\ o \in Sta
  BY TheObjects DEF Touches, Pc
<1>4. CASE x = o /\ Pc(o) # "last"
  BY <1>1, <1>2, <1>4 DEF ObjFits, StateFits, CreatePC, DeletePC, FreePC, Live
<1>5. CASE x = Parent[o] /\ x # NoObj
           /\ Pc(o) \in {"check", "add", "bss", "vget", "vdetach", "vput", "last", "pput", "free"}
  <2>1. o # Psoc
    BY <1>5, ConstantsAssumption
  <2>2. IsChild(o) \/ Creating(o) \/ (Kind[o] = "peer" /\ KeepsVdev(o))
    BY <1>1, <1>5, <2>1 DEF IsChild, Creating, CreatePC, KeepsVdev, ObjFits, StateFits, KindFits,
       ListFits, Live, FreePC, Detached, Pc
  <2>. QED BY <1>5, <2>1, <2>2, ParentUsed
<1>6. CASE x = Parent[Parent[o]] /\ Pc(o) \in {"count", "uncount"}
  <2>1. Kind[o] = "peer" /\ o # Psoc /\ Parent[o] # Psoc
    BY <1>1, <1>6, TheObjects DEF ObjFits, KindFits
  <2>2. IsChild(o) \/ Creating(o)
    BY <1>6 DEF IsChild, Creating, CreatePC, Pc
  <2>3. Live(Parent[Parent[o]])
    BY <2>1, <2>2, ParentUsed, UsedAttached
  <2>. QED BY <1>6, <2>3
<1>7. CASE x = Psoc /\ Pc(o) \in {"table", "undo", "psoc"} /\ Kind[o] \in {"peer", "vdev"}
  <2>1. \E v \in Of("vdev") : Live(v)
    <3>1. CASE Kind[o] = "vdev"
      <4>1. Live(o)
        BY <1>1, <1>7 DEF ObjFits, StateFits, CreatePC, FreePC, Live
      <4>. QED BY <3>1, <4>1 DEF Of
    <3>2. CASE Kind[o] = "peer"
      <4>1. o # Psoc /\ Parent[o] \in Of("vdev")
        BY <3>2, TheObjects DEF Of
      <4>2. Creating(o) \/ KeepsVdev(o)
        BY <1>7 DEF Creating, CreatePC, KeepsVdev, Pc
      <4>. QED BY <3>2, <4>1, <4>2, ParentUsed
    <3>. QED BY <1>7, <3>1, <3>2
  <2>2. state[Psoc] \in Owned
    BY <2>1 DEF IndInv, PsocThere
  <2>. QED BY <1>7, <2>2 DEF Live, Owned
<1>8. CASE x = bss[Parent[o]] /\ x # NoObj /\ o \in Sta
  <2>1. x \in attached /\ x \in Obj
    BY <1>1, <1>8, Siblings2 DEF BssFits, TypeOK
  <2>. QED BY <2>1 DEF IndInv, Fits, ObjFits, ListFits
<1>. QED BY <1>3, <1>4, <1>5, <1>6, <1>7, <1>8

(***************************************************************************)
(* When vdevs are gone before the psoc is deleted, no call, client, list   *)
(* or BSS pointer ever leads to an object that was freed.                  *)
(***************************************************************************)
THEOREM NothingDangles == ASSUME PsocLast PROVE Spec => []NoUseAfterFree
<1>1. ASSUME IndInv PROVE NoUseAfterFree
  <2>1. TypeOK /\ BssFits /\ (\A x \in Sta : StaFits(x)) /\ \A o \in Obj : ObjFits(o)
    BY <1>1 DEF IndInv, Fits
  <2>2. \A o \in Obj : (held[o] # {} => Live(o)) /\ \A x \in Touches(o) : Live(x)
    BY <1>1, UsedByOther, TouchedLive
  <2>3. \A o \in listed \cup attached : Live(o)
    BY <2>1 DEF TypeOK, ObjFits, ListFits
  <2>4. ASSUME NEW o \in attached PROVE Live(Parent[o])
    <3>1. o \in Obj /\ o # Psoc
      BY <2>1 DEF TypeOK, ObjFits, ListFits
    <3>. QED BY <1>1, <3>1, ParentUsed DEF IsChild
  <2>5. \A o \in Of("vdev") : bss[o] # NoObj => bss[o] \in attached
    BY <2>1 DEF BssFits
  <2>6. \A o \in Sta \cap attached : proc[o].at \notin {"vget", "vdetach"} => bss[Parent[o]] # NoObj
    BY <2>1 DEF StaFits, Pc
  <2>. QED BY <2>2, <2>3, <2>4, <2>5, <2>6 DEF NoUseAfterFree
<1>. QED BY <1>1, Inductive, PTL

-----------------------------------------------------------------------------
(***************************************************************************)
(* The refinement of ObjLife, object by object.                            *)
(***************************************************************************)
LifeStep(x) == [Life(x)!Next]_(Life(x)!lifeVars)

\* An object whose state and counter stay, one that is taken, one that is given up.
LEMMA LifeStays ==
  ASSUME NEW x \in Obj, state'[x] = state[x], ref'[x] = ref[x]
  PROVE  LifeStep(x)
BY DEF LifeStep, Life!lifeVars, LifePhase, Live

LEMMA LifeTakes ==
  ASSUME NEW x \in Obj, state'[x] = state[x], ref[x] \in Nat, ref[x] > 0, ref'[x] = ref[x] + 1
  PROVE  LifeStep(x)
<1>1. LifePhase(x)' = LifePhase(x)
  BY DEF LifePhase, Live
<1>. QED BY <1>1 DEF LifeStep, Life!Next, Life!Take

LEMMA LifeDrops ==
  ASSUME NEW x \in Obj, state'[x] = state[x], ref[x] \in Nat, ref'[x] \in Nat, ref'[x] = ref[x] - 1,
         ref[x] = 1 => state[x] = "LOGICALLY_DELETED"
  PROVE  LifeStep(x)
<1>1. CASE ref[x] = 1
  <2>1. LifePhase(x) = "closed" /\ LifePhase(x)' = "dying"
    BY <1>1 DEF LifePhase, Live, Owned
  <2>. QED BY <1>1, <2>1 DEF LifeStep, Life!Next, Life!DropLast, Life!Move
<1>2. CASE ref[x] # 1
  <2>1. LifePhase(x)' = LifePhase(x)
    BY <1>2 DEF LifePhase, Live
  <2>2. ref[x] > 1
    BY <1>2
  <2>. QED BY <2>1, <2>2 DEF LifeStep, Life!Next, Life!Drop
<1>. QED BY <1>1, <1>2

\* Steps that move a reference to t and change no state.
LEMMA GetLife ==
  ASSUME IndInv, NEW t \in Obj, Get(t), UNCHANGED state, ref[t] > 0
  PROVE  \A x \in Obj : LifeStep(x)
<1>1. ref \in [Obj -> Nat]
  BY DEF IndInv, TypeOK
<1>2. ref'[t] = ref[t] + 1 /\ ref[t] \in Nat /\ \A x \in Obj : x # t => ref'[x] = ref[x]
  BY <1>1 DEF Get
<1>3. LifeStep(t)
  BY <1>2, LifeTakes
<1>. QED BY <1>2, <1>3, LifeStays

LEMMA PutLife ==
  ASSUME IndInv, IndInv', NEW t \in Obj, NEW ps, Put(t, ps), UNCHANGED state
  PROVE  \A x \in Obj : LifeStep(x)
<1>1. ref \in [Obj -> Nat] /\ ref' \in [Obj -> Nat] /\ proc' \in [Obj -> Calls] /\ ObjFits(t)'
  BY DEF IndInv, TypeOK, Fits
<1>2. /\ ref'[t] = ref[t] - 1 /\ ref[t] \in Nat /\ ref'[t] \in Nat
      /\ \A x \in Obj : x # t => ref'[x] = ref[x]
  BY <1>1 DEF Put
<1>3. ASSUME ref[t] = 1 PROVE state[t] = "LOGICALLY_DELETED"
  <2>1. proc' = [ps EXCEPT ![t] = At("destroy")]
    BY <1>3 DEF Put
  <2>2. DOMAIN proc' = DOMAIN ps /\ DOMAIN proc' = Obj
    BY <1>1, <2>1
  <2>3. Pc(t)' = "destroy"
    BY <2>1, <2>2 DEF Pc, At
  <2>. QED BY <1>1, <2>3 DEF ObjFits, StateFits
<1>4. LifeStep(t)
  BY <1>2, <1>3, LifeDrops
<1>. QED BY <1>2, <1>4, LifeStays

\* Steps that move no reference of an object other than o.
LEMMA OwnLife ==
  ASSUME NEW o \in Obj, LifeStep(o),
         \A x \in Obj : x # o => state'[x] = state[x] /\ ref'[x] = ref[x]
  PROVE  \A x \in Obj : LifeStep(x)
BY LifeStays

\* The steps of a creation, of a deletion and of all the others.
LEMMA CreateLife ==
  ASSUME IndInv, IndInv', NEW o \in Obj, ObjCreate(o) \/ CreateStep(o)
  PROVE  \A x \in Obj : LifeStep(x)
<1>1. /\ state \in [Obj -> States] /\ ref \in [Obj -> Nat] /\ ObjFits(o) /\ TypeOK
      /\ ref[o] = Users(o) /\ CreatorHolds(o)
  BY DEF IndInv, RefExact, Fits, TypeOK
<1>2. CASE ObjCreate(o)
  <2>1. LifePhase(o) = "absent" /\ ref[o] = 0
    BY <1>1, <1>2 DEF ObjCreate, LifePhase, ObjFits, RefFits, Live, Owned
  <2>2. LifePhase(o)' = "building" /\ ref'[o] \in {0, 1}
    <3>1. state'[o] = "ALLOCATED" /\ ref'[o] \in {0, 1}
      BY <1>1, <1>2 DEF ObjCreate
    <3>. QED BY <3>1 DEF LifePhase, Live, Owned
  <2>3. LifeStep(o)
    BY <2>1, <2>2 DEF LifeStep, Life!Next, Life!Alloc, Life!Move
  <2>4. \A x \in Obj : x # o => state'[x] = state[x] /\ ref'[x] = ref[x]
    BY <1>1, <1>2 DEF ObjCreate
  <2>. QED BY <2>3, <2>4, OwnLife
<1>3. CASE PsocAttach(o) \/ PdevVdevAttach(o) \/ VdevPeerAttach(o)
  <2>1. CASE UNCHANGED ref
    BY <1>3, <2>1, LifeStays DEF PsocAttach, PdevVdevAttach, VdevPeerAttach
  <2>2. CASE ~UNCHANGED ref
    <3>1. Get(Parent[o]) /\ UNCHANGED state /\ Creating(o) /\ Kind[o] # "psoc"
      BY <1>1, <1>3, <2>2, TheObjects DEF PsocAttach, PdevVdevAttach, VdevPeerAttach, Is, At,
         Creating, CreatePC, ObjFits, KindFits, Pc
    <3>2. Parent[o] \in Obj /\ held[Parent[o]] # {}
      BY <1>1, <3>1, TheObjects DEF CreatorHolds, Kinds
    <3>3. ref[Parent[o]] > 0
      BY <3>2, UsedByOther
    <3>. QED BY <3>1, <3>2, <3>3, GetLife
  <2>. QED BY <2>1, <2>2
<1>4. CASE VdevPeerCheck(o) \/ PdevPeerCount(o) \/ CreateComps(o)
  BY <1>4, LifeStays DEF VdevPeerCheck, PdevPeerCount, CreateComps
<1>5. CASE CreateUndo(o)
  <2>1. Pc(o) = "undo"
    BY <1>5 DEF CreateUndo, Is, At, Pc
  <2>2. LifePhase(o) = "building" /\ ref[o] \in {0, 1}
    BY <1>1, <2>1 DEF LifePhase, ObjFits, StateFits, RefFits, CreatePC, Unshared, Live, Owned
  <2>3. LifePhase(o)' = "absent" /\ ref'[o] = 0
    <3>1. state'[o] = "NONE" /\ ref'[o] = 0
      BY <1>1, <1>5 DEF CreateUndo
    <3>. QED BY <3>1 DEF LifePhase, Live, Owned
  <2>4. LifeStep(o)
    BY <2>2, <2>3 DEF LifeStep, Life!Next, Life!Abandon, Life!Move
  <2>5. \A x \in Obj : x # o => state'[x] = state[x] /\ ref'[x] = ref[x]
    BY <1>1, <1>5 DEF CreateUndo
  <2>. QED BY <2>4, <2>5, OwnLife
<1>6. CASE InitRef(o)
  <2>1. Pc(o) = "init"
    BY <1>6 DEF InitRef, Is, At, Pc
  <2>2. LifePhase(o) = "building" /\ ref[o] = 0 /\ state[o] = "ALLOCATED"
    BY <1>1, <2>1 DEF LifePhase, ObjFits, StateFits, KindFits, RefFits, CreatePC, Unshared, Live,
       Owned
  <2>3. LifePhase(o)' = "building" /\ ref'[o] = 1
    BY <1>1, <1>6, <2>2 DEF InitRef, LifePhase, Live, Owned
  <2>4. LifeStep(o)
    BY <2>2, <2>3 DEF LifeStep, Life!Next, Life!TakeFirst
  <2>5. \A x \in Obj : x # o => state'[x] = state[x] /\ ref'[x] = ref[x]
    BY <1>1, <1>6 DEF InitRef
  <2>. QED BY <2>4, <2>5, OwnLife
<1>7. CASE GetBssRef(o)
  <2>1. CASE bss[Parent[o]] = NoObj
    BY <1>7, <2>1, LifeStays DEF GetBssRef
  <2>2. CASE bss[Parent[o]] # NoObj
    <3>1. Pc(o) = "bss" /\ o \in Sta /\ state[o] = "ALLOCATED"
      BY <1>1, <1>7 DEF GetBssRef, Is, At, Pc, ObjFits, KindFits, StateFits, CreatePC
    <3>2. bss[Parent[o]] \in Obj
      BY <1>1, <2>2, <3>1, Siblings2 DEF TypeOK
    <3>3. state[bss[Parent[o]]] \in Owned
      BY <3>1 DEF IndInv, Fits, StaFits
    <3>4. ref[bss[Parent[o]]] > 0
      BY <3>2, <3>3, OwnedShared
    <3>5. Get(bss[Parent[o]]) /\ UNCHANGED state
      BY <1>7, <2>2 DEF GetBssRef
    <3>. QED BY <3>2, <3>4, <3>5, GetLife
  <2>. QED BY <2>1, <2>2
<1>8. CASE CreateDone(o)
  <2>1. Pc(o) = "derive" /\ HasOwnerRef(o)
    BY <1>8 DEF CreateDone, Is, At, Pc, HasOwnerRef
  <2>2. ref[o] \in Nat /\ ref[o] > 0
    BY <1>1, <2>1, OwnerCounts
  <2>3. LifePhase(o) = "building"
    BY <1>1, <2>1 DEF LifePhase, ObjFits, StateFits, CreatePC, Live, Owned
  <2>4. ObjectStatus(status[o], priv[o]) \in {"SUCCESS", "ASYNC", "FAILURE"}
    BY <1>1, StatusType DEF TypeOK
  <2>5. /\ state'[o] \in {"CREATED", "PARTIALLY_CREATED", "LOGICALLY_DELETED"}
        /\ \A x \in Obj : x # o => state'[x] = state[x]
    <3>1. CASE ObjectStatus(status[o], priv[o]) = "SUCCESS"
      BY <1>1, <1>8, <3>1 DEF CreateDone
    <3>2. CASE ObjectStatus(status[o], priv[o]) = "ASYNC"
      BY <1>1, <1>8, <3>2 DEF CreateDone
    <3>3. CASE ObjectStatus(status[o], priv[o]) = "FAILURE"
      BY <1>1, <1>8, <3>3 DEF CreateDone
    <3>. QED BY <2>4, <3>1, <3>2, <3>3
  <2>6. ref' = ref
    BY <1>8 DEF CreateDone
  <2>7. LifePhase(o)' \in {"open", "building", "closed"}
    BY <2>2, <2>5, <2>6 DEF LifePhase, Live, Owned
  <2>8. LifeStep(o)
    BY <2>2, <2>3, <2>6, <2>7 DEF LifeStep, Life!Next, Life!Open, Life!Close, Life!Move,
       Life!lifeVars
  <2>. QED BY <2>5, <2>6, <2>8, OwnLife
<1>. QED BY <1>2, <1>3, <1>4, <1>5, <1>6, <1>7, <1>8 DEF CreateStep

LEMMA DeleteLife ==
  ASSUME IndInv, IndInv', NEW o \in Obj, ObjDelete(o) \/ DeleteStep(o)
  PROVE  \A x \in Obj : LifeStep(x)
<1>1. /\ state \in [Obj -> States] /\ ref \in [Obj -> Nat] /\ ObjFits(o) /\ TypeOK
      /\ ref[o] = Users(o)
  BY DEF IndInv, RefExact, Fits, TypeOK
<1>2. CASE ObjDelete(o)
  <2>1. state[o] \in Owned /\ ref' = ref /\ state'[o] = "LOGICALLY_DELETED"
        /\ \A x \in Obj : x # o => state'[x] = state[x]
    BY <1>1, <1>2 DEF ObjDelete
  <2>2. ref[o] > 0
    BY <2>1, OwnedShared
  <2>3. LifePhase(o) \in {"building", "open"} /\ LifePhase(o)' = "closed"
    BY <2>1, <2>2 DEF LifePhase, Live, Owned
  <2>4. LifeStep(o)
    BY <2>1, <2>2, <2>3 DEF LifeStep, Life!Next, Life!Close, Life!Move
  <2>. QED BY <2>1, <2>4, OwnLife
<1>3. CASE OwnerPut(o)
  BY <1>3, PutLife DEF OwnerPut
<1>4. CASE ObjDestroy(o) \/ VdevPeerDetach(o) \/ PdevPeerUncount(o) \/ VdevFree(o) \/ PdevFree(o)
  BY <1>4, LifeStays DEF ObjDestroy, VdevPeerDetach, PdevPeerUncount, VdevFree, PdevFree
<1>5. CASE DestroyDone(o)
  <2>1. ref[o] = 0 /\ state[o] = "LOGICALLY_DELETED" /\ ref' = ref
    BY <1>1, <1>5 DEF DestroyDone, Is, At, Pc, ObjFits, StateFits, RefFits, DeletePC
  <2>2. /\ state'[o] \in {"LOGICALLY_DELETED", "PARTIALLY_DELETED"}
        /\ \A x \in Obj : x # o => state'[x] = state[x]
    BY <1>1, <1>5, <2>1 DEF DestroyDone
  <2>3. LifePhase(o) = "dying" /\ LifePhase(o)' = "dying"
    BY <2>1, <2>2 DEF LifePhase, Live, Owned
  <2>4. LifeStep(o)
    BY <2>1, <2>3 DEF LifeStep, Life!lifeVars
  <2>. QED BY <2>1, <2>2, <2>4, OwnLife
<1>6. CASE PeerFreeBss(o)
  <2>1. CASE o \in Sta /\ bss[Parent[o]] # NoObj
    <3>1. bss[Parent[o]] \in Obj
      BY <1>1, <2>1, Siblings2 DEF TypeOK
    <3>. QED BY <1>6, <2>1, <3>1, PutLife DEF PeerFreeBss, PutFrom
  <2>2. CASE ~(o \in Sta /\ bss[Parent[o]] # NoObj)
    BY <1>6, <2>2, LifeStays DEF PeerFreeBss
  <2>. QED BY <2>1, <2>2
<1>7. CASE PeerFreeHold(o)
  <2>1. Kind[o] = "peer" /\ o # Psoc /\ o \in attached
    BY <1>1, <1>7, TheObjects DEF PeerFreeHold, Is, At, Pc, ObjFits, StateFits, KindFits, ListFits,
       Live, FreePC, Detached
  <2>2. Parent[o] \in Obj /\ ref[Parent[o]] > 0
    BY <2>1, ParentUsed, UsedByOther DEF IsChild
  <2>. QED BY <1>7, <2>2, GetLife DEF PeerFreeHold
<1>8. CASE PeerFreePut(o) \/ PeerFreeLast(o) \/ ParentPut(o)
  <2>1. Pc(o) \in {"vput", "last", "pput"}
    BY <1>8 DEF PeerFreePut, PeerFreeLast, ParentPut, Is, At, Pc
  <2>2. Parent[o] \in Obj
    BY <1>1, <2>1, TheObjects DEF ObjFits, KindFits
  <2>3. UNCHANGED state /\ \E ps : Put(Parent[o], ps)
    BY <1>8 DEF PeerFreePut, PeerFreeLast, ParentPut, PutFrom
  <2>. QED BY <2>2, <2>3, PutLife
<1>9. CASE PsocDetach(o) \/ PsocFree(o)
  <2>1. Pc(o) \in {"psoc", "free"} /\ ref' = ref
    BY <1>9 DEF PsocDetach, PsocFree, Is, At, Pc
  <2>2. ref[o] = 0 /\ state[o] \in {"LOGICALLY_DELETED", "DELETED"}
    BY <1>1, <2>1 DEF ObjFits, StateFits, RefFits, FreePC, DeletePC
  <2>3. state'[o] = "NONE" /\ \A x \in Obj : x # o => state'[x] = state[x]
    BY <1>1, <1>9 DEF PsocDetach, PsocFree
  <2>4. LifePhase(o) = "dying" /\ LifePhase(o)' = "absent"
    BY <2>2, <2>3 DEF LifePhase, Live, Owned
  <2>5. LifeStep(o)
    BY <2>1, <2>4 DEF LifeStep, Life!Next, Life!Reclaim, Life!Move
  <2>. QED BY <2>1, <2>3, <2>5, OwnLife
<1>. QED BY <1>2, <1>3, <1>4, <1>5, <1>6, <1>7, <1>8, <1>9 DEF DeleteStep

\* A component changes the state of an object between open and building.
LEMMA CompLife ==
  ASSUME IndInv, IndInv', NEW o \in Obj, CompStep(o)
  PROVE  \A x \in Obj : LifeStep(x)
<1>1. state \in [Obj -> States] /\ ref' = ref /\ ObjFits(o)
  BY DEF IndInv, Fits, TypeOK, CompStep, CompAttach, CompDetach, TriggerCreation, TriggerDeletion
<1>2. PICK c \in Comp : \/ CompAttach(o, c) \/ CompDetach(o, c)
                         \/ TriggerCreation(o, c) \/ TriggerDeletion(o, c)
  BY DEF CompStep
<1>3. /\ \A x \in Obj : x # o => state'[x] = state[x]
      /\ \/ state'[o] = state[o]
         \/ state[o] \in Owned /\ state'[o] \in Owned
         \/ state[o] = "PARTIALLY_DELETED" /\ state'[o] \in {"DELETED", "DELETION_FAILED"}
  <2>1. CASE CompAttach(o, c)
    BY <1>1, <2>1 DEF CompAttach, Owned
  <2>2. CASE CompDetach(o, c)
    BY <1>1, <2>2 DEF CompDetach, Owned
  <2>3. CASE TriggerCreation(o, c)
    BY <1>1, <2>3 DEF TriggerCreation, Owned
  <2>4. CASE TriggerDeletion(o, c)
    BY <1>1, <2>4 DEF TriggerDeletion, Owned
  <2>. QED BY <1>2, <2>1, <2>2, <2>3, <2>4
<1>4. LifeStep(o)
  <2>1. CASE state'[o] = state[o]
    BY <1>1, <2>1, LifeStays
  <2>2. CASE state[o] \in Owned /\ state'[o] \in Owned
    <3>1. ref[o] > 0
      BY <2>2, OwnedShared
    <3>2. LifePhase(o) \in {"open", "building"} /\ LifePhase(o)' \in {"open", "building"}
      BY <2>2 DEF LifePhase, Live, Owned
    <3>. QED BY <1>1, <3>1, <3>2 DEF LifeStep, Life!Next, Life!Open, Life!Hide, Life!Move,
       Life!lifeVars
  <2>3. CASE state[o] = "PARTIALLY_DELETED" /\ state'[o] \in {"DELETED", "DELETION_FAILED"}
    <3>1. LifePhase(o) = "dying" /\ LifePhase(o)' = "dying"
      BY <2>3 DEF LifePhase, Live, Owned
    <3>. QED BY <1>1, <3>1 DEF LifeStep, Life!lifeVars
  <2>. QED BY <1>3, <2>1, <2>2, <2>3
<1>. QED BY <1>1, <1>3, <1>4, OwnLife

LEMMA NextLife ==
  ASSUME IndInv, IndInv', Next
  PROVE  \A x \in Obj : LifeStep(x)
<1>1. PICK o \in Obj :
        \/ ObjCreate(o) \/ CreateStep(o) \/ ObjDelete(o) \/ DeleteStep(o) \/ CompStep(o)
        \/ \E c \in Client : Lookup(c, o) \/ LookupNoState(c, o) \/ Release(c, o)
  BY DEF Next
<1>2. CASE ObjCreate(o) \/ CreateStep(o)
  BY <1>2, CreateLife
<1>3. CASE ObjDelete(o) \/ DeleteStep(o)
  BY <1>3, DeleteLife
<1>4. CASE CompStep(o)
  BY <1>4, CompLife
<1>5. ASSUME NEW c \in Client, Lookup(c, o) PROVE \A x \in Obj : LifeStep(x)
  <2>1. ref[o] > 0
    BY <1>5, OwnedShared DEF Lookup, Owned
  <2>. QED BY <1>5, <2>1, GetLife DEF Lookup
<1>6. ASSUME NEW c \in Client, LookupNoState(c, o) PROVE \A x \in Obj : LifeStep(x)
  BY <1>6, GetLife DEF LookupNoState
<1>7. ASSUME NEW c \in Client, Release(c, o) PROVE \A x \in Obj : LifeStep(x)
  BY <1>7, PutLife DEF Release
<1>. QED BY <1>1, <1>2, <1>3, <1>4, <1>5, <1>6, <1>7

(***************************************************************************)
(* The object manager implements ObjLife for every object: whatever the    *)
(* calls, clients and components do, a reference is taken only to an       *)
(* object that has one, the last one is given up only when the object is   *)
(* closed, and the object is freed only after that.                        *)
(***************************************************************************)
THEOREM RefinesLife == Spec => ImplementsLife
<1>1. Init => \A o \in Obj : Life(o)!Init
  BY DEF Init, Life!Init, LifePhase, Live, Owned
<1>2. IndInv /\ IndInv' /\ [Next]_vars => [\A o \in Obj : LifeStep(o)]_vars
  BY NextLife
<1>3. Spec => [][\A o \in Obj : LifeStep(o)]_vars
  BY <1>2, Inductive, PTL DEF Spec
<1>. QED BY <1>1, <1>3, PTL DEF Spec, ImplementsLife, LifeStep
=============================================================================
