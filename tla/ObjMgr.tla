------------------------------- MODULE ObjMgr -------------------------------
(***************************************************************************)
(* The object manager: a psoc, its pdevs, their vdevs and the peers of a   *)
(* vdev are reference-counted objects.  A child holds a reference to its   *)
(* parent, a station's peer one to the BSS peer of its vdev, and clients   *)
(* the references they looked up.  An owner creates and deletes an object; *)
(* who gives up the last reference destroys and frees it, and with it may  *)
(* destroy the parent.                                                     *)
(*                                                                         *)
(* The create, delete and free functions of the four kinds of object have  *)
(* the same shape.  proc[o] is the call in progress on object o: where it  *)
(* is, and the object whose destruction it has to see the end of, when it  *)
(* gave up the last reference to it.  An action is one section under a     *)
(* lock, or one operation on a counter.                                    *)
(***************************************************************************)
EXTENDS Integers, FiniteSets, FiniteSetsExt

CONSTANTS
  Obj, NoObj,
  Client,        \* who looks objects up
  Kind,          \* psoc, pdev, vdev or peer
  Parent,        \* the parent of an object (of the psoc, NoObj)
  Bss, Sta,      \* BSS peers; peers that hold a reference to the BSS peer
  NComps,        \* WLAN_UMAC_MAX_COMPONENTS
  Registered,    \* the components with handlers for an object
  Limit,         \* how many objects of a kind the psoc has room for
  MaxVdevs,      \* max_vdev_count of a pdev
  MaxVdevPeers,  \* max_peer_count of a vdev and of a pdev
  MaxPdevPeers,
  MaxHeld,       \* how many references a client holds at a time
  PsocLast       \* the psoc is deleted when its vdevs are gone

Kinds == {"psoc", "pdev", "vdev", "peer"}
Comp == 1 .. NComps
Of(k) == {o \in Obj : Kind[o] = k}
Psoc == CHOOSE o \in Obj : Kind[o] = "psoc"
Siblings(o) == {x \in Obj \ {o} : Parent[x] = Parent[o]}

ASSUME ConstantsAssumption ==
  /\ IsFiniteSet(Obj) /\ IsFiniteSet(Client)
  /\ Kind \in [Obj -> Kinds] /\ NoObj \notin Obj
  /\ Cardinality(Of("psoc")) = 1
  /\ Parent \in [Obj -> Obj \cup {NoObj}] /\ Parent[Psoc] = NoObj
  /\ \A o \in Of("pdev") : Parent[o] = Psoc
  /\ \A o \in Of("vdev") : Parent[o] \in Of("pdev")
  /\ \A o \in Of("peer") : Parent[o] \in Of("vdev")
  /\ Bss \subseteq Of("peer") /\ Sta \subseteq Of("peer") \ Bss
  /\ NComps \in Nat /\ Registered \in [Obj -> SUBSET Comp]
  /\ Limit \in [Kinds -> Nat] /\ MaxVdevs \in Nat
  /\ MaxVdevPeers \in Nat /\ MaxPdevPeers \in Nat
  /\ MaxHeld \in Nat /\ PsocLast \in BOOLEAN

VARIABLES
  state,     \* obj_state; NONE when there is no such object
  ref,       \* ref_cnt
  status,    \* obj_status[id] of the components
  priv,      \* the components whose private object is attached
  listed,    \* objects in the tables of the psoc (the psoc: in the global one)
  attached,  \* objects in the list of their parent
  bss,       \* bss_peer of a vdev
  peers,     \* wlan_peer_count of a pdev
  held,      \* clients that hold a reference they looked up
  proc

compVars == <<status, priv>>
listVars == <<listed, attached, bss, peers>>
vars == <<state, ref, compVars, listVars, held, proc>>

Idle == [at |-> "idle", callee |-> NoObj]
At(l) == [at |-> l, callee |-> NoObj]

\* The call on o is at l, and what it called has returned.
Is(o, l) == proc[o] = At(l)

\* The call on o ends with one on y; it returns to whoever waits for it.
TailCall(o, y) ==
  [x \in Obj |-> IF x = o THEN Idle
                 ELSE IF proc[x].callee = o THEN [proc[x] EXCEPT !.callee = y] ELSE proc[x]]
Return(o) == TailCall(o, NoObj)

Goto(o, l) == proc' = [proc EXCEPT ![o] = At(l)]

Live(o) == state[o] # "NONE"
Owned == {"CREATED", "PARTIALLY_CREATED", "CREATION_FAILED", "COMP_DEL_PROGRESS"}

\* Where a creation has got to.
CreatePC == {"table", "check", "count", "add", "bss", "init", "comps", "derive", "undo"}
Creating(o) == proc[o].at \in CreatePC

\* release_ref: the last reference starts the destruction.
Put(x, ps) ==
  /\ ref' = [ref EXCEPT ![x] = @ - 1]
  /\ proc' = IF ref[x] = 1 THEN [ps EXCEPT ![x] = At("destroy")] ELSE ps

\* The call on o gives up a reference to x and goes on at l.
PutFrom(o, x, l) ==
  Put(x, [proc EXCEPT ![o] = [at |-> l, callee |-> IF ref[x] = 1 THEN x ELSE NoObj]])

Get(x) == ref' = [ref EXCEPT ![x] = @ + 1]
-----------------------------------------------------------------------------
(***************************************************************************)
(* Component objects.                                                      *)
(***************************************************************************)
\* Components that have not finished, or have failed.
Pending(st, pr) == {c \in Comp : st[c] = "ASYNC" /\ c \notin pr}
Failed(st) == {c \in Comp : st[c] = "FAILURE"}

\* wlan_objmgr_*_object_status: the first of them decides.
ObjectStatus(st, pr) ==
  LET open == Pending(st, pr) \cup Failed(st)
  IN  IF open = {} THEN "SUCCESS" ELSE st[Min(open)]

\* What the create handlers may leave: a handler that succeeds has attached
\* its private object, an asynchronous one attaches it later.
CreateResults(o) ==
  {st \in [Comp -> {"SUCCESS", "ASYNC", "FAILURE", "DISABLED"}] :
     \A c \in Comp \ Registered[o] : st[c] = "DISABLED"}

\* What the destroy handlers may leave.  Only a component with nothing
\* attached goes on asynchronously.
DestroyResults(o) ==
  {st \in [Comp -> {"SUCCESS", "ASYNC", "FAILURE", "DISABLED"}] :
     \A c \in Comp :
       IF c \in Registered[o] /\ status[o][c] \in {"SUCCESS", "ASYNC"}
       THEN st[c] \in {"SUCCESS", "FAILURE"} \cup (IF c \in priv[o] THEN {} ELSE {"ASYNC"})
       ELSE st[c] = "DISABLED"}
-----------------------------------------------------------------------------
(***************************************************************************)
(* Creation.  The creator holds a reference to the parent.  A vdev and a   *)
(* pdev get their own reference only after they are in the tables.         *)
(*                                                                         *)
(* Owners keep an order: the BSS peer is created on a vdev that has no     *)
(* peers, stations while it is there and, if PsocLast, vdevs before the    *)
(* psoc is deleted.                                                        *)
(***************************************************************************)
MayCreate(o) ==
  /\ o \in Bss => \A x \in Siblings(o) : ~Live(x) /\ proc[x] = Idle
  /\ o \in Sta => bss[Parent[o]] # NoObj /\ state[bss[Parent[o]]] = "CREATED"
  /\ PsocLast /\ Kind[o] = "vdev" => state[Psoc] \in Owned

\* The memory of the object.
ObjCreate(o) ==
  /\ proc[o] = Idle /\ ~Live(o)
  /\ o # Psoc => held[Parent[o]] # {}
  /\ MayCreate(o)
  /\ state' = [state EXCEPT ![o] = "ALLOCATED"]
  /\ ref' = [ref EXCEPT ![o] = IF Kind[o] \in {"peer", "psoc"} THEN 1 ELSE 0]
  /\ Goto(o, IF o = Psoc THEN "comps" ELSE "table")
  /\ UNCHANGED <<compVars, listVars, held>>

\* psoc_peer_attach, psoc_vdev_attach and psoc_pdev_attach; a pdev is in the
\* list of its parent at once.
PsocAttach(o) ==
  /\ Is(o, "table")
  /\ IF Cardinality(listed \cap Of(Kind[o])) >= Limit[Kind[o]]
     THEN Goto(o, "undo") /\ UNCHANGED <<ref, listed, attached>>
     ELSE /\ listed' = listed \cup {o}
          /\ IF Kind[o] = "pdev"
             THEN attached' = attached \cup {o} /\ Get(Parent[o])
             ELSE UNCHANGED <<attached, ref>>
          /\ Goto(o, [pdev |-> "init", vdev |-> "add", peer |-> "check"][Kind[o]])
  /\ UNCHANGED <<state, compVars, bss, peers, held>>

\* vdev_peer_attach: three sections under three locks.
VdevPeerCheck(o) ==
  /\ Is(o, "check")
  /\ Goto(o, IF Cardinality({x \in attached : Parent[x] = Parent[o]}) >= MaxVdevPeers
             THEN "undo" ELSE "count")
  /\ UNCHANGED <<state, ref, compVars, listVars, held>>

PdevPeerCount(o) ==
  LET d == Parent[Parent[o]]
  IN  /\ Is(o, "count")
      /\ IF peers[d] >= MaxPdevPeers
         THEN Goto(o, "undo") /\ UNCHANGED peers
         ELSE Goto(o, "add") /\ peers' = [peers EXCEPT ![d] = @ + 1]
      /\ UNCHANGED <<state, ref, compVars, listed, attached, bss, held>>

VdevPeerAttach(o) ==
  /\ Is(o, "add") /\ Kind[o] = "peer"
  /\ attached' = attached \cup {o}
  /\ bss' = IF o \in Bss THEN [bss EXCEPT ![Parent[o]] = o] ELSE bss
  /\ Get(Parent[o])
  /\ Goto(o, IF o \in Sta THEN "bss" ELSE "comps")
  /\ UNCHANGED <<state, compVars, listed, peers, held>>

PdevVdevAttach(o) ==
  /\ Is(o, "add") /\ Kind[o] = "vdev"
  /\ IF Cardinality({x \in attached : Parent[x] = Parent[o]}) < MaxVdevs
     THEN attached' = attached \cup {o} /\ Get(Parent[o]) /\ Goto(o, "init")
     ELSE Goto(o, "undo") /\ UNCHANGED <<ref, attached>>
  /\ UNCHANGED <<state, compVars, listed, bss, peers, held>>

\* An attach failed: out of the table of the psoc, and freed.
CreateUndo(o) ==
  /\ Is(o, "undo")
  /\ listed' = listed \ {o}
  /\ state' = [state EXCEPT ![o] = "NONE"]
  /\ ref' = [ref EXCEPT ![o] = 0]
  /\ proc' = Return(o)
  /\ UNCHANGED <<compVars, attached, bss, peers, held>>

InitRef(o) ==
  /\ Is(o, "init")
  /\ ref' = [ref EXCEPT ![o] = 1]
  /\ Goto(o, "comps")
  /\ UNCHANGED <<state, compVars, listVars, held>>

GetBssRef(o) ==
  /\ Is(o, "bss")
  /\ IF bss[Parent[o]] = NoObj THEN UNCHANGED ref ELSE Get(bss[Parent[o]])
  /\ Goto(o, "comps")
  /\ UNCHANGED <<state, compVars, listVars, held>>

CreateComps(o) ==
  /\ Is(o, "comps")
  /\ \E st \in CreateResults(o) :
       /\ status' = [status EXCEPT ![o] = st]
       /\ priv' = [priv EXCEPT ![o] = {c \in Comp : st[c] = "SUCCESS"}]
  /\ Goto(o, "derive")
  /\ UNCHANGED <<state, ref, listVars, held>>

\* The object is created, or deleted again.
CreateDone(o) ==
  /\ Is(o, "derive")
  /\ LET s == ObjectStatus(status[o], priv[o])
     IN  /\ state' = [state EXCEPT ![o] = [SUCCESS |-> "CREATED", ASYNC |-> "PARTIALLY_CREATED",
                                           FAILURE |-> "LOGICALLY_DELETED"][s]]
         /\ proc' = IF s = "FAILURE" THEN [proc EXCEPT ![o] = At("put")] ELSE Return(o)
         /\ listed' = IF s = "FAILURE" THEN listed ELSE listed \cup {o}
  /\ UNCHANGED <<ref, compVars, attached, bss, peers, held>>
-----------------------------------------------------------------------------
(***************************************************************************)
(* Deletion.  Owners delete an object once, the BSS peer after the peers   *)
(* of its stations and, if PsocLast, the psoc after its vdevs are freed.   *)
(***************************************************************************)
MayDelete(o) ==
  /\ o \in Bss => \A x \in Siblings(o) :
        state[x] \in {"NONE", "LOGICALLY_DELETED", "PARTIALLY_DELETED"}
  /\ PsocLast /\ o = Psoc => \A x \in Of("vdev") : ~Live(x)

ObjDelete(o) ==
  /\ proc[o] = Idle /\ state[o] \in Owned
  /\ MayDelete(o)
  /\ state' = [state EXCEPT ![o] = "LOGICALLY_DELETED"]
  /\ Goto(o, "put")
  /\ UNCHANGED <<ref, compVars, listVars, held>>

\* The reference of the owner.
OwnerPut(o) ==
  /\ Is(o, "put")
  /\ Put(o, Return(o))
  /\ UNCHANGED <<state, compVars, listVars, held>>

ObjDestroy(o) ==
  /\ Is(o, "destroy")
  /\ \E st \in DestroyResults(o) :
       /\ status' = [status EXCEPT ![o] = st]
       /\ priv' = [priv EXCEPT ![o] = {c \in @ : st[c] # "SUCCESS"}]
  /\ Goto(o, "destroyed")
  /\ UNCHANGED <<state, ref, listVars, held>>

\* After a failure the object is leaked.
DestroyDone(o) ==
  /\ Is(o, "destroyed")
  /\ LET s == ObjectStatus(status[o], priv[o])
     IN  /\ state' = IF s = "ASYNC" THEN [state EXCEPT ![o] = "PARTIALLY_DELETED"] ELSE state
         /\ proc' = IF s = "SUCCESS" THEN [proc EXCEPT ![o] = At("free")] ELSE Return(o)
  /\ UNCHANGED <<ref, compVars, listVars, held>>

\* peer_obj_free, step by step: the reference to the BSS peer, a reference
\* that keeps the vdev, the lists, the memory, the vdev.
PeerFreeBss(o) ==
  /\ Is(o, "free") /\ Kind[o] = "peer"
  /\ IF o \in Sta /\ bss[Parent[o]] # NoObj
     THEN PutFrom(o, bss[Parent[o]], "vget")
     ELSE Goto(o, "vget") /\ UNCHANGED ref
  /\ UNCHANGED <<state, compVars, listVars, held>>

\* Mutant: the vdev is not held while its peer is freed.
NoVdevHold(o) ==
  /\ Is(o, "vget")
  /\ Goto(o, "vdetach")
  /\ UNCHANGED <<state, ref, compVars, listVars, held>>

PeerFreeHold(o) ==
  /\ Is(o, "vget")
  /\ Get(Parent[o])
  /\ Goto(o, "vdetach")
  /\ UNCHANGED <<state, compVars, listVars, held>>

VdevPeerDetach(o) ==
  /\ Is(o, "vdetach")
  /\ attached' = attached \ {o}
  /\ bss' = IF bss[Parent[o]] = o THEN [bss EXCEPT ![Parent[o]] = NoObj] ELSE bss
  /\ Goto(o, "uncount")
  /\ UNCHANGED <<state, ref, compVars, listed, peers, held>>

PdevPeerUncount(o) ==
  /\ Is(o, "uncount")
  /\ peers' = [peers EXCEPT ![Parent[Parent[o]]] = @ - 1]
  /\ Goto(o, "vput")
  /\ UNCHANGED <<state, ref, compVars, listed, attached, bss, held>>

\* Mutant: the reference of the peer in the list is forgotten.
NoVdevPut(o) ==
  /\ Is(o, "vput")
  /\ Goto(o, "psoc")
  /\ UNCHANGED <<state, ref, compVars, listVars, held>>

PeerFreePut(o) ==
  /\ Is(o, "vput")
  /\ PutFrom(o, Parent[o], "psoc")
  /\ UNCHANGED <<state, compVars, listVars, held>>

\* psoc_peer_detach and psoc_vdev_detach, then the memory
PsocDetach(o) ==
  /\ Is(o, "psoc")
  /\ listed' = listed \ {o}
  /\ state' = [state EXCEPT ![o] = "NONE"]
  /\ proc' = IF Kind[o] = "peer" THEN [proc EXCEPT ![o] = At("last")] ELSE Return(o)
  /\ UNCHANGED <<ref, compVars, attached, bss, peers, held>>

PeerFreeLast(o) ==
  /\ Is(o, "last")
  /\ Put(Parent[o], TailCall(o, IF ref[Parent[o]] = 1 THEN Parent[o] ELSE NoObj))
  /\ UNCHANGED <<state, compVars, listVars, held>>

\* pdev_vdev_detach
VdevFree(o) ==
  /\ Is(o, "free") /\ Kind[o] = "vdev"
  /\ attached' = attached \ {o}
  /\ Goto(o, "pput")
  /\ UNCHANGED <<state, ref, compVars, listed, bss, peers, held>>

\* psoc_pdev_detach
PdevFree(o) ==
  /\ Is(o, "free") /\ Kind[o] = "pdev"
  /\ attached' = attached \ {o} /\ listed' = listed \ {o}
  /\ Goto(o, "pput")
  /\ UNCHANGED <<state, ref, compVars, bss, peers, held>>

ParentPut(o) ==
  /\ Is(o, "pput")
  /\ PutFrom(o, Parent[o], "psoc")
  /\ UNCHANGED <<state, compVars, listVars, held>>

\* psoc_object_detach
PsocFree(o) ==
  /\ Is(o, "free") /\ Kind[o] = "psoc"
  /\ listed' = listed \ {o}
  /\ state' = [state EXCEPT ![o] = "NONE"]
  /\ proc' = Return(o)
  /\ UNCHANGED <<ref, compVars, attached, bss, peers, held>>
-----------------------------------------------------------------------------
(***************************************************************************)
(* Clients.                                                                *)
(***************************************************************************)
\* Client c has room for another reference.
MayHold(c, o) == c \notin held[o] /\ Cardinality({x \in Obj : c \in held[x]}) < MaxHeld

\* The lookups that return objects in the CREATED state (try_get_ref).
Lookup(c, o) ==
  /\ o \in listed /\ MayHold(c, o)
  /\ state[o] = "CREATED"
  /\ held' = [held EXCEPT ![o] = @ \cup {c}]
  /\ Get(o)
  /\ UNCHANGED <<state, compVars, listVars, proc>>

\* Mutant: a lookup revives an object that is being destroyed.
LookupDying(c, o) ==
  /\ o \in listed /\ MayHold(c, o)
  /\ held' = [held EXCEPT ![o] = @ \cup {c}]
  /\ Get(o)
  /\ UNCHANGED <<state, compVars, listVars, proc>>

\* The lookups that return objects in every state (get_ref).  Their callers
\* know that the attach succeeded and that somebody holds a reference.
LookupNoState(c, o) ==
  /\ o \in listed /\ MayHold(c, o)
  /\ o # Psoc => o \in attached
  /\ ref[o] > 0
  /\ held' = [held EXCEPT ![o] = @ \cup {c}]
  /\ Get(o)
  /\ UNCHANGED <<state, compVars, listVars, proc>>

\* A client keeps the parent while it creates a child.
Release(c, o) ==
  /\ c \in held[o]
  /\ held[o] = {c} => ~\E x \in Obj : Parent[x] = o /\ Creating(x)
  /\ held' = [held EXCEPT ![o] = @ \ {c}]
  /\ Put(o, proc)
  /\ UNCHANGED <<state, compVars, listVars>>
-----------------------------------------------------------------------------
(***************************************************************************)
(* Components that work in another context, and components enabled and     *)
(* disabled at run time.  Who calls holds a reference; the calls for one   *)
(* object, its creation and its deletion come one after the other.         *)
(***************************************************************************)
Settled(o) == proc[o] = Idle /\ held[o] # {}

\* component_obj_attach, with the private object or without
CompAttach(o, c) ==
  /\ Settled(o) /\ c \in Pending(status[o], priv[o])
  /\ \E r \in {"SUCCESS", "FAILURE"} :
       LET st == [status[o] EXCEPT ![c] = r]
           pr == IF r = "SUCCESS" THEN priv[o] \cup {c} ELSE priv[o]
           s == ObjectStatus(st, pr)
       IN  /\ status' = [status EXCEPT ![o] = st]
           /\ priv' = [priv EXCEPT ![o] = pr]
           /\ state' = IF state[o] # "PARTIALLY_CREATED" \/ s = "ASYNC" THEN state
                       ELSE [state EXCEPT ![o] = IF s = "SUCCESS" THEN "CREATED"
                                                 ELSE "CREATION_FAILED"]
  /\ UNCHANGED <<ref, listVars, held, proc>>

\* component_obj_detach, in the other context: of an object that waits to
\* be freed, or of one of which only this component is deleted
CompDetach(o, c) ==
  /\ proc[o] = Idle /\ status[o][c] = "ASYNC"
  /\ state[o] = "PARTIALLY_DELETED" \/ (held[o] # {} /\ c \in priv[o])
  /\ LET st == [status[o] EXCEPT ![c] = "SUCCESS"]
         pr == priv[o] \ {c}
         s == ObjectStatus(st, pr)
     IN  /\ status' = [status EXCEPT ![o] = st]
         /\ priv' = [priv EXCEPT ![o] = pr]
         /\ state' = CASE state[o] = "PARTIALLY_DELETED" /\ s = "SUCCESS" ->
                              [state EXCEPT ![o] = "DELETED"]
                       [] state[o] = "PARTIALLY_DELETED" /\ s = "FAILURE" ->
                              [state EXCEPT ![o] = "DELETION_FAILED"]
                       [] state[o] = "COMP_DEL_PROGRESS" /\ s # "ASYNC" ->
                              [state EXCEPT ![o] = "CREATED"]
                       [] OTHER -> state
         /\ proc' = IF state'[o] = "DELETED" THEN [proc EXCEPT ![o] = At("free")] ELSE proc
  /\ UNCHANGED <<ref, listVars, held>>

\* trigger_*_comp_priv_object_creation
TriggerCreation(o, c) ==
  /\ Settled(o) /\ c \in Registered[o] \ priv[o] /\ state[o] \in Owned
  /\ \E r \in {"SUCCESS", "ASYNC", "FAILURE"} :
       LET st == [status[o] EXCEPT ![c] = r]
           pr == IF r = "SUCCESS" THEN priv[o] \cup {c} ELSE priv[o]
       IN  /\ status' = [status EXCEPT ![o] = st]
           /\ priv' = [priv EXCEPT ![o] = pr]
           /\ state' = IF state[o] = "CREATED" /\ ObjectStatus(st, pr) = "ASYNC"
                       THEN [state EXCEPT ![o] = "PARTIALLY_CREATED"] ELSE state
  /\ UNCHANGED <<ref, listVars, held, proc>>

\* trigger_*_comp_priv_object_deletion
TriggerDeletion(o, c) ==
  /\ Settled(o) /\ c \in Registered[o] \cap priv[o] /\ state[o] \in Owned
  /\ \E r \in {"SUCCESS", "ASYNC", "FAILURE"} :
       LET st == [status[o] EXCEPT ![c] = r]
           pr == IF r = "SUCCESS" THEN priv[o] \ {c} ELSE priv[o]
       IN  /\ status' = [status EXCEPT ![o] = st]
           /\ priv' = [priv EXCEPT ![o] = pr]
           /\ state' = IF state[o] = "CREATED" /\ ObjectStatus(st, pr) = "ASYNC"
                       THEN [state EXCEPT ![o] = "COMP_DEL_PROGRESS"] ELSE state
  /\ UNCHANGED <<ref, listVars, held, proc>>
-----------------------------------------------------------------------------
Init ==
  /\ state = [o \in Obj |-> "NONE"]
  /\ ref = [o \in Obj |-> 0]
  /\ status = [o \in Obj |-> [c \in Comp |-> "DISABLED"]]
  /\ priv = [o \in Obj |-> {}]
  /\ listed = {} /\ attached = {}
  /\ bss = [o \in Of("vdev") |-> NoObj]
  /\ peers = [o \in Of("pdev") |-> 0]
  /\ held = [o \in Obj |-> {}]
  /\ proc = [o \in Obj |-> Idle]

\* A call, once begun.
CreateStep(o) ==
  \/ PsocAttach(o) \/ VdevPeerCheck(o) \/ PdevPeerCount(o) \/ VdevPeerAttach(o)
  \/ PdevVdevAttach(o)
  \/ CreateUndo(o) \/ InitRef(o) \/ GetBssRef(o) \/ CreateComps(o) \/ CreateDone(o)

DeleteStep(o) ==
  \/ OwnerPut(o) \/ ObjDestroy(o) \/ DestroyDone(o) \/ PeerFreeBss(o) \/ PeerFreeHold(o)
  \/ VdevPeerDetach(o) \/ PdevPeerUncount(o) \/ PeerFreePut(o) \/ PsocDetach(o)
  \/ PeerFreeLast(o) \/ VdevFree(o) \/ PdevFree(o) \/ ParentPut(o) \/ PsocFree(o)

CompStep(o) ==
  \E c \in Comp : CompAttach(o, c) \/ CompDetach(o, c) \/ TriggerCreation(o, c)
                  \/ TriggerDeletion(o, c)

Next ==
  \E o \in Obj :
    \/ ObjCreate(o) \/ CreateStep(o) \/ ObjDelete(o) \/ DeleteStep(o) \/ CompStep(o)
    \/ \E c \in Client : Lookup(c, o) \/ LookupNoState(c, o) \/ Release(c, o)

Spec == Init /\ [][Next]_vars

(***************************************************************************)
(* Fairness.  A call that has begun goes on, and what a component does in  *)
(* another context ends.  Clients need not release what they looked up.    *)
(***************************************************************************)
Progress(o) == CreateStep(o) \/ DeleteStep(o) \/ \E c \in Comp : CompDetach(o, c)

Fairness == \A o \in Obj : WF_vars(Progress(o))

FairSpec == Spec /\ Fairness
-----------------------------------------------------------------------------
States == Owned \cup {"NONE", "ALLOCATED", "LOGICALLY_DELETED", "PARTIALLY_DELETED",
                     "DELETED", "DELETION_FAILED"}
DeletePC == {"put", "destroy", "destroyed", "free", "vget", "vdetach", "uncount", "vput",
             "pput", "psoc", "last"}

Calls == [at : {"idle"} \cup CreatePC \cup DeletePC, callee : Obj \cup {NoObj}]

(***************************************************************************)
(* Type invariant.                                                         *)
(***************************************************************************)
TypeOK ==
  /\ state \in [Obj -> States]
  /\ ref \in [Obj -> Nat]
  /\ status \in [Obj -> [Comp -> {"SUCCESS", "ASYNC", "FAILURE", "DISABLED"}]]
  /\ priv \in [Obj -> SUBSET Comp]
  /\ listed \subseteq Obj /\ attached \subseteq Obj
  /\ bss \in [Of("vdev") -> Bss \cup {NoObj}]
  /\ peers \in [Of("pdev") -> Nat]
  /\ held \in [Obj -> SUBSET Client]
  /\ proc \in [Obj -> Calls]

(***************************************************************************)
(* Who holds a reference to o: its owner, the clients that looked it up,   *)
(* its children, the peers of stations when it is their BSS peer, and the  *)
(* calls that free a peer and keep the vdev meanwhile.                     *)
(***************************************************************************)
HasOwnerRef(o) ==
  \/ state[o] \in Owned \/ proc[o].at \in {"put", "comps", "derive"}
  \/ state[o] = "ALLOCATED" /\ Kind[o] \in {"peer", "psoc"}

IsChild(x) == x \in attached \/ proc[x].at \in {"uncount", "vput", "pput"}
ChildRefs(o) == {x \in Obj : Parent[x] = o /\ IsChild(x)}

KeepsBss(x) == x \in attached /\ proc[x].at \notin {"bss", "vget", "vdetach"}
BssRefs(o) == {x \in Sta : bss[Parent[x]] = o /\ KeepsBss(x)}

KeepsVdev(x) == proc[x].at \in {"vdetach", "uncount", "vput", "psoc", "last"}
CallRefs(o) == {x \in Of("peer") : Parent[x] = o /\ KeepsVdev(x)}

Users(o) ==
  (IF HasOwnerRef(o) THEN 1 ELSE 0) + Cardinality(held[o]) + Cardinality(ChildRefs(o))
    + Cardinality(BssRefs(o)) + Cardinality(CallRefs(o))

\* The peers that a pdev counts against its limit.
IsCounted(x) == x \in attached \/ proc[x].at \in {"add", "uncount"}
Counted(o) == {x \in Of("peer") : Parent[Parent[x]] = o /\ IsCounted(x)}

(***************************************************************************)
(* The counter of an object counts its users, and the peer counter of a    *)
(* pdev the peers that are attached to its vdevs, within the limit: no     *)
(* path of create, delete and free, however they interleave, counts twice, *)
(* gives up what it does not have, or forgets one.                         *)
(***************************************************************************)
RefExact ==
  /\ \A o \in Obj : ref[o] = Users(o)
  /\ \A o \in Of("pdev") : peers[o] = Cardinality(Counted(o)) /\ peers[o] <= MaxPdevPeers

\* The objects that the next step of the call on o reads or writes.
Touches(o) ==
  LET at == proc[o].at
  IN  {x \in Obj :
         /\ at # "idle" /\ proc[o].callee = NoObj
         /\ \/ at # "last" /\ x = o
            \/ /\ at \in {"check", "add", "bss", "vget", "vdetach", "vput", "last", "pput", "free"}
               /\ x = Parent[o]
            \/ at \in {"count", "uncount"} /\ x = Parent[Parent[o]]
            \/ at \in {"table", "undo", "psoc"} /\ Kind[o] \in {"peer", "vdev"} /\ x = Psoc
            \/ at \in {"bss", "free"} /\ o \in Sta /\ x = bss[Parent[o]]}

(***************************************************************************)
(* No call uses an object after it was freed, no client holds one, no list *)
(* or BSS pointer leads to one, and the parent of an object in its list is *)
(* not freed.  The BSS peer is deleted last: it is in the list of its vdev *)
(* as long as a station's peer is, up to the moment that one is freed.     *)
(***************************************************************************)
NoUseAfterFree ==
  /\ \A o \in Obj : (held[o] # {} => Live(o)) /\ \A x \in Touches(o) : Live(x)
  /\ \A o \in listed \cup attached : Live(o)
  /\ \A o \in attached : Live(Parent[o])
  /\ \A o \in Of("vdev") : bss[o] # NoObj => bss[o] \in attached
  /\ \A o \in Sta \cap attached :
       proc[o].at \notin {"vget", "vdetach"} => bss[Parent[o]] # NoObj

(***************************************************************************)
(* The object manager keeps the promise of ObjLife for every object.       *)
(***************************************************************************)
LifePhase(o) ==
  CASE ~Live(o) -> "absent"
    [] state[o] = "CREATED" -> "open"
    [] state[o] \in (Owned \ {"CREATED"}) \cup {"ALLOCATED"} -> "building"
    [] state[o] = "LOGICALLY_DELETED" /\ ref[o] > 0 -> "closed"
    [] OTHER -> "dying"

Life(o) == INSTANCE ObjLife WITH phase <- LifePhase(o), refs <- ref[o]

ImplementsLife ==
  /\ \A o \in Obj : Life(o)!Init
  /\ [][\A o \in Obj : [Life(o)!Next]_(Life(o)!lifeVars)]_vars

-----------------------------------------------------------------------------
(***************************************************************************)
(* What makes RefExact and NoUseAfterFree inductive: what an object is     *)
(* while a call on it is at some place.                                    *)
(***************************************************************************)
Pc(o) == proc[o].at

FreePC == {"free", "vget", "vdetach", "uncount", "vput", "pput", "psoc"}

StateFits(o) ==
  /\ Pc(o) \in CreatePC <=> state[o] = "ALLOCATED"
  /\ Pc(o) \in {"put", "destroy", "destroyed"} => state[o] = "LOGICALLY_DELETED"
  /\ Pc(o) \in FreePC => state[o] \in {"LOGICALLY_DELETED", "DELETED"}
  /\ Pc(o) = "last" => state[o] = "NONE"
  /\ state[o] = "DELETED" => Pc(o) \in FreePC

\* Which kinds of object get to a place.
KindFits(o) ==
  /\ Pc(o) \in {"table", "undo"} => Kind[o] # "psoc"
  /\ Pc(o) \in {"check", "count", "bss", "vget", "vdetach", "uncount", "vput", "last"}
       => Kind[o] = "peer"
  /\ Pc(o) \in {"init", "pput"} => Kind[o] \in {"pdev", "vdev"}
  /\ Pc(o) = "add" => Kind[o] \in {"vdev", "peer"}
  /\ Pc(o) = "psoc" => Kind[o] # "psoc"
  /\ Pc(o) = "bss" => o \in Sta

\* Nobody refers to an object that is not there, being freed or not yet shared.
Unshared == {"table", "check", "count", "add", "init", "undo"}

RefFits(o) ==
  /\ state[o] \in {"NONE", "PARTIALLY_DELETED", "DELETED", "DELETION_FAILED"} => ref[o] = 0
  /\ Pc(o) \in DeletePC \ {"put"} => ref[o] = 0
  /\ Pc(o) \in Unshared => ref[o] = IF Kind[o] = "peer" THEN 1 ELSE 0

Detached == {"table", "check", "count", "add", "undo", "uncount", "vput", "pput", "psoc", "last"}

ListFits(o) ==
  /\ o \in attached <=> o # Psoc /\ Live(o) /\ Pc(o) \notin Detached
  /\ o \in listed => Live(o)

\* The creator keeps the parent.
CreatorHolds(o) == Creating(o) /\ o # Psoc => held[Parent[o]] # {}

\* A vdev has one BSS peer at a time; it is created before the peers of
\* stations and deleted after them.
BssFits ==
  /\ \A v \in Of("vdev") : bss[v] # NoObj => bss[v] \in attached /\ Parent[bss[v]] = v
  /\ \A x \in Bss \cap attached : bss[Parent[x]] = x
  /\ \A x \in Bss : \A y \in Siblings(x) \cap Bss : Live(x) => ~Live(y)
  /\ \A x \in Bss : \A y \in Siblings(x) \cap Sta : Pc(x) \in Unshared => ~Live(y)

StaFits(o) ==
  /\ state[o] \in Owned \cup {"ALLOCATED"}
       => bss[Parent[o]] # NoObj /\ state[bss[Parent[o]]] \in Owned
  /\ o \in attached /\ Pc(o) \notin {"vget", "vdetach"} => bss[Parent[o]] # NoObj

PsocThere == PsocLast /\ (\E o \in Of("vdev") : Live(o)) => state[Psoc] \in Owned

ObjFits(o) == StateFits(o) /\ KindFits(o) /\ RefFits(o) /\ ListFits(o)

Fits ==
  /\ \A o \in Obj : ObjFits(o) /\ CreatorHolds(o)
  /\ BssFits
  /\ \A o \in Sta : StaFits(o)

IndInv == TypeOK /\ RefExact /\ Fits /\ PsocThere

-----------------------------------------------------------------------------
(***************************************************************************)
(* A deleted object that nobody uses any more is freed, unless one of its  *)
(* components could not be destroyed.                                      *)
(***************************************************************************)
Doomed(o) ==
  /\ state[o] \in {"LOGICALLY_DELETED", "PARTIALLY_DELETED", "DELETED"}
  /\ held[o] = {} /\ ChildRefs(o) = {} /\ BssRefs(o) = {}
  /\ Failed(status[o]) = {}

Reclaimed == \A o \in Obj : []<>~Doomed(o)
=============================================================================
