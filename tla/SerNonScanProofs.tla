-------------------------- MODULE SerNonScanProofs --------------------------
(***************************************************************************)
(* Theorems about the non-scan queues, for any number of vdevs, commands,  *)
(* nodes, timers and threads, with timers expiring or not.                 *)
(***************************************************************************)
EXTENDS SerNonScan, ListLemmas

QueueInv == QueueType /\ NodesConserved /\ MembersAgree /\ PendingOnce

-----------------------------------------------------------------------------
(***************************************************************************)
(* The operations on the lists.                                            *)
(***************************************************************************)

\* Insert adds the node, at whichever end the priority of the command asks.
LEMMA InsertMembers ==
  ASSUME NEW list \in Seq(Node), NEW n \in Node, NEW c
  PROVE  /\ Insert(list, n, c) \in Seq(Node)
         /\ Insert(list, n, c) # <<>>
         /\ ToSet(Insert(list, n, c)) = ToSet(list) \cup {n}
         /\ IsInjective(list) /\ n \notin ToSet(list) => IsInjective(Insert(list, n, c))
<1>1. CASE c \in HighPriority
  <2>1. Insert(list, n, c) = Cons(n, list)
    BY <1>1 DEF Insert
  <2> QED
    BY <2>1, ConsMembers
<1>2. CASE c \notin HighPriority
  <2>1. Insert(list, n, c) = Append(list, n)
    BY <1>2 DEF Insert
  <2> QED
    BY <2>1, AppendMembers
<1> QED
  BY <1>1, <1>2

\* The search finds a node of the list that holds the command.
LEMMA FindCmdMember ==
  ASSUME NEW list \in Seq(Node), NEW c, HasCmd(list, c)
  PROVE  FindCmd(list, c) \in ToSet(list) /\ cmd[FindCmd(list, c)] = c
<1> DEFINE I == {i \in DOMAIN list : cmd[list[i]] = c}
<1>1. I # {} /\ I \in SUBSET Nat
  BY LenProperties DEF HasCmd, ToSet
<1>2. Min(I) \in I
  BY <1>1, MinIsFirst
<1> QED
  BY <1>2 DEF FindCmd, ToSet

\* A queued node holds a command; the vdev has an entry in its own list.
LEMMA QueuedNode ==
  ASSUME QueueInv, NEW n \in ToSet(pactive) \cup ToSet(ppending)
  PROVE  /\ n \in Node /\ cmd[n] \in Cmd /\ VdevOf[cmd[n]] \in Vdev
         /\ n \in ToSet(pactive) => n \in ToSet(vactive[VdevOf[cmd[n]]])
         /\ n \in ToSet(ppending) => n \in ToSet(vpending[VdevOf[cmd[n]]])
<1>1. n \in Node
  BY ToSetType DEF QueueInv, QueueType
<1>2. n \notin ToSet(pool)
  BY DEF QueueInv, NodesConserved
<1>3. cmd[n] \in Cmd
  BY <1>1, <1>2 DEF QueueInv, QueueType, NodesConserved
<1>4. VdevOf[cmd[n]] \in Vdev
  BY <1>3, ConstantsAssumption
<1> QED
  BY <1>1, <1>3, <1>4 DEF QueueInv, MembersAgree

\* A vdev has no active command exactly when no active node is for it.
LEMMA NoneActive ==
  QueueInv => \A w \in Vdev :
    vactive[w] = <<>> <=> \A m \in ToSet(pactive) : VdevOf[cmd[m]] # w
<1> SUFFICES ASSUME QueueInv, NEW v \in Vdev
             PROVE  vactive[v] = <<>> <=> \A n \in ToSet(pactive) : VdevOf[cmd[n]] # v
  OBVIOUS
<1>1. vactive[v] \in Seq(Node)
  BY DEF QueueInv, QueueType
<1>2. vactive[v] = <<>> <=> ToSet(vactive[v]) = {}
  BY <1>1, ToSetType
<1>3. ToSet(vactive[v]) = {n \in ToSet(pactive) : VdevOf[cmd[n]] = v}
  BY DEF QueueInv, MembersAgree
<1> QED
  BY <1>2, <1>3

\* The same after a step.
LEMMA NoneActivePrime ==
  (QueueInv => \A w \in Vdev :
     vactive[w] = <<>> <=> \A m \in ToSet(pactive) : VdevOf[cmd[m]] # w)'
BY NoneActive, PTL

(***************************************************************************)
(* A free node is filled and put at the end of an active or pending list.  *)
(***************************************************************************)
LEMMA PoolToActive ==
  ASSUME QueueInv, pool # <<>>, NEW c \in Cmd, NEW n, n = Head(pool),
         pool' = Tail(pool), cmd' = [cmd EXCEPT ![n] = c],
         vactive' = [vactive EXCEPT ![VdevOf[c]] = Insert(@, n, c)],
         pactive' = Insert(pactive, n, c),
         UNCHANGED <<vpending, ppending>>
  PROVE  /\ QueueInv'
         /\ n \in ToSet(pool) /\ cmd'[n] = c
         /\ ToSet(pactive') = ToSet(pactive) \cup {n}
<1> DEFINE v == VdevOf[c]
<1>1. v \in Vdev /\ c # NoCmd
  BY ConstantsAssumption
<1>2. n \in ToSet(pool) /\ n \in Node
  BY ToSetType DEF QueueInv, QueueType
<1>3. n \notin ToSet(pactive) /\ n \notin ToSet(ppending)
  BY <1>2 DEF QueueInv, NodesConserved
<1>4. \A w \in Vdev : n \notin ToSet(vactive[w]) /\ n \notin ToSet(vpending[w])
  BY <1>3 DEF QueueInv, MembersAgree
<1>5. /\ pool' \in Seq(Node) /\ IsInjective(pool')
      /\ ToSet(pool') = ToSet(pool) \ {n}
  BY TailMembers DEF QueueInv, QueueType, NodesConserved
<1>6. /\ pactive' \in Seq(Node) /\ IsInjective(pactive')
      /\ ToSet(pactive') = ToSet(pactive) \cup {n}
  BY <1>2, <1>3, InsertMembers DEF QueueInv, QueueType, NodesConserved
<1>7. /\ Insert(vactive[v], n, c) \in Seq(Node) /\ IsInjective(Insert(vactive[v], n, c))
      /\ ToSet(Insert(vactive[v], n, c)) = ToSet(vactive[v]) \cup {n}
  BY <1>1, <1>2, <1>4, InsertMembers DEF QueueInv, QueueType, MembersAgree
<1>8. /\ vactive' \in [Vdev -> Seq(Node)]
      /\ vactive'[v] = Insert(vactive[v], n, c)
      /\ \A w \in Vdev : w # v => vactive'[w] = vactive[w]
  BY <1>1, <1>7 DEF QueueInv, QueueType
<1>9. /\ cmd' \in [Node -> Cmd \cup {NoCmd}] /\ cmd'[n] = c
      /\ \A m \in Node : m # n => cmd'[m] = cmd[m]
  BY <1>2 DEF QueueInv, QueueType
<1>10. QueueType'
  BY <1>5, <1>6, <1>8, <1>9 DEF QueueInv, QueueType
<1>11. NodesConserved'
  BY <1>1, <1>2, <1>3, <1>5, <1>6, <1>9 DEF QueueInv, NodesConserved
<1>12. ToSet(pactive) \subseteq Node /\ ToSet(ppending) \subseteq Node
  BY ToSetType DEF QueueInv, QueueType
<1>13. MembersAgree'
  <2> SUFFICES ASSUME NEW w \in Vdev
               PROVE  /\ IsInjective(vactive'[w]) /\ IsInjective(vpending[w])
                      /\ ToSet(vactive'[w]) = {m \in ToSet(pactive') : VdevOf[cmd'[m]] = w}
                      /\ ToSet(vpending[w]) = {m \in ToSet(ppending) : VdevOf[cmd'[m]] = w}
    BY DEF MembersAgree
  <2>1. IsInjective(vactive'[w]) /\ IsInjective(vpending[w])
    BY <1>7, <1>8 DEF QueueInv, MembersAgree
  <2>2. ToSet(vpending[w]) = {m \in ToSet(ppending) : VdevOf[cmd'[m]] = w}
    BY <1>3, <1>9, <1>12 DEF QueueInv, MembersAgree
  <2>3. ToSet(vactive[w]) = {m \in ToSet(pactive) : VdevOf[cmd[m]] = w}
    BY DEF QueueInv, MembersAgree
  <2>4. ToSet(vactive'[w]) = {m \in ToSet(pactive') : VdevOf[cmd'[m]] = w}
    BY <1>3, <1>6, <1>7, <1>8, <1>9, <1>12, <2>3
  <2> QED
    BY <2>1, <2>2, <2>4
<1>14. PendingOnce'
  BY <1>3, <1>9, <1>12 DEF QueueInv, PendingOnce
<1> QED
  BY <1>2, <1>6, <1>9, <1>10, <1>11, <1>13, <1>14 DEF QueueInv

\* A node of the pool is queued as a pending command.
LEMMA PoolToPending ==
  ASSUME QueueInv, pool # <<>>, NEW c \in Cmd, NEW n, n = Head(pool),
         ~HasCmd(vpending[VdevOf[c]], c),
         pool' = Tail(pool), cmd' = [cmd EXCEPT ![n] = c],
         vpending' = [vpending EXCEPT ![VdevOf[c]] = Insert(@, n, c)],
         ppending' = Insert(ppending, n, c),
         UNCHANGED <<vactive, pactive>>
  PROVE  /\ QueueInv'
         /\ n \notin ToSet(pactive)
         /\ \A m \in ToSet(pactive) : cmd'[m] = cmd[m]
<1> DEFINE v == VdevOf[c]
<1>1. v \in Vdev /\ c # NoCmd
  BY ConstantsAssumption
<1>2. n \in ToSet(pool) /\ n \in Node
  BY ToSetType DEF QueueInv, QueueType
<1>3. n \notin ToSet(pactive) /\ n \notin ToSet(ppending)
  BY <1>2 DEF QueueInv, NodesConserved
<1>4. \A w \in Vdev : n \notin ToSet(vactive[w]) /\ n \notin ToSet(vpending[w])
  BY <1>3 DEF QueueInv, MembersAgree
<1>5. /\ pool' \in Seq(Node) /\ IsInjective(pool')
      /\ ToSet(pool') = ToSet(pool) \ {n}
  BY TailMembers DEF QueueInv, QueueType, NodesConserved
<1>6. /\ ppending' \in Seq(Node) /\ IsInjective(ppending')
      /\ ToSet(ppending') = ToSet(ppending) \cup {n}
  BY <1>2, <1>3, InsertMembers DEF QueueInv, QueueType, NodesConserved
<1>7. /\ Insert(vpending[v], n, c) \in Seq(Node) /\ IsInjective(Insert(vpending[v], n, c))
      /\ ToSet(Insert(vpending[v], n, c)) = ToSet(vpending[v]) \cup {n}
  BY <1>1, <1>2, <1>4, InsertMembers DEF QueueInv, QueueType, MembersAgree
<1>8. /\ vpending' \in [Vdev -> Seq(Node)]
      /\ vpending'[v] = Insert(vpending[v], n, c)
      /\ \A w \in Vdev : w # v => vpending'[w] = vpending[w]
  BY <1>1, <1>7 DEF QueueInv, QueueType
<1>9. /\ cmd' \in [Node -> Cmd \cup {NoCmd}] /\ cmd'[n] = c
      /\ \A m \in Node : m # n => cmd'[m] = cmd[m]
  BY <1>2 DEF QueueInv, QueueType
<1>10. QueueType'
  BY <1>5, <1>6, <1>8, <1>9 DEF QueueInv, QueueType
<1>11. NodesConserved'
  BY <1>1, <1>2, <1>3, <1>5, <1>6, <1>9 DEF QueueInv, NodesConserved
<1>12. ToSet(pactive) \subseteq Node /\ ToSet(ppending) \subseteq Node
  BY ToSetType DEF QueueInv, QueueType
<1>13. MembersAgree'
  <2> SUFFICES ASSUME NEW w \in Vdev
               PROVE  /\ IsInjective(vactive[w]) /\ IsInjective(vpending'[w])
                      /\ ToSet(vactive[w]) = {m \in ToSet(pactive) : VdevOf[cmd'[m]] = w}
                      /\ ToSet(vpending'[w]) = {m \in ToSet(ppending') : VdevOf[cmd'[m]] = w}
    BY DEF MembersAgree
  <2>1. IsInjective(vactive[w]) /\ IsInjective(vpending'[w])
    BY <1>7, <1>8 DEF QueueInv, MembersAgree
  <2>2. ToSet(vactive[w]) = {m \in ToSet(pactive) : VdevOf[cmd'[m]] = w}
    BY <1>3, <1>9, <1>12 DEF QueueInv, MembersAgree
  <2>3. ToSet(vpending[w]) = {m \in ToSet(ppending) : VdevOf[cmd[m]] = w}
    BY DEF QueueInv, MembersAgree
  <2>4. ToSet(vpending'[w]) = {m \in ToSet(ppending') : VdevOf[cmd'[m]] = w}
    BY <1>3, <1>6, <1>7, <1>8, <1>9, <1>12, <2>3
  <2> QED
    BY <2>1, <2>2, <2>4
<1>14. PendingOnce'
  <2>1. \A m \in ToSet(ppending) : cmd[m] # c
    <3> SUFFICES ASSUME NEW m \in ToSet(ppending), cmd[m] = c PROVE FALSE
      OBVIOUS
    <3>1. m \in ToSet(vpending[v])
      BY <1>1 DEF QueueInv, MembersAgree
    <3> QED
      BY <3>1 DEF HasCmd
  <2> QED
    BY <2>1, <1>3, <1>6, <1>9, <1>12 DEF QueueInv, PendingOnce
<1>15. \A m \in ToSet(pactive) : cmd'[m] = cmd[m]
  BY <1>3, <1>9, <1>12
<1> QED
  BY <1>3, <1>10, <1>11, <1>13, <1>14, <1>15 DEF QueueInv

(***************************************************************************)
(* A pending command moves to the active lists.  The loop looks it up by   *)
(* command, in the list of the vdev and in the list of the pdev: it is the *)
(* same node because a command is pending once.                            *)
(***************************************************************************)
LEMMA PendingToActive ==
  ASSUME QueueInv, NEW c \in Cmd, HasCmd(ppending, c), NEW n, n = FindCmd(ppending, c),
         ppending' = RemoveCmdFrom(ppending, c),
         vpending' = [vpending EXCEPT ![VdevOf[c]] = RemoveCmdFrom(@, c)],
         vactive' = [vactive EXCEPT ![VdevOf[c]] = Insert(@, n, c)],
         pactive' = Insert(pactive, n, c),
         UNCHANGED <<pool, cmd>>
  PROVE  /\ QueueInv'
         /\ n \in ToSet(ppending) /\ cmd[n] = c
         /\ ToSet(pactive') = ToSet(pactive) \cup {n}
<1> DEFINE v == VdevOf[c]
<1>1. v \in Vdev
  BY ConstantsAssumption
<1>2. n \in ToSet(ppending) /\ cmd[n] = c /\ n \in Node
  BY FindCmdMember, ToSetType DEF QueueInv, QueueType
<1>3. n \notin ToSet(pactive) /\ n \notin ToSet(pool)
  BY <1>2 DEF QueueInv, NodesConserved
<1>4. \A w \in Vdev : n \notin ToSet(vactive[w])
  BY <1>3 DEF QueueInv, MembersAgree
<1>5. n \in ToSet(vpending[v]) /\ FindCmd(vpending[v], c) = n
  <2>1. n \in ToSet(vpending[v])
    BY <1>1, <1>2 DEF QueueInv, MembersAgree
  <2>2. HasCmd(vpending[v], c)
    BY <1>2, <2>1 DEF HasCmd
  <2>3. FindCmd(vpending[v], c) \in ToSet(vpending[v]) /\ cmd[FindCmd(vpending[v], c)] = c
    BY <1>1, <2>2, FindCmdMember DEF QueueInv, QueueType
  <2>4. FindCmd(vpending[v], c) \in ToSet(ppending)
    BY <1>1, <2>3 DEF QueueInv, MembersAgree
  <2> QED
    BY <1>2, <2>1, <2>3, <2>4 DEF QueueInv, PendingOnce
<1>6. /\ ppending' \in Seq(Node) /\ IsInjective(ppending')
      /\ ToSet(ppending') = ToSet(ppending) \ {n}
  BY <1>2, RemoveMembers DEF QueueInv, QueueType, NodesConserved, RemoveCmdFrom
<1>7. /\ RemoveCmdFrom(vpending[v], c) \in Seq(Node)
      /\ IsInjective(RemoveCmdFrom(vpending[v], c))
      /\ ToSet(RemoveCmdFrom(vpending[v], c)) = ToSet(vpending[v]) \ {n}
  BY <1>1, <1>5, RemoveMembers DEF QueueInv, QueueType, MembersAgree, RemoveCmdFrom
<1>8. /\ pactive' \in Seq(Node) /\ IsInjective(pactive')
      /\ ToSet(pactive') = ToSet(pactive) \cup {n}
  BY <1>2, <1>3, InsertMembers DEF QueueInv, QueueType, NodesConserved
<1>9. /\ Insert(vactive[v], n, c) \in Seq(Node) /\ IsInjective(Insert(vactive[v], n, c))
      /\ ToSet(Insert(vactive[v], n, c)) = ToSet(vactive[v]) \cup {n}
  BY <1>1, <1>2, <1>4, InsertMembers DEF QueueInv, QueueType, MembersAgree
<1>10. /\ vpending' \in [Vdev -> Seq(Node)]
       /\ vpending'[v] = RemoveCmdFrom(vpending[v], c)
       /\ \A w \in Vdev : w # v => vpending'[w] = vpending[w]
  BY <1>1, <1>7 DEF QueueInv, QueueType
<1>11. /\ vactive' \in [Vdev -> Seq(Node)]
       /\ vactive'[v] = Insert(vactive[v], n, c)
       /\ \A w \in Vdev : w # v => vactive'[w] = vactive[w]
  BY <1>1, <1>9 DEF QueueInv, QueueType
<1>12. QueueType'
  BY <1>6, <1>8, <1>10, <1>11 DEF QueueInv, QueueType
<1>13. NodesConserved'
  BY <1>2, <1>3, <1>6, <1>8 DEF QueueInv, NodesConserved
<1>14. MembersAgree'
  <2> SUFFICES ASSUME NEW w \in Vdev
               PROVE  /\ IsInjective(vactive'[w]) /\ IsInjective(vpending'[w])
                      /\ ToSet(vactive'[w]) = {m \in ToSet(pactive') : VdevOf[cmd[m]] = w}
                      /\ ToSet(vpending'[w]) = {m \in ToSet(ppending') : VdevOf[cmd[m]] = w}
    BY DEF MembersAgree
  <2>1. /\ ToSet(vactive[w]) = {m \in ToSet(pactive) : VdevOf[cmd[m]] = w}
        /\ ToSet(vpending[w]) = {m \in ToSet(ppending) : VdevOf[cmd[m]] = w}
    BY DEF QueueInv, MembersAgree
  <2>2. IsInjective(vactive'[w]) /\ IsInjective(vpending'[w])
    BY <1>7, <1>9, <1>10, <1>11 DEF QueueInv, MembersAgree
  <2>3. ToSet(vactive'[w]) = {m \in ToSet(pactive') : VdevOf[cmd[m]] = w}
    BY <1>2, <1>8, <1>9, <1>11, <2>1
  <2>4. ToSet(vpending'[w]) = {m \in ToSet(ppending') : VdevOf[cmd[m]] = w}
    BY <1>2, <1>6, <1>7, <1>10, <2>1
  <2> QED
    BY <2>2, <2>3, <2>4
<1>15. PendingOnce'
  BY <1>6 DEF QueueInv, PendingOnce
<1> QED
  BY <1>2, <1>8, <1>12, <1>13, <1>14, <1>15 DEF QueueInv

(***************************************************************************)
(* A node leaves an active or a pending queue, is zeroed and goes back to  *)
(* the pool.                                                               *)
(***************************************************************************)
LEMMA ActiveToPool ==
  ASSUME QueueInv, NEW n \in ToSet(pactive),
         pactive' = RemoveFirst(pactive, n),
         vactive' = [vactive EXCEPT ![VdevOf[cmd[n]]] = RemoveFirst(@, n)],
         pool' = Append(pool, n), cmd' = [cmd EXCEPT ![n] = NoCmd],
         UNCHANGED <<ppending, vpending>>
  PROVE  /\ QueueInv'
         /\ ToSet(pactive') = ToSet(pactive) \ {n}
         /\ \A m \in Node : m # n => cmd'[m] = cmd[m]
<1> DEFINE v == VdevOf[cmd[n]]
<1>1. n \in Node /\ cmd[n] \in Cmd /\ v \in Vdev /\ n \in ToSet(vactive[v])
  BY QueuedNode
<1>2. n \notin ToSet(ppending) /\ n \notin ToSet(pool)
  BY DEF QueueInv, NodesConserved
<1>3. /\ pactive' \in Seq(Node) /\ IsInjective(pactive')
      /\ ToSet(pactive') = ToSet(pactive) \ {n}
  BY RemoveMembers DEF QueueInv, QueueType, NodesConserved
<1>4. /\ RemoveFirst(vactive[v], n) \in Seq(Node)
      /\ IsInjective(RemoveFirst(vactive[v], n))
      /\ ToSet(RemoveFirst(vactive[v], n)) = ToSet(vactive[v]) \ {n}
  BY <1>1, RemoveMembers DEF QueueInv, QueueType, MembersAgree
<1>5. /\ vactive' \in [Vdev -> Seq(Node)]
      /\ vactive'[v] = RemoveFirst(vactive[v], n)
      /\ \A w \in Vdev : w # v => vactive'[w] = vactive[w]
  BY <1>1, <1>4 DEF QueueInv, QueueType
<1>6. /\ pool' \in Seq(Node) /\ IsInjective(pool')
      /\ ToSet(pool') = ToSet(pool) \cup {n}
  BY <1>1, <1>2, AppendMembers DEF QueueInv, QueueType, NodesConserved
<1>7. /\ cmd' \in [Node -> Cmd \cup {NoCmd}] /\ cmd'[n] = NoCmd
      /\ \A m \in Node : m # n => cmd'[m] = cmd[m]
  BY <1>1 DEF QueueInv, QueueType
<1>8. QueueType'
  BY <1>3, <1>5, <1>6, <1>7 DEF QueueInv, QueueType
<1>9. NodesConserved'
  BY <1>1, <1>2, <1>3, <1>6, <1>7 DEF QueueInv, NodesConserved
<1>10. ToSet(pactive) \subseteq Node /\ ToSet(ppending) \subseteq Node
  BY ToSetType DEF QueueInv, QueueType
<1>11. MembersAgree'
  <2> SUFFICES ASSUME NEW w \in Vdev
               PROVE  /\ IsInjective(vactive'[w]) /\ IsInjective(vpending[w])
                      /\ ToSet(vactive'[w]) = {m \in ToSet(pactive') : VdevOf[cmd'[m]] = w}
                      /\ ToSet(vpending[w]) = {m \in ToSet(ppending) : VdevOf[cmd'[m]] = w}
    BY DEF MembersAgree
  <2>1. /\ ToSet(vactive[w]) = {m \in ToSet(pactive) : VdevOf[cmd[m]] = w}
        /\ ToSet(vpending[w]) = {m \in ToSet(ppending) : VdevOf[cmd[m]] = w}
    BY DEF QueueInv, MembersAgree
  <2>2. IsInjective(vactive'[w]) /\ IsInjective(vpending[w])
    BY <1>4, <1>5 DEF QueueInv, MembersAgree
  <2>3. ToSet(vactive'[w]) = {m \in ToSet(pactive') : VdevOf[cmd'[m]] = w}
    BY <1>1, <1>3, <1>4, <1>5, <1>7, <1>10, <2>1
  <2>4. ToSet(vpending[w]) = {m \in ToSet(ppending) : VdevOf[cmd'[m]] = w}
    BY <1>2, <1>7, <1>10, <2>1
  <2> QED
    BY <2>2, <2>3, <2>4
<1>12. PendingOnce'
  BY <1>2, <1>3, <1>7, <1>10 DEF QueueInv, PendingOnce
<1> QED
  BY <1>3, <1>7, <1>8, <1>9, <1>11, <1>12 DEF QueueInv

\* A pending command is cancelled: its node goes back to the pool.
LEMMA PendingToPool ==
  ASSUME QueueInv, NEW n \in ToSet(ppending),
         ppending' = RemoveFirst(ppending, n),
         vpending' = [vpending EXCEPT ![VdevOf[cmd[n]]] = RemoveFirst(@, n)],
         pool' = Append(pool, n), cmd' = [cmd EXCEPT ![n] = NoCmd],
         UNCHANGED <<pactive, vactive>>
  PROVE  /\ QueueInv'
         /\ ToSet(ppending') = ToSet(ppending) \ {n}
         /\ \A m \in Node : m # n => cmd'[m] = cmd[m]
<1> DEFINE v == VdevOf[cmd[n]]
<1>1. n \in Node /\ cmd[n] \in Cmd /\ v \in Vdev /\ n \in ToSet(vpending[v])
  BY QueuedNode
<1>2. n \notin ToSet(pactive) /\ n \notin ToSet(pool)
  BY DEF QueueInv, NodesConserved
<1>3. /\ ppending' \in Seq(Node) /\ IsInjective(ppending')
      /\ ToSet(ppending') = ToSet(ppending) \ {n}
  BY RemoveMembers DEF QueueInv, QueueType, NodesConserved
<1>4. /\ RemoveFirst(vpending[v], n) \in Seq(Node)
      /\ IsInjective(RemoveFirst(vpending[v], n))
      /\ ToSet(RemoveFirst(vpending[v], n)) = ToSet(vpending[v]) \ {n}
  BY <1>1, RemoveMembers DEF QueueInv, QueueType, MembersAgree
<1>5. /\ vpending' \in [Vdev -> Seq(Node)]
      /\ vpending'[v] = RemoveFirst(vpending[v], n)
      /\ \A w \in Vdev : w # v => vpending'[w] = vpending[w]
  BY <1>1, <1>4 DEF QueueInv, QueueType
<1>6. /\ pool' \in Seq(Node) /\ IsInjective(pool')
      /\ ToSet(pool') = ToSet(pool) \cup {n}
  BY <1>1, <1>2, AppendMembers DEF QueueInv, QueueType, NodesConserved
<1>7. /\ cmd' \in [Node -> Cmd \cup {NoCmd}] /\ cmd'[n] = NoCmd
      /\ \A m \in Node : m # n => cmd'[m] = cmd[m]
  BY <1>1 DEF QueueInv, QueueType
<1>8. QueueType'
  BY <1>3, <1>5, <1>6, <1>7 DEF QueueInv, QueueType
<1>9. NodesConserved'
  BY <1>1, <1>2, <1>3, <1>6, <1>7 DEF QueueInv, NodesConserved
<1>10. ToSet(pactive) \subseteq Node /\ ToSet(ppending) \subseteq Node
  BY ToSetType DEF QueueInv, QueueType
<1>11. MembersAgree'
  <2> SUFFICES ASSUME NEW w \in Vdev
               PROVE  /\ IsInjective(vpending'[w]) /\ IsInjective(vactive[w])
                      /\ ToSet(vpending'[w]) = {m \in ToSet(ppending') : VdevOf[cmd'[m]] = w}
                      /\ ToSet(vactive[w]) = {m \in ToSet(pactive) : VdevOf[cmd'[m]] = w}
    BY DEF MembersAgree
  <2>1. /\ ToSet(vpending[w]) = {m \in ToSet(ppending) : VdevOf[cmd[m]] = w}
        /\ ToSet(vactive[w]) = {m \in ToSet(pactive) : VdevOf[cmd[m]] = w}
    BY DEF QueueInv, MembersAgree
  <2>2. IsInjective(vpending'[w]) /\ IsInjective(vactive[w])
    BY <1>4, <1>5 DEF QueueInv, MembersAgree
  <2>3. ToSet(vpending'[w]) = {m \in ToSet(ppending') : VdevOf[cmd'[m]] = w}
    BY <1>1, <1>3, <1>4, <1>5, <1>7, <1>10, <2>1
  <2>4. ToSet(vactive[w]) = {m \in ToSet(pactive) : VdevOf[cmd'[m]] = w}
    BY <1>2, <1>7, <1>10, <2>1
  <2> QED
    BY <2>2, <2>3, <2>4
<1>12. PendingOnce'
  BY <1>2, <1>3, <1>7, <1>10 DEF QueueInv, PendingOnce
<1> QED
  BY <1>3, <1>7, <1>8, <1>9, <1>11, <1>12 DEF QueueInv

-----------------------------------------------------------------------------
(***************************************************************************)
(* Threads.                                                                *)
(***************************************************************************)
LEMMA IdleOK == FrameOK(Idle)
<1>1. <<>> \in Seq(Caller) /\ <<>> \in Seq({"active", "pending"})
  BY EmptySeq
<1>2. NoReq \in CancelReqType
  BY <1>1 DEF NoReq, CancelReqType
<1> QED
  BY <1>1, <1>2 DEF Idle, FrameOK, ThreadType, PC

\* Goto changes one frame.
LEMMA GotoFrame ==
  ASSUME ThreadsOK, NEW t \in Thread, NEW f, FrameOK(f), Goto(t, f)
  PROVE  /\ ThreadsOK'
         /\ th'[t] = f
         /\ \A u \in Thread : u # t => th'[u] = th[u]
<1>1. f \in ThreadType
  BY DEF FrameOK
<1>2. /\ th' \in [Thread -> ThreadType] /\ th'[t] = f
      /\ \A u \in Thread : u # t => th'[u] = th[u]
  BY <1>1 DEF ThreadsOK, Goto
<1>3. \A u \in Thread : FrameOK(th'[u])
  BY <1>2, Zenon DEF ThreadsOK
<1>4. \A u \in Thread : FrameOK(th[u])'
  BY <1>3, Zenon DEF FrameOK
<1> QED
  BY <1>2, <1>4, Zenon DEF ThreadsOK

\* A return resumes a caller that is neither activating nor cancelling.
LEMMA ReturnFrame ==
  ASSUME ThreadsOK, NEW t \in Thread, Return(t)
  PROVE  /\ ThreadsOK'
         /\ th'[t].pc \in {"idle", "resume", "putref"}
         /\ \A u \in Thread : u # t => th'[u] = th[u]
<1> DEFINE k == th[t].k
           f == IF k = <<>> THEN Idle
                ELSE [Idle EXCEPT !.pc = Head(k).pc, !.left = Head(k).left,
                                  !.cmd = Head(k).cmd, !.k = Tail(k)]
<1>1. k \in Seq(Caller)
  BY DEF ThreadsOK, ThreadType
<1>2. Idle \in ThreadType /\ FrameOK(Idle)
  BY IdleOK DEF FrameOK
<1>3. CASE k = <<>>
  <2>1. FrameOK(f) /\ f.pc = "idle"
    BY <1>2, <1>3 DEF Idle
  <2> QED
    BY <2>1, GotoFrame DEF Return
<1>4. CASE k # <<>>
  <2>1. Head(k) \in Caller /\ Tail(k) \in Seq(Caller)
    BY <1>1, <1>4, HeadTailProperties
  <2>2. /\ Head(k).pc \in {"resume", "putref"} /\ Head(k).left \in Nat
        /\ Head(k).cmd \in Cmd \cup {NoCmd}
    BY <2>1 DEF Caller
  <2>3. f \in ThreadType /\ f.pc = Head(k).pc
    BY <1>2, <1>4, <2>1, <2>2 DEF ThreadType, PC, Idle
  <2>4. FrameOK(f)
    BY <2>2, <2>3 DEF FrameOK
  <2> QED
    BY <2>2, <2>3, <2>4, GotoFrame DEF Return
<1> QED
  BY <1>3, <1>4

-----------------------------------------------------------------------------
(***************************************************************************)
(* Parts of a step.                                                        *)
(***************************************************************************)

\* blocking_cmd_waiting wraps around and never leaves its 16 bits.
LEMMA UInt16Type ==
  ASSUME NEW i \in Int PROVE UInt16(i) \in Nat /\ UInt16(i) < 65536
BY DEF UInt16

\* A blocking command that leaves the pending list is taken off the count.
LEMMA WaitingLess ==
  ASSUME waiting \in Nat
  PROVE  UInt16(waiting - 1) \in Nat /\ UInt16(waiting - 1) < 65536
BY DEF UInt16

\* So does the count after the admission check.
LEMMA WaitingType ==
  ASSUME waiting \in Nat, waiting < 65536, NEW c
  PROVE  WaitingAfterCheck(c) \in Nat /\ WaitingAfterCheck(c) < 65536
<1>1. UInt16(waiting + 1) \in Nat /\ UInt16(waiting + 1) < 65536
  BY UInt16Type
<1> QED
  BY <1>1 DEF WaitingAfterCheck

\* Stopping the timer of a command, if it has one, keeps the timers well typed.
LEMMA StopTimerType ==
  ASSUME TimerType, NEW c, NEW keepRef \in BOOLEAN,
         FindAndStopTimer(c, keepRef), timerMsgs' = timerMsgs
  PROVE  TimerType'
<1>1. CASE TimersOf(c) = {}
  <2>1. UNCHANGED <<timer, armed, refs>>
    BY <1>1, Zenon DEF FindAndStopTimer
  <2> QED
    BY <2>1 DEF TimerType
<1>2. CASE TimersOf(c) # {}
  <2>1. TimersOf(c) \in SUBSET Nat /\ TimersOf(c) \subseteq Slot
    BY ConstantsAssumption DEF TimersOf, Slot
  <2>2. Min(TimersOf(c)) \in Slot
    BY <1>2, <2>1, MinIsFirst
  <2>3. /\ timer' = [timer EXCEPT ![Min(TimersOf(c))] = NoNode]
        /\ armed' = armed \ {Min(TimersOf(c))}
        /\ refs' = refs \/ refs' = [refs EXCEPT ![VdevOf[c]] = @ - 1]
    BY <1>2, Zenon DEF FindAndStopTimer
  <2>4. timer' \in [Slot -> Node \cup {NoNode}] /\ armed' \subseteq Slot /\ refs' \in [Vdev -> Int]
    BY <2>2, <2>3 DEF TimerType
  <2> QED
    BY <2>4 DEF TimerType
<1> QED
  BY <1>1, <1>2

\* A thread that is neither activating nor cancelling before and after a step.
LEMMA QuietFrame ==
  ASSUME NEW t \in Thread, \A u \in Thread : u # t => th'[u] = th[u],
         th[t].pc \notin {"activate", "activated", "cancelled"},
         th'[t].pc \notin {"activate", "activated", "cancelled"}
  PROVE  /\ \A u \in Thread, v \in Vdev : CancellingActive(u, v)' <=> CancellingActive(u, v)
         /\ \A u \in Thread, n \in Node : Activating(u, n)' <=> Activating(u, n)
BY DEF CancellingActive, Activating

\* A step that leaves lists, bits and cancelling threads alone keeps BitmapExact.
LEMMA QuietBitmap ==
  ASSUME BitmapExact, UNCHANGED <<bitmap, vactive, pactive>>,
         \A n \in ToSet(pactive) : cmd'[n] = cmd[n],
         \A u \in Thread, v \in Vdev : CancellingActive(u, v)' <=> CancellingActive(u, v)
  PROVE  BitmapExact'
<1> DEFINE P(v) ==
      /\ v \in bitmap <=> vactive[v] # <<>> \/ \E t \in Thread : CancellingActive(t, v)
      /\ \A t \in Thread : CancellingActive(t, v) => vactive[v] = <<>>
      /\ \A t, u \in Thread : CancellingActive(t, v) /\ CancellingActive(u, v) => t = u
<1>1. ASSUME NEW v \in Vdev PROVE P(v)'
  <2>1. P(v)
    BY DEF BitmapExact
  <2> QED
    BY <2>1
<1>2. \A m, n \in ToSet(pactive) : VdevOf[cmd'[m]] = VdevOf[cmd'[n]] => m = n
  BY DEF BitmapExact
<1> QED
  BY <1>1, <1>2 DEF BitmapExact

\* The same for MarkedHasOneActivator.
LEMMA QuietMarked ==
  ASSUME MarkedHasOneActivator,
         \A n \in Node : "marked" \in inUse'[n] <=> "marked" \in inUse[n],
         \A n \in Node : "marked" \in inUse[n] /\ n \in ToSet(pactive) => n \in ToSet(pactive'),
         \A u \in Thread, n \in Node : Activating(u, n)' <=> Activating(u, n)
  PROVE  MarkedHasOneActivator'
BY DEF MarkedHasOneActivator

\* The inductive invariant by parts.
LEMMA IndParts ==
  IndInv <=> /\ QueueInv /\ BlockType /\ TimerType /\ FlagType /\ ThreadsOK
             /\ BitmapExact /\ MarkedHasOneActivator /\ MoveNeverFails
BY DEF IndInv, TypeOK, QueueInv

-----------------------------------------------------------------------------
(***************************************************************************)
(* The steps of wlan_serialization_request.                                *)
(***************************************************************************)
LEMMA RotatePool ==
  ASSUME QueueInv, pool # <<>>, pool' = Append(Tail(pool), Head(pool)),
         UNCHANGED <<pactive, ppending, vactive, vpending, cmd>>
  PROVE  QueueInv'
<1>1. /\ Tail(pool) \in Seq(Node) /\ IsInjective(Tail(pool))
      /\ ToSet(Tail(pool)) = ToSet(pool) \ {Head(pool)}
  BY TailMembers DEF QueueInv, QueueType, NodesConserved
<1>2. Head(pool) \in ToSet(pool) /\ Head(pool) \in Node
  BY ToSetType DEF QueueInv, QueueType
<1>3. pool' \in Seq(Node) /\ IsInjective(pool') /\ ToSet(pool') = ToSet(pool)
  <2>1. Head(pool) \notin ToSet(Tail(pool))
    BY <1>1
  <2>2. \A s \in Seq(Node), x \in Node :
          /\ Append(s, x) \in Seq(Node)
          /\ ToSet(Append(s, x)) = ToSet(s) \cup {x}
          /\ IsInjective(s) /\ x \notin ToSet(s) => IsInjective(Append(s, x))
    BY AppendMembers
  <2>3. pool' \in Seq(Node) /\ ToSet(pool') = ToSet(Tail(pool)) \cup {Head(pool)}
    BY <1>1, <1>2, <2>2, Zenon
  <2>4. IsInjective(pool')
    BY <1>1, <1>2, <2>1, <2>2, Zenon
  <2> QED
    BY <1>1, <1>2, <2>3, <2>4
<1>4. QueueType'
  BY <1>3 DEF QueueInv, QueueType
<1>5. NodesConserved'
  BY <1>3 DEF QueueInv, NodesConserved
<1>6. MembersAgree' /\ PendingOnce'
  BY DEF QueueInv, MembersAgree, PendingOnce
<1> QED
  BY <1>4, <1>5, <1>6 DEF QueueInv

\* A refused request rotates the pool at most.
LEMMA RequestRefusedStep ==
  ASSUME IndInv, NEW t \in Thread, NEW c \in Cmd, RequestRefused(t, c)
  PROVE  IndInv'
<1> USE IndParts
<1>1. QueueInv'
  <2>1. CASE UNCHANGED pool
    BY <2>1 DEF RequestRefused, nodeVars, QueueInv, QueueType, NodesConserved,
                MembersAgree, PendingOnce
  <2>2. CASE pool # <<>> /\ pool' = Append(Tail(pool), Head(pool))
    BY <2>2, RotatePool DEF RequestRefused, nodeVars
  <2> QED
    BY <2>1, <2>2 DEF RequestRefused
<1>2. BlockType'
  BY WaitingType DEF RequestRefused, BlockType
<1>3. TimerType' /\ ThreadsOK'
  BY DEF RequestRefused, TimerType, ThreadsOK, timerVars
<1>4. FlagType'
  BY ConstantsAssumption DEF RequestRefused, FlagType, nodeVars, DisableQueueFor
<1>5. BitmapExact'
  <2>1. UNCHANGED <<bitmap, vactive, pactive, cmd, th>>
    BY DEF RequestRefused, nodeVars
  <2> QED
    BY <2>1, QuietBitmap DEF CancellingActive
<1>6. MarkedHasOneActivator'
  <2>1. UNCHANGED <<inUse, pactive, th>>
    BY DEF RequestRefused, nodeVars
  <2> QED
    BY <2>1, QuietMarked DEF Activating
<1>7. MoveNeverFails'
  BY DEF RequestRefused, MoveNeverFails
<1> QED
  BY <1>1, <1>2, <1>3, <1>4, <1>5, <1>6, <1>7 DEF IndInv, TypeOK, QueueInv

(***************************************************************************)
(* A node enters the active list, marked, and its thread starts to         *)
(* activate it: from the pool (request) or the pending list (move).        *)
(***************************************************************************)
LEMMA Activate ==
  ASSUME IndInv, QueueInv', NEW t \in Thread, NEW n \in Node, NEW c \in Cmd,
         th[t].pc \notin {"activate", "activated", "cancelled"},
         n \notin ToSet(pactive), ToSet(pactive') = ToSet(pactive) \cup {n},
         cmd'[n] = c, \A m \in ToSet(pactive) : cmd'[m] = cmd[m],
         VdevOf[c] \notin bitmap, bitmap' = bitmap \cup {VdevOf[c]},
         inUse' = [inUse EXCEPT ![n] = @ \cup {"marked"}],
         th'[t].pc = "activate", th'[t].node = n,
         \A u \in Thread : u # t => th'[u] = th[u]
  PROVE  BitmapExact' /\ MarkedHasOneActivator'
<1> USE IndParts
<1>1. VdevOf[c] \in Vdev
  BY ConstantsAssumption
<1>2. \A u \in Thread, v \in Vdev : CancellingActive(u, v)' <=> CancellingActive(u, v)
  BY DEF CancellingActive
<1>3. ASSUME NEW v \in Vdev, v # VdevOf[c] PROVE vactive'[v] = <<>> <=> vactive[v] = <<>>
  <2>1. vactive[v] = <<>> <=> \A m \in ToSet(pactive) : VdevOf[cmd[m]] # v
    BY NoneActive
  <2>2. vactive'[v] = <<>> <=> \A m \in ToSet(pactive') : VdevOf[cmd'[m]] # v
    BY NoneActivePrime
  <2> QED
    BY <2>1, <2>2, <1>3
<1>4. vactive[VdevOf[c]] = <<>> /\ \A u \in Thread : ~CancellingActive(u, VdevOf[c])
  BY <1>1 DEF BitmapExact
<1>5. \A m \in ToSet(pactive) : VdevOf[cmd[m]] # VdevOf[c]
  BY <1>1, <1>4, NoneActive
<1>6. BitmapExact'
  <2>1. ASSUME NEW v \in Vdev
        PROVE  /\ v \in bitmap' <=> vactive'[v] # <<>> \/ \E u \in Thread : CancellingActive(u, v)
               /\ \A u \in Thread : CancellingActive(u, v) => vactive'[v] = <<>>
    <3>1. CASE v = VdevOf[c]
      <4>1. vactive'[v] # <<>>
        <5>1. n \in ToSet(pactive')
          OBVIOUS
        <5> QED
          BY <5>1, <3>1, NoneActivePrime
      <4> QED
        BY <4>1, <3>1, <1>4
    <3>2. CASE v # VdevOf[c]
      BY <3>2, <1>3 DEF BitmapExact
    <3> QED
      BY <3>1, <3>2
  <2>2. ASSUME NEW v \in Vdev, NEW u \in Thread, NEW w \in Thread,
               CancellingActive(u, v), CancellingActive(w, v)
        PROVE  u = w
    BY <2>2 DEF BitmapExact
  <2>3. ASSUME NEW m \in ToSet(pactive'), NEW l \in ToSet(pactive'),
               VdevOf[cmd'[m]] = VdevOf[cmd'[l]]
        PROVE  m = l
    BY <2>3, <1>5 DEF BitmapExact
  <2> QED
    BY <1>2, <2>1, <2>2, <2>3 DEF BitmapExact
<1>7. MarkedHasOneActivator'
  <2>1. inUse \in [Node -> SUBSET {"marked", "active", "cancel", "removal"}]
    BY DEF FlagType
  <2>2. "marked" \in inUse'[n] /\ \A m \in Node : m # n => inUse'[m] = inUse[m]
    BY <2>1
  <2>3. "marked" \notin inUse[n]
    BY DEF MarkedHasOneActivator
  <2>4. \A u \in Thread, m \in Node :
          Activating(u, m)' <=> IF u = t THEN m = n ELSE Activating(u, m)
    BY DEF Activating
  <2>5. \A m \in Node : ~Activating(t, m)
    BY DEF Activating
  <2> QED
    BY <2>2, <2>3, <2>4, <2>5 DEF MarkedHasOneActivator
<1> QED
  BY <1>6, <1>7

\* An accepted request takes a node from the pool to one of the two queues.
LEMMA RequestStep ==
  ASSUME IndInv, NEW t \in Thread, NEW c \in Cmd, Request(t, c)
  PROVE  IndInv'
<1> USE IndParts
<1> DEFINE v == VdevOf[c]
           n == Head(pool)
           f == [Idle EXCEPT !.pc = "activate", !.node = n]
<1>1. /\ pool # <<>> /\ pool' = Tail(pool) /\ cmd' = [cmd EXCEPT ![n] = c]
      /\ ~DuplicateOf(c) /\ th[t].pc = "idle" /\ waiting' = WaitingAfterCheck(c)
      /\ DisableQueueFor(c) /\ UNCHANGED <<timerVars, live, bug>>
  BY DEF Request, CanRequest, At
<1>2. n \in ToSet(pool) /\ n \in Node /\ v \in Vdev
  BY <1>1, ToSetType, ConstantsAssumption DEF QueueInv, QueueType
<1>3. n \notin ToSet(pactive) /\ ToSet(pactive) \subseteq Node
  BY <1>2, ToSetType DEF QueueInv, QueueType, NodesConserved
<1>4. \A m \in ToSet(pactive) : cmd'[m] = cmd[m]
  BY <1>1, <1>2, <1>3 DEF QueueInv, QueueType
<1>5. TimerType' /\ MoveNeverFails'
  BY <1>1 DEF TimerType, timerVars, MoveNeverFails
<1>6. waiting' \in Nat /\ waiting' < 65536
  BY <1>1, WaitingType DEF BlockType
<1>7. queueDisable' \subseteq Vdev /\ live' \subseteq Vdev
      /\ bug' \subseteq {"add_active", "no_timer", "stale_walk"}
  BY <1>1, <1>2 DEF FlagType, DisableQueueFor
<1>8. CASE ActiveCmdAllowed(c)
  <2>1. /\ vactive' = [vactive EXCEPT ![v] = Insert(@, n, c)]
        /\ pactive' = Insert(pactive, n, c)
        /\ bitmap' = bitmap \cup {v}
        /\ blockingActive' = (blockingActive \/ c \in Blocking)
        /\ inUse' = [inUse EXCEPT ![n] = @ \cup {"marked"}]
        /\ Goto(t, f)
        /\ UNCHANGED <<vpending, ppending>>
    BY <1>8 DEF Request
  <2>2. QueueInv' /\ cmd'[n] = c /\ ToSet(pactive') = ToSet(pactive) \cup {n}
    BY <1>1, <2>1, PoolToActive
  <2>3. BlockType'
    <3>1. blockingActive' \in BOOLEAN
      BY <2>1
    <3> QED
      BY <1>2, <1>6, <2>1, <3>1 DEF BlockType
  <2>4. FlagType'
    BY <1>7, <2>1 DEF FlagType
  <2>5. FrameOK(f) /\ f.pc = "activate" /\ f.node = n
    BY <1>2, IdleOK DEF FrameOK, ThreadType, PC, Idle
  <2>6. /\ ThreadsOK' /\ th'[t] = f
        /\ \A u \in Thread : u # t => th'[u] = th[u]
    BY <2>1, <2>5, GotoFrame
  <2>7. v \notin bitmap
    BY <1>8 DEF ActiveCmdAllowed, IsActiveNonScanCmdAllowed
  <2>8. BitmapExact' /\ MarkedHasOneActivator'
    <3> HIDE DEF f
    <3> QED
      BY <1>1, <1>2, <1>3, <1>4, <2>1, <2>2, <2>5, <2>6, <2>7, Activate
  <2> QED
    BY <1>5, <2>2, <2>3, <2>4, <2>6, <2>8 DEF IndInv, TypeOK, QueueInv
<1>9. CASE ~ActiveCmdAllowed(c)
  <2>1. /\ vpending' = [vpending EXCEPT ![v] = Insert(@, n, c)]
        /\ ppending' = Insert(ppending, n, c)
        /\ UNCHANGED <<vactive, pactive, bitmap, blockingActive, inUse, th>>
    BY <1>9 DEF Request
  <2>2. ~HasCmd(vpending[v], c)
    BY <1>1, <1>9 DEF DuplicateOf
  <2>3. QueueInv'
    BY <1>1, <2>1, <2>2, PoolToPending
  <2>4. BlockType' /\ FlagType' /\ ThreadsOK'
    BY <1>6, <1>7, <2>1 DEF BlockType, FlagType, ThreadsOK
  <2>5. BitmapExact'
    BY <2>1, <1>4, QuietBitmap DEF CancellingActive
  <2>6. MarkedHasOneActivator'
    BY <2>1, QuietMarked DEF Activating
  <2> QED
    BY <1>5, <2>3, <2>4, <2>5, <2>6 DEF IndInv, TypeOK, QueueInv
<1> QED
  BY <1>8, <1>9

-----------------------------------------------------------------------------
(***************************************************************************)
(* The steps of wlan_serialization_activate_cmd.                           *)
(***************************************************************************)
QueuesUnchanged == UNCHANGED <<queueVars, cmd>>

\* A step that leaves the lists alone keeps what is said of them.
LEMMA QueuesKept ==
  ASSUME QueueInv, QueuesUnchanged PROVE QueueInv'
BY DEF QueuesUnchanged, queueVars, QueueInv, QueueType, NodesConserved, MembersAgree,
       PendingOnce

\* Starting a timer and calling the client touch no list.
LEMMA FindAndStartTimerStep ==
  ASSUME IndInv, NEW t \in Thread, FindAndStartTimer(t)
  PROVE  IndInv'
<1> USE IndParts
<1> DEFINE n == th[t].node
           v == VdevOf[cmd[n]]
           free == {s \in Slot : timer[s] = NoNode}
<1>0. UNCHANGED <<pool, pactive, ppending, vactive, vpending, cmd, inUse, bitmap,
                  blockingActive, waiting, queueDisable, live, bug, timerMsgs>>
  BY DEF FindAndStartTimer, queueVars, blockVars, nodeVars
<1>1. th[t].pc = "activate" /\ th[t] \in ThreadType /\ n \in Node
  BY DEF FindAndStartTimer, At, ThreadsOK, FrameOK
<1>2. PICK ok \in BOOLEAN : Goto(t, [th[t] EXCEPT !.pc = "activated", !.ok = ok])
  BY DEF FindAndStartTimer
<1> DEFINE f == [th[t] EXCEPT !.pc = "activated", !.ok = ok]
<1>3. FrameOK(f) /\ f.pc = "activated" /\ f.node = n
  BY <1>1 DEF FrameOK, ThreadType, PC
<1>4. ThreadsOK' /\ th'[t] = f /\ \A u \in Thread : u # t => th'[u] = th[u]
  BY <1>2, <1>3, GotoFrame
<1> HIDE DEF f
<1>5. TimerType'
  <2>1. CASE UNCHANGED <<timer, armed, refs>>
    BY <1>0, <2>1 DEF TimerType
  <2>2. CASE /\ free # {}
             /\ timer' = [timer EXCEPT ![Min(free)] = n]
             /\ armed' = armed \cup {Min(free)}
             /\ refs' = [refs EXCEPT ![v] = @ + 1]
    <3>1. free \in SUBSET Nat
      BY ConstantsAssumption DEF Slot
    <3> DEFINE slot == Min(free)
    <3>2. slot \in Slot
      BY <2>2, <3>1, MinIsFirst
    <3>3. /\ timer' = [timer EXCEPT ![slot] = n] /\ armed' = armed \cup {slot}
          /\ refs' = [refs EXCEPT ![v] = @ + 1]
      BY <2>2
    <3> HIDE DEF slot, n, v
    <3>4. timer' \in [Slot -> Node \cup {NoNode}]
      BY <1>1, <3>2, <3>3 DEF TimerType
    <3>5. refs' \in [Vdev -> Int]
      <4>1. refs \in [Vdev -> Int]
        BY DEF TimerType
      <4>2. CASE v \in Vdev
        BY <3>3, <4>1, <4>2
      <4>3. CASE v \notin Vdev
        BY <3>3, <4>1, <4>3
      <4> QED
        BY <4>2, <4>3
    <3> QED
      BY <1>0, <3>2, <3>3, <3>4, <3>5 DEF TimerType
  <2> QED
    BY <2>1, <2>2 DEF FindAndStartTimer
<1>6. QueueInv'
  BY <1>0, QueuesKept DEF QueuesUnchanged, queueVars
<1>7. BlockType' /\ FlagType' /\ MoveNeverFails'
  BY <1>0 DEF BlockType, FlagType, MoveNeverFails
<1>8. BitmapExact'
  <2>1. \A u \in Thread, w \in Vdev : CancellingActive(u, w)' <=> CancellingActive(u, w)
    BY <1>1, <1>3, <1>4 DEF CancellingActive
  <2> QED
    BY <1>0, <2>1, QuietBitmap
<1>9. MarkedHasOneActivator'
  <2>1. \A u \in Thread, m \in Node : Activating(u, m)' <=> Activating(u, m)
    BY <1>1, <1>3, <1>4 DEF Activating
  <2> QED
    BY <1>0, <2>1, QuietMarked
<1> QED
  BY <1>4, <1>5, <1>6, <1>7, <1>8, <1>9 DEF IndInv, TypeOK, QueueInv

(***************************************************************************)
(* A step that leaves the queues, the bitmap and the marks alone and whose *)
(* thread is neither activating nor cancelling, before and after.          *)
(***************************************************************************)
LEMMA QuietStep ==
  ASSUME IndInv, NEW t \in Thread,
         UNCHANGED <<pool, pactive, ppending, vactive, vpending, cmd, bitmap>>,
         BlockType', TimerType', FlagType', ThreadsOK', MoveNeverFails',
         \A n \in Node : "marked" \in inUse'[n] <=> "marked" \in inUse[n],
         \A u \in Thread : u # t => th'[u] = th[u],
         th[t].pc \notin {"activate", "activated", "cancelled"},
         th'[t].pc \notin {"activate", "activated", "cancelled"}
  PROVE  IndInv'
<1> USE IndParts
<1>1. QueueInv'
  BY QueuesKept DEF QueuesUnchanged, queueVars
<1>2. /\ \A u \in Thread, v \in Vdev : CancellingActive(u, v)' <=> CancellingActive(u, v)
      /\ \A u \in Thread, n \in Node : Activating(u, n)' <=> Activating(u, n)
  BY QuietFrame
<1>3. BitmapExact'
  BY <1>2, QuietBitmap
<1>4. MarkedHasOneActivator'
  BY <1>2, QuietMarked
<1> QED
  BY <1>1, <1>3, <1>4 DEF IndInv, TypeOK, QueueInv

\* The mark goes when its activator is done.
LEMMA ActivationDoneStep ==
  ASSUME IndInv, NEW t \in Thread, ActivationDone(t)
  PROVE  IndInv'
<1> USE IndParts
<1> DEFINE n == th[t].node
           f == [th[t] EXCEPT !.pc = "check"]
<1>0. /\ UNCHANGED <<pool, pactive, ppending, vactive, vpending, cmd, bitmap,
                      blockingActive, waiting, queueDisable, live, bug>>
      /\ UNCHANGED <<timer, armed, timerMsgs, refs>>
      /\ inUse' = [inUse EXCEPT ![n] = (@ \ {"marked"}) \cup {"active"}]
      /\ Goto(t, f) /\ th[t].pc = "activated"
  BY DEF ActivationDone, At, queueVars, blockVars, timerVars
<1>1. n \in Node /\ FrameOK(th[t])
  BY <1>0 DEF ThreadsOK, FrameOK
<1>2. FrameOK(f) /\ f.pc = "check" /\ f.node = n
  BY <1>1 DEF FrameOK, ThreadType, PC
<1>3. ThreadsOK' /\ th'[t] = f /\ \A u \in Thread : u # t => th'[u] = th[u]
  BY <1>0, <1>2, GotoFrame
<1> HIDE DEF f
<1>4. QueueInv'
  BY <1>0, QueuesKept DEF QueuesUnchanged, queueVars
<1>5. BlockType' /\ TimerType' /\ MoveNeverFails'
  BY <1>0 DEF BlockType, TimerType, MoveNeverFails
<1>6. FlagType'
  BY <1>0, <1>1 DEF FlagType
<1>7. BitmapExact'
  <2>1. \A u \in Thread, w \in Vdev : CancellingActive(u, w)' <=> CancellingActive(u, w)
    BY <1>0, <1>2, <1>3 DEF CancellingActive
  <2> QED
    BY <1>0, <2>1, QuietBitmap
<1>8. MarkedHasOneActivator'
  <2>1. \A m \in Node : "marked" \in inUse'[m] <=> "marked" \in inUse[m] /\ m # n
    BY <1>0, <1>1 DEF FlagType
  <2>2. \A u \in Thread, m \in Node : Activating(u, m)' <=> Activating(u, m) /\ u # t
    BY <1>0, <1>2, <1>3 DEF Activating
  <2>3. Activating(t, n)
    BY <1>0 DEF Activating
  <2>4. \A m \in Node : Activating(t, m) => m = n
    BY DEF Activating
  <2> HIDE DEF n
  <2> QED
    BY <1>0, <1>1, <2>1, <2>2, <2>3, <2>4 DEF MarkedHasOneActivator
<1> QED
  BY <1>3, <1>4, <1>5, <1>6, <1>7, <1>8 DEF IndInv, TypeOK, QueueInv

\* The thread decides what to do next.
LEMMA CheckAfterActivationStep ==
  ASSUME IndInv, NEW t \in Thread, CheckAfterActivation(t)
  PROVE  IndInv'
<1> USE IndParts
<1> DEFINE n == th[t].node
           next == [Idle EXCEPT !.node = n, !.k = th[t].k]
           r == CancelOne(cmd[n])
<1>0. /\ UNCHANGED <<pool, pactive, ppending, vactive, vpending, cmd, bitmap,
                      blockingActive, waiting, queueDisable, live, bug, inUse>>
      /\ UNCHANGED <<timer, armed, timerMsgs, refs>>
      /\ th[t].pc = "check"
  BY DEF CheckAfterActivation, At, queueVars, blockVars, timerVars, nodeVars
<1>1. n \in Node /\ th[t].k \in Seq(Caller)
  BY <1>0 DEF ThreadsOK, FrameOK, ThreadType
<1>2. r \in CancelReqType
  <2>1. <<"active">> \in Seq({"active", "pending"})
    OBVIOUS
  <2> QED
    BY <2>1 DEF CancelOne, CancelReqType
<1>3. BlockType' /\ TimerType' /\ FlagType' /\ MoveNeverFails'
  BY <1>0 DEF BlockType, TimerType, FlagType, MoveNeverFails
<1>4. /\ ThreadsOK' /\ \A u \in Thread : u # t => th'[u] = th[u]
      /\ th'[t].pc \notin {"activate", "activated", "cancelled"}
  <2>1. ASSUME NEW why \in {"REMOVE", "FAILED"},
               Goto(t, [next EXCEPT !.pc = "dequeue", !.why = why])
        PROVE  /\ ThreadsOK' /\ \A u \in Thread : u # t => th'[u] = th[u]
               /\ th'[t].pc \notin {"activate", "activated", "cancelled"}
    <3> DEFINE f == [next EXCEPT !.pc = "dequeue", !.why = why]
    <3>2. FrameOK(f) /\ f.pc = "dequeue"
      BY <1>1, IdleOK DEF FrameOK, ThreadType, PC, Idle
    <3> HIDE DEF f
    <3> QED
      BY <2>1, <3>2, GotoFrame DEF f
  <2>2. CASE Goto(t, [next EXCEPT !.pc = "cancel", !.node = NoNode, !.req = r])
    <3> DEFINE f == [next EXCEPT !.pc = "cancel", !.node = NoNode, !.req = r]
    <3> HIDE DEF r
    <3>1. FrameOK(f) /\ f.pc = "cancel"
      BY <1>1, <1>2, IdleOK DEF FrameOK, ThreadType, PC, Idle
    <3> QED
      BY <2>2, <3>1, GotoFrame
  <2>3. CASE Return(t)
    BY <2>3, ReturnFrame
  <2>4. \/ Goto(t, [next EXCEPT !.pc = "dequeue", !.why = "FAILED"])
        \/ Goto(t, [next EXCEPT !.pc = "dequeue", !.why = "REMOVE"])
        \/ Goto(t, [next EXCEPT !.pc = "cancel", !.node = NoNode, !.req = r])
        \/ Return(t)
    BY DEF CheckAfterActivation
  <2> QED
    BY <2>1, <2>2, <2>3, <2>4
<1> QED
  BY <1>0, <1>3, <1>4, QuietStep

-----------------------------------------------------------------------------
(***************************************************************************)
(* A node leaves the active list.  Thread t may have been cancelling an    *)
(* active command before (its bit goes), and may be cancelling the one of  *)
(* the node now (its bit stays until the callbacks have run).              *)
(***************************************************************************)
LEMMA Deactivate ==
  ASSUME IndInv, QueueInv', NEW t \in Thread, NEW n \in ToSet(pactive),
         NEW v, v = VdevOf[cmd[n]],
         ToSet(pactive') = ToSet(pactive) \ {n},
         \A m \in Node : m # n => cmd'[m] = cmd[m],
         "marked" \notin inUse[n],
         \A m \in Node : "marked" \in inUse'[m] <=> "marked" \in inUse[m],
         \A u \in Thread : u # t => th'[u] = th[u],
         th[t].pc \notin {"activate", "activated"},
         th'[t].pc \notin {"activate", "activated"},
         \A w \in Vdev : CancellingActive(t, w)' => w = v,
         \A w \in Vdev : w \in bitmap' <=> /\ w \in bitmap
                                           /\ ~CancellingActive(t, w)
                                           /\ w # v \/ CancellingActive(t, w)'
  PROVE  BitmapExact' /\ MarkedHasOneActivator'
<1> USE IndParts
<1>1. n \in Node /\ v \in Vdev /\ ToSet(pactive) \subseteq Node
  BY QueuedNode, ToSetType DEF QueueInv, QueueType
<1>2. \A u \in Thread, w \in Vdev : u # t => (CancellingActive(u, w)' <=> CancellingActive(u, w))
  BY DEF CancellingActive
<1>3. ASSUME NEW w \in Vdev, w # v PROVE vactive'[w] = <<>> <=> vactive[w] = <<>>
  <2>1. vactive[w] = <<>> <=> \A m \in ToSet(pactive) : VdevOf[cmd[m]] # w
    BY NoneActive
  <2>2. vactive'[w] = <<>> <=> \A m \in ToSet(pactive') : VdevOf[cmd'[m]] # w
    BY NoneActivePrime
  <2> QED
    BY <1>1, <1>3, <2>1, <2>2
<1>4. vactive[v] # <<>>
  BY <1>1, NoneActive
<1>5. vactive'[v] = <<>>
  <2>1. \A m \in ToSet(pactive) : m # n => VdevOf[cmd[m]] # v
    BY DEF BitmapExact
  <2>2. \A m \in ToSet(pactive') : VdevOf[cmd'[m]] # v
    BY <1>1, <2>1
  <2> QED
    BY <1>1, <2>2, NoneActivePrime
<1>6. \A u \in Thread : ~CancellingActive(u, v)
  BY <1>1, <1>4 DEF BitmapExact
<1>7. v \in bitmap
  BY <1>1, <1>4 DEF BitmapExact
<1>8. BitmapExact'
  <2>1. ASSUME NEW w \in Vdev
        PROVE  /\ w \in bitmap' <=> vactive'[w] # <<>> \/ \E u \in Thread : CancellingActive(u, w)'
               /\ \A u \in Thread : CancellingActive(u, w)' => vactive'[w] = <<>>
               /\ \A u, x \in Thread : CancellingActive(u, w)' /\ CancellingActive(x, w)' => u = x
    <3>1. CASE w = v
      BY <3>1, <1>2, <1>5, <1>6, <1>7
    <3>2. CASE w # v
      <4>1. /\ w \in bitmap <=> vactive[w] # <<>> \/ \E u \in Thread : CancellingActive(u, w)
            /\ \A u \in Thread : CancellingActive(u, w) => vactive[w] = <<>>
            /\ \A u, x \in Thread : CancellingActive(u, w) /\ CancellingActive(x, w) => u = x
        BY DEF BitmapExact
      <4>2. ~CancellingActive(t, w)'
        BY <3>2
      <4> QED
        BY <3>2, <4>1, <4>2, <1>2, <1>3
    <3> QED
      BY <3>1, <3>2
  <2>2. ASSUME NEW m \in ToSet(pactive'), NEW l \in ToSet(pactive'),
               VdevOf[cmd'[m]] = VdevOf[cmd'[l]]
        PROVE  m = l
    BY <2>2, <1>1 DEF BitmapExact
  <2> QED
    BY <2>1, <2>2 DEF BitmapExact
<1>9. MarkedHasOneActivator'
  <2>1. \A u \in Thread, m \in Node : Activating(u, m)' <=> Activating(u, m)
    BY DEF Activating
  <2> QED
    BY <2>1, QuietMarked
<1> QED
  BY <1>8, <1>9

(***************************************************************************)
(* wlan_serialization_dequeue_cmd.  The command is looked up in the list   *)
(* of the vdev and in the list of the pdev: it is the same node because a  *)
(* vdev has one active command.                                            *)
(***************************************************************************)
LEMMA SameActiveNode ==
  ASSUME IndInv, NEW c \in Cmd, HasCmd(vactive[VdevOf[c]], c)
  PROVE  /\ FindCmd(pactive, c) \in ToSet(pactive)
         /\ cmd[FindCmd(pactive, c)] = c
         /\ FindCmd(vactive[VdevOf[c]], c) = FindCmd(pactive, c)
<1> USE IndParts
<1> DEFINE v == VdevOf[c]
           a == FindCmd(vactive[v], c)
           b == FindCmd(pactive, c)
<1>1. v \in Vdev
  BY ConstantsAssumption
<1>2. a \in ToSet(vactive[v]) /\ cmd[a] = c
  BY <1>1, FindCmdMember DEF QueueInv, QueueType
<1>3. a \in ToSet(pactive)
  BY <1>1, <1>2 DEF QueueInv, MembersAgree
<1>4. HasCmd(pactive, c)
  BY <1>2, <1>3 DEF HasCmd
<1>5. b \in ToSet(pactive) /\ cmd[b] = c
  BY <1>4, FindCmdMember DEF QueueInv, QueueType
<1>6. a = b
  BY <1>2, <1>3, <1>5 DEF BitmapExact
<1> QED
  BY <1>5, <1>6

\* wlan_serialization_dequeue_cmd: not found, marked for removal, or removed.
LEMMA DequeueCmdStep ==
  ASSUME IndInv, NEW t \in Thread, NEW c \in Cmd \cup {NoCmd}, NEW why,
         NEW timedOut \in Cmd \cup {NoCmd},
         th[t].pc \in {"idle", "dequeue"},
         DequeueCmd(t, c, why, timedOut), UNCHANGED <<queueDisable, live, bug>>
  PROVE  IndInv'
<1> USE IndParts
<1>0. MoveNeverFails'
  BY DEF MoveNeverFails
<1>1. CASE Return(t) /\ UNCHANGED <<queueVars, blockVars, nodeVars, timerVars>>
  <2>1. /\ ThreadsOK' /\ \A u \in Thread : u # t => th'[u] = th[u]
        /\ th'[t].pc \in {"idle", "resume", "putref"}
    BY <1>1, ReturnFrame
  <2>2. BlockType' /\ TimerType' /\ FlagType'
    BY <1>1 DEF BlockType, TimerType, FlagType, blockVars, timerVars, nodeVars
  <2> QED
    BY <1>0, <1>1, <2>1, <2>2, QuietStep DEF queueVars, blockVars, nodeVars
<1> DEFINE v == VdevOf[c]
           n == FindCmd(pactive, c)
<1>2. CASE /\ c # NoCmd /\ HasCmd(vactive[v], c)
           /\ inUse' = [inUse EXCEPT ![FindCmd(vactive[v], c)] = @ \cup {"removal"}]
           /\ Return(t)
           /\ UNCHANGED <<queueVars, blockVars, cmd, timerVars>>
  <2>1. /\ ThreadsOK' /\ \A u \in Thread : u # t => th'[u] = th[u]
        /\ th'[t].pc \in {"idle", "resume", "putref"}
    BY <1>2, ReturnFrame
  <2>2. BlockType' /\ TimerType'
    BY <1>2 DEF BlockType, TimerType, blockVars, timerVars
  <2>3. n \in ToSet(pactive) /\ inUse' = [inUse EXCEPT ![n] = @ \cup {"removal"}]
    BY <1>2, SameActiveNode
  <2>4. n \in Node
    BY <2>3, QueuedNode
  <2> HIDE DEF n
  <2>5. FlagType' /\ \A m \in Node : "marked" \in inUse'[m] <=> "marked" \in inUse[m]
    BY <2>3, <2>4 DEF FlagType
  <2> QED
    BY <1>0, <1>2, <2>1, <2>2, <2>5, QuietStep DEF queueVars, blockVars
<1> DEFINE k == IF why = "TIMEOUT"
                THEN Cons([pc |-> "putref", left |-> 0, cmd |-> timedOut], th[t].k)
                ELSE th[t].k
           f == [Idle EXCEPT !.pc = "move", !.cmd = c, !.k = k]
<1>3. CASE /\ c # NoCmd /\ HasCmd(vactive[v], c)
           /\ "marked" \notin inUse[FindCmd(vactive[v], c)]
           /\ vactive' = [vactive EXCEPT ![v] = RemoveCmdFrom(@, c)]
           /\ pactive' = RemoveCmdFrom(pactive, c)
           /\ blockingActive' = (blockingActive /\ c \notin Blocking)
           /\ bitmap' = bitmap \ {v}
           /\ FindAndStopTimer(c, why = "TIMEOUT")
           /\ FreeNode(n)
           /\ Goto(t, f)
           /\ UNCHANGED <<vpending, ppending, waiting, timerMsgs>>
  <2>1. c \in Cmd /\ v \in Vdev
    BY <1>3, ConstantsAssumption
  <2>2. /\ n \in ToSet(pactive) /\ cmd[n] = c /\ FindCmd(vactive[v], c) = n
        /\ n \in Node
    BY <1>3, <2>1, SameActiveNode, QueuedNode
  <2>3. /\ pactive' = RemoveFirst(pactive, n)
        /\ vactive' = [vactive EXCEPT ![VdevOf[cmd[n]]] = RemoveFirst(@, n)]
        /\ pool' = Append(pool, n) /\ cmd' = [cmd EXCEPT ![n] = NoCmd]
        /\ inUse' = [inUse EXCEPT ![n] = {}]
    BY <1>3, <2>2 DEF RemoveCmdFrom, FreeNode
  <2> HIDE DEF n
  <2>4. /\ QueueInv' /\ ToSet(pactive') = ToSet(pactive) \ {n}
        /\ \A m \in Node : m # n => cmd'[m] = cmd[m]
    BY <1>3, <2>2, <2>3, ActiveToPool
  <2>5. BlockType'
    <3>1. blockingActive' \in BOOLEAN
      BY <1>3
    <3> QED
      BY <1>3, <3>1 DEF BlockType
  <2>6. TimerType'
    BY <1>3, StopTimerType
  <2>7. /\ "marked" \notin inUse[n]
        /\ \A m \in Node : "marked" \in inUse'[m] <=> "marked" \in inUse[m]
        /\ FlagType'
    BY <1>3, <2>2, <2>3 DEF FlagType
  <2>8. k \in Seq(Caller)
    <3>1. th[t].k \in Seq(Caller)
      BY DEF ThreadsOK, ThreadType
    <3>2. [pc |-> "putref", left |-> 0, cmd |-> timedOut] \in Caller
      BY DEF Caller
    <3>3. Cons([pc |-> "putref", left |-> 0, cmd |-> timedOut], th[t].k) \in Seq(Caller)
      BY <3>1, <3>2, ConsMembers
    <3> QED
      BY <3>1, <3>3
  <2> HIDE DEF k
  <2>9. FrameOK(f) /\ f.pc = "move"
    BY <2>1, <2>8, IdleOK DEF FrameOK, ThreadType, PC, Idle
  <2> HIDE DEF f
  <2>10. ThreadsOK' /\ th'[t] = f /\ \A u \in Thread : u # t => th'[u] = th[u]
    BY <1>3, <2>9, GotoFrame
  <2>11. \A w \in Vdev : ~CancellingActive(t, w) /\ ~CancellingActive(t, w)'
    BY <2>9, <2>10 DEF CancellingActive
  <2>12. /\ \A w \in Vdev : CancellingActive(t, w)' => w = v
         /\ \A w \in Vdev : w \in bitmap' <=> /\ w \in bitmap
                                              /\ ~CancellingActive(t, w)
                                              /\ w # v \/ CancellingActive(t, w)'
    BY <1>3, <2>11
  <2>13. BitmapExact' /\ MarkedHasOneActivator'
    BY <2>2, <2>4, <2>7, <2>9, <2>10, <2>12, Deactivate
  <2> QED
    BY <1>0, <2>4, <2>5, <2>6, <2>7, <2>10, <2>13 DEF IndInv, TypeOK, QueueInv
<1> QED
  BY <1>1, <1>2, <1>3 DEF DequeueCmd, ClearActive

\* The two callers of it.
LEMMA RemoveCmdStep ==
  ASSUME IndInv, NEW t \in Thread, NEW c \in Cmd, RemoveCmd(t, c)
  PROVE  IndInv'
BY DequeueCmdStep DEF RemoveCmd, At

\* A thread that holds a pointer into the node dequeues what the node holds.
LEMMA DequeueNodeStep ==
  ASSUME IndInv, NEW t \in Thread, DequeueNode(t)
  PROVE  IndInv'
<1>1. th[t].pc = "dequeue"
  BY DEF DequeueNode, At
<1>2. th[t].node \in Node /\ th[t].cmd \in Cmd \cup {NoCmd}
  BY <1>1, IndParts DEF ThreadsOK, FrameOK, ThreadType
<1>3. cmd[th[t].node] \in Cmd \cup {NoCmd}
  BY <1>2, IndParts DEF QueueInv, QueueType
<1> QED
  BY <1>1, <1>2, <1>3, DequeueCmdStep DEF DequeueNode

-----------------------------------------------------------------------------
(***************************************************************************)
(* A vdev whose bit is clear has room in the active lists: the other       *)
(* active commands are on different vdevs, so there are fewer of them than *)
(* vdevs, and the active list of the pdev holds one per vdev.              *)
(***************************************************************************)
LEMMA RoomForActive ==
  ASSUME IndInv, NEW v \in Vdev, v \notin bitmap
  PROVE  ~Full(v, TRUE)
<1> USE IndParts
<1>1. vactive[v] = <<>>
  BY DEF BitmapExact
<1>2. Len(vactive[v]) # VdevActiveMax
  BY <1>1, LimitsAssumption
<1> DEFINE A == ToSet(pactive)
           g == [n \in A |-> VdevOf[cmd[n]]]
<1>3. g \in Injection(A, Vdev \ {v})
  <2>1. \A n \in A : VdevOf[cmd[n]] \in Vdev \ {v}
    BY <1>1, NoneActive, QueuedNode
  <2>2. \A m, n \in A : VdevOf[cmd[m]] = VdevOf[cmd[n]] => m = n
    BY DEF BitmapExact
  <2> QED
    BY <2>1, <2>2 DEF Injection, IsInjective
<1>4. /\ IsFiniteSet(Vdev) /\ IsFiniteSet(Vdev \ {v})
      /\ Cardinality(Vdev \ {v}) = Cardinality(Vdev) - 1
      /\ Cardinality(Vdev) \in Nat
  BY ConstantsAssumption, FS_RemoveElement, FS_CardinalityType
<1>5. Cardinality(A) <= Cardinality(Vdev \ {v})
  BY <1>3, <1>4, FS_Injection
<1>6. Cardinality(A) = Len(pactive)
  BY DistinctLen DEF QueueInv, QueueType, NodesConserved
<1>7. PdevActiveMax \in Nat /\ Len(pactive) \in Nat
  BY ConstantsAssumption, LenProperties DEF QueueInv, QueueType
<1>8. Len(pactive) # PdevActiveMax
  <2> HIDE DEF A
  <2> QED
    BY <1>4, <1>5, <1>6, <1>7, LimitsAssumption
<1> QED
  BY <1>2, <1>8 DEF Full

(***************************************************************************)
(* wlan_ser_move_non_scan_pending_to_active, one stretch of the loop.      *)
(***************************************************************************)
LEMMA MoveLoopStep ==
  ASSUME IndInv, NEW t \in Thread, NEW list \in Seq(Node), NEW budget \in Nat,
         NEW byVdev, ToSet(list) \subseteq ToSet(ppending),
         th[t].pc \in {"move", "resume"},
         MoveLoop(t, list, budget, byVdev),
         UNCHANGED <<queueDisable, cmd, timerVars, live>>
  PROVE  IndInv'
<1> USE IndParts
<1> DEFINE stops == Stops(list, budget, byVdev)
           i0 == Min(stops)
           c == cmd[list[i0]]
           v == VdevOf[c]
           n == FindCmd(ppending, c)
           canMove == stops # {} /\ ~Busy(c) /\ (byVdev \/ ~Blocked(c))
           k == IF byVdev THEN th[t].k
                ELSE Cons([pc |-> "resume", cmd |-> NoCmd, left |-> budget - i0], th[t].k)
           f == [Idle EXCEPT !.pc = "activate", !.node = n, !.k = k]
<1>0. TimerType'
  BY DEF TimerType, timerVars
<1>1. CASE Return(t) /\ UNCHANGED <<queueVars, blockVars, inUse, bug>>
  <2>1. /\ ThreadsOK' /\ \A u \in Thread : u # t => th'[u] = th[u]
        /\ th'[t].pc \in {"idle", "resume", "putref"}
    BY <1>1, ReturnFrame
  <2>2. BlockType' /\ FlagType' /\ MoveNeverFails'
    BY <1>1 DEF BlockType, FlagType, MoveNeverFails, blockVars
  <2> QED
    BY <1>0, <1>1, <2>1, <2>2, QuietStep DEF queueVars, blockVars
<1>2. CASE /\ canMove
           /\ vpending' = [vpending EXCEPT ![v] = RemoveCmdFrom(@, c)]
           /\ ppending' = RemoveCmdFrom(ppending, c)
           /\ \/ Full(v, TRUE)
              \/ /\ vactive' = [vactive EXCEPT ![v] = Insert(@, n, c)]
                 /\ pactive' = Insert(pactive, n, c)
                 /\ bitmap' = bitmap \cup {v}
                 /\ blockingActive' = (blockingActive \/ c \in Blocking)
                 /\ waiting' = IF c \in Blocking THEN UInt16(waiting - 1) ELSE waiting
                 /\ inUse' = [inUse EXCEPT ![n] = @ \cup {"marked"}]
                 /\ Goto(t, f)
                 /\ UNCHANGED <<pool, bug>>
  <2>1. i0 \in 1..Len(list) /\ i0 <= budget
    <3> DEFINE top == Min({budget, Len(list)})
    <3>1. Len(list) \in Nat
      BY LenProperties
    <3>2. top \in Nat /\ top <= budget /\ top <= Len(list)
      BY <3>1, MinIsFirst
    <3> HIDE DEF top
    <3>3. stops \in SUBSET Nat /\ \A i \in stops : i \in 1..top
      BY <3>2 DEF top, Stops
    <3>4. i0 \in stops
      BY <1>2, <3>3, MinIsFirst
    <3>5. i0 \in 1..top
      BY <3>3, <3>4, Zenon
    <3> HIDE DEF i0
    <3> QED
      BY <3>1, <3>2, <3>5
  <2> HIDE DEF i0
  <2>2. list[i0] \in ToSet(ppending) /\ list[i0] \in Node
    BY <2>1, ElementOfSeq, LenProperties DEF ToSet
  <2>3. c \in Cmd /\ v \in Vdev /\ HasCmd(ppending, c)
    BY <2>2, QueuedNode DEF HasCmd
  <2> HIDE DEF c
  <2>4. v \notin bitmap
    BY <1>2 DEF Busy
  <2>5. ~Full(v, TRUE)
    BY <2>3, <2>4, RoomForActive
  <2>6. /\ vactive' = [vactive EXCEPT ![v] = Insert(@, n, c)]
        /\ pactive' = Insert(pactive, n, c)
        /\ bitmap' = bitmap \cup {v}
        /\ blockingActive' = (blockingActive \/ c \in Blocking)
        /\ waiting' = IF c \in Blocking THEN UInt16(waiting - 1) ELSE waiting
        /\ inUse' = [inUse EXCEPT ![n] = @ \cup {"marked"}]
        /\ Goto(t, f)
        /\ UNCHANGED <<pool, bug>>
    BY <1>2, <2>5
  <2>7. /\ QueueInv' /\ n \in ToSet(ppending) /\ cmd[n] = c
        /\ ToSet(pactive') = ToSet(pactive) \cup {n}
    BY <1>2, <2>3, <2>6, PendingToActive
  <2>8. n \in Node /\ n \notin ToSet(pactive)
    BY <2>7, QueuedNode DEF QueueInv, NodesConserved
  <2> HIDE DEF n
  <2>9. BlockType'
    <3>1. blockingActive' \in BOOLEAN
      BY <2>6
    <3>2. waiting \in Nat /\ waiting < 65536 /\ bitmap \subseteq Vdev
      BY DEF BlockType
    <3>3. UInt16(waiting - 1) \in Nat /\ UInt16(waiting - 1) < 65536
      BY <3>2, WaitingLess
    <3>4. waiting' \in Nat /\ waiting' < 65536
      BY <2>6, <3>2, <3>3
    <3>5. bitmap' \subseteq Vdev
      BY <2>3, <2>6, <3>2
    <3> QED
      BY <3>1, <3>4, <3>5 DEF BlockType
  <2>10. FlagType' /\ MoveNeverFails'
    BY <2>6, <2>8 DEF FlagType, MoveNeverFails
  <2>11. k \in Seq(Caller)
    <3>1. th[t].k \in Seq(Caller)
      BY DEF ThreadsOK, ThreadType
    <3>2. budget - i0 \in Nat
      BY <2>1
    <3>3. [pc |-> "resume", cmd |-> NoCmd, left |-> budget - i0] \in Caller
      BY <3>2 DEF Caller
    <3>4. Cons([pc |-> "resume", cmd |-> NoCmd, left |-> budget - i0], th[t].k) \in Seq(Caller)
      BY <3>1, <3>3, ConsMembers
    <3> QED
      BY <3>1, <3>4
  <2> HIDE DEF k
  <2>12. FrameOK(f) /\ f.pc = "activate" /\ f.node = n
    BY <2>8, <2>11, IdleOK DEF FrameOK, ThreadType, PC, Idle
  <2> HIDE DEF f
  <2>13. ThreadsOK' /\ th'[t] = f /\ \A u \in Thread : u # t => th'[u] = th[u]
    BY <2>6, <2>12, GotoFrame
  <2>14. BitmapExact' /\ MarkedHasOneActivator'
    BY <2>3, <2>4, <2>6, <2>7, <2>8, <2>12, <2>13, Activate
  <2> QED
    BY <1>0, <2>7, <2>9, <2>10, <2>13, <2>14 DEF IndInv, TypeOK, QueueInv
<1> QED
  BY <1>1, <1>2 DEF MoveLoop

\* The two entries to the loop that moves pending commands.
LEMMA MovePendingToActiveStep ==
  ASSUME IndInv, NEW t \in Thread, MovePendingToActive(t)
  PROVE  IndInv'
<1> USE IndParts
<1> DEFINE c == th[t].cmd
           byVdev == c \notin Blocking /\ waiting = 0
           list == IF byVdev THEN vpending[VdevOf[c]] ELSE ppending
<1>1. /\ th[t].pc = "move" /\ MoveLoop(t, list, Len(list), byVdev)
      /\ UNCHANGED <<queueDisable, cmd, timerVars, live>>
  BY DEF MovePendingToActive, At
<1>2. c \in Cmd /\ VdevOf[c] \in Vdev
  BY <1>1, ConstantsAssumption DEF ThreadsOK, FrameOK
<1> HIDE DEF c
<1>3. list \in Seq(Node) /\ ToSet(list) \subseteq ToSet(ppending)
  <2>1. /\ vpending[VdevOf[c]] \in Seq(Node) /\ ppending \in Seq(Node)
        /\ ToSet(vpending[VdevOf[c]]) \subseteq ToSet(ppending)
    BY <1>2 DEF QueueInv, QueueType, MembersAgree
  <2> QED
    BY <2>1
<1>4. Len(list) \in Nat
  BY <1>3, LenProperties
<1> HIDE DEF list, byVdev
<1> QED
  BY <1>1, <1>3, <1>4, MoveLoopStep

\* The loop goes on after an activation.
LEMMA MoveNextStep ==
  ASSUME IndInv, NEW t \in Thread, MoveNext(t)
  PROVE  IndInv'
<1> USE IndParts
<1>1. th[t].pc = "resume" /\ UNCHANGED <<queueDisable, cmd, timerVars, live>>
  BY DEF MoveNext, At
<1>2. CASE Return(t) /\ UNCHANGED <<queueVars, blockVars, inUse, bug>>
  <2>1. /\ ThreadsOK' /\ \A u \in Thread : u # t => th'[u] = th[u]
        /\ th'[t].pc \in {"idle", "resume", "putref"}
    BY <1>2, ReturnFrame
  <2>2. BlockType' /\ TimerType' /\ FlagType' /\ MoveNeverFails'
    BY <1>1, <1>2 DEF BlockType, TimerType, FlagType, MoveNeverFails, blockVars, timerVars
  <2> QED
    BY <1>1, <1>2, <2>1, <2>2, QuietStep DEF queueVars, blockVars
<1>3. CASE MoveLoop(t, ppending, th[t].left, FALSE)
  <2>1. ppending \in Seq(Node) /\ th[t].left \in Nat
    BY DEF QueueInv, QueueType, ThreadsOK, ThreadType
  <2> QED
    BY <1>1, <1>3, <2>1, MoveLoopStep
<1> QED
  BY <1>2, <1>3 DEF MoveNext

-----------------------------------------------------------------------------
(***************************************************************************)
(* The steps of wlan_ser_cancel_non_scan_cmd.                              *)
(***************************************************************************)
LEMMA NextQueueFrame ==
  ASSUME ThreadsOK, NEW t \in Thread, NEW r \in CancelReqType, NextQueue(t, r)
  PROVE  /\ ThreadsOK' /\ \A u \in Thread : u # t => th'[u] = th[u]
         /\ th'[t].pc \notin {"activate", "activated", "cancelled"}
<1>1. CASE Len(r.queues) <= 1
  <2>1. Return(t)
    BY <1>1 DEF NextQueue
  <2> QED
    BY <2>1, ReturnFrame
<1>2. CASE ~(Len(r.queues) <= 1)
  <2> DEFINE q == [r EXCEPT !.queues = Tail(@)]
             f == [Idle EXCEPT !.pc = "cancel", !.k = th[t].k, !.req = q]
  <2>1. r.queues \in Seq({"active", "pending"})
    BY DEF CancelReqType
  <2>2. Tail(r.queues) \in Seq({"active", "pending"})
    BY <1>2, <2>1, HeadTailProperties, EmptySeq
  <2>3. q \in CancelReqType
    BY <2>2 DEF CancelReqType
  <2>4. th[t].k \in Seq(Caller)
    BY DEF ThreadsOK, ThreadType
  <2>5. Goto(t, f)
    BY <1>2 DEF NextQueue
  <2> HIDE DEF q
  <2>6. FrameOK(f) /\ f.pc = "cancel"
    BY <2>3, <2>4, IdleOK DEF FrameOK, ThreadType, PC, Idle
  <2> HIDE DEF f
  <2> QED
    BY <2>5, <2>6, GotoFrame
<1> QED
  BY <1>1, <1>2

\* The thread clears the bit of the active command it cancelled before, if any.
LEMMA CancelEnds ==
  ASSUME IndInv, NEW t \in Thread, UNCHANGED <<vactive, pactive>>,
         \A n \in ToSet(pactive) : cmd'[n] = cmd[n],
         \A m \in Node : "marked" \in inUse'[m] <=> "marked" \in inUse[m],
         \A u \in Thread : u # t => th'[u] = th[u],
         th[t].pc \notin {"activate", "activated"},
         th'[t].pc \notin {"activate", "activated"},
         \A w \in Vdev : ~CancellingActive(t, w)',
         \A w \in Vdev : w \in bitmap' <=> w \in bitmap /\ ~CancellingActive(t, w)
  PROVE  BitmapExact' /\ MarkedHasOneActivator'
<1> USE IndParts
<1>1. \A u \in Thread, w \in Vdev : u # t => (CancellingActive(u, w)' <=> CancellingActive(u, w))
  BY DEF CancellingActive
<1>2. ASSUME NEW w \in Vdev
      PROVE  /\ w \in bitmap' <=> vactive[w] # <<>> \/ \E u \in Thread : CancellingActive(u, w)'
             /\ \A u \in Thread : CancellingActive(u, w)' => vactive[w] = <<>>
             /\ \A u, x \in Thread : CancellingActive(u, w)' /\ CancellingActive(x, w)' => u = x
  <2>1. /\ w \in bitmap <=> vactive[w] # <<>> \/ \E u \in Thread : CancellingActive(u, w)
        /\ \A u \in Thread : CancellingActive(u, w) => vactive[w] = <<>>
        /\ \A u, x \in Thread : CancellingActive(u, w) /\ CancellingActive(x, w) => u = x
    BY DEF BitmapExact
  <2> QED
    BY <1>1, <2>1
<1>3. \A m, n \in ToSet(pactive) : VdevOf[cmd'[m]] = VdevOf[cmd'[n]] => m = n
  BY DEF BitmapExact
<1>4. BitmapExact'
  BY <1>2, <1>3 DEF BitmapExact
<1>5. \A u \in Thread, m \in Node : Activating(u, m)' <=> Activating(u, m)
  BY DEF Activating
<1> QED
  BY <1>4, <1>5, QuietMarked

\* One locked stretch of wlan_ser_cancel_non_scan_cmd.
LEMMA CancelLoopStep ==
  ASSUME IndInv, NEW t \in Thread, NEW r \in CancelReqType,
         NEW prev \in Node \cup {NoNode}, NEW budget \in Nat,
         th[t].pc \notin {"activate", "activated"},
         CancelLoop(t, r, prev, budget), UNCHANGED <<queueDisable, live>>,
         BlockType',
         \A w \in Vdev : w \in bitmap' <=> w \in bitmap /\ ~CancellingActive(t, w)
  PROVE  IndInv'
<1> USE IndParts
<1> DEFINE isActive == Head(r.queues) = "active"
           list == IF isActive THEN pactive ELSE ppending
           stale == prev # NoNode /\ list # <<>> /\ budget > 0 /\ prev \notin ToSet(list)
           from == IF prev \in ToSet(list) THEN Min({i \in DOMAIN list : list[i] = prev})
                   ELSE 0
           walk == (from + 1)..Min({Len(list), from + budget})
           Match(i) == cmd[list[i]] \in r.match
           Marked(i) == isActive /\ "marked" \in inUse[list[i]]
           hits == {i \in walk : Match(i) /\ ~Marked(i)}
           hit == Min(hits)
           seen == {i \in walk : \A j \in hits : i < j}
           toMark == {list[i] : i \in {j \in seen : Match(j)}}
           passed == {i \in seen : ~Match(i)}
           c == cmd[list[hit]]
           marked == [n \in Node |-> IF n \in toMark THEN inUse[n] \cup {"cancel"} ELSE inUse[n]]
<1>1. /\ marked \in [Node -> SUBSET {"marked", "active", "cancel", "removal"}]
      /\ \A m \in Node : "marked" \in marked[m] <=> "marked" \in inUse[m]
  <2> HIDE DEF toMark
  <2> QED
    BY DEF FlagType
<1>2. CASE /\ UNCHANGED <<queueVars, cmd, timerVars>>
           /\ inUse' = inUse \/ inUse' = marked
           /\ \E b \in {{}, {"stale_walk"}, {"no_timer"}} : bug' = bug \cup b
           /\ Return(t) \/ NextQueue(t, r)
  <2> HIDE DEF marked
  <2>1. /\ ThreadsOK' /\ \A u \in Thread : u # t => th'[u] = th[u]
        /\ th'[t].pc \notin {"activate", "activated", "cancelled"}
    BY <1>2, ReturnFrame, NextQueueFrame
  <2>2. QueueInv'
    BY <1>2, QueuesKept DEF QueuesUnchanged
  <2>3. TimerType'
    BY <1>2 DEF TimerType, timerVars
  <2>4. FlagType' /\ MoveNeverFails'
    BY <1>1, <1>2 DEF FlagType, MoveNeverFails
  <2>5. \A m \in Node : "marked" \in inUse'[m] <=> "marked" \in inUse[m]
    BY <1>1, <1>2
  <2>6. \A w \in Vdev : ~CancellingActive(t, w)'
    BY <2>1 DEF CancellingActive
  <2>7. BitmapExact' /\ MarkedHasOneActivator'
    BY <1>2, <2>1, <2>5, <2>6, CancelEnds DEF queueVars
  <2> QED
    BY <2>1, <2>2, <2>3, <2>4, <2>7 DEF IndInv, TypeOK, QueueInv
<1> DEFINE n == list[hit]
           node == IF passed = {} THEN prev ELSE list[Max(passed)]
           left == budget - (hit - from)
           f == [Idle EXCEPT !.pc = "cancelled", !.cmd = c, !.req = r,
                             !.k = th[t].k, !.left = left, !.node = node]
<1>3. CASE /\ hits # {}
           /\ IF isActive
              THEN /\ FindAndStopTimer(c, FALSE)
                   /\ pactive' = RemoveFirst(pactive, n)
                   /\ vactive' = [vactive EXCEPT ![VdevOf[c]] = RemoveFirst(@, n)]
                   /\ UNCHANGED <<ppending, vpending>>
              ELSE /\ ppending' = RemoveFirst(ppending, n)
                   /\ vpending' = [vpending EXCEPT ![VdevOf[c]] = RemoveFirst(@, n)]
                   /\ UNCHANGED <<pactive, vactive, timer, armed, refs>>
           /\ cmd' = [cmd EXCEPT ![n] = NoCmd]
           /\ inUse' = [marked EXCEPT ![n] = {}]
           /\ pool' = Append(pool, n)
           /\ Goto(t, f)
           /\ UNCHANGED <<timerMsgs, bug>>
  <2>1. list \in Seq(Node)
    BY DEF QueueInv, QueueType
  <2>2. Len(list) \in Nat /\ DOMAIN list = 1..Len(list)
    BY <2>1, LenProperties
  <2>3. from \in Nat
    <3> DEFINE I == {i \in DOMAIN list : list[i] = prev}
    <3> HIDE DEF list
    <3>1. CASE prev \in ToSet(list)
      <4>1. I # {} /\ I \in SUBSET Nat
        BY <2>2, <3>1 DEF ToSet
      <4>2. Min(I) \in Nat
        BY <4>1, MinIsFirst
      <4> QED
        BY <3>1, <4>2
    <3> QED
      BY <3>1
  <2> HIDE DEF from, list
  <2>4. \A i \in walk : i \in 1..Len(list) /\ i <= from + budget /\ from < i
    <3> DEFINE top == Min({Len(list), from + budget})
    <3>1. top \in {Len(list), from + budget} /\ top <= Len(list) /\ top <= from + budget
      BY <2>2, <2>3, MinIsFirst
    <3> HIDE DEF top
    <3>2. walk = (from + 1)..top
      BY DEF top
    <3> HIDE DEF walk
    <3> QED
      BY <2>2, <2>3, <3>1, <3>2
  <2> HIDE DEF walk
  <2>5. hit \in hits
    <3>1. hits \in SUBSET Nat
      BY <2>2, <2>4
    <3> HIDE DEF hits
    <3> QED
      BY <1>3, <3>1, MinIsFirst
  <2>6. hit \in walk /\ Match(hit) /\ ~Marked(hit)
    BY <2>5, Zenon
  <2>7. hit \in 1..Len(list) /\ left \in Nat
    <3>1. hit \in 1..Len(list) /\ hit <= from + budget /\ from < hit
      BY <2>4, <2>6, Zenon
    <3> HIDE DEF hit
    <3> QED
      BY <2>2, <2>3, <3>1
  <2>8. node \in Node \cup {NoNode}
    <3>1. CASE passed = {}
      BY <3>1
    <3>2. CASE passed # {}
      <4>1. \A i \in passed : i \in walk
        OBVIOUS
      <4>2. passed \in SUBSET (0..Len(list))
        BY <2>2, <2>4, <4>1
      <4>3. Max(passed) \in passed
        BY <2>2, <3>2, <4>2, MaxIsLast
      <4> HIDE DEF passed
      <4>4. Max(passed) \in 1..Len(list)
        BY <2>4, <4>1, <4>3
      <4>5. list[Max(passed)] \in Node
        BY <2>1, <4>4, ElementOfSeq
      <4> QED
        BY <3>2, <4>5
    <3> QED
      BY <3>1, <3>2
  <2> HIDE DEF hit, hits, node, left, marked
  <2>9. n \in ToSet(list) /\ n \in Node /\ c = cmd[n]
    BY <2>1, <2>2, <2>7, ElementOfSeq DEF ToSet
  <2>10. c \in Cmd /\ VdevOf[c] \in Vdev
    BY <2>6, ConstantsAssumption DEF CancelReqType
  <2>11. isActive => "marked" \notin inUse[n]
    BY <2>6
  <2> HIDE DEF n, c
  <2>12. FrameOK(f) /\ f.pc = "cancelled" /\ f.cmd = c /\ f.req = r
    <3>1. th[t].k \in Seq(Caller)
      BY DEF ThreadsOK, ThreadType
    <3> QED
      BY <2>7, <2>8, <2>10, <3>1, IdleOK DEF FrameOK, ThreadType, PC, Idle
  <2> HIDE DEF f
  <2>13. ThreadsOK' /\ th'[t] = f /\ \A u \in Thread : u # t => th'[u] = th[u]
    BY <1>3, <2>12, GotoFrame
  <2>14. MoveNeverFails'
    BY <1>3 DEF MoveNeverFails
  <2>15. FlagType'
    BY <1>1, <1>3 DEF FlagType
  <2>16. CASE isActive
    <3>1. n \in ToSet(pactive) /\ "marked" \notin inUse[n]
      BY <2>9, <2>11, <2>16 DEF list
    <3>2. /\ pactive' = RemoveFirst(pactive, n)
          /\ vactive' = [vactive EXCEPT ![VdevOf[cmd[n]]] = RemoveFirst(@, n)]
          /\ FindAndStopTimer(c, FALSE)
          /\ UNCHANGED <<ppending, vpending>>
      BY <1>3, <2>9, <2>16
    <3>3. /\ QueueInv' /\ ToSet(pactive') = ToSet(pactive) \ {n}
          /\ \A m \in Node : m # n => cmd'[m] = cmd[m]
      BY <1>3, <3>1, <3>2, ActiveToPool
    <3>4. TimerType'
      BY <1>3, <3>2, StopTimerType
    <3>5. \A m \in Node : "marked" \in inUse'[m] <=> "marked" \in inUse[m]
      BY <1>1, <1>3, <2>9, <3>1
    <3>6. \A w : CancellingActive(t, w)' <=> w = VdevOf[c]
      BY <2>12, <2>13, <2>16 DEF CancellingActive
    <3>7. \A w \in Vdev : w \in bitmap' <=> /\ w \in bitmap
                                            /\ ~CancellingActive(t, w)
                                            /\ w # VdevOf[c] \/ CancellingActive(t, w)'
      <4> TAKE w \in Vdev
      <4>1. w # VdevOf[c] \/ CancellingActive(t, w)'
        BY <3>6, Zenon
      <4> QED
        BY <4>1
    <3>8. BitmapExact' /\ MarkedHasOneActivator'
      BY <2>9, <2>12, <2>13, <3>1, <3>3, <3>5, <3>6, <3>7, Deactivate
    <3> QED
      BY <2>13, <2>14, <2>15, <3>3, <3>4, <3>8 DEF IndInv, TypeOK, QueueInv
  <2>17. CASE ~isActive
    <3>1. n \in ToSet(ppending)
      BY <2>9, <2>17 DEF list
    <3>2. /\ ppending' = RemoveFirst(ppending, n)
          /\ vpending' = [vpending EXCEPT ![VdevOf[cmd[n]]] = RemoveFirst(@, n)]
          /\ UNCHANGED <<pactive, vactive, timer, armed, refs>>
      BY <1>3, <2>9, <2>17
    <3>3. QueueInv' /\ \A m \in Node : m # n => cmd'[m] = cmd[m]
      BY <1>3, <3>1, <3>2, PendingToPool
    <3>4. TimerType'
      BY <1>3, <3>2 DEF TimerType
    <3>5. n \notin ToSet(pactive) /\ ToSet(pactive) \subseteq Node
      BY <3>1, ToSetType DEF QueueInv, QueueType, NodesConserved
    <3>6. "marked" \notin inUse[n]
      BY <2>9, <3>5 DEF MarkedHasOneActivator
    <3>7. \A m \in Node : "marked" \in inUse'[m] <=> "marked" \in inUse[m]
      BY <1>1, <1>3, <2>9, <3>6
    <3>8. \A w \in Vdev : ~CancellingActive(t, w)'
      <4>1. th'[t].req = r
        BY <2>12, <2>13
      <4> QED
        BY <2>17, <4>1 DEF CancellingActive
    <3>9. \A m \in ToSet(pactive) : cmd'[m] = cmd[m]
      BY <3>3, <3>5
    <3>10. BitmapExact' /\ MarkedHasOneActivator'
      BY <2>12, <2>13, <3>2, <3>7, <3>8, <3>9, CancelEnds
    <3> QED
      BY <2>13, <2>14, <2>15, <3>3, <3>4, <3>10 DEF IndInv, TypeOK, QueueInv
  <2> QED
    BY <2>16, <2>17
<1>4. CASE /\ bug' = bug \cup {"stale_walk"} /\ Return(t)
           /\ UNCHANGED <<queueVars, nodeVars, timerVars>>
  BY <1>2, <1>4 DEF nodeVars
<1>5. CASE /\ inUse' = marked /\ NextQueue(t, r) /\ UNCHANGED <<queueVars, cmd, timerVars, bug>>
  <2>1. bug' = bug \cup {}
    BY <1>5
  <2> HIDE DEF marked
  <2> QED
    BY <1>2, <1>5, <2>1
<1>6. CASE /\ inUse' = marked /\ bug' = bug \cup {"no_timer"} /\ NextQueue(t, r)
           /\ UNCHANGED <<queueVars, cmd, timerVars>>
  <2> HIDE DEF marked
  <2> QED
    BY <1>2, <1>6
<1> QED
  BY <1>3, <1>4, <1>5, <1>6 DEF CancelLoop

\* A thread that is not cancelling starts to walk a queue.
LEMMA CancelStartStep ==
  ASSUME IndInv, NEW t \in Thread, NEW r \in CancelReqType,
         th[t].pc \in {"idle", "cancel"},
         CancelLoop(t, r, NoNode, QueueLen(r)),
         UNCHANGED <<queueDisable, blockVars, live>>
  PROVE  IndInv'
<1> USE IndParts
<1>1. QueueLen(r) \in Nat
  BY LenProperties DEF QueueLen, QueueInv, QueueType
<1>2. BlockType'
  BY DEF BlockType, blockVars
<1>3. \A w \in Vdev : ~CancellingActive(t, w)
  BY DEF CancellingActive
<1>4. \A w \in Vdev : w \in bitmap' <=> w \in bitmap /\ ~CancellingActive(t, w)
  BY <1>3 DEF blockVars
<1> QED
  BY <1>1, <1>2, <1>4, CancelLoopStep

\* The bit of the cancelled command is cleared and the walk goes on.
LEMMA CancelNextStep ==
  ASSUME IndInv, NEW t \in Thread, CancelNext(t)
  PROVE  IndInv'
<1> USE IndParts
<1> DEFINE c == th[t].cmd
           r == th[t].req
<1>1. /\ th[t].pc = "cancelled" /\ c \in Cmd /\ r \in CancelReqType
      /\ th[t].node \in Node \cup {NoNode} /\ th[t].left \in Nat
  BY DEF CancelNext, At, ThreadsOK, FrameOK, ThreadType
<1>2. UNCHANGED <<queueDisable, live>>
  BY DEF CancelNext
<1>3. BlockType' /\ \A w \in Vdev : w \in bitmap' <=> w \in bitmap /\ ~CancellingActive(t, w)
  <2>1. CASE Head(r.queues) = "active"
    <3>1. /\ blockingActive' = (blockingActive /\ c \notin Blocking)
          /\ bitmap' = bitmap \ {VdevOf[c]} /\ waiting' = waiting
      BY <2>1 DEF CancelNext, ClearActive
    <3>2. blockingActive' \in BOOLEAN
      BY <3>1
    <3>3. BlockType'
      BY <3>1, <3>2 DEF BlockType
    <3>4. \A w \in Vdev : CancellingActive(t, w) <=> w = VdevOf[c]
      BY <1>1, <2>1 DEF CancellingActive
    <3> QED
      BY <3>1, <3>3, <3>4
  <2>2. CASE Head(r.queues) # "active"
    <3>1. /\ waiting' = IF c \in Blocking THEN UInt16(waiting - 1) ELSE waiting
          /\ UNCHANGED <<blockingActive, bitmap>>
      BY <2>2 DEF CancelNext
    <3>2. waiting \in Nat /\ waiting < 65536
      BY DEF BlockType
    <3>3. UInt16(waiting - 1) \in Nat /\ UInt16(waiting - 1) < 65536
      BY <3>2, WaitingLess
    <3>4. waiting' \in Nat /\ waiting' < 65536
      BY <3>1, <3>2, <3>3
    <3>5. BlockType'
      BY <3>1, <3>4 DEF BlockType
    <3>6. \A w \in Vdev : ~CancellingActive(t, w)
      BY <2>2 DEF CancellingActive
    <3> QED
      BY <3>1, <3>5, <3>6
  <2> QED
    BY <2>1, <2>2
<1>4. CASE NextQueue(t, r) /\ UNCHANGED <<queueVars, nodeVars, timerVars, bug>>
  <2>1. /\ ThreadsOK' /\ \A u \in Thread : u # t => th'[u] = th[u]
        /\ th'[t].pc \notin {"activate", "activated", "cancelled"}
    BY <1>1, <1>4, NextQueueFrame
  <2>2. QueueInv'
    BY <1>4, QueuesKept DEF QueuesUnchanged, nodeVars
  <2>3. TimerType' /\ FlagType' /\ MoveNeverFails'
    BY <1>2, <1>4 DEF TimerType, timerVars, FlagType, nodeVars, MoveNeverFails
  <2>4. \A w \in Vdev : ~CancellingActive(t, w)'
    BY <2>1 DEF CancellingActive
  <2>5. BitmapExact' /\ MarkedHasOneActivator'
    BY <1>1, <1>3, <1>4, <2>1, <2>4, CancelEnds DEF queueVars, nodeVars
  <2> QED
    BY <1>3, <2>1, <2>2, <2>3, <2>5 DEF IndInv, TypeOK, QueueInv
<1>5. CASE CancelLoop(t, r, th[t].node, th[t].left)
  BY <1>1, <1>2, <1>3, <1>5, CancelLoopStep
<1> QED
  BY <1>4, <1>5 DEF CancelNext

-----------------------------------------------------------------------------
(***************************************************************************)
(* Steps that do not touch the queues: timers, vdev deletion.              *)
(***************************************************************************)
LEMMA NoThreadStep ==
  ASSUME IndInv, UNCHANGED <<queueVars, blockVars, nodeVars, th, bug>>,
         TimerType', queueDisable' \subseteq Vdev, live' \subseteq Vdev
  PROVE  IndInv'
<1> USE IndParts
<1>1. QueueInv'
  BY QueuesKept DEF QueuesUnchanged, nodeVars
<1>2. BlockType' /\ FlagType' /\ ThreadsOK' /\ MoveNeverFails'
  BY DEF BlockType, blockVars, FlagType, nodeVars, ThreadsOK, MoveNeverFails
<1>3. BitmapExact'
  BY QuietBitmap DEF CancellingActive, blockVars, queueVars, nodeVars
<1>4. MarkedHasOneActivator'
  BY QuietMarked DEF Activating, queueVars, nodeVars
<1> QED
  BY <1>1, <1>2, <1>3, <1>4 DEF IndInv, TypeOK, QueueInv

\* A timer expires.
LEMMA TimerHandlerStep ==
  ASSUME IndInv, NEW s \in Slot, TimerHandler(s) PROVE IndInv'
<1>1. TimerType'
  BY IndParts DEF TimerHandler, TimerType
<1>2. queueDisable' \subseteq Vdev /\ live' \subseteq Vdev
  BY IndParts DEF TimerHandler, FlagType
<1> QED
  BY <1>1, <1>2, NoThreadStep DEF TimerHandler

\* The scheduler thread takes up an expired timer.
LEMMA GenericTimerCbStep ==
  ASSUME IndInv, NEW s \in Slot, GenericTimerCb(s) PROVE IndInv'
<1> USE IndParts
<1>0. /\ Sched \in Thread /\ th[Sched].pc = "idle" /\ timerMsgs[s] > 0
      /\ timerMsgs' = [timerMsgs EXCEPT ![s] = @ - 1]
      /\ UNCHANGED <<queueVars, queueDisable, blockVars, nodeVars, timer, armed, refs,
                     live, bug>>
  BY ConstantsAssumption DEF GenericTimerCb, At
<1>1. TimerType'
  BY <1>0 DEF TimerType
<1>2. CASE UNCHANGED th
  <2>1. queueDisable' \subseteq Vdev /\ live' \subseteq Vdev
    BY <1>0 DEF FlagType
  <2> QED
    BY <1>0, <1>1, <1>2, <2>1, NoThreadStep
<1> DEFINE n == timer[s]
           f == [Idle EXCEPT !.pc = "dequeue", !.node = n, !.cmd = cmd[n], !.why = "TIMEOUT"]
<1>3. CASE n # NoNode /\ Goto(Sched, f)
  <2>1. n \in Node
    BY <1>3 DEF TimerType
  <2>2. cmd[n] \in Cmd \cup {NoCmd}
    BY <2>1 DEF QueueInv, QueueType
  <2>3. FrameOK(f) /\ f.pc = "dequeue"
    BY <2>1, <2>2, IdleOK DEF FrameOK, ThreadType, PC, Idle
  <2> HIDE DEF f
  <2>4. ThreadsOK' /\ th'[Sched] = f /\ \A u \in Thread : u # Sched => th'[u] = th[u]
    BY <1>0, <1>3, <2>3, GotoFrame
  <2>5. BlockType' /\ FlagType' /\ MoveNeverFails'
    BY <1>0 DEF BlockType, blockVars, FlagType, nodeVars, MoveNeverFails
  <2> QED
    BY <1>0, <1>1, <2>3, <2>4, <2>5, QuietStep DEF queueVars, blockVars, nodeVars
<1> QED
  BY <1>2, <1>3 DEF GenericTimerCb

\* The timer handler releases its reference.
LEMMA ReleaseRefStep ==
  ASSUME IndInv, NEW t \in Thread, ReleaseRef(t) PROVE IndInv'
<1> USE IndParts
<1>1. /\ th[t].pc = "putref" /\ Return(t)
      /\ UNCHANGED <<queueVars, queueDisable, blockVars, nodeVars, live, bug>>
  BY DEF ReleaseRef, At
<1>2. TimerType'
  <2>1. /\ UNCHANGED <<timer, armed, timerMsgs>>
        /\ refs' = [refs EXCEPT ![VdevOf[th[t].cmd]] = @ - 1]
    BY DEF ReleaseRef
  <2>2. CASE VdevOf[th[t].cmd] \in Vdev
    BY <2>1, <2>2 DEF TimerType
  <2>3. CASE VdevOf[th[t].cmd] \notin Vdev
    <3>1. refs' = refs
      BY <2>1, <2>3 DEF TimerType
    <3> QED
      BY <2>1, <3>1 DEF TimerType
  <2> QED
    BY <2>2, <2>3
<1>3. /\ ThreadsOK' /\ \A u \in Thread : u # t => th'[u] = th[u]
      /\ th'[t].pc \in {"idle", "resume", "putref"}
  BY <1>1, ReturnFrame
<1>4. BlockType' /\ FlagType' /\ MoveNeverFails'
  BY <1>1 DEF BlockType, blockVars, FlagType, nodeVars, MoveNeverFails
<1> QED
  BY <1>1, <1>2, <1>3, <1>4, QuietStep DEF queueVars, blockVars, nodeVars

\* A client restarts the timer of a command.
LEMMA UpdateTimerStep ==
  ASSUME IndInv, NEW c \in Cmd, UpdateTimer(c) PROVE IndInv'
<1>1. TimersOf(c) # {} /\ TimersOf(c) \in SUBSET Nat /\ TimersOf(c) \subseteq Slot
  BY ConstantsAssumption DEF UpdateTimer, TimersOf, Slot
<1>2. Min(TimersOf(c)) \in Slot
  BY <1>1, MinIsFirst
<1>3. TimerType'
  BY <1>2, IndParts DEF UpdateTimer, TimerType
<1>4. queueDisable' \subseteq Vdev /\ live' \subseteq Vdev
  BY IndParts DEF UpdateTimer, FlagType
<1> QED
  BY <1>3, <1>4, NoThreadStep DEF UpdateTimer

\* A vdev is on its way out.
LEMMA VdevStep ==
  ASSUME IndInv, NEW v \in Vdev, VdevQueueDisable(v) \/ VdevDelete(v) PROVE IndInv'
<1>1. TimerType' /\ queueDisable' \subseteq Vdev /\ live' \subseteq Vdev
  BY IndParts DEF VdevQueueDisable, VdevDelete, TimerType, timerVars, FlagType
<1> QED
  BY <1>1, NoThreadStep DEF VdevQueueDisable, VdevDelete
-----------------------------------------------------------------------------
(***************************************************************************)
(* The initial state.  A sequence that lists the nodes with as many        *)
(* entries as there are nodes lists each of them once.                     *)
(***************************************************************************)
LEMMA InitIndInv == Init => IndInv
<1> SUFFICES ASSUME Init PROVE IndInv
  OBVIOUS
<1> DEFINE N == Cardinality(Node)
<1>1. N \in Nat
  BY ConstantsAssumption, FS_CardinalityType
<1>2. pool \in [1..N -> Node] /\ ToSet(pool) = Node
  BY DEF Init
<1>3. pool \in Seq(Node) /\ DOMAIN pool = 1..N
  BY <1>1, <1>2
<1>4. IsInjective(pool)
  <2>1. \A n \in Node : \E i \in 1..N : pool[i] = n
    BY <1>2, <1>3 DEF ToSet
  <2>2. pool \in Surjection(1..N, Node)
    BY <1>2, <2>1 DEF Surjection
  <2>3. IsFiniteSet(1..N) /\ Cardinality(1..N) = Cardinality(Node)
    BY <1>1, FS_Interval
  <2>4. pool \in Injection(1..N, Node)
    BY <2>2, <2>3, ConstantsAssumption, FS_SurjSameCardinalityImpliesInj
  <2> QED
    BY <2>4 DEF Injection
<1>5. ToSet(<<>>) = {} /\ IsInjective(<<>>)
  BY DEF ToSet, IsInjective
<1> HIDE DEF N
<1>6. QueueType
  BY <1>3 DEF Init, QueueType
<1>7. NodesConserved
  BY <1>2, <1>4, <1>5, ConstantsAssumption DEF Init, NodesConserved
<1>8. MembersAgree
  BY <1>5 DEF Init, MembersAgree
<1>9. PendingOnce
  BY <1>5 DEF Init, PendingOnce
<1>10. BlockType
  <2>1. blockingActive \in BOOLEAN
    BY Zenon DEF Init
  <2> QED
    BY <2>1 DEF Init, BlockType
<1>11. TimerType
  BY DEF Init, TimerType
<1>12. FlagType
  BY DEF Init, FlagType
<1>13. ThreadsOK
  BY IdleOK DEF Init, ThreadsOK, FrameOK
<1>14. \A t \in Thread : th[t].pc = "idle"
  BY DEF Init, Idle
<1>15. BitmapExact
  BY <1>5, <1>14 DEF Init, BitmapExact, CancellingActive
<1>16. MarkedHasOneActivator
  BY <1>14 DEF Init, MarkedHasOneActivator, Activating
<1>17. MoveNeverFails
  BY DEF Init, MoveNeverFails
<1> QED
  BY <1>6, <1>7, <1>8, <1>9, <1>10, <1>11, <1>12, <1>13, <1>15, <1>16, <1>17
  DEF IndInv, TypeOK

\* Nothing happens.
LEMMA StutterStep == ASSUME IndInv, UNCHANGED vars PROVE IndInv'
<1>1. TimerType' /\ queueDisable' \subseteq Vdev /\ live' \subseteq Vdev
  BY IndParts DEF vars, TimerType, timerVars, FlagType
<1> QED
  BY <1>1, NoThreadStep DEF vars

\* wlan_serialization_cancel_request, and the cancel of a command marked for it
LEMMA CancelRequestStep ==
  ASSUME IndInv, NEW t \in Thread, NEW r \in CancelReqs, CancelRequest(t, r)
  PROVE  IndInv'
<1>1. r \in CancelReqType
  BY ConstantsAssumption
<1> QED
  BY <1>1, CancelStartStep DEF CancelRequest, At

\* A thread takes up the next queue of its request.
LEMMA CancelQueueStep ==
  ASSUME IndInv, NEW t \in Thread, CancelQueue(t)
  PROVE  IndInv'
<1>1. th[t].req \in CancelReqType
  BY IndParts DEF ThreadsOK, ThreadType
<1> QED
  BY <1>1, CancelStartStep DEF CancelQueue, At

-----------------------------------------------------------------------------
(***************************************************************************)
(* Every step of the component keeps the inductive invariant.              *)
(***************************************************************************)
LEMMA StepStep == ASSUME IndInv, NEW t \in Thread, Step(t) PROVE IndInv'
<1>1. CASE FindAndStartTimer(t)
  BY <1>1, FindAndStartTimerStep
<1>2. CASE ActivationDone(t)
  BY <1>2, ActivationDoneStep
<1>3. CASE CheckAfterActivation(t)
  BY <1>3, CheckAfterActivationStep
<1>4. CASE DequeueNode(t)
  BY <1>4, DequeueNodeStep
<1>5. CASE MovePendingToActive(t)
  BY <1>5, MovePendingToActiveStep
<1>6. CASE MoveNext(t)
  BY <1>6, MoveNextStep
<1>7. CASE CancelQueue(t)
  BY <1>7, CancelQueueStep
<1>8. CASE CancelNext(t)
  BY <1>8, CancelNextStep
<1>9. CASE ReleaseRef(t)
  BY <1>9, ReleaseRefStep
<1> QED
  BY <1>1, <1>2, <1>3, <1>4, <1>5, <1>6, <1>7, <1>8, <1>9 DEF Step

\* IndInv is inductive.
LEMMA NextIndInv == IndInv /\ [Next]_vars => IndInv'
<1> SUFFICES ASSUME IndInv, [Next]_vars PROVE IndInv'
  OBVIOUS
<1>1. ASSUME NEW t \in Thread, NEW c \in Cmd, Request(t, c) PROVE IndInv'
  BY <1>1, RequestStep
<1>2. ASSUME NEW t \in Thread, NEW c \in Cmd, RequestRefused(t, c) PROVE IndInv'
  BY <1>2, RequestRefusedStep
<1>3. ASSUME NEW t \in Thread, NEW c \in Cmd, RemoveCmd(t, c) PROVE IndInv'
  BY <1>3, RemoveCmdStep
<1>4. ASSUME NEW t \in Thread, NEW r \in CancelReqs, CancelRequest(t, r) PROVE IndInv'
  BY <1>4, CancelRequestStep
<1>5. ASSUME NEW t \in Thread, Step(t) PROVE IndInv'
  BY <1>5, StepStep
<1>6. ASSUME NEW s \in Slot, TimerHandler(s) PROVE IndInv'
  BY <1>6, TimerHandlerStep
<1>7. ASSUME NEW s \in Slot, GenericTimerCb(s) PROVE IndInv'
  BY <1>7, GenericTimerCbStep
<1>8. ASSUME NEW c \in Cmd, UpdateTimer(c) PROVE IndInv'
  BY <1>8, UpdateTimerStep
<1>9. ASSUME NEW v \in Vdev, VdevQueueDisable(v) \/ VdevDelete(v) PROVE IndInv'
  BY <1>9, VdevStep
<1>10. CASE Lost \/ UNCHANGED vars
  BY <1>10, StutterStep DEF Lost
<1> QED
  BY <1>1, <1>2, <1>3, <1>4, <1>5, <1>6, <1>7, <1>8, <1>9, <1>10 DEF Next

\* So it holds for ever.
LEMMA Inductive == Spec => []IndInv
BY InitIndInv, NextIndInv, PTL DEF Spec

-----------------------------------------------------------------------------
(***************************************************************************)
(* For any commands, vdevs, threads, pool, timers and cancel requests:     *)
(* the lists hold nodes of the pool, the counters stay in range and the    *)
(* operands of a thread fit the section of code it is about to run.        *)
(***************************************************************************)
THEOREM TypeCorrect == Spec => []TypeOK
<1>1. IndInv => TypeOK
  BY DEF IndInv
<1> QED
  BY <1>1, Inductive, PTL

(***************************************************************************)
(* No interleaving of request, dequeue, move, cancel and timeout loses a   *)
(* node of cmd_pool_list or links it into two queues.                      *)
(***************************************************************************)
THEOREM NodesAreConserved == Spec => []NodesConserved
<1>1. IndInv => NodesConserved
  BY DEF IndInv
<1> QED
  BY <1>1, Inductive, PTL

(***************************************************************************)
(* vdev_active_cmd_bitmap always tells which vdevs run a command, and a    *)
(* vdev never runs two, also while a cancel has dropped pdev_queue_lock    *)
(* between taking the command off the list and clearing its bit.           *)
(***************************************************************************)
THEOREM BitmapIsExact == Spec => []BitmapExact
<1>1. IndInv => BitmapExact
  BY DEF IndInv
<1> QED
  BY <1>1, Inductive, PTL

(***************************************************************************)
(* While CMD_MARKED_FOR_ACTIVATION is set, one thread is activating the    *)
(* command and no other takes its node off the active list.                *)
(***************************************************************************)
THEOREM MarkedIsProtected == Spec => []MarkedHasOneActivator
<1>1. IndInv => MarkedHasOneActivator
  BY DEF IndInv
<1> QED
  BY <1>1, Inductive, PTL

(***************************************************************************)
(* With the limits of wlan_serialization_main_i.h (as many active commands *)
(* per pdev as vdevs), moving a pending command never finds the active     *)
(* list full: the QDF_ASSERT(0) of the move is unreachable.                *)
(***************************************************************************)
THEOREM MoveAlwaysFits == Spec => []MoveNeverFails
<1>1. IndInv => MoveNeverFails
  BY DEF IndInv
<1> QED
  BY <1>1, Inductive, PTL

-----------------------------------------------------------------------------
(***************************************************************************)
(* The order of the pending commands.  The pending list of a vdev and that *)
(* of the pdev keep the commands of the vdev in one order, because every   *)
(* step leaves both alone, adds the same node at the same end of both, or  *)
(* takes the same node off both.                                           *)
(***************************************************************************)
PendingOrder ==
  \A v \in Vdev : \A m, n \in ToSet(vpending[v]) :
    Before(vpending[v], m, n) <=> Before(ppending, m, n)

\* What a step does to the four lists.
AddsPending(n, c) ==
  /\ ppending' = Insert(ppending, n, c)
  /\ vpending' = [vpending EXCEPT ![VdevOf[c]] = Insert(@, n, c)]
  /\ UNCHANGED <<pactive, vactive>>

AddsActive(n, c) ==
  /\ vactive' = [vactive EXCEPT ![VdevOf[c]] = Insert(@, n, c)]
  /\ UNCHANGED <<ppending, vpending>>

LeavesPending(n) ==
  /\ ppending' = RemoveFirst(ppending, n)
  /\ vpending' = [vpending EXCEPT ![VdevOf[cmd[n]]] = RemoveFirst(@, n)]

Moves(n) ==
  /\ LeavesPending(n)
  /\ vactive' = [vactive EXCEPT ![VdevOf[cmd[n]]] = Insert(@, n, cmd[n])]

LeavesActive(n) ==
  /\ vactive' = [vactive EXCEPT ![VdevOf[cmd[n]]] = RemoveFirst(@, n)]
  /\ UNCHANGED <<ppending, vpending>>

ListEffect ==
  \/ UNCHANGED <<pactive, vactive, ppending, vpending>>
  \/ \E n \in ToSet(pool), c \in Cmd : AddsPending(n, c) \/ AddsActive(n, c)
  \/ \E n \in ToSet(ppending) : LeavesPending(n) /\ UNCHANGED <<pactive, vactive>>
  \/ \E n \in ToSet(ppending) : Moves(n) /\ n = Head(vpending[VdevOf[cmd[n]]])
  \/ \E n \in ToSet(pactive) : LeavesActive(n)

\* A node goes to the front of both lists or to the back of both.
LEMMA InsertBefore ==
  ASSUME NEW list \in Seq(Node), NEW x \in Node, NEW c, NEW m, NEW n
  PROVE  Before(Insert(list, x, c), m, n) <=>
           \/ Before(list, m, n)
           \/ IF c \in HighPriority THEN m = x /\ n \in ToSet(list)
                                    ELSE m \in ToSet(list) /\ n = x
<1>1. CASE c \in HighPriority
  <2>1. Insert(list, x, c) = Cons(x, list)
    BY <1>1 DEF Insert
  <2>2. Before(Cons(x, list), m, n) <=> Before(list, m, n) \/ (m = x /\ n \in ToSet(list))
    BY ConsBefore
  <2> QED
    BY <1>1, <2>1, <2>2
<1>2. CASE c \notin HighPriority
  <2>1. Insert(list, x, c) = Append(list, x)
    BY <1>2 DEF Insert
  <2>2. Before(Append(list, x), m, n) <=> Before(list, m, n) \/ (m \in ToSet(list) /\ n = x)
    BY AppendBefore
  <2> QED
    BY <1>2, <2>1, <2>2
<1> QED
  BY <1>1, <1>2

\* The order survives an insert.
LEMMA InsertKeepsOrder ==
  ASSUME QueueInv, PendingOrder, NEW x \in ToSet(pool), NEW c \in Cmd,
         ppending' = Insert(ppending, x, c),
         vpending' = [vpending EXCEPT ![VdevOf[c]] = Insert(@, x, c)]
  PROVE  PendingOrder'
<1>1. /\ x \in Node /\ VdevOf[c] \in Vdev /\ x \notin ToSet(ppending)
      /\ ppending \in Seq(Node) /\ vpending \in [Vdev -> Seq(Node)]
  BY ToSetType, ConstantsAssumption DEF QueueInv, QueueType, NodesConserved
<1>2. \A v \in Vdev : vpending[v] \in Seq(Node) /\ ToSet(vpending[v]) \subseteq ToSet(ppending)
  BY <1>1 DEF QueueInv, MembersAgree
<1> SUFFICES ASSUME NEW v \in Vdev, NEW m \in ToSet(vpending'[v]), NEW n \in ToSet(vpending'[v])
             PROVE  Before(vpending'[v], m, n) <=> Before(ppending', m, n)
  BY DEF PendingOrder
<1>3. Before(ppending', m, n) <=>
        \/ Before(ppending, m, n)
        \/ IF c \in HighPriority THEN m = x /\ n \in ToSet(ppending)
                                 ELSE m \in ToSet(ppending) /\ n = x
  BY <1>1, InsertBefore
<1>4. CASE v = VdevOf[c]
  <2>1. vpending'[v] = Insert(vpending[v], x, c)
    BY <1>1, <1>4
  <2>2. Before(vpending'[v], m, n) <=>
          \/ Before(vpending[v], m, n)
          \/ IF c \in HighPriority THEN m = x /\ n \in ToSet(vpending[v])
                                   ELSE m \in ToSet(vpending[v]) /\ n = x
    BY <1>1, <1>2, <2>1, InsertBefore
  <2>3. ToSet(vpending'[v]) = ToSet(vpending[v]) \cup {x}
    BY <1>1, <1>2, <2>1, InsertMembers
  <2>4. Before(vpending[v], m, n) => m \in ToSet(vpending[v]) /\ n \in ToSet(vpending[v])
    BY BeforeMembers
  <2>5. Before(ppending, m, n) => m \in ToSet(ppending) /\ n \in ToSet(ppending)
    BY BeforeMembers
  <2>6. CASE m \in ToSet(vpending[v]) /\ n \in ToSet(vpending[v])
    <3>1. Before(vpending[v], m, n) <=> Before(ppending, m, n)
      BY <2>6 DEF PendingOrder
    <3>2. m # x /\ n # x
      BY <1>1, <1>2, <2>6
    <3> QED
      BY <1>3, <2>2, <3>1, <3>2
  <2>7. CASE m = x \/ n = x
    <3>1. ~Before(vpending[v], m, n) /\ ~Before(ppending, m, n)
      BY <1>1, <1>2, <2>4, <2>5, <2>7
    <3>2. (m \in ToSet(ppending) <=> m \in ToSet(vpending[v]))
          /\ (n \in ToSet(ppending) <=> n \in ToSet(vpending[v]))
      BY <1>1, <1>2, <2>3
    <3> QED
      BY <1>3, <2>2, <3>1, <3>2
  <2> QED
    BY <2>3, <2>6, <2>7
<1>5. CASE v # VdevOf[c]
  <2>1. vpending'[v] = vpending[v]
    BY <1>1, <1>5
  <2>2. m # x /\ n # x
    BY <1>1, <1>2, <2>1
  <2>3. Before(vpending[v], m, n) <=> Before(ppending, m, n)
    BY <2>1 DEF PendingOrder
  <2> QED
    BY <1>3, <2>1, <2>2, <2>3
<1> QED
  BY <1>4, <1>5

\* The order survives a removal.
LEMMA RemoveKeepsOrder ==
  ASSUME QueueInv, PendingOrder, NEW x \in ToSet(ppending), LeavesPending(x)
  PROVE  PendingOrder'
<1> DEFINE w == VdevOf[cmd[x]]
<1>1. w \in Vdev /\ x \in ToSet(vpending[w])
  BY QueuedNode
<1>2. /\ ppending \in Seq(Node) /\ vpending \in [Vdev -> Seq(Node)] /\ IsInjective(ppending)
      /\ \A v \in Vdev : vpending[v] \in Seq(Node) /\ IsInjective(vpending[v])
  BY DEF QueueInv, QueueType, NodesConserved, MembersAgree
<1>3. \A v \in Vdev : v # w => x \notin ToSet(vpending[v])
  BY DEF QueueInv, MembersAgree
<1> HIDE DEF w
<1> SUFFICES ASSUME NEW v \in Vdev, NEW m \in ToSet(vpending'[v]), NEW n \in ToSet(vpending'[v])
             PROVE  Before(vpending'[v], m, n) <=> Before(ppending', m, n)
  BY DEF PendingOrder
<1>4. Before(ppending', m, n) <=> Before(ppending, m, n) /\ m # x /\ n # x
  BY <1>2, RemoveBefore DEF LeavesPending
<1>5. CASE v = w
  <2>1. vpending'[v] = RemoveFirst(vpending[v], x)
    BY <1>1, <1>2, <1>5 DEF LeavesPending, w
  <2>2. Before(vpending'[v], m, n) <=> Before(vpending[v], m, n) /\ m # x /\ n # x
    BY <1>1, <1>2, <1>5, <2>1, RemoveBefore
  <2>3. ToSet(vpending'[v]) \subseteq ToSet(vpending[v])
    BY <1>1, <1>2, <1>5, <2>1, RemoveMembers
  <2>4. Before(vpending[v], m, n) <=> Before(ppending, m, n)
    BY <2>3 DEF PendingOrder
  <2> QED
    BY <1>4, <2>2, <2>4
<1>6. CASE v # w
  <2>1. vpending'[v] = vpending[v]
    BY <1>2, <1>6 DEF LeavesPending, w
  <2>2. m # x /\ n # x
    BY <1>3, <1>6, <2>1
  <2>3. Before(vpending[v], m, n) <=> Before(ppending, m, n)
    BY <2>1 DEF PendingOrder
  <2> QED
    BY <1>4, <2>1, <2>2, <2>3
<1> QED
  BY <1>5, <1>6

(***************************************************************************)
(* The node that a stretch of the move loop takes: the first of the list   *)
(* where the walk stops.  The loop looks it up again by its command, in    *)
(* both pending lists, and finds the same node.                            *)
(***************************************************************************)
MovesFrom(list, budget, byVdev, i) ==
  /\ i \in DOMAIN list /\ i \in Stops(list, budget, byVdev)
  /\ \A j \in Stops(list, budget, byVdev) : i <= j
  /\ list[i] \in ToSet(ppending) /\ ~Busy(cmd[list[i]])
  /\ byVdev \/ ~Blocked(cmd[list[i]])
  /\ Moves(list[i])
  /\ pactive' = Insert(pactive, list[i], cmd[list[i]])
  /\ inUse' = [inUse EXCEPT ![list[i]] = @ \cup {"marked"}]
  /\ blockingActive' = (blockingActive \/ cmd[list[i]] \in Blocking)
  /\ waiting' = IF cmd[list[i]] \in Blocking THEN UInt16(waiting - 1) ELSE waiting

\* A walk of the list of a vdev that takes none meets a vdev that is active.
FindsNone(list, budget, byVdev) ==
  byVdev /\ budget = Len(list) /\ list # <<>> => \E n \in ToSet(list) : Busy(cmd[n])

LEMMA MoveLoopEffect ==
  ASSUME IndInv, NEW t \in Thread, NEW list \in Seq(Node), NEW budget \in Nat,
         NEW byVdev, ToSet(list) \subseteq ToSet(ppending),
         MoveLoop(t, list, budget, byVdev)
  PROVE  \/ /\ Return(t) /\ UNCHANGED <<queueVars, blockVars, inUse, bug>>
            /\ FindsNone(list, budget, byVdev)
         \/ \E i \in Nat :
              /\ MovesFrom(list, budget, byVdev, i)
              /\ th'[t].pc = "activate" /\ th'[t].node = list[i]
              /\ th'[t].k = IF byVdev THEN th[t].k
                            ELSE Cons([pc |-> "resume", cmd |-> NoCmd, left |-> budget - i],
                                      th[t].k)
              /\ \A u \in Thread : u # t => th'[u] = th[u]
<1> USE IndParts
<1> DEFINE stops == Stops(list, budget, byVdev)
           i0 == Min(stops)
           c == cmd[list[i0]]
           v == VdevOf[c]
           n == FindCmd(ppending, c)
           canMove == stops # {} /\ ~Busy(c) /\ (byVdev \/ ~Blocked(c))
           k0 == IF byVdev THEN th[t].k
                 ELSE Cons([pc |-> "resume", cmd |-> NoCmd, left |-> budget - i0], th[t].k)
           f == [Idle EXCEPT !.pc = "activate", !.node = n, !.k = k0]
<1>1. CASE ~canMove /\ Return(t) /\ UNCHANGED <<queueVars, blockVars, inUse, bug>>
  <2>1. ASSUME byVdev, budget = Len(list), list # <<>>
        PROVE  \E m \in ToSet(list) : Busy(cmd[m])
    <3>1. Len(list) \in Nat /\ Len(list) > 0 /\ DOMAIN list = 1..Len(list)
      BY <2>1, ToSetType, LenProperties
    <3>2. Min({budget, Len(list)}) = Len(list)
      <4> DEFINE top == Min({budget, Len(list)})
      <4>1. top \in {budget, Len(list)}
        BY <3>1, MinIsFirst
      <4> QED
        BY <2>1, <4>1
    <3>3. stops = 1..Len(list)
      BY <2>1, <3>2 DEF Stops
    <3>4. i0 \in 1..Len(list) /\ stops # {}
      <4>1. 1 \in stops /\ stops \in SUBSET Nat
        BY <3>1, <3>3
      <4>2. Min(stops) \in stops
        BY <4>1, MinIsFirst
      <4> QED
        BY <3>3, <4>1, <4>2
    <3> HIDE DEF i0, stops
    <3>5. list[i0] \in ToSet(list)
      BY <3>1, <3>4 DEF ToSet
    <3>6. Busy(cmd[list[i0]])
      BY <1>1, <2>1, <3>4, Zenon
    <3> QED
      BY <3>5, <3>6
  <2> QED
    BY <1>1, <2>1 DEF FindsNone
<1>2. CASE /\ canMove
           /\ vpending' = [vpending EXCEPT ![v] = RemoveCmdFrom(@, c)]
           /\ ppending' = RemoveCmdFrom(ppending, c)
           /\ \/ Full(v, TRUE)
              \/ /\ vactive' = [vactive EXCEPT ![v] = Insert(@, n, c)]
                 /\ pactive' = Insert(pactive, n, c)
                 /\ inUse' = [inUse EXCEPT ![n] = @ \cup {"marked"}]
                 /\ blockingActive' = (blockingActive \/ c \in Blocking)
                 /\ waiting' = IF c \in Blocking THEN UInt16(waiting - 1) ELSE waiting
                 /\ Goto(t, f)
  <2>1. i0 \in 1..Len(list) /\ i0 \in stops /\ \A j \in stops : i0 <= j
    <3> DEFINE top == Min({budget, Len(list)})
    <3>1. Len(list) \in Nat
      BY LenProperties
    <3>2. top \in Nat /\ top <= Len(list)
      BY <3>1, MinIsFirst
    <3> HIDE DEF top
    <3>3. stops \in SUBSET Nat /\ \A i \in stops : i \in 1..top
      BY <3>2 DEF top, Stops
    <3>4. i0 \in stops /\ \A j \in stops : i0 <= j
      BY <1>2, <3>3, MinIsFirst
    <3>5. i0 \in 1..top
      BY <3>3, <3>4, Zenon
    <3> HIDE DEF i0
    <3> QED
      BY <3>1, <3>2, <3>4, <3>5
  <2> HIDE DEF i0, stops
  <2>2. list[i0] \in ToSet(ppending) /\ list[i0] \in Node /\ i0 \in DOMAIN list /\ i0 \in Nat
    BY <2>1, ElementOfSeq, LenProperties DEF ToSet
  <2>3. c \in Cmd /\ v \in Vdev /\ HasCmd(ppending, c) /\ list[i0] \in ToSet(vpending[v])
    BY <2>2, QueuedNode DEF HasCmd
  <2>4. n = list[i0]
    <3>1. n \in ToSet(ppending) /\ cmd[n] = c
      BY <2>3, FindCmdMember DEF QueueInv, QueueType
    <3> QED
      BY <2>2, <3>1 DEF QueueInv, PendingOnce
  <2>5. FindCmd(vpending[v], c) = list[i0]
    <3>1. HasCmd(vpending[v], c)
      BY <2>3 DEF HasCmd
    <3>2. FindCmd(vpending[v], c) \in ToSet(vpending[v]) /\ cmd[FindCmd(vpending[v], c)] = c
      BY <2>3, <3>1, FindCmdMember DEF QueueInv, QueueType
    <3>3. FindCmd(vpending[v], c) \in ToSet(ppending)
      BY <2>3, <3>2 DEF QueueInv, MembersAgree
    <3> QED
      BY <2>2, <3>2, <3>3 DEF QueueInv, PendingOnce
  <2>6. ~Full(v, TRUE)
    BY <1>2, <2>3, RoomForActive DEF Busy
  <2> HIDE DEF n
  <2>7. /\ vactive' = [vactive EXCEPT ![v] = Insert(@, list[i0], c)]
        /\ pactive' = Insert(pactive, list[i0], c)
        /\ inUse' = [inUse EXCEPT ![list[i0]] = @ \cup {"marked"}]
        /\ blockingActive' = (blockingActive \/ c \in Blocking)
        /\ waiting' = IF c \in Blocking THEN UInt16(waiting - 1) ELSE waiting
        /\ Goto(t, [Idle EXCEPT !.pc = "activate", !.node = list[i0], !.k = k0])
    BY <1>2, <2>4, <2>6
  <2>8. LeavesPending(list[i0])
    <3>1. ppending' = RemoveFirst(ppending, list[i0])
      BY <1>2, <2>4 DEF RemoveCmdFrom, n
    <3>2. vpending' = [vpending EXCEPT ![v] = RemoveFirst(@, list[i0])]
      BY <1>2, <2>5 DEF RemoveCmdFrom
    <3> QED
      BY <3>1, <3>2 DEF LeavesPending
  <2>9. MovesFrom(list, budget, byVdev, i0)
    BY <1>2, <2>1, <2>2, <2>7, <2>8 DEF MovesFrom, Moves, stops
  <2> HIDE DEF k0
  <2>10. /\ th'[t].pc = "activate" /\ th'[t].node = list[i0] /\ th'[t].k = k0
         /\ \A u \in Thread : u # t => th'[u] = th[u]
    BY <2>7 DEF Goto, ThreadsOK, Idle
  <2> QED
    BY <2>2, <2>9, <2>10 DEF k0
<1> QED
  BY <1>1, <1>2 DEF MoveLoop

\* Of the pending commands of its vdev, the node is the first: an earlier one
\* would have stopped the walk.
LEMMA MovesFirst ==
  ASSUME IndInv, PendingOrder, NEW list \in Seq(Node), NEW budget \in Nat,
         NEW byVdev \in BOOLEAN, NEW i \in Nat, MovesFrom(list, budget, byVdev, i),
         \/ byVdev /\ budget = Len(list) /\ \E v \in Vdev : list = vpending[v]
         \/ ~byVdev /\ list = ppending
  PROVE  list[i] = Head(vpending[VdevOf[cmd[list[i]]]])
<1> USE IndParts
<1> DEFINE n == list[i]
           v == VdevOf[cmd[n]]
           top == Min({budget, Len(list)})
<1>1. n \in ToSet(ppending) /\ v \in Vdev /\ n \in ToSet(vpending[v]) /\ vpending[v] \in Seq(Node)
  BY QueuedNode DEF MovesFrom, QueueInv, QueueType
<1>2. Len(list) \in Nat /\ DOMAIN list = 1..Len(list)
  BY LenProperties
<1>3. top \in Nat /\ top \in {budget, Len(list)} /\ top <= budget /\ top <= Len(list)
  BY <1>2, MinIsFirst
<1> HIDE DEF top
<1>4. Stops(list, budget, byVdev) =
        {j \in 1..top : byVdev \/ Blocked(cmd[list[j]]) \/ ~Busy(cmd[list[j]])}
  BY DEF Stops, top
<1>5. i \in 1..top /\ \A j \in Stops(list, budget, byVdev) : i <= j
  BY <1>4 DEF MovesFrom
<1>6. CASE byVdev /\ budget = Len(list) /\ \E w \in Vdev : list = vpending[w]
  <2>1. PICK w \in Vdev : list = vpending[w]
    BY <1>6
  <2>2. i = 1
    <3>1. 1 \in Stops(list, budget, byVdev)
      BY <1>3, <1>4, <1>5, <1>6
    <3> QED
      BY <1>3, <1>5, <3>1
  <2>3. n \in ToSet(vpending[w])
    BY <1>2, <1>3, <1>5, <2>1 DEF ToSet
  <2>4. w = v
    BY <2>3 DEF QueueInv, MembersAgree
  <2>5. Head(vpending[w]) = list[1]
    BY <2>1, <2>3, ToSetType
  <2> QED
    BY <2>2, <2>4, <2>5
<1>7. CASE ~byVdev /\ list = ppending
  <2> SUFFICES ASSUME n # Head(vpending[v]) PROVE FALSE
    OBVIOUS
  <2> DEFINE h == Head(vpending[v])
  <2>1. Before(vpending[v], h, n) /\ h \in ToSet(vpending[v])
    BY <1>1, HeadBefore, BeforeMembers
  <2>2. Before(ppending, h, n)
    BY <1>1, <2>1 DEF PendingOrder
  <2>3. VdevOf[cmd[h]] = v
    BY <1>1, <2>1 DEF QueueInv, MembersAgree
  <2>4. PICK j \in DOMAIN list, l \in DOMAIN list : j < l /\ list[j] = h /\ list[l] = n
    BY <1>7, <2>2 DEF Before
  <2>5. l = i
    <3>1. IsInjective(list)
      BY <1>7 DEF QueueInv, NodesConserved
    <3>2. i \in DOMAIN list
      BY DEF MovesFrom
    <3> QED
      BY <2>4, <3>1, <3>2 DEF IsInjective
  <2>6. ~Busy(cmd[list[j]])
    BY <2>3, <2>4 DEF Busy, MovesFrom
  <2>7. j \in 1..top
    BY <1>2, <1>3, <1>5, <2>4, <2>5
  <2>8. j \in Stops(list, budget, byVdev)
    BY <1>4, <2>6, <2>7
  <2>9. i <= j
    BY <1>5, <2>8
  <2>10. j \in Nat /\ j < i
    BY <1>3, <2>4, <2>5, <2>7
  <2> QED
    BY <2>9, <2>10
<1> QED
  BY <1>6, <1>7

(***************************************************************************)
(* An active node that is not marked is freed: off both active lists, its  *)
(* timer stopped.                                                          *)
(***************************************************************************)
Frees(n, keepRef) ==
  /\ "marked" \notin inUse[n]
  /\ LeavesActive(n) /\ pactive' = RemoveFirst(pactive, n)
  /\ FindAndStopTimer(cmd[n], keepRef)
  /\ cmd' = [cmd EXCEPT ![n] = NoCmd]
  /\ \A m \in Node : "marked" \in inUse'[m] <=> "marked" \in inUse[m]
  /\ UNCHANGED timerMsgs

\* What wlan_serialization_dequeue_cmd does, by the node it finds.
LEMMA DequeueCmdEffect ==
  ASSUME IndInv, NEW t \in Thread, NEW c \in Cmd \cup {NoCmd}, NEW why, NEW timedOut,
         DequeueCmd(t, c, why, timedOut)
  PROVE  \/ /\ \A n \in ToSet(pactive) : cmd[n] # c
            /\ Return(t) /\ UNCHANGED <<queueVars, blockVars, nodeVars, timerVars>>
         \/ \E n \in ToSet(pactive) :
              /\ cmd[n] = c /\ "marked" \in inUse[n]
              /\ inUse' = [inUse EXCEPT ![n] = @ \cup {"removal"}]
              /\ Return(t) /\ UNCHANGED <<queueVars, blockVars, cmd, timerVars>>
         \/ \E n \in ToSet(pactive) :
              /\ cmd[n] = c /\ Frees(n, why = "TIMEOUT") /\ ClearActive(c)
              /\ inUse' = [inUse EXCEPT ![n] = {}] /\ UNCHANGED waiting
              /\ th'[t].pc = "move" /\ th'[t].cmd = c
              /\ th'[t].k = IF why = "TIMEOUT"
                            THEN Cons([pc |-> "putref", left |-> 0, cmd |-> timedOut], th[t].k)
                            ELSE th[t].k
              /\ \A u \in Thread : u # t => th'[u] = th[u]
<1> USE IndParts
<1> DEFINE v == VdevOf[c]
           n == FindCmd(pactive, c)
<1>1. CASE /\ c = NoCmd \/ (c # NoCmd /\ ~HasCmd(vactive[v], c))
           /\ Return(t) /\ UNCHANGED <<queueVars, blockVars, nodeVars, timerVars>>
  <2>1. ASSUME NEW m \in ToSet(pactive), cmd[m] = c PROVE FALSE
    <3>1. cmd[m] \in Cmd /\ m \in ToSet(vactive[v])
      BY <2>1, QueuedNode
    <3> QED
      BY <1>1, <2>1, <3>1, ConstantsAssumption DEF HasCmd
  <2> QED
    BY <1>1, <2>1
<1>2. ASSUME c # NoCmd, HasCmd(vactive[v], c)
      PROVE  n \in ToSet(pactive) /\ cmd[n] = c /\ FindCmd(vactive[v], c) = n /\ n \in Node
  BY <1>2, SameActiveNode, QueuedNode
<1> HIDE DEF n
<1>3. CASE /\ c # NoCmd /\ HasCmd(vactive[v], c)
           /\ "marked" \in inUse[FindCmd(vactive[v], c)]
           /\ inUse' = [inUse EXCEPT ![FindCmd(vactive[v], c)] = @ \cup {"removal"}]
           /\ Return(t) /\ UNCHANGED <<queueVars, blockVars, cmd, timerVars>>
  BY <1>2, <1>3
<1> DEFINE k == IF why = "TIMEOUT"
                THEN Cons([pc |-> "putref", left |-> 0, cmd |-> timedOut], th[t].k)
                ELSE th[t].k
<1>4. CASE /\ c # NoCmd /\ HasCmd(vactive[v], c)
           /\ "marked" \notin inUse[FindCmd(vactive[v], c)]
           /\ vactive' = [vactive EXCEPT ![v] = RemoveCmdFrom(@, c)]
           /\ pactive' = RemoveCmdFrom(pactive, c)
           /\ FindAndStopTimer(c, why = "TIMEOUT")
           /\ ClearActive(c)
           /\ FreeNode(n)
           /\ Goto(t, [Idle EXCEPT !.pc = "move", !.cmd = c, !.k = k])
           /\ UNCHANGED <<vpending, ppending, waiting, timerMsgs>>
  <2> HIDE DEF k
  <2>1. n \in ToSet(pactive) /\ cmd[n] = c /\ FindCmd(vactive[v], c) = n /\ n \in Node
    BY <1>2, <1>4
  <2>2. pactive' = RemoveFirst(pactive, n) /\ LeavesActive(n) /\ "marked" \notin inUse[n]
    BY <1>4, <2>1 DEF RemoveCmdFrom, LeavesActive, n
  <2>3. \A m \in Node : "marked" \in inUse'[m] <=> "marked" \in inUse[m]
    BY <1>4, <2>1, <2>2 DEF FreeNode, FlagType
  <2>4. /\ th'[t].pc = "move" /\ th'[t].cmd = c /\ th'[t].k = k
        /\ \A u \in Thread : u # t => th'[u] = th[u]
    BY <1>4 DEF Goto, ThreadsOK, Idle
  <2>5. Frees(n, why = "TIMEOUT") /\ inUse' = [inUse EXCEPT ![n] = {}]
    BY <1>4, <2>1, <2>2, <2>3 DEF Frees, FreeNode
  <2> QED
    BY <1>4, <2>1, <2>4, <2>5 DEF k
<1> QED
  BY <1>1, <1>3, <1>4 DEF DequeueCmd, n

\* The thread goes on to the callbacks of the command it has cancelled.
Cancelled(t, r, c) ==
  /\ th'[t].pc = "cancelled" /\ th'[t].cmd = c /\ th'[t].req = r /\ th'[t].k = th[t].k
  /\ \A u \in Thread : u # t => th'[u] = th[u]

\* What a stretch of wlan_ser_cancel_non_scan_cmd does, by the node it takes.
LEMMA CancelLoopEffect ==
  ASSUME IndInv, NEW t \in Thread, NEW r \in CancelReqType,
         NEW prev \in Node \cup {NoNode}, NEW budget \in Nat,
         CancelLoop(t, r, prev, budget)
  PROVE  /\ Head(r.queues) # "active" =>
              \A m \in Node : "cancel" \in inUse'[m] => "cancel" \in inUse[m]
         /\ \/ /\ UNCHANGED <<queueVars, cmd, timerVars>> /\ (Return(t) \/ NextQueue(t, r))
               /\ \A m \in Node : "marked" \in inUse'[m] <=> "marked" \in inUse[m]
            \/ \E n \in ToSet(pactive) :
                 Head(r.queues) = "active" /\ Frees(n, FALSE) /\ Cancelled(t, r, cmd[n])
            \/ \E n \in ToSet(ppending) :
                 /\ Head(r.queues) # "active" /\ LeavesPending(n) /\ Cancelled(t, r, cmd[n])
                 /\ cmd' = [cmd EXCEPT ![n] = NoCmd]
                 /\ UNCHANGED <<pactive, vactive, timerVars>>
                 /\ \A m \in Node : "marked" \in inUse'[m] <=> "marked" \in inUse[m]
<1> USE IndParts
<1> DEFINE isActive == Head(r.queues) = "active"
           list == IF isActive THEN pactive ELSE ppending
           stale == prev # NoNode /\ list # <<>> /\ budget > 0 /\ prev \notin ToSet(list)
           from == IF prev \in ToSet(list) THEN Min({i \in DOMAIN list : list[i] = prev})
                   ELSE 0
           walk == (from + 1)..Min({Len(list), from + budget})
           Match(i) == cmd[list[i]] \in r.match
           Marked(i) == isActive /\ "marked" \in inUse[list[i]]
           hits == {i \in walk : Match(i) /\ ~Marked(i)}
           hit == Min(hits)
           seen == {i \in walk : \A j \in hits : i < j}
           toMark == {list[i] : i \in {j \in seen : Match(j)}}
           passed == {i \in seen : ~Match(i)}
           c == cmd[list[hit]]
           marked == [n \in Node |-> IF n \in toMark THEN inUse[n] \cup {"cancel"} ELSE inUse[n]]
<1>1. /\ marked \in [Node -> SUBSET {"marked", "active", "cancel", "removal"}]
      /\ \A m \in Node : "marked" \in marked[m] <=> "marked" \in inUse[m]
  <2> HIDE DEF toMark
  <2> QED
    BY DEF FlagType
<1>c. ~isActive => \A m \in Node : "cancel" \in marked[m] => "cancel" \in inUse[m]
  <2> SUFFICES ASSUME ~isActive PROVE toMark = {}
    OBVIOUS
  <2> SUFFICES ASSUME NEW i \in seen, Match(i) PROVE FALSE
    OBVIOUS
  <2>1. i \in hits /\ i < i
    OBVIOUS
  <2> QED
    BY <2>1
<1>2. CASE /\ UNCHANGED <<queueVars, cmd, timerVars>>
           /\ inUse' = inUse \/ inUse' = marked
           /\ Return(t) \/ NextQueue(t, r)
  <2> HIDE DEF marked
  <2> QED
    BY <1>1, <1>c, <1>2
<1> DEFINE n == list[hit]
           node == IF passed = {} THEN prev ELSE list[Max(passed)]
           left == budget - (hit - from)
<1>3. CASE /\ hits # {}
           /\ IF isActive
              THEN /\ FindAndStopTimer(c, FALSE)
                   /\ pactive' = RemoveFirst(pactive, n)
                   /\ vactive' = [vactive EXCEPT ![VdevOf[c]] = RemoveFirst(@, n)]
                   /\ UNCHANGED <<ppending, vpending>>
              ELSE /\ ppending' = RemoveFirst(ppending, n)
                   /\ vpending' = [vpending EXCEPT ![VdevOf[c]] = RemoveFirst(@, n)]
                   /\ UNCHANGED <<pactive, vactive, timer, armed, refs>>
           /\ cmd' = [cmd EXCEPT ![n] = NoCmd]
           /\ inUse' = [marked EXCEPT ![n] = {}]
           /\ UNCHANGED timerMsgs
           /\ Goto(t, [Idle EXCEPT !.pc = "cancelled", !.cmd = c, !.req = r,
                                   !.k = th[t].k, !.left = left, !.node = node])
  <2>1. list \in Seq(Node)
    BY DEF QueueInv, QueueType
  <2>2. Len(list) \in Nat /\ DOMAIN list = 1..Len(list)
    BY <2>1, LenProperties
  <2>3. from \in Nat
    <3> DEFINE I == {i \in DOMAIN list : list[i] = prev}
    <3> HIDE DEF list
    <3>1. CASE prev \in ToSet(list)
      <4>1. I # {} /\ I \in SUBSET Nat
        BY <2>2, <3>1 DEF ToSet
      <4>2. Min(I) \in Nat
        BY <4>1, MinIsFirst
      <4> QED
        BY <3>1, <4>2
    <3> QED
      BY <3>1
  <2> HIDE DEF from, list
  <2>4. \A i \in walk : i \in 1..Len(list)
    <3> DEFINE top == Min({Len(list), from + budget})
    <3>0. {Len(list), from + budget} \in SUBSET Nat /\ {Len(list), from + budget} # {}
      BY <2>2, <2>3
    <3>1. top \in {Len(list), from + budget} /\ top <= Len(list)
      BY <3>0, MinIsFirst
    <3> HIDE DEF top
    <3>2. walk = (from + 1)..top
      BY DEF top
    <3> HIDE DEF walk
    <3> QED
      BY <2>2, <2>3, <3>1, <3>2
  <2> HIDE DEF walk
  <2>5. hit \in hits
    <3>1. \A i \in walk : i \in Nat
      BY <2>2, <2>4
    <3>2. hits \in SUBSET Nat
      BY <3>1
    <3> HIDE DEF hits
    <3> QED
      BY <1>3, <3>2, MinIsFirst
  <2>6. hit \in 1..Len(list) /\ ~Marked(hit)
    BY <2>4, <2>5, Zenon
  <2> HIDE DEF hit, hits, node, left, marked
  <2>7. n \in ToSet(list) /\ n \in Node /\ c = cmd[n]
    BY <2>1, <2>2, <2>6, ElementOfSeq DEF ToSet
  <2>8. isActive => "marked" \notin inUse[n]
    BY <2>6
  <2> HIDE DEF n, c
  <2>9. Cancelled(t, r, cmd[n])
    BY <1>3, <2>7 DEF Goto, ThreadsOK, Idle, Cancelled
  <2>c. Head(r.queues) # "active" =>
          \A m \in Node : "cancel" \in inUse'[m] => "cancel" \in inUse[m]
    BY <1>1, <1>c, <1>3, <2>7
  <2>10. CASE isActive
    <3>1. n \in ToSet(pactive) /\ "marked" \notin inUse[n]
      BY <2>7, <2>8, <2>10 DEF list
    <3>2. pactive' = RemoveFirst(pactive, n) /\ LeavesActive(n) /\ FindAndStopTimer(cmd[n], FALSE)
      BY <1>3, <2>7, <2>10 DEF LeavesActive
    <3>3. \A m \in Node : "marked" \in inUse'[m] <=> "marked" \in inUse[m]
      BY <1>1, <1>3, <2>7, <3>1
    <3>4. Frees(n, FALSE)
      BY <1>3, <3>1, <3>2, <3>3 DEF Frees
    <3> QED
      BY <2>9, <2>10, <3>1, <3>4
  <2>11. CASE ~isActive
    <3>1. n \in ToSet(ppending)
      BY <2>7, <2>11 DEF list
    <3>2. LeavesPending(n) /\ UNCHANGED <<pactive, vactive, timerVars>>
      BY <1>3, <2>7, <2>11 DEF LeavesPending, timerVars
    <3>3. n \notin ToSet(pactive)
      BY <3>1 DEF QueueInv, NodesConserved
    <3>4. "marked" \notin inUse[n]
      BY <2>7, <3>3 DEF MarkedHasOneActivator
    <3>5. \A m \in Node : "marked" \in inUse'[m] <=> "marked" \in inUse[m]
      BY <1>1, <1>3, <2>7, <3>4
    <3> QED
      BY <1>3, <2>9, <2>11, <2>c, <3>1, <3>2, <3>5
  <2> QED
    BY <2>10, <2>11
<1>4. CASE /\ Return(t) /\ UNCHANGED <<queueVars, nodeVars, timerVars>>
  BY <1>2, <1>4 DEF nodeVars
<1>5. CASE /\ inUse' = marked /\ NextQueue(t, r) /\ UNCHANGED <<queueVars, cmd, timerVars>>
  <2> HIDE DEF marked
  <2> QED
    BY <1>2, <1>5
<1> QED
  BY <1>3, <1>4, <1>5 DEF CancelLoop

\* The two entries to the move loop take the first command of a vdev.
LEMMA MoveEffect ==
  ASSUME IndInv, PendingOrder, NEW t \in Thread,
         MovePendingToActive(t) \/ MoveNext(t)
  PROVE  ListEffect
<1> USE IndParts
<1>1. ASSUME NEW list \in Seq(Node), NEW budget \in Nat, NEW byVdev \in BOOLEAN,
             ToSet(list) \subseteq ToSet(ppending), MoveLoop(t, list, budget, byVdev),
             \/ byVdev /\ budget = Len(list) /\ \E v \in Vdev : list = vpending[v]
             \/ ~byVdev /\ list = ppending
      PROVE  ListEffect
  <2>1. CASE UNCHANGED queueVars
    BY <2>1 DEF queueVars, ListEffect
  <2>2. ASSUME NEW i \in Nat, MovesFrom(list, budget, byVdev, i) PROVE ListEffect
    <3>1. list[i] = Head(vpending[VdevOf[cmd[list[i]]]])
      BY <1>1, <2>2, MovesFirst
    <3>2. list[i] \in ToSet(ppending) /\ Moves(list[i])
      BY <2>2 DEF MovesFrom
    <3> QED
      BY <3>1, <3>2 DEF ListEffect
  <2>3. UNCHANGED queueVars \/ \E i \in Nat : MovesFrom(list, budget, byVdev, i)
    BY <1>1, MoveLoopEffect
  <2> QED
    BY <2>1, <2>2, <2>3
<1>2. CASE MovePendingToActive(t)
  <2> DEFINE c == th[t].cmd
             byVdev == c \notin Blocking /\ waiting = 0
             list == IF byVdev THEN vpending[VdevOf[c]] ELSE ppending
  <2>1. th[t].pc = "move" /\ MoveLoop(t, list, Len(list), byVdev)
    BY <1>2 DEF MovePendingToActive, At
  <2>2. c \in Cmd /\ VdevOf[c] \in Vdev
    BY <2>1, ConstantsAssumption DEF ThreadsOK, FrameOK
  <2> HIDE DEF c
  <2>3. /\ vpending[VdevOf[c]] \in Seq(Node) /\ ppending \in Seq(Node)
        /\ ToSet(vpending[VdevOf[c]]) \subseteq ToSet(ppending)
    BY <2>2 DEF QueueInv, QueueType, MembersAgree
  <2>4. byVdev \in BOOLEAN
    OBVIOUS
  <2>5. list = (IF byVdev THEN vpending[VdevOf[c]] ELSE ppending)
    OBVIOUS
  <2> HIDE DEF list, byVdev
  <2>6. list \in Seq(Node) /\ ToSet(list) \subseteq ToSet(ppending) /\ Len(list) \in Nat
    BY <2>3, <2>5, LenProperties
  <2>7. \/ byVdev /\ Len(list) = Len(list) /\ \E v \in Vdev : list = vpending[v]
        \/ ~byVdev /\ list = ppending
    BY <2>2, <2>4, <2>5
  <2> QED
    BY <1>1, <2>1, <2>4, <2>6, <2>7
<1>3. CASE MoveNext(t)
  <2>1. CASE UNCHANGED queueVars
    BY <2>1 DEF queueVars, ListEffect
  <2>2. CASE MoveLoop(t, ppending, th[t].left, FALSE)
    <3>1. ppending \in Seq(Node) /\ th[t].left \in Nat
      BY DEF QueueInv, QueueType, ThreadsOK, ThreadType
    <3> QED
      BY <1>1, <2>2, <3>1
  <2> QED
    BY <1>3, <2>1, <2>2 DEF MoveNext
<1> QED
  BY <1>2, <1>3

\* A step that starts or goes on with a cancel.
LEMMA CancelEffect ==
  ASSUME IndInv, NEW t \in Thread,
         \/ \E r \in CancelReqs : CancelRequest(t, r)
         \/ CancelQueue(t) \/ CancelNext(t)
  PROVE  ListEffect
<1> USE IndParts
<1>1. ASSUME NEW r \in CancelReqType, NEW prev \in Node \cup {NoNode}, NEW budget \in Nat,
             CancelLoop(t, r, prev, budget)
      PROVE  ListEffect
  <2>1. \/ UNCHANGED queueVars
        \/ \E n \in ToSet(pactive) : LeavesActive(n)
        \/ \E n \in ToSet(ppending) : LeavesPending(n) /\ UNCHANGED <<pactive, vactive>>
    BY <1>1, CancelLoopEffect DEF Frees
  <2> QED
    BY <2>1 DEF ListEffect, queueVars
<1>2. \A r \in CancelReqType : QueueLen(r) \in Nat
  BY LenProperties DEF QueueLen, QueueInv, QueueType
<1>3. th[t].req \in CancelReqType /\ th[t].left \in Nat /\ th[t].node \in Node \cup {NoNode}
  BY DEF ThreadsOK, ThreadType
<1>4. ASSUME NEW r \in CancelReqs, CancelRequest(t, r) PROVE ListEffect
  BY <1>1, <1>2, <1>4, ConstantsAssumption DEF CancelRequest
<1>5. CASE CancelQueue(t)
  BY <1>1, <1>2, <1>3, <1>5 DEF CancelQueue
<1>6. CASE CancelNext(t)
  <2>1. CASE UNCHANGED queueVars
    BY <2>1 DEF queueVars, ListEffect
  <2>2. CASE CancelLoop(t, th[t].req, th[t].node, th[t].left)
    BY <1>1, <1>3, <2>2
  <2> QED
    BY <1>6, <2>1, <2>2 DEF CancelNext
<1> QED
  BY <1>4, <1>5, <1>6

\* A step that takes a command off the active queue.
LEMMA DequeueEffect ==
  ASSUME IndInv, NEW t \in Thread,
         (\E c \in Cmd : RemoveCmd(t, c)) \/ DequeueNode(t)
  PROVE  ListEffect
<1> USE IndParts
<1>1. ASSUME NEW c \in Cmd \cup {NoCmd}, NEW why, NEW timedOut, DequeueCmd(t, c, why, timedOut)
      PROVE  ListEffect
  <2>1. \/ UNCHANGED queueVars
        \/ \E n \in ToSet(pactive) : LeavesActive(n)
    BY <1>1, DequeueCmdEffect DEF Frees
  <2> QED
    BY <2>1 DEF ListEffect, queueVars
<1>2. ASSUME NEW c \in Cmd, RemoveCmd(t, c) PROVE ListEffect
  BY <1>1, <1>2 DEF RemoveCmd
<1>3. CASE DequeueNode(t)
  <2>1. th[t].node \in Node
    BY <1>3 DEF DequeueNode, At, ThreadsOK, FrameOK
  <2>2. cmd[th[t].node] \in Cmd \cup {NoCmd}
    BY <2>1 DEF QueueInv, QueueType
  <2> QED
    BY <1>1, <1>3, <2>2 DEF DequeueNode
<1> QED
  BY <1>2, <1>3

\* An accepted request.
LEMMA RequestEffect ==
  ASSUME IndInv, NEW t \in Thread, NEW c \in Cmd, Request(t, c)
  PROVE  ListEffect
<1> DEFINE n == Head(pool)
<1>1. n \in ToSet(pool)
  BY IndParts, ToSetType DEF Request, QueueInv, QueueType
<1>2. AddsPending(n, c) \/ AddsActive(n, c)
  BY DEF Request, AddsPending, AddsActive
<1> QED
  BY <1>1, <1>2 DEF ListEffect

\* Every step has one of these effects.
LEMMA NextEffect ==
  ASSUME IndInv, PendingOrder, [Next]_vars
  PROVE  ListEffect
<1>1. ASSUME NEW t \in Thread, NEW c \in Cmd, Request(t, c) PROVE ListEffect
  BY <1>1, RequestEffect
<1>2. ASSUME NEW t \in Thread, (\E c \in Cmd : RemoveCmd(t, c)) \/ DequeueNode(t)
      PROVE  ListEffect
  BY <1>2, DequeueEffect
<1>3. ASSUME NEW t \in Thread,
             (\E r \in CancelReqs : CancelRequest(t, r)) \/ CancelQueue(t) \/ CancelNext(t)
      PROVE  ListEffect
  BY <1>3, CancelEffect
<1>4. ASSUME NEW t \in Thread, MovePendingToActive(t) \/ MoveNext(t) PROVE ListEffect
  BY <1>4, MoveEffect
<1>5. CASE UNCHANGED <<pactive, vactive, ppending, vpending>>
  BY <1>5 DEF ListEffect
<1>6. ASSUME NEW t \in Thread,
             (\E c \in Cmd : RequestRefused(t, c)) \/ FindAndStartTimer(t)
             \/ ActivationDone(t) \/ CheckAfterActivation(t) \/ ReleaseRef(t)
      PROVE  UNCHANGED <<pactive, vactive, ppending, vpending>>
  BY <1>6 DEF RequestRefused, FindAndStartTimer, ActivationDone, CheckAfterActivation,
              ReleaseRef, queueVars
<1>7. ASSUME \/ \E s \in Slot : TimerHandler(s) \/ GenericTimerCb(s)
             \/ \E c \in Cmd : UpdateTimer(c)
             \/ \E v \in Vdev : VdevQueueDisable(v) \/ VdevDelete(v)
             \/ Lost \/ UNCHANGED vars
      PROVE  UNCHANGED <<pactive, vactive, ppending, vpending>>
  BY <1>7 DEF TimerHandler, GenericTimerCb, UpdateTimer, VdevQueueDisable, VdevDelete,
              Lost, vars, queueVars
<1> QED
  BY <1>1, <1>2, <1>3, <1>4, <1>5, <1>6, <1>7 DEF Next, Step

\* So the order is kept.
LEMMA NextPendingOrder == IndInv /\ PendingOrder /\ [Next]_vars => PendingOrder'
<1> SUFFICES ASSUME IndInv, PendingOrder, [Next]_vars PROVE PendingOrder'
  OBVIOUS
<1>1. ListEffect /\ QueueInv
  BY NextEffect, IndParts
<1>2. CASE UNCHANGED <<ppending, vpending>>
  BY <1>2 DEF PendingOrder
<1>3. ASSUME NEW n \in ToSet(pool), NEW c \in Cmd, AddsPending(n, c) PROVE PendingOrder'
  BY <1>1, <1>3, InsertKeepsOrder DEF AddsPending
<1>4. ASSUME NEW n \in ToSet(ppending), LeavesPending(n) PROVE PendingOrder'
  BY <1>1, <1>4, RemoveKeepsOrder
<1> QED
  BY <1>1, <1>2, <1>3, <1>4 DEF ListEffect, AddsActive, LeavesActive, Moves

LEMMA OrderInductive == Spec => [](IndInv /\ PendingOrder)
<1>1. Init => PendingOrder
  <2>1. ToSet(<<>>) = {}
    BY DEF ToSet
  <2> QED
    BY <2>1 DEF Init, PendingOrder
<1> QED
  BY <1>1, InitIndInv, NextIndInv, NextPendingOrder, PTL DEF Spec

\* With at most one active command per vdev, the active lists have no order to keep.
LEMMA OrderGivesAgreement == IndInv /\ PendingOrder => ListsAgree
<1> SUFFICES ASSUME IndInv, PendingOrder, NEW v \in Vdev
             PROVE  Agrees(vactive[v], pactive, v) /\ Agrees(vpending[v], ppending, v)
  BY DEF ListsAgree
<1> USE IndParts
<1>1. Agrees(vpending[v], ppending, v)
  BY DEF Agrees, PendingOrder, QueueInv, MembersAgree
<1>2. /\ IsInjective(vactive[v]) /\ IsInjective(pactive)
      /\ vactive[v] \in Seq(Node) /\ pactive \in Seq(Node)
      /\ ToSet(vactive[v]) = {n \in ToSet(pactive) : VdevOf[cmd[n]] = v}
  BY DEF QueueInv, QueueType, MembersAgree, NodesConserved
<1>3. ASSUME NEW m \in ToSet(vactive[v]), NEW n \in ToSet(vactive[v])
      PROVE  Before(vactive[v], m, n) <=> Before(pactive, m, n)
  <2>1. m = n
    BY <1>2 DEF BitmapExact
  <2>2. ~Before(vactive[v], m, m) /\ ~Before(pactive, m, m)
    BY <1>2, BeforeSelf
  <2> QED
    BY <2>1, <2>2
<1>4. Agrees(vactive[v], pactive, v)
  BY <1>2, <1>3 DEF Agrees
<1> QED
  BY <1>1, <1>4

(***************************************************************************)
(* The pending and active lists of a vdev and those of the pdev, which are *)
(* linked, unlinked and searched separately, always hold the same commands *)
(* of the vdev in the same order, whatever the priorities and the          *)
(* interleaving of requests, moves, removals and cancels.                  *)
(***************************************************************************)
THEOREM ListsStayInStep == Spec => []ListsAgree
BY OrderInductive, OrderGivesAgreement, PTL

\* A step activates no pending command but the first of its vdev.
LEMMA StepKeepsOrder ==
  ASSUME IndInv, PendingOrder, [Next]_vars, NEW v \in Vdev, NEW n \in ToSet(vpending[v]),
         n \in ToSet(vactive'[v])
  PROVE  n = Head(vpending[v])
<1> USE IndParts
<1>1. ListEffect
  BY NextEffect
<1>2. /\ n \in ToSet(ppending) /\ VdevOf[cmd[n]] = v
      /\ n \notin ToSet(pool) /\ n \notin ToSet(vactive[v]) /\ ToSet(vactive[v]) \subseteq ToSet(pactive)
  BY DEF QueueInv, MembersAgree, NodesConserved
<1>3. vactive \in [Vdev -> Seq(Node)] /\ vactive[v] \in Seq(Node) /\ IsInjective(vactive[v])
  BY DEF QueueInv, QueueType, MembersAgree
<1>4. ASSUME NEW x \in Node, NEW c \in Cmd, x # n,
             vactive' = [vactive EXCEPT ![VdevOf[c]] = Insert(@, x, c)]
      PROVE  FALSE
  <2>1. CASE v = VdevOf[c]
    <3>1. vactive'[v] = Insert(vactive[v], x, c)
      BY <1>3, <1>4, <2>1
    <3>2. ToSet(vactive'[v]) = ToSet(vactive[v]) \cup {x}
      BY <1>3, <3>1, InsertMembers
    <3> QED
      BY <1>2, <1>4, <3>2
  <2>2. CASE v # VdevOf[c]
    <3>1. vactive'[v] = vactive[v]
      BY <1>3, <1>4, <2>2
    <3> QED
      BY <1>2, <3>1
  <2> QED
    BY <2>1, <2>2
<1>5. ASSUME NEW x \in ToSet(pactive), LeavesActive(x) PROVE FALSE
  <2>1. CASE v = VdevOf[cmd[x]]
    <3>1. x \in ToSet(vactive[v])
      BY <1>5, <2>1, QueuedNode
    <3>2. vactive'[v] = RemoveFirst(vactive[v], x)
      BY <1>3, <1>5, <2>1 DEF LeavesActive
    <3>3. ToSet(vactive'[v]) = ToSet(vactive[v]) \ {x}
      BY <1>3, <3>1, <3>2, RemoveMembers
    <3> QED
      BY <1>2, <3>3
  <2>2. CASE v # VdevOf[cmd[x]]
    <3>1. vactive'[v] = vactive[v]
      BY <1>3, <1>5, <2>2 DEF LeavesActive
    <3> QED
      BY <1>2, <3>1
  <2> QED
    BY <2>1, <2>2
<1>6. CASE UNCHANGED vactive
  BY <1>2, <1>6
<1>7. ASSUME NEW x \in ToSet(pool), NEW c \in Cmd, AddsPending(x, c) \/ AddsActive(x, c)
      PROVE  n = Head(vpending[v])
  <2>1. x \in Node /\ x # n
    BY <1>2, ToSetType DEF QueueInv, QueueType
  <2> QED
    BY <1>4, <1>6, <1>7, <2>1 DEF AddsPending, AddsActive
<1>8. ASSUME NEW x \in ToSet(ppending), Moves(x), x = Head(vpending[VdevOf[cmd[x]]])
      PROVE  n = Head(vpending[v])
  <2>1. x \in Node /\ cmd[x] \in Cmd
    BY QueuedNode
  <2>2. x = n
    BY <1>4, <1>8, <2>1 DEF Moves
  <2> QED
    BY <1>2, <1>8, <2>2
<1> QED
  BY <1>1, <1>5, <1>6, <1>7, <1>8 DEF ListEffect

(***************************************************************************)
(* Of the commands waiting on a vdev the first is activated first, whether *)
(* the move walks the pending list of the vdev or that of the pdev, and    *)
(* wherever the walk of the pdev list takes up again after it dropped the  *)
(* lock to activate a command of another vdev.                             *)
(***************************************************************************)
THEOREM VdevOrderIsKept == Spec => VdevOrderKept
<1>1. IndInv /\ PendingOrder /\ [Next]_vars =>
        [\A v \in Vdev : \A n \in ToSet(vpending[v]) :
           n \in ToSet(vactive'[v]) => n = Head(vpending[v])]_vars
  BY StepKeepsOrder
<1> QED
  BY <1>1, OrderInductive, PTL DEF Spec, VdevOrderKept

-----------------------------------------------------------------------------
(***************************************************************************)
(* No pending command is forgotten.  For clients without blocking commands *)
(* that cancel pending commands only, the counter stays at 0, so that the  *)
(* move after a dequeue always walks the list of its own vdev; and the bit *)
(* of a vdev is never left set by a cancel in progress.                    *)
(***************************************************************************)

\* The bit of a vdev is set only while it has an active command.
LEMMA BitMeansActive ==
  ASSUME IndInv, AttendedInv, NEW v \in bitmap
  PROVE  vactive[v] # <<>>
<1> USE IndParts
<1>1. v \in Vdev
  BY DEF BlockType
<1>2. ASSUME NEW t \in Thread, th[t].pc = "cancelled" PROVE Head(th[t].req.queues) # "active"
  <2>1. th[t].req.queues # <<>> /\ ToSet(th[t].req.queues) \subseteq {"pending"}
    BY <1>2 DEF AttendedInv, WalksPending
  <2>2. th[t].req.queues \in Seq({"active", "pending"})
    BY DEF ThreadsOK, ThreadType, CancelReqType
  <2>3. Head(th[t].req.queues) \in ToSet(th[t].req.queues)
    BY <2>1, <2>2, ToSetType
  <2> QED
    BY <2>1, <2>3
<1>3. \A t \in Thread : ~CancellingActive(t, v)
  BY <1>2 DEF CancellingActive
<1> QED
  BY <1>1, <1>3 DEF BitmapExact

(***************************************************************************)
(* What a step has to leave to a vdev whose commands wait: an active       *)
(* command, a move to come, or what it had.                                *)
(***************************************************************************)
MovesFor(f, v) == f.pc = "move" /\ VdevOf[f.cmd] = v

LEMMA AttendedStep ==
  ASSUME AttendedInv, NEW t \in Thread,
         waiting' = 0, ~blockingActive', \A n \in Node : "cancel" \notin inUse'[n],
         \A u \in Thread : u # t => th'[u] = th[u], WalksPending(th'[t]),
         \A v \in Vdev : vpending'[v] # <<>> =>
           \/ vactive'[v] # <<>> \/ MovesFor(th'[t], v)
           \/ vpending[v] # <<>> /\ vactive'[v] = vactive[v] /\ ~MovesFor(th[t], v)
  PROVE  AttendedInv'
<1>1. ASSUME NEW v \in Vdev, vpending'[v] # <<>> PROVE Attended(v)'
  <2>1. CASE vactive'[v] # <<>> \/ MovesFor(th'[t], v)
    BY <2>1 DEF Attended, MovesFor
  <2>2. CASE vpending[v] # <<>> /\ vactive'[v] = vactive[v] /\ ~MovesFor(th[t], v)
    <3>1. vactive[v] # <<>> \/ \E u \in Thread : MovesFor(th[u], v)
      BY <2>2 DEF AttendedInv, Attended, MovesFor
    <3>2. vactive[v] # <<>> \/ \E u \in Thread : MovesFor(th'[u], v)
      BY <2>2, <3>1
    <3> QED
      BY <2>2, <3>2 DEF Attended, MovesFor
  <2> QED
    BY <1>1, <2>1, <2>2
<1>2. \A u \in Thread : WalksPending(th'[u])
  BY DEF AttendedInv
<1>3. \A u \in Thread : WalksPending(th[u])'
  BY <1>2 DEF WalksPending
<1> QED
  BY <1>1, <1>3 DEF AttendedInv

\* A step that leaves the lists and the block alone, of a thread not about to move.
LEMMA AttendedQuiet ==
  ASSUME AttendedInv, NEW t \in Thread, UNCHANGED <<vactive, vpending, waiting, blockingActive>>,
         \A n \in Node : "cancel" \notin inUse'[n], th[t].pc # "move",
         \A u \in Thread : u # t => th'[u] = th[u], WalksPending(th'[t])
  PROVE  AttendedInv'
<1>1. \A v \in Vdev : ~MovesFor(th[t], v)
  BY DEF MovesFor
<1>2. waiting' = 0 /\ ~blockingActive'
  BY DEF AttendedInv
<1> QED
  BY <1>1, <1>2, AttendedStep

\* The same when no thread moves.
LEMMA AttendedStill ==
  ASSUME AttendedInv, UNCHANGED <<vactive, vpending, waiting, blockingActive, inUse, th>>
  PROVE  AttendedInv'
BY DEF AttendedInv, Attended, WalksPending

\* A thread that returns to its caller is not in a walk.
LEMMA ReturnWalks ==
  ASSUME ThreadsOK, NEW t \in Thread, Return(t)
  PROVE  WalksPending(th'[t]) /\ \A u \in Thread : u # t => th'[u] = th[u]
BY ReturnFrame DEF WalksPending

\* A request is admitted, or waits behind a command of its vdev.
LEMMA RequestAttended ==
  ASSUME IndInv, AttendedInv, PendingCancelsOnly, NEW t \in Thread, NEW c \in Cmd, Request(t, c)
  PROVE  AttendedInv'
<1> USE IndParts
<1> DEFINE v == VdevOf[c]
           n == Head(pool)
<1>1. th[t].pc = "idle" /\ c \notin Blocking /\ pool # <<>> /\ v \in Vdev
  BY ConstantsAssumption DEF Request, CanRequest, At, PendingCancelsOnly
<1>2. n \in Node
  BY <1>1, ToSetType DEF QueueInv, QueueType
<1>3. waiting' = 0
  BY <1>1 DEF Request, WaitingAfterCheck, AttendedInv
<1>4. \A w \in Vdev : ~MovesFor(th[t], w)
  BY <1>1 DEF MovesFor
<1>5. /\ vactive \in [Vdev -> Seq(Node)] /\ vpending \in [Vdev -> Seq(Node)]
      /\ inUse \in [Node -> SUBSET {"marked", "active", "cancel", "removal"}]
  BY DEF QueueInv, QueueType, FlagType
<1>6. CASE /\ vactive' = [vactive EXCEPT ![v] = Insert(@, n, c)]
           /\ blockingActive' = (blockingActive \/ c \in Blocking)
           /\ inUse' = [inUse EXCEPT ![n] = @ \cup {"marked"}]
           /\ Goto(t, [Idle EXCEPT !.pc = "activate", !.node = n])
           /\ UNCHANGED vpending
  <2>1. Insert(vactive[v], n, c) # <<>>
    BY <1>1, <1>2, <1>5, InsertMembers
  <2>2. th'[t].pc = "activate" /\ \A u \in Thread : u # t => th'[u] = th[u]
    BY <1>6 DEF Goto, ThreadsOK, Idle
  <2> HIDE DEF n
  <2>3. WalksPending(th'[t])
    BY <2>2 DEF WalksPending
  <2>4. \A m \in Node : "cancel" \notin inUse'[m]
    BY <1>2, <1>5, <1>6 DEF AttendedInv
  <2>5. ~blockingActive'
    BY <1>1, <1>6 DEF AttendedInv
  <2>6. \A w \in Vdev : vactive'[w] # <<>> \/ vactive'[w] = vactive[w]
    BY <1>5, <1>6, <2>1
  <2> QED
    BY <1>3, <1>4, <1>6, <2>2, <2>3, <2>4, <2>5, <2>6, AttendedStep
<1>7. CASE /\ ~ActiveCmdAllowed(c)
           /\ vpending' = [vpending EXCEPT ![v] = Insert(@, n, c)]
           /\ UNCHANGED <<vactive, blockingActive, inUse, th>>
  <2>1. vactive[v] # <<>> \/ vpending[v] # <<>>
    <3>1. ~blockingActive /\ UInt8(waiting) = 0
      BY DEF AttendedInv, UInt8
    <3>2. v \in bitmap \/ vpending[v] # <<>>
      BY <1>1, <1>7, <3>1 DEF ActiveCmdAllowed, IsActiveNonScanCmdAllowed
    <3> QED
      BY <3>2, BitMeansActive
  <2>2. \A w \in Vdev : w # v => vpending'[w] = vpending[w]
    BY <1>5, <1>7
  <2>3. WalksPending(th'[t]) /\ (\A m \in Node : "cancel" \notin inUse'[m]) /\ ~blockingActive'
    BY <1>7 DEF AttendedInv
  <2>4. \A w \in Vdev : vpending'[w] # <<>> => vactive'[w] # <<>> \/ vpending[w] # <<>>
    BY <1>7, <2>1, <2>2
  <2> QED
    BY <1>3, <1>4, <1>7, <2>3, <2>4, AttendedStep
<1> QED
  BY <1>6, <1>7 DEF Request

\* wlan_serialization_activate_cmd: no cancel can have been asked for meanwhile.
LEMMA ActivateAttended ==
  ASSUME IndInv, AttendedInv, NEW t \in Thread,
         FindAndStartTimer(t) \/ ActivationDone(t) \/ CheckAfterActivation(t)
  PROVE  AttendedInv'
<1> USE IndParts
<1>1. /\ UNCHANGED <<vactive, vpending, waiting, blockingActive>> /\ th[t].pc # "move"
      /\ th[t].pc \in {"activate", "activated", "check"}
  BY DEF FindAndStartTimer, ActivationDone, CheckAfterActivation, At, queueVars, blockVars
<1>2. th[t].node \in Node
  BY <1>1 DEF ThreadsOK, FrameOK
<1>3. CASE FindAndStartTimer(t)
  <2>1. \A m \in Node : "cancel" \notin inUse'[m]
    BY <1>3 DEF FindAndStartTimer, nodeVars, AttendedInv
  <2>2. PICK ok \in BOOLEAN : Goto(t, [th[t] EXCEPT !.pc = "activated", !.ok = ok])
    BY <1>3 DEF FindAndStartTimer
  <2>3. th'[t].pc = "activated" /\ \A u \in Thread : u # t => th'[u] = th[u]
    BY <2>2 DEF Goto, ThreadsOK, ThreadType
  <2>4. WalksPending(th'[t])
    BY <2>3 DEF WalksPending
  <2> QED
    BY <1>1, <2>1, <2>3, <2>4, AttendedQuiet
<1>4. CASE ActivationDone(t)
  <2>1. \A m \in Node : "cancel" \notin inUse'[m]
    BY <1>2, <1>4 DEF ActivationDone, FlagType, AttendedInv
  <2>2. th'[t].pc = "check" /\ \A u \in Thread : u # t => th'[u] = th[u]
    BY <1>4 DEF ActivationDone, Goto, ThreadsOK, ThreadType
  <2>3. WalksPending(th'[t])
    BY <2>2 DEF WalksPending
  <2> QED
    BY <1>1, <2>1, <2>2, <2>3, AttendedQuiet
<1>5. CASE CheckAfterActivation(t)
  <2> DEFINE n == th[t].node
             next == [Idle EXCEPT !.node = n, !.k = th[t].k]
  <2>1. \A m \in Node : "cancel" \notin inUse'[m]
    BY <1>5 DEF CheckAfterActivation, nodeVars, AttendedInv
  <2>2. WalksPending(th'[t]) /\ \A u \in Thread : u # t => th'[u] = th[u]
    <3>1. CASE Goto(t, [next EXCEPT !.pc = "dequeue", !.why = "FAILED"])
      <4>1. th'[t].pc = "dequeue" /\ \A u \in Thread : u # t => th'[u] = th[u]
        BY <3>1 DEF Goto, ThreadsOK, Idle
      <4> QED
        BY <4>1 DEF WalksPending
    <3>2. CASE Goto(t, [next EXCEPT !.pc = "dequeue", !.why = "REMOVE"])
      <4>1. th'[t].pc = "dequeue" /\ \A u \in Thread : u # t => th'[u] = th[u]
        BY <3>2 DEF Goto, ThreadsOK, Idle
      <4> QED
        BY <4>1 DEF WalksPending
    <3>3. CASE Return(t)
      BY <3>3, ReturnWalks
    <3>4. "cancel" \notin inUse[n]
      BY <1>2 DEF AttendedInv
    <3> QED
      BY <1>5, <3>1, <3>2, <3>3, <3>4 DEF CheckAfterActivation
  <2> QED
    BY <1>1, <2>1, <2>2, AttendedQuiet
<1> QED
  BY <1>3, <1>4, <1>5

\* A dequeue leaves its vdev to the move that follows.
LEMMA DequeueAttended ==
  ASSUME IndInv, AttendedInv, NEW t \in Thread,
         (\E c \in Cmd : RemoveCmd(t, c)) \/ DequeueNode(t)
  PROVE  AttendedInv'
<1> USE IndParts
<1>1. ASSUME NEW c \in Cmd \cup {NoCmd}, NEW why, NEW timedOut, DequeueCmd(t, c, why, timedOut),
             th[t].pc # "move"
      PROVE  AttendedInv'
  <2>1. CASE /\ Return(t) /\ UNCHANGED <<queueVars, blockVars, nodeVars, timerVars>>
    BY <1>1, <2>1, ReturnWalks, AttendedQuiet DEF queueVars, blockVars, nodeVars, AttendedInv
  <2>2. ASSUME NEW n \in ToSet(pactive), inUse' = [inUse EXCEPT ![n] = @ \cup {"removal"}],
               Return(t), UNCHANGED <<queueVars, blockVars, cmd, timerVars>>
        PROVE  AttendedInv'
    <3>1. n \in Node
      BY QueuedNode
    <3>2. \A m \in Node : "cancel" \notin inUse'[m]
      BY <2>2, <3>1 DEF FlagType, AttendedInv
    <3> QED
      BY <1>1, <2>2, <3>2, ReturnWalks, AttendedQuiet DEF queueVars, blockVars
  <2>3. ASSUME NEW n \in ToSet(pactive), cmd[n] = c, Frees(n, why = "TIMEOUT"), ClearActive(c),
               inUse' = [inUse EXCEPT ![n] = {}], UNCHANGED waiting,
               th'[t].pc = "move", th'[t].cmd = c, \A u \in Thread : u # t => th'[u] = th[u]
        PROVE  AttendedInv'
    <3>1. n \in Node /\ VdevOf[c] \in Vdev
      BY <2>3, QueuedNode
    <3>2. \A m \in Node : "cancel" \notin inUse'[m]
      BY <2>3, <3>1 DEF FlagType, AttendedInv
    <3>3. waiting' = 0 /\ ~blockingActive'
      BY <2>3 DEF ClearActive, AttendedInv
    <3>4. \A v \in Vdev : MovesFor(th'[t], v) \/ vactive'[v] = vactive[v]
      BY <2>3, <3>1 DEF Frees, LeavesActive, MovesFor, QueueInv, QueueType
    <3>5. vpending' = vpending /\ \A v \in Vdev : ~MovesFor(th[t], v)
      BY <1>1, <2>3 DEF Frees, LeavesActive, MovesFor
    <3>6. WalksPending(th'[t])
      BY <2>3 DEF WalksPending
    <3> QED
      BY <2>3, <3>2, <3>3, <3>4, <3>5, <3>6, AttendedStep
  <2>4. \/ Return(t) /\ UNCHANGED <<queueVars, blockVars, nodeVars, timerVars>>
        \/ \E n \in ToSet(pactive) :
             /\ inUse' = [inUse EXCEPT ![n] = @ \cup {"removal"}]
             /\ Return(t) /\ UNCHANGED <<queueVars, blockVars, cmd, timerVars>>
        \/ \E n \in ToSet(pactive) :
             /\ cmd[n] = c /\ Frees(n, why = "TIMEOUT") /\ ClearActive(c)
             /\ inUse' = [inUse EXCEPT ![n] = {}] /\ UNCHANGED waiting
             /\ th'[t].pc = "move" /\ th'[t].cmd = c /\ \A u \in Thread : u # t => th'[u] = th[u]
    BY <1>1, DequeueCmdEffect
  <2> QED
    BY <2>1, <2>2, <2>3, <2>4
<1>2. ASSUME NEW c \in Cmd, RemoveCmd(t, c) PROVE AttendedInv'
  BY <1>1, <1>2 DEF RemoveCmd, At
<1>3. CASE DequeueNode(t)
  <2>1. th[t].pc = "dequeue" /\ th[t].node \in Node
    BY <1>3 DEF DequeueNode, At, ThreadsOK, FrameOK
  <2>2. cmd[th[t].node] \in Cmd \cup {NoCmd}
    BY <2>1 DEF QueueInv, QueueType
  <2> QED
    BY <1>1, <1>3, <2>1, <2>2 DEF DequeueNode
<1> QED
  BY <1>2, <1>3

(***************************************************************************)
(* A move that takes a command gives its vdev an active one; the move      *)
(* after a dequeue that takes none found its vdev active, or nothing that  *)
(* waits.                                                                  *)
(***************************************************************************)
LEMMA MoveAttended ==
  ASSUME IndInv, AttendedInv, PendingCancelsOnly, NEW t \in Thread,
         MovePendingToActive(t) \/ MoveNext(t)
  PROVE  AttendedInv'
<1> USE IndParts
<1>1. ASSUME NEW list \in Seq(Node), NEW budget \in Nat, NEW byVdev, NEW i \in Nat,
             MovesFrom(list, budget, byVdev, i), th'[t].pc = "activate",
             \A v \in Vdev : MovesFor(th[t], v) => VdevOf[cmd[list[i]]] = v,
             \A u \in Thread : u # t => th'[u] = th[u]
      PROVE  AttendedInv'
  <2> DEFINE n == list[i]
             w == VdevOf[cmd[n]]
  <2>1. /\ n \in ToSet(ppending) /\ Moves(n)
        /\ inUse' = [inUse EXCEPT ![n] = @ \cup {"marked"}]
        /\ blockingActive' = (blockingActive \/ cmd[n] \in Blocking)
        /\ waiting' = IF cmd[n] \in Blocking THEN UInt16(waiting - 1) ELSE waiting
    BY <1>1 DEF MovesFrom
  <2>2. n \in Node /\ w \in Vdev
    BY <2>1, QueuedNode
  <2> HIDE DEF n
  <2>3. waiting' = 0 /\ ~blockingActive'
    BY <2>1 DEF AttendedInv, PendingCancelsOnly
  <2>4. \A m \in Node : "cancel" \notin inUse'[m]
    BY <2>1, <2>2 DEF FlagType, AttendedInv
  <2>5. /\ vactive'[w] # <<>>
        /\ \A v \in Vdev : v # w => vactive'[v] = vactive[v] /\ vpending'[v] = vpending[v]
    <3>1. vactive \in [Vdev -> Seq(Node)] /\ vpending \in [Vdev -> Seq(Node)]
      BY DEF QueueInv, QueueType
    <3>2. Insert(vactive[w], n, cmd[n]) # <<>>
      BY <2>2, <3>1, InsertMembers
    <3> QED
      BY <2>1, <2>2, <3>1, <3>2 DEF Moves, LeavesPending
  <2>6. \A v \in Vdev : MovesFor(th[t], v) => v = w
    BY <1>1 DEF n
  <2>7. WalksPending(th'[t])
    BY <1>1 DEF WalksPending
  <2> QED
    BY <1>1, <2>3, <2>4, <2>5, <2>6, <2>7, AttendedStep
<1>2. CASE MovePendingToActive(t)
  <2> DEFINE v == VdevOf[th[t].cmd]
             list == vpending[v]
  <2>1. th[t].pc = "move" /\ th[t].cmd \in Cmd
    BY <1>2 DEF MovePendingToActive, At, ThreadsOK, FrameOK
  <2>2. v \in Vdev
    BY <2>1, ConstantsAssumption
  <2>3. MoveLoop(t, list, Len(list), TRUE)
    <3>1. th[t].cmd \notin Blocking /\ waiting = 0
      BY DEF PendingCancelsOnly, AttendedInv
    <3> QED
      BY <1>2, <3>1 DEF MovePendingToActive
  <2>4. /\ list \in Seq(Node) /\ Len(list) \in Nat /\ ToSet(list) \subseteq ToSet(ppending)
        /\ \A m \in ToSet(list) : VdevOf[cmd[m]] = v
    BY <2>2, LenProperties DEF QueueInv, QueueType, MembersAgree
  <2>5. \A w \in Vdev : MovesFor(th[t], w) => w = v
    BY DEF MovesFor
  <2>6. CASE /\ Return(t) /\ UNCHANGED <<queueVars, blockVars, inUse, bug>>
             /\ FindsNone(list, Len(list), TRUE)
    <3>1. list # <<>> => vactive[v] # <<>>
      <4>1. ASSUME list # <<>> PROVE v \in bitmap
        BY <2>4, <2>6, <4>1 DEF FindsNone, Busy
      <4> QED
        BY <4>1, BitMeansActive
    <3>2. waiting' = 0 /\ ~blockingActive' /\ UNCHANGED <<vactive, vpending>>
          /\ \A m \in Node : "cancel" \notin inUse'[m]
      BY <2>6 DEF AttendedInv, blockVars, queueVars
    <3> HIDE DEF v
    <3> QED
      BY <2>5, <2>6, <3>1, <3>2, ReturnWalks, AttendedStep
  <2>7. CASE \E i \in Nat : /\ MovesFrom(list, Len(list), TRUE, i)
                            /\ th'[t].pc = "activate" /\ th'[t].node = list[i]
                            /\ \A u \in Thread : u # t => th'[u] = th[u]
    <3>1. PICK i \in Nat : /\ MovesFrom(list, Len(list), TRUE, i) /\ th'[t].pc = "activate"
                           /\ \A u \in Thread : u # t => th'[u] = th[u]
      BY <2>7
    <3>2. list[i] \in ToSet(list)
      BY <3>1 DEF MovesFrom, ToSet
    <3>3. \A w \in Vdev : MovesFor(th[t], w) => VdevOf[cmd[list[i]]] = w
      BY <2>4, <2>5, <3>2
    <3> HIDE DEF list
    <3> QED
      BY <1>1, <2>4, <3>1, <3>3
  <2> HIDE DEF list
  <2> QED
    BY <2>3, <2>4, <2>6, <2>7, MoveLoopEffect
<1>3. CASE MoveNext(t)
  <2>1. th[t].pc = "resume" /\ \A v \in Vdev : ~MovesFor(th[t], v)
    BY <1>3 DEF MoveNext, At, MovesFor
  <2>2. CASE Return(t) /\ UNCHANGED <<queueVars, blockVars, inUse, bug>>
    BY <2>1, <2>2, ReturnWalks, AttendedQuiet DEF queueVars, blockVars, AttendedInv
  <2>3. CASE MoveLoop(t, ppending, th[t].left, FALSE)
    <3>1. ppending \in Seq(Node) /\ th[t].left \in Nat
      BY DEF QueueInv, QueueType, ThreadsOK, ThreadType
    <3>2. \/ Return(t) /\ UNCHANGED <<queueVars, blockVars, inUse, bug>>
          \/ \E i \in Nat : /\ MovesFrom(ppending, th[t].left, FALSE, i)
                            /\ th'[t].pc = "activate"
                            /\ \A u \in Thread : u # t => th'[u] = th[u]
      BY <2>3, <3>1, MoveLoopEffect
    <3> QED
      BY <1>1, <2>1, <2>2, <3>1, <3>2
  <2> QED
    BY <1>3, <2>2, <2>3 DEF MoveNext
<1> QED
  BY <1>2, <1>3

\* The walk goes on with the queues that are left, all of them pending ones.
LEMMA NextQueueWalks ==
  ASSUME ThreadsOK, NEW t \in Thread, NEW r \in CancelReqType, NextQueue(t, r),
         ToSet(r.queues) \subseteq {"pending"}
  PROVE  WalksPending(th'[t]) /\ \A u \in Thread : u # t => th'[u] = th[u]
<1>1. CASE Len(r.queues) <= 1
  BY <1>1, ReturnWalks DEF NextQueue
<1>2. CASE ~(Len(r.queues) <= 1)
  <2> DEFINE q == [r EXCEPT !.queues = Tail(@)]
             s == r.queues
  <2>1. s \in Seq({"active", "pending"})
    BY DEF CancelReqType
  <2>2. /\ Len(s) \in Nat /\ DOMAIN s = 1..Len(s)
        /\ Len(Tail(s)) = Len(s) - 1 /\ DOMAIN Tail(s) = 1..(Len(s) - 1)
        /\ \A i \in 1..(Len(s) - 1) : Tail(s)[i] = s[i + 1]
    BY <1>2, <2>1, HeadTailProperties, LenProperties, EmptySeq
  <2>3. ToSet(Tail(s)) \subseteq {"pending"} /\ Tail(s) # <<>>
    <3>1. ASSUME NEW i \in 1..(Len(s) - 1) PROVE Tail(s)[i] \in ToSet(s)
      <4>1. i + 1 \in DOMAIN s
        BY <2>2
      <4> QED
        BY <2>2, <4>1 DEF ToSet
    <3>2. Tail(s) # <<>>
      <4>1. Tail(s) \in Seq({"active", "pending"})
        BY <1>2, <2>1, <2>2, HeadTailProperties, EmptySeq
      <4>2. Len(Tail(s)) # 0
        <5>1. \A i \in Nat : \A j : ~(i <= 1) /\ j = i - 1 => j # 0
          OBVIOUS
        <5> QED
          BY <1>2, <2>2, <5>1, Zenon
      <4> QED
        BY <4>1, <4>2, EmptySeq
    <3>3. ToSet(Tail(s)) \subseteq ToSet(s)
      BY <2>2, <3>1 DEF ToSet
    <3> QED
      BY <3>2, <3>3
  <2>4. q.queues = Tail(s)
    BY DEF CancelReqType
  <2> HIDE DEF q, s
  <2>5. Goto(t, [Idle EXCEPT !.pc = "cancel", !.k = th[t].k, !.req = q])
    BY <1>2 DEF NextQueue, q
  <2>6. /\ th'[t].pc = "cancel" /\ th'[t].req = q
        /\ \A u \in Thread : u # t => th'[u] = th[u]
    BY <2>5 DEF Goto, ThreadsOK, Idle
  <2> QED
    BY <2>3, <2>4, <2>6 DEF WalksPending
<1> QED
  BY <1>1, <1>2

\* A cancel takes pending commands only, and leaves the active ones alone.
LEMMA CancelAttended ==
  ASSUME IndInv, AttendedInv, PendingCancelsOnly, NEW t \in Thread,
         \/ \E r \in CancelReqs : CancelRequest(t, r)
         \/ CancelQueue(t) \/ CancelNext(t)
  PROVE  AttendedInv'
<1> USE IndParts
<1>1. th[t].pc # "move" /\ th[t].pc \in {"idle", "cancel", "cancelled"}
  BY DEF CancelRequest, CancelQueue, CancelNext, At
<1>2. ASSUME NEW r \in CancelReqType, r.queues # <<>>, ToSet(r.queues) \subseteq {"pending"},
             UNCHANGED <<queueVars, waiting, blockingActive>>,
             \A m \in Node : "cancel" \in inUse'[m] => "cancel" \in inUse[m],
             Return(t) \/ NextQueue(t, r)
      PROVE  AttendedInv'
  <2>1. \A m \in Node : "cancel" \notin inUse'[m]
    BY <1>2 DEF AttendedInv
  <2>2. WalksPending(th'[t]) /\ \A u \in Thread : u # t => th'[u] = th[u]
    BY <1>2, ReturnWalks, NextQueueWalks
  <2> QED
    BY <1>1, <1>2, <2>1, <2>2, AttendedQuiet DEF queueVars
<1>3. ASSUME NEW r \in CancelReqType, NEW prev \in Node \cup {NoNode}, NEW budget \in Nat,
             r.queues # <<>>, ToSet(r.queues) \subseteq {"pending"},
             CancelLoop(t, r, prev, budget), UNCHANGED <<waiting, blockingActive>>
      PROVE  AttendedInv'
  <2>1. Head(r.queues) # "active"
    <3>1. r.queues \in Seq({"active", "pending"})
      BY DEF CancelReqType
    <3> QED
      BY <1>3, <3>1, ToSetType
  <2>2. /\ \A m \in Node : "cancel" \in inUse'[m] => "cancel" \in inUse[m]
        /\ \/ UNCHANGED queueVars /\ (Return(t) \/ NextQueue(t, r))
           \/ \E n \in ToSet(ppending) :
                LeavesPending(n) /\ Cancelled(t, r, cmd[n]) /\ UNCHANGED <<pactive, vactive>>
    BY <1>3, <2>1, CancelLoopEffect
  <2>3. ASSUME NEW n \in ToSet(ppending), LeavesPending(n), Cancelled(t, r, cmd[n]),
               UNCHANGED <<pactive, vactive>>
        PROVE  AttendedInv'
    <3> DEFINE w == VdevOf[cmd[n]]
    <3>1. w \in Vdev /\ n \in ToSet(vpending[w])
      BY QueuedNode
    <3>2. vpending \in [Vdev -> Seq(Node)]
      BY DEF QueueInv, QueueType
    <3>3. vpending[w] # <<>>
      BY <3>1, <3>2, ToSetType
    <3>4. \A v \in Vdev : vpending'[v] # <<>> => vpending[v] # <<>>
      BY <2>3, <3>1, <3>2, <3>3 DEF LeavesPending
    <3>5. WalksPending(th'[t]) /\ \A u \in Thread : u # t => th'[u] = th[u]
      BY <1>3, <2>3 DEF Cancelled, WalksPending
    <3>6. \A v \in Vdev : ~MovesFor(th[t], v)
      BY <1>1 DEF MovesFor
    <3>7. waiting' = 0 /\ ~blockingActive' /\ \A m \in Node : "cancel" \notin inUse'[m]
      BY <1>3, <2>2 DEF AttendedInv
    <3> QED
      BY <2>3, <3>4, <3>5, <3>6, <3>7, AttendedStep
  <2> QED
    BY <1>2, <1>3, <2>2, <2>3
<1>4. \A r \in CancelReqType : QueueLen(r) \in Nat
  BY LenProperties DEF QueueLen, QueueInv, QueueType
<1>5. th[t].req \in CancelReqType /\ th[t].left \in Nat /\ th[t].node \in Node \cup {NoNode}
  BY DEF ThreadsOK, ThreadType
<1>6. ASSUME NEW r \in CancelReqs, CancelRequest(t, r) PROVE AttendedInv'
  <2>1. r \in CancelReqType /\ r.queues # <<>> /\ ToSet(r.queues) \subseteq {"pending"}
    BY ConstantsAssumption DEF PendingCancelsOnly
  <2> QED
    BY <1>3, <1>4, <1>6, <2>1 DEF CancelRequest, blockVars
<1>7. th[t].pc \in {"cancel", "cancelled"} =>
        th[t].req.queues # <<>> /\ ToSet(th[t].req.queues) \subseteq {"pending"}
  BY DEF AttendedInv, WalksPending
<1>8. CASE CancelQueue(t)
  BY <1>3, <1>4, <1>5, <1>7, <1>8 DEF CancelQueue, At, blockVars
<1>9. CASE CancelNext(t)
  <2>1. th[t].pc = "cancelled"
    BY <1>9 DEF CancelNext, At
  <2>2. Head(th[t].req.queues) # "active"
    <3>1. th[t].req.queues \in Seq({"active", "pending"})
      BY <1>5 DEF CancelReqType
    <3> QED
      BY <1>7, <2>1, <3>1, ToSetType
  <2>3. UNCHANGED <<waiting, blockingActive>>
    BY <1>9, <2>2 DEF CancelNext, PendingCancelsOnly
  <2>4. CASE NextQueue(t, th[t].req) /\ UNCHANGED <<queueVars, nodeVars, timerVars, bug>>
    BY <1>2, <1>5, <1>7, <2>1, <2>3, <2>4 DEF nodeVars
  <2>5. CASE CancelLoop(t, th[t].req, th[t].node, th[t].left)
    BY <1>3, <1>5, <1>7, <2>1, <2>3, <2>5
  <2> QED
    BY <1>9, <2>4, <2>5 DEF CancelNext
<1> QED
  BY <1>6, <1>8, <1>9

\* The other steps do not touch what waits.
LEMMA OtherAttended ==
  ASSUME IndInv, AttendedInv, PendingCancelsOnly,
         \/ \E t \in Thread, c \in Cmd : RequestRefused(t, c)
         \/ \E s \in Slot : TimerHandler(s) \/ GenericTimerCb(s)
         \/ \E t \in Thread : ReleaseRef(t)
         \/ \E c \in Cmd : UpdateTimer(c)
         \/ \E v \in Vdev : VdevQueueDisable(v) \/ VdevDelete(v)
         \/ UNCHANGED vars
  PROVE  AttendedInv'
<1> USE IndParts
<1>1. ASSUME NEW t \in Thread, NEW c \in Cmd, RequestRefused(t, c) PROVE AttendedInv'
  <2>1. waiting' = waiting
    BY <1>1 DEF RequestRefused, WaitingAfterCheck, PendingCancelsOnly
  <2> QED
    BY <1>1, <2>1, AttendedStill DEF RequestRefused, nodeVars
<1>2. ASSUME NEW s \in Slot, GenericTimerCb(s) PROVE AttendedInv'
  <2>1. /\ Sched \in Thread /\ th[Sched].pc = "idle"
        /\ UNCHANGED <<vactive, vpending, waiting, blockingActive, inUse>>
    BY <1>2, ConstantsAssumption DEF GenericTimerCb, At, queueVars, blockVars, nodeVars
  <2> DEFINE f == [Idle EXCEPT !.pc = "dequeue", !.node = timer[s],
                               !.cmd = cmd[timer[s]], !.why = "TIMEOUT"]
  <2>2. UNCHANGED th \/ Goto(Sched, f)
    BY <1>2 DEF GenericTimerCb
  <2>3. f.pc = "dequeue"
    BY DEF Idle
  <2> HIDE DEF f
  <2>4. CASE UNCHANGED th
    BY <2>1, <2>4, AttendedStill
  <2>5. CASE Goto(Sched, f)
    <3>1. th'[Sched].pc = "dequeue" /\ \A u \in Thread : u # Sched => th'[u] = th[u]
      BY <2>1, <2>3, <2>5 DEF Goto, ThreadsOK
    <3>2. WalksPending(th'[Sched]) /\ \A n \in Node : "cancel" \notin inUse'[n]
      BY <2>1, <3>1 DEF WalksPending, AttendedInv
    <3> QED
      BY <2>1, <3>1, <3>2, AttendedQuiet
  <2> QED
    BY <2>2, <2>4, <2>5
<1>3. ASSUME NEW t \in Thread, ReleaseRef(t) PROVE AttendedInv'
  <2>1. /\ th[t].pc = "putref" /\ Return(t)
        /\ UNCHANGED <<vactive, vpending, waiting, blockingActive, inUse>>
    BY <1>3 DEF ReleaseRef, At, queueVars, blockVars, nodeVars
  <2>2. \A n \in Node : "cancel" \notin inUse'[n]
    BY <2>1 DEF AttendedInv
  <2> QED
    BY <2>1, <2>2, ReturnWalks, AttendedQuiet
<1>4. CASE \/ \E s \in Slot : TimerHandler(s)
           \/ \E c \in Cmd : UpdateTimer(c)
           \/ \E v \in Vdev : VdevQueueDisable(v) \/ VdevDelete(v)
           \/ UNCHANGED vars
  <2>1. UNCHANGED <<vactive, vpending, waiting, blockingActive, inUse, th>>
    BY <1>4 DEF TimerHandler, UpdateTimer, VdevQueueDisable, VdevDelete, vars, queueVars,
                blockVars, nodeVars
  <2> QED
    BY <2>1, AttendedStill
<1> QED
  BY <1>1, <1>2, <1>3, <1>4

\* Every step leaves the vdevs whose commands wait attended.
LEMMA NextAttended ==
  PendingCancelsOnly /\ IndInv /\ AttendedInv /\ [Next]_vars => AttendedInv'
<1> SUFFICES ASSUME PendingCancelsOnly, IndInv, AttendedInv, [Next]_vars PROVE AttendedInv'
  OBVIOUS
<1>1. ASSUME NEW t \in Thread, NEW c \in Cmd, Request(t, c) PROVE AttendedInv'
  BY <1>1, RequestAttended
<1>2. ASSUME NEW t \in Thread, (\E c \in Cmd : RemoveCmd(t, c)) \/ DequeueNode(t)
      PROVE  AttendedInv'
  BY <1>2, DequeueAttended
<1>3. ASSUME NEW t \in Thread,
             (\E r \in CancelReqs : CancelRequest(t, r)) \/ CancelQueue(t) \/ CancelNext(t)
      PROVE  AttendedInv'
  BY <1>3, CancelAttended
<1>4. ASSUME NEW t \in Thread, MovePendingToActive(t) \/ MoveNext(t) PROVE AttendedInv'
  BY <1>4, MoveAttended
<1>5. ASSUME NEW t \in Thread,
             FindAndStartTimer(t) \/ ActivationDone(t) \/ CheckAfterActivation(t)
      PROVE  AttendedInv'
  BY <1>5, ActivateAttended
<1>6. ASSUME \/ \E t \in Thread, c \in Cmd : RequestRefused(t, c)
             \/ \E s \in Slot : TimerHandler(s) \/ GenericTimerCb(s)
             \/ \E t \in Thread : ReleaseRef(t)
             \/ \E c \in Cmd : UpdateTimer(c)
             \/ \E v \in Vdev : VdevQueueDisable(v) \/ VdevDelete(v)
             \/ UNCHANGED vars
      PROVE  AttendedInv'
  BY <1>6, OtherAttended
<1> QED
  BY <1>1, <1>2, <1>3, <1>4, <1>5, <1>6 DEF Next, Step, Lost

\* Nothing waits at first.
LEMMA InitAttended == Init => AttendedInv
BY DEF Init, AttendedInv, WalksPending, Idle

(***************************************************************************)
(* For clients without blocking commands that cancel pending commands      *)
(* only, with any number of threads and vdevs: when no call is in progress *)
(* a vdev with pending commands has an active one, so that the removal of  *)
(* that one will find them.                                                *)
(***************************************************************************)
THEOREM NothingIsStranded == PendingCancelsOnly => (Spec => []NothingStranded)
<1> SUFFICES ASSUME PendingCancelsOnly PROVE Spec => []NothingStranded
  OBVIOUS
<1>1. IndInv /\ AttendedInv /\ [Next]_vars => AttendedInv'
  BY NextAttended
<1>2. AttendedInv => NothingStranded
  BY DEF AttendedInv, Attended, NothingStranded
<1> QED
  BY <1>1, <1>2, InitIndInv, InitAttended, NextIndInv, PTL DEF Spec

-----------------------------------------------------------------------------
(***************************************************************************)
(* A blocking command runs alone.  On one thread the flag blocking_cmd_    *)
(* active is exact (ExclusiveInv).  The move from the list of a vdev looks *)
(* at the counter only: that it takes no blocking command is what          *)
(* WaitingCounted is for.                                                  *)
(***************************************************************************)

\* The length of the active list, by its members.
LEMMA AloneMeansOne ==
  ASSUME IndInv, ExclusiveInv
  PROVE  BlockingExclusive
<1> USE IndParts
<1> SUFFICES ASSUME BlockingRuns PROVE Len(pactive) = 1
  BY DEF BlockingExclusive
<1>1. PICK n \in ToSet(pactive) : cmd[n] \in Blocking
  BY DEF BlockingRuns
<1>2. ToSet(pactive) = {n}
  BY <1>1 DEF ExclusiveInv
<1>3. Cardinality(ToSet(pactive)) = Len(pactive)
  BY DistinctLen DEF QueueInv, QueueType, NodesConserved
<1> QED
  BY <1>2, <1>3, FS_Singleton

\* An active command has the bit of its vdev set.
LEMMA ActiveHasBit ==
  ASSUME IndInv, NEW n \in ToSet(pactive)
  PROVE  VdevOf[cmd[n]] \in bitmap
<1> USE IndParts
<1>1. VdevOf[cmd[n]] \in Vdev
  BY QueuedNode
<1>2. vactive[VdevOf[cmd[n]]] # <<>>
  BY <1>1, NoneActive
<1> QED
  BY <1>1, <1>2 DEF BitmapExact

\* A step that leaves the active list alone and ends a cancel, if there was one.
LEMMA ExclusiveKept ==
  ASSUME ExclusiveInv, UNCHANGED pactive, \A n \in ToSet(pactive) : cmd'[n] = cmd[n],
         blockingActive' <=> BlockingRuns, ~CancelsBlocking(th'[Sched]),
         th'[Sched].pc # "move"
  PROVE  ExclusiveInv'
<1>1. BlockingRuns' <=> BlockingRuns
  BY DEF BlockingRuns
<1>2. ~CancelsBlocking(th[Sched])'
  BY DEF CancelsBlocking
<1>3. \A m, n \in ToSet(pactive) : cmd'[n] \in Blocking => m = n
  BY DEF ExclusiveInv
<1> QED
  BY <1>1, <1>2, <1>3 DEF ExclusiveInv

\* A thread that is in no cancel knows from the flag whether a blocking command runs.
LEMMA FlagExact ==
  ASSUME ExclusiveInv, th[Sched].pc # "cancelled"
  PROVE  ~CancelsBlocking(th[Sched]) /\ (blockingActive <=> BlockingRuns)
<1>1. ~CancelsBlocking(th[Sched])
  BY DEF CancelsBlocking
<1> QED
  BY <1>1 DEF ExclusiveInv

\* Such a thread goes on to neither a move nor the end of a cancel.
LEMMA ExclusiveQuiet ==
  ASSUME ExclusiveInv, UNCHANGED <<pactive, blockingActive>>,
         \A n \in ToSet(pactive) : cmd'[n] = cmd[n],
         th[Sched].pc # "cancelled", th'[Sched].pc \notin {"cancelled", "move"}
  PROVE  ExclusiveInv'
<1>1. blockingActive' <=> BlockingRuns
  BY FlagExact
<1>2. ~CancelsBlocking(th'[Sched])
  BY DEF CancelsBlocking
<1> QED
  BY <1>1, <1>2, ExclusiveKept

(***************************************************************************)
(* A node that leaves the active list leaves no blocking command there: it *)
(* was the only one, or there was none.                                    *)
(***************************************************************************)
LEMMA NoneLeft ==
  ASSUME IndInv, ExclusiveInv, NEW n \in ToSet(pactive), NEW keepRef, Frees(n, keepRef)
  PROVE  /\ ~BlockingRuns'
         /\ cmd[n] \in Blocking => ToSet(pactive') = {}
         /\ BlockingRuns <=> cmd[n] \in Blocking
         /\ \A m, l \in ToSet(pactive') : cmd'[l] \in Blocking => m = l
<1> USE IndParts
<1>1. ToSet(pactive') = ToSet(pactive) \ {n}
  BY RemoveMembers DEF Frees, QueueInv, QueueType, NodesConserved
<1>2. ToSet(pactive) \subseteq Node
  BY ToSetType DEF QueueInv, QueueType
<1>3. \A m \in ToSet(pactive') : cmd'[m] = cmd[m]
  BY <1>1, <1>2 DEF Frees, QueueInv, QueueType
<1>4. \A m \in ToSet(pactive') : cmd[m] \notin Blocking
  BY <1>1 DEF ExclusiveInv
<1>5. cmd[n] \in Blocking => ToSet(pactive') = {}
  BY <1>1 DEF ExclusiveInv
<1>6. BlockingRuns <=> cmd[n] \in Blocking
  BY DEF ExclusiveInv, BlockingRuns
<1> QED
  BY <1>3, <1>4, <1>5, <1>6 DEF BlockingRuns

(***************************************************************************)
(* A node enters the active list when no blocking command runs: it is not  *)
(* a blocking command itself, or no vdev is active.                        *)
(***************************************************************************)
LEMMA ExclusiveEnter ==
  ASSUME IndInv, ExclusiveInv, NEW n, n \notin ToSet(pactive),
         ToSet(pactive') = ToSet(pactive) \cup {n}, NEW c, cmd'[n] = c,
         \A m \in ToSet(pactive) : cmd'[m] = cmd[m],
         c \in Blocking => bitmap = {}, c \notin Blocking => ~BlockingRuns,
         ~blockingActive, blockingActive' = (blockingActive \/ c \in Blocking),
         th'[Sched].pc = "activate"
  PROVE  ExclusiveInv'
<1>1. c \in Blocking => ToSet(pactive) = {}
  BY ActiveHasBit
<1>2. \A m \in ToSet(pactive) : cmd[m] \notin Blocking
  BY <1>1 DEF BlockingRuns
<1>3. \A m, l \in ToSet(pactive') : cmd'[l] \in Blocking => m = l
  BY <1>1, <1>2
<1>4. BlockingRuns' <=> c \in Blocking
  BY <1>2 DEF BlockingRuns
<1>5. ~CancelsBlocking(th[Sched])'
  BY DEF CancelsBlocking
<1> QED
  BY <1>3, <1>4, <1>5 DEF ExclusiveInv

\* Requests.
LEMMA RequestExclusive ==
  ASSUME IndInv, ExclusiveInv, Thread = {Sched}, NEW c \in Cmd, Request(Sched, c)
  PROVE  ExclusiveInv'
<1> USE IndParts
<1> DEFINE n == Head(pool)
<1>1. th[Sched].pc = "idle" /\ pool # <<>> /\ cmd' = [cmd EXCEPT ![n] = c]
  BY DEF Request, CanRequest, At
<1>2. n \in ToSet(pool) /\ n \in Node
  BY <1>1, ToSetType DEF QueueInv, QueueType
<1>3. n \notin ToSet(pactive) /\ ToSet(pactive) \subseteq Node /\ pactive \in Seq(Node)
  BY <1>2, ToSetType DEF QueueInv, QueueType, NodesConserved
<1> HIDE DEF n
<1>4. cmd'[n] = c /\ \A m \in ToSet(pactive) : cmd'[m] = cmd[m]
  BY <1>1, <1>2, <1>3 DEF QueueInv, QueueType
<1>5. ~CancelsBlocking(th[Sched]) /\ (blockingActive <=> BlockingRuns)
  BY <1>1, FlagExact
<1>6. CASE /\ ActiveCmdAllowed(c)
           /\ pactive' = Insert(pactive, n, c)
           /\ blockingActive' = (blockingActive \/ c \in Blocking)
           /\ Goto(Sched, [Idle EXCEPT !.pc = "activate", !.node = n])
  <2>1. ToSet(pactive') = ToSet(pactive) \cup {n}
    BY <1>2, <1>3, <1>6, InsertMembers
  <2>2. th'[Sched].pc = "activate"
    BY <1>6, ConstantsAssumption DEF Goto, ThreadsOK, Idle
  <2>3. (c \in Blocking => bitmap = {}) /\ (c \notin Blocking => ~blockingActive)
    BY <1>6 DEF ActiveCmdAllowed, IsActiveNonScanCmdAllowed
  <2>4. ~blockingActive
    <3>1. bitmap = {} => ~BlockingRuns
      BY ActiveHasBit DEF BlockingRuns
    <3> QED
      BY <1>5, <2>3, <3>1
  <2> QED
    BY <1>3, <1>4, <1>5, <1>6, <2>1, <2>2, <2>3, <2>4, ExclusiveEnter
<1>7. CASE UNCHANGED <<pactive, blockingActive, th>>
  BY <1>1, <1>4, <1>7, ExclusiveQuiet
<1> QED
  BY <1>6, <1>7 DEF Request, n

\* A dequeue: the thread goes on to a move, with no blocking command left.
LEMMA DequeueExclusive ==
  ASSUME IndInv, ExclusiveInv, Thread = {Sched},
         (\E c \in Cmd : RemoveCmd(Sched, c)) \/ DequeueNode(Sched)
  PROVE  ExclusiveInv'
<1> USE IndParts
<1>1. ASSUME NEW c \in Cmd \cup {NoCmd}, NEW why, NEW timedOut,
             DequeueCmd(Sched, c, why, timedOut), th[Sched].pc # "cancelled"
      PROVE  ExclusiveInv'
  <2>1. CASE /\ Return(Sched) /\ UNCHANGED <<queueVars, blockVars, cmd>>
    <3>1. th'[Sched].pc \notin {"cancelled", "move"}
      BY <2>1, ReturnFrame
    <3> QED
      BY <1>1, <2>1, <3>1, ExclusiveQuiet DEF queueVars, blockVars
  <2>2. ASSUME NEW n \in ToSet(pactive), cmd[n] = c, Frees(n, why = "TIMEOUT"), ClearActive(c),
               th'[Sched].pc = "move"
        PROVE  ExclusiveInv'
    <3>1. /\ ~BlockingRuns' /\ (BlockingRuns <=> c \in Blocking)
          /\ \A m, l \in ToSet(pactive') : cmd'[l] \in Blocking => m = l
      BY <2>2, NoneLeft
    <3>2. blockingActive <=> BlockingRuns
      BY <1>1, FlagExact
    <3>3. ~blockingActive'
      BY <2>2, <3>1, <3>2 DEF ClearActive
    <3>4. ~CancelsBlocking(th[Sched])'
      BY <2>2 DEF CancelsBlocking
    <3> QED
      BY <3>1, <3>3, <3>4 DEF ExclusiveInv
  <2>3. \/ Return(Sched) /\ UNCHANGED <<queueVars, blockVars, cmd>>
        \/ \E n \in ToSet(pactive) :
             /\ cmd[n] = c /\ Frees(n, why = "TIMEOUT") /\ ClearActive(c)
             /\ th'[Sched].pc = "move"
    BY <1>1, DequeueCmdEffect, ConstantsAssumption DEF nodeVars
  <2> QED
    BY <2>1, <2>2, <2>3
<1>2. ASSUME NEW c \in Cmd, RemoveCmd(Sched, c) PROVE ExclusiveInv'
  BY <1>1, <1>2 DEF RemoveCmd, At
<1>3. CASE DequeueNode(Sched)
  <2>1. th[Sched].pc = "dequeue" /\ th[Sched].node \in Node
    BY <1>3 DEF DequeueNode, At, ThreadsOK, FrameOK
  <2>2. cmd[th[Sched].node] \in Cmd \cup {NoCmd}
    BY <2>1 DEF QueueInv, QueueType
  <2> QED
    BY <1>1, <1>3, <2>1, <2>2 DEF DequeueNode
<1> QED
  BY <1>2, <1>3

(***************************************************************************)
(* A move.  From the list of a vdev it takes no blocking command, as none  *)
(* waits when the counter is 0; from the list of the pdev it takes one     *)
(* only with no vdev active.                                               *)
(***************************************************************************)
LEMMA MoveExclusive ==
  ASSUME IndInv, ExclusiveInv, WaitingCounted, Thread = {Sched},
         MovePendingToActive(Sched) \/ MoveNext(Sched)
  PROVE  ExclusiveInv'
<1> USE IndParts
<1>0. Sched \in Thread /\ UNCHANGED cmd /\ th[Sched].pc \in {"move", "resume"}
  BY ConstantsAssumption DEF MovePendingToActive, MoveNext, At
<1>1. ~CancelsBlocking(th[Sched]) /\ (blockingActive <=> BlockingRuns)
  BY <1>0, FlagExact
<1>2. ASSUME Return(Sched), UNCHANGED <<queueVars, blockVars, inUse, bug>>
      PROVE  ExclusiveInv'
  <2>1. th'[Sched].pc \notin {"cancelled", "move"}
    BY <1>0, <1>2, ReturnFrame
  <2> QED
    BY <1>0, <1>2, <2>1, ExclusiveQuiet DEF queueVars, blockVars
<1>3. ASSUME NEW list \in Seq(Node), NEW budget \in Nat, NEW byVdev \in BOOLEAN,
             ToSet(list) \subseteq ToSet(ppending), MoveLoop(Sched, list, budget, byVdev),
             ~BlockingRuns, byVdev => waiting = 0
      PROVE  ExclusiveInv'
  <2>1. ASSUME NEW i \in Nat, MovesFrom(list, budget, byVdev, i), th'[Sched].pc = "activate"
        PROVE  ExclusiveInv'
    <3> DEFINE n == list[i]
    <3>1. /\ n \in ToSet(ppending) /\ (byVdev \/ ~Blocked(cmd[n]))
          /\ pactive' = Insert(pactive, n, cmd[n])
          /\ blockingActive' = (blockingActive \/ cmd[n] \in Blocking)
      BY <2>1 DEF MovesFrom
    <3>2. n \in Node /\ n \notin ToSet(pactive) /\ pactive \in Seq(Node)
      BY <3>1, QueuedNode DEF QueueInv, QueueType, NodesConserved
    <3>3. ToSet(pactive') = ToSet(pactive) \cup {n}
      BY <3>1, <3>2, InsertMembers
    <3>4. byVdev => cmd[n] \notin Blocking
      BY <1>3, <3>1 DEF WaitingCounted
    <3>5. cmd[n] \in Blocking => bitmap = {}
      BY <3>1, <3>4 DEF Blocked
    <3>6. ~blockingActive
      BY <1>1, <1>3
    <3> HIDE DEF n
    <3> QED
      BY <1>0, <1>3, <2>1, <3>1, <3>2, <3>3, <3>5, <3>6, ExclusiveEnter
  <2>2. \/ Return(Sched) /\ UNCHANGED <<queueVars, blockVars, inUse, bug>>
        \/ \E i \in Nat : MovesFrom(list, budget, byVdev, i) /\ th'[Sched].pc = "activate"
    BY <1>0, <1>3, MoveLoopEffect
  <2> QED
    BY <1>2, <2>1, <2>2
<1>4. CASE MovePendingToActive(Sched)
  <2> DEFINE c == th[Sched].cmd
             byVdev == c \notin Blocking /\ waiting = 0
             list == IF byVdev THEN vpending[VdevOf[c]] ELSE ppending
  <2>1. th[Sched].pc = "move" /\ MoveLoop(Sched, list, Len(list), byVdev)
    BY <1>4 DEF MovePendingToActive, At
  <2>2. c \in Cmd /\ VdevOf[c] \in Vdev
    BY <1>0, <2>1, ConstantsAssumption DEF ThreadsOK, FrameOK
  <2> HIDE DEF c
  <2>3. /\ vpending[VdevOf[c]] \in Seq(Node) /\ ppending \in Seq(Node)
        /\ ToSet(vpending[VdevOf[c]]) \subseteq ToSet(ppending)
    BY <2>2 DEF QueueInv, QueueType, MembersAgree
  <2>4. list \in Seq(Node) /\ ToSet(list) \subseteq ToSet(ppending)
    BY <2>3
  <2>5. Len(list) \in Nat
    BY <2>4, LenProperties
  <2>6. byVdev \in BOOLEAN /\ (byVdev => waiting = 0)
    OBVIOUS
  <2>7. ~BlockingRuns
    BY <2>1 DEF ExclusiveInv
  <2> HIDE DEF list, byVdev
  <2> QED
    BY <1>3, <2>1, <2>4, <2>5, <2>6, <2>7
<1>5. CASE MoveNext(Sched)
  <2>1. CASE Return(Sched) /\ UNCHANGED <<queueVars, blockVars, inUse, bug>>
    BY <1>2, <2>1
  <2>2. CASE ~blockingActive /\ MoveLoop(Sched, ppending, th[Sched].left, FALSE)
    <3>1. ppending \in Seq(Node) /\ th[Sched].left \in Nat
      BY <1>0 DEF QueueInv, QueueType, ThreadsOK, ThreadType
    <3> QED
      BY <1>1, <1>3, <2>2, <3>1
  <2> QED
    BY <1>5, <2>1, <2>2 DEF MoveNext
<1> QED
  BY <1>4, <1>5

\* A cancel of a blocking command keeps the flag until its callbacks are done.
LEMMA CancelExclusive ==
  ASSUME IndInv, ExclusiveInv, Thread = {Sched},
         \/ \E r \in CancelReqs : CancelRequest(Sched, r)
         \/ CancelQueue(Sched) \/ CancelNext(Sched)
  PROVE  ExclusiveInv'
<1> USE IndParts
<1>0. Sched \in Thread
  BY ConstantsAssumption
<1>1. ASSUME NEW r \in CancelReqType, UNCHANGED <<queueVars, cmd>>,
             Return(Sched) \/ NextQueue(Sched, r), blockingActive' <=> BlockingRuns
      PROVE  ExclusiveInv'
  <2>1. th'[Sched].pc \notin {"cancelled", "move"}
    <3>1. CASE Return(Sched)
      BY <1>0, <3>1, ReturnFrame
    <3>2. CASE NextQueue(Sched, r) /\ ~(Len(r.queues) <= 1)
      BY <1>0, <3>2 DEF NextQueue, Goto, ThreadsOK, Idle
    <3> QED
      BY <1>1, <3>1, <3>2 DEF NextQueue
  <2>2. ~CancelsBlocking(th'[Sched])
    BY <2>1 DEF CancelsBlocking
  <2> QED
    BY <1>1, <2>1, <2>2, ExclusiveKept DEF queueVars
<1>2. ASSUME NEW r \in CancelReqType, NEW prev \in Node \cup {NoNode}, NEW budget \in Nat,
             CancelLoop(Sched, r, prev, budget), blockingActive' <=> BlockingRuns
      PROVE  ExclusiveInv'
  <2>1. \/ UNCHANGED <<queueVars, cmd>> /\ (Return(Sched) \/ NextQueue(Sched, r))
        \/ \E n \in ToSet(pactive) :
             Head(r.queues) = "active" /\ Frees(n, FALSE) /\ Cancelled(Sched, r, cmd[n])
        \/ \E n \in ToSet(ppending) :
             /\ Head(r.queues) # "active" /\ Cancelled(Sched, r, cmd[n])
             /\ cmd' = [cmd EXCEPT ![n] = NoCmd] /\ UNCHANGED pactive
    BY <1>0, <1>2, CancelLoopEffect
  <2>2. ASSUME NEW n \in ToSet(pactive), Head(r.queues) = "active", Frees(n, FALSE),
               Cancelled(Sched, r, cmd[n])
        PROVE  ExclusiveInv'
    <3>1. /\ ~BlockingRuns' /\ (BlockingRuns <=> cmd[n] \in Blocking)
          /\ cmd[n] \in Blocking => ToSet(pactive') = {}
          /\ \A m, l \in ToSet(pactive') : cmd'[l] \in Blocking => m = l
      BY <2>2, NoneLeft
    <3>2. CancelsBlocking(th[Sched])' <=> cmd[n] \in Blocking
      BY <2>2 DEF Cancelled, CancelsBlocking
    <3>3. th'[Sched].pc # "move"
      BY <2>2 DEF Cancelled
    <3> QED
      BY <1>2, <3>1, <3>2, <3>3 DEF ExclusiveInv
  <2>3. ASSUME NEW n \in ToSet(ppending), Head(r.queues) # "active",
               Cancelled(Sched, r, cmd[n]),
               cmd' = [cmd EXCEPT ![n] = NoCmd], UNCHANGED pactive
        PROVE  ExclusiveInv'
    <3>1. n \notin ToSet(pactive) /\ ToSet(pactive) \subseteq Node
      BY ToSetType DEF QueueInv, QueueType, NodesConserved
    <3>2. \A m \in ToSet(pactive) : cmd'[m] = cmd[m]
      BY <2>3, <3>1 DEF QueueInv, QueueType
    <3>3. ~CancelsBlocking(th'[Sched]) /\ th'[Sched].pc # "move"
      BY <2>3 DEF Cancelled, CancelsBlocking
    <3> QED
      BY <1>2, <2>3, <3>2, <3>3, ExclusiveKept
  <2> QED
    BY <1>1, <1>2, <2>1, <2>2, <2>3
<1>3. \A r \in CancelReqType : QueueLen(r) \in Nat
  BY LenProperties DEF QueueLen, QueueInv, QueueType
<1>4. /\ th[Sched].req \in CancelReqType /\ th[Sched].left \in Nat
      /\ th[Sched].node \in Node \cup {NoNode}
  BY <1>0 DEF ThreadsOK, ThreadType
<1>5. ASSUME NEW r \in CancelReqs, CancelRequest(Sched, r) PROVE ExclusiveInv'
  <2>1. blockingActive' <=> BlockingRuns
    BY <1>5, FlagExact DEF CancelRequest, At, blockVars
  <2> QED
    BY <1>2, <1>3, <1>5, <2>1, ConstantsAssumption DEF CancelRequest
<1>6. CASE CancelQueue(Sched)
  <2>1. blockingActive' <=> BlockingRuns
    BY <1>6, FlagExact DEF CancelQueue, At, blockVars
  <2> QED
    BY <1>2, <1>3, <1>4, <1>6, <2>1 DEF CancelQueue
<1>7. CASE CancelNext(Sched)
  <2>1. th[Sched].pc = "cancelled" /\ blockingActive \in BOOLEAN
    BY <1>7 DEF CancelNext, At, BlockType
  <2>2. blockingActive' <=> BlockingRuns
    <3>1. CASE CancelsBlocking(th[Sched])
      <4>1. ~BlockingRuns
        BY <3>1 DEF ExclusiveInv, BlockingRuns
      <4>2. ~blockingActive'
        BY <1>7, <3>1 DEF CancelNext, ClearActive, CancelsBlocking
      <4> QED
        BY <4>1, <4>2
    <3>2. CASE ~CancelsBlocking(th[Sched])
      <4>1. blockingActive' <=> blockingActive
        BY <1>7, <2>1, <3>2 DEF CancelNext, ClearActive, CancelsBlocking
      <4> QED
        BY <3>2, <4>1 DEF ExclusiveInv
    <3> QED
      BY <3>1, <3>2
  <2>3. CASE NextQueue(Sched, th[Sched].req) /\ UNCHANGED <<queueVars, nodeVars, timerVars, bug>>
    BY <1>1, <1>4, <2>2, <2>3 DEF nodeVars
  <2>4. CASE CancelLoop(Sched, th[Sched].req, th[Sched].node, th[Sched].left)
    BY <1>2, <1>4, <2>2, <2>4
  <2> QED
    BY <1>7, <2>3, <2>4 DEF CancelNext
<1> QED
  BY <1>5, <1>6, <1>7

\* The other steps leave the active list and the flag alone.
LEMMA OtherExclusive ==
  ASSUME IndInv, ExclusiveInv, Thread = {Sched},
         \/ FindAndStartTimer(Sched) \/ ActivationDone(Sched) \/ CheckAfterActivation(Sched)
         \/ ReleaseRef(Sched)
         \/ \E s \in Slot : GenericTimerCb(s)
  PROVE  ExclusiveInv'
<1> USE IndParts
<1>0. Sched \in Thread
  BY ConstantsAssumption
<1>1. /\ UNCHANGED <<pactive, blockingActive, cmd>>
      /\ th[Sched].pc \in {"activate", "activated", "check", "putref", "idle"}
  BY DEF FindAndStartTimer, ActivationDone, CheckAfterActivation, ReleaseRef, GenericTimerCb,
         At, queueVars, blockVars, nodeVars
<1>2. th'[Sched].pc \notin {"cancelled", "move"}
  <2>1. ASSUME Return(Sched) PROVE th'[Sched].pc \notin {"cancelled", "move"}
    BY <1>0, <2>1, ReturnFrame
  <2>2. CASE FindAndStartTimer(Sched)
    <3>1. PICK ok \in BOOLEAN : Goto(Sched, [th[Sched] EXCEPT !.pc = "activated", !.ok = ok])
      BY <2>2 DEF FindAndStartTimer
    <3> QED
      BY <1>0, <3>1 DEF Goto, ThreadsOK, ThreadType
  <2>3. CASE ActivationDone(Sched)
    BY <1>0, <2>3 DEF ActivationDone, Goto, ThreadsOK, ThreadType
  <2>4. CASE CheckAfterActivation(Sched)
    <3> DEFINE n == th[Sched].node
               next == [Idle EXCEPT !.node = n, !.k = th[Sched].k]
    <3>1. CASE Goto(Sched, [next EXCEPT !.pc = "dequeue", !.why = "FAILED"])
      BY <1>0, <3>1 DEF Goto, ThreadsOK, Idle
    <3>2. CASE Goto(Sched, [next EXCEPT !.pc = "dequeue", !.why = "REMOVE"])
      BY <1>0, <3>2 DEF Goto, ThreadsOK, Idle
    <3>3. CASE Goto(Sched, [next EXCEPT !.pc = "cancel", !.node = NoNode,
                                        !.req = CancelOne(cmd[n])])
      BY <1>0, <3>3 DEF Goto, ThreadsOK, Idle
    <3> QED
      BY <2>1, <2>4, <3>1, <3>2, <3>3 DEF CheckAfterActivation
  <2>5. CASE ReleaseRef(Sched)
    BY <2>1, <2>5 DEF ReleaseRef
  <2>6. ASSUME NEW s \in Slot, GenericTimerCb(s) PROVE th'[Sched].pc \notin {"cancelled", "move"}
    <3> DEFINE f == [Idle EXCEPT !.pc = "dequeue", !.node = timer[s],
                                 !.cmd = cmd[timer[s]], !.why = "TIMEOUT"]
    <3>1. (UNCHANGED th /\ th[Sched].pc = "idle") \/ Goto(Sched, f)
      BY <2>6 DEF GenericTimerCb, At
    <3>2. f.pc = "dequeue"
      BY DEF Idle
    <3> HIDE DEF f
    <3> QED
      BY <1>0, <3>1, <3>2 DEF Goto, ThreadsOK
  <2> QED
    BY <2>2, <2>3, <2>4, <2>5, <2>6
<1> QED
  BY <1>1, <1>2, ExclusiveQuiet

\* Every step keeps a blocking command alone, as long as the count has been right.
LEMMA NextExclusive ==
  ASSUME Thread = {Sched}
  PROVE  IndInv /\ ExclusiveInv /\ WaitingCounted /\ [Next]_vars => ExclusiveInv'
<1> SUFFICES ASSUME IndInv, ExclusiveInv, WaitingCounted, [Next]_vars PROVE ExclusiveInv'
  OBVIOUS
<1>1. ASSUME NEW c \in Cmd, Request(Sched, c) PROVE ExclusiveInv'
  BY <1>1, RequestExclusive
<1>2. ASSUME (\E c \in Cmd : RemoveCmd(Sched, c)) \/ DequeueNode(Sched) PROVE ExclusiveInv'
  BY <1>2, DequeueExclusive
<1>3. ASSUME \/ \E r \in CancelReqs : CancelRequest(Sched, r)
             \/ CancelQueue(Sched) \/ CancelNext(Sched)
      PROVE  ExclusiveInv'
  BY <1>3, CancelExclusive
<1>4. ASSUME MovePendingToActive(Sched) \/ MoveNext(Sched) PROVE ExclusiveInv'
  BY <1>4, MoveExclusive
<1>5. ASSUME \/ FindAndStartTimer(Sched) \/ ActivationDone(Sched)
             \/ CheckAfterActivation(Sched) \/ ReleaseRef(Sched)
             \/ \E s \in Slot : GenericTimerCb(s)
      PROVE  ExclusiveInv'
  BY <1>5, OtherExclusive
<1>6. ASSUME \/ \E c \in Cmd : RequestRefused(Sched, c)
             \/ \E s \in Slot : TimerHandler(s)
             \/ \E c \in Cmd : UpdateTimer(c)
             \/ \E v \in Vdev : VdevQueueDisable(v) \/ VdevDelete(v)
             \/ UNCHANGED vars
      PROVE  ExclusiveInv'
  <2>1. UNCHANGED <<pactive, blockingActive, cmd, th>>
    BY <1>6 DEF RequestRefused, TimerHandler, UpdateTimer, VdevQueueDisable, VdevDelete, vars,
                queueVars, blockVars, nodeVars
  <2> QED
    BY <2>1 DEF ExclusiveInv, BlockingRuns, CancelsBlocking
<1> QED
  BY <1>1, <1>2, <1>3, <1>4, <1>5, <1>6 DEF Next, Step, Lost

\* No command is active at first.
LEMMA InitExclusive == Init => ExclusiveInv
<1> SUFFICES ASSUME Init PROVE ExclusiveInv
  OBVIOUS
<1>1. ToSet(pactive) = {} /\ ~blockingActive
  BY DEF Init, ToSet
<1>2. th[Sched].pc = "idle"
  BY ConstantsAssumption DEF Init, Idle
<1> QED
  BY <1>1, <1>2 DEF ExclusiveInv, BlockingRuns, CancelsBlocking

(***************************************************************************)
(* On one thread, for any number of vdevs, commands and timers, with       *)
(* cancels and timeouts: a blocking command is the only active one, for as *)
(* long as blocking_cmd_waiting has never been 0 with one pending.         *)
(***************************************************************************)
THEOREM BlockingRunsAlone == Thread = {Sched} => (Spec => ExclusiveIfCounted)
<1> SUFFICES ASSUME Thread = {Sched} PROVE Spec => ([]WaitingCounted => []BlockingExclusive)
  BY DEF ExclusiveIfCounted
<1>1. IndInv /\ ExclusiveInv /\ WaitingCounted /\ [Next]_vars => ExclusiveInv'
  BY NextExclusive
<1>2. IndInv /\ ExclusiveInv => BlockingExclusive
  BY AloneMeansOne
<1> QED
  BY <1>1, <1>2, Inductive, InitExclusive, PTL DEF Spec
=============================================================================
