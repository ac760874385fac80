----------------------- MODULE SerNonScanTimerProofs -----------------------
(***************************************************************************)
(* Theorems about the timers of the active commands, on top of the         *)
(* inductive invariant of the queues.                                      *)
(*                                                                         *)
(* A timer is started after its command is put in the active list and      *)
(* stopped after the command is taken off it, in sections of code that     *)
(* other threads can come between.  What ties the two is the mark          *)
(* (CMD_MARKED_FOR_ACTIVATION): while it is set one thread has the command *)
(* and knows whether it has a timer yet (Starting), and nobody takes the   *)
(* command off the list.                                                   *)
(***************************************************************************)
EXTENDS SerNonScanProofs

-----------------------------------------------------------------------------
(***************************************************************************)
(* A step that leaves the active list, the timers in use and the marks     *)
(* alone.                                                                  *)
(***************************************************************************)
LEMMA TimedQuiet ==
  ASSUME IndInv, TimedInv, NEW t \in Thread, UNCHANGED <<pactive, timer>>,
         \A s \in armed' : s \in armed \/ timer[s] # NoNode,
         \A m \in Node : "marked" \in inUse'[m] <=> "marked" \in inUse[m],
         \A u \in Thread : u # t => th'[u] = th[u],
         th'[t].pc \notin {"activate", "activated"},
         \A n \in ToSet(pactive) :
           FailedActivation(t, n) => FailedActivation(t, n)' \/ "marked" \in inUse[n]
  PROVE  TimedInv'
<1> USE IndParts
<1>1. ToSet(pactive) \subseteq Node
  BY ToSetType DEF QueueInv, QueueType
<1>2. ASSUME NEW n \in ToSet(pactive), "marked" \notin inUse'[n], ~\E s \in Slot : timer[s] = n
      PROVE  \E u \in Thread : FailedActivation(u, n)'
  <2>1. PICK u \in Thread : FailedActivation(u, n)
    BY <1>1, <1>2 DEF TimedInv, TimersMatchActive
  <2>2. CASE u = t
    BY <1>1, <1>2, <2>1, <2>2
  <2>3. CASE u # t
    BY <2>1, <2>3 DEF FailedActivation
  <2> QED
    BY <2>2, <2>3
<1>3. TimersMatchActive'
  BY <1>2 DEF TimedInv, TimersMatchActive
<1>4. Starting'
  BY DEF TimedInv, Starting
<1> QED
  BY <1>3, <1>4 DEF TimedInv

\* The same when no thread moves.
LEMMA TimedStill ==
  ASSUME TimedInv, UNCHANGED <<pactive, timer, th, inUse>>,
         \A s \in armed' : s \in armed \/ timer[s] # NoNode
  PROVE  TimedInv'
BY DEF TimedInv, TimersMatchActive, Starting, FailedActivation

(***************************************************************************)
(* A node enters the active list, marked: it had no timer, because timers  *)
(* only point to active nodes.                                             *)
(***************************************************************************)
LEMMA TimedEnter ==
  ASSUME IndInv, TimedInv, NEW t \in Thread, NEW n \in Node,
         n \notin ToSet(pactive), ToSet(pactive') = ToSet(pactive) \cup {n},
         UNCHANGED <<timer, armed>>, inUse' = [inUse EXCEPT ![n] = @ \cup {"marked"}],
         th[t].pc \notin {"check", "dequeue"},
         th'[t].pc = "activate", th'[t].node = n,
         \A u \in Thread : u # t => th'[u] = th[u]
  PROVE  TimedInv'
<1> USE IndParts
<1>1. ToSet(pactive) \subseteq Node
  BY ToSetType DEF QueueInv, QueueType
<1>2. /\ "marked" \in inUse'[n]
      /\ \A m \in Node : m # n => inUse'[m] = inUse[m]
  BY DEF FlagType
<1>3. \A u \in Thread, m \in Node : FailedActivation(u, m) => FailedActivation(u, m)'
  BY DEF FailedActivation
<1>4. TimersMatchActive'
  <2>1. ASSUME NEW m \in ToSet(pactive')
        PROVE  \/ "marked" \in inUse'[m]
               \/ \E s \in Slot : timer[s] = m
               \/ \E u \in Thread : FailedActivation(u, m)'
    <3>1. CASE m = n
      BY <1>2, <3>1
    <3>2. CASE m # n
      <4>1. m \in ToSet(pactive) /\ m \in Node /\ inUse'[m] = inUse[m]
        BY <1>1, <1>2, <3>2
      <4> QED
        BY <1>3, <4>1 DEF TimedInv, TimersMatchActive
    <3> QED
      BY <3>1, <3>2
  <2> QED
    BY <2>1 DEF TimedInv, TimersMatchActive
<1>5. \A s \in Slot : timer[s] # n
  BY ConstantsAssumption DEF TimedInv, TimersMatchActive
<1>6. Starting'
  BY <1>5 DEF TimedInv, Starting
<1> QED
  BY <1>4, <1>6 DEF TimedInv

\* The timers of an active command are those that point to its node: there is one.
LEMMA TimersOfNode ==
  ASSUME IndInv, TimedInv, NEW n \in ToSet(pactive)
  PROVE  /\ TimersOf(cmd[n]) = {s \in Slot : timer[s] = n}
         /\ \A s, u \in TimersOf(cmd[n]) : s = u
         /\ TimersOf(cmd[n]) # {} => Min(TimersOf(cmd[n])) \in TimersOf(cmd[n])
<1> USE IndParts
<1>0. n \in Node /\ n # NoNode
  BY QueuedNode, ConstantsAssumption
<1>1. ASSUME NEW s \in Slot, timer[s] # NoNode, cmd[timer[s]] = cmd[n] PROVE timer[s] = n
  BY <1>1 DEF TimedInv, TimersMatchActive, BitmapExact
<1>2. TimersOf(cmd[n]) = {s \in Slot : timer[s] = n}
  BY <1>0, <1>1 DEF TimersOf
<1>3. \A s, u \in TimersOf(cmd[n]) : s = u
  BY <1>0, <1>2 DEF TimedInv, TimersMatchActive
<1>4. TimersOf(cmd[n]) \in SUBSET Nat
  BY ConstantsAssumption DEF TimersOf, Slot
<1>5. TimersOf(cmd[n]) # {} => Min(TimersOf(cmd[n])) \in TimersOf(cmd[n])
  BY <1>4, MinIsFirst
<1> QED
  BY <1>2, <1>3, <1>5

(***************************************************************************)
(* A node that is not marked leaves the active list, and its timer, looked *)
(* up by the command, is stopped.                                          *)
(***************************************************************************)
LEMMA TimedLeave ==
  ASSUME IndInv, TimedInv, NEW t \in Thread, NEW n \in ToSet(pactive), NEW keepRef,
         Frees(n, keepRef), \A m \in ToSet(pactive) : FailedActivation(t, m) => m = n,
         th'[t].pc \notin {"activate", "activated"},
         \A u \in Thread : u # t => th'[u] = th[u]
  PROVE  TimedInv'
<1> USE IndParts
<1> DEFINE T == TimersOf(cmd[n])
<1>1. /\ T = {s \in Slot : timer[s] = n} /\ \A s, u \in T : s = u
      /\ T # {} => Min(T) \in T
  BY TimersOfNode
<1>2. n \in Node /\ n # NoNode /\ ToSet(pactive) \subseteq Node
  BY QueuedNode, ToSetType, ConstantsAssumption DEF QueueInv, QueueType
<1>3. ToSet(pactive') = ToSet(pactive) \ {n}
  BY RemoveMembers DEF Frees, QueueInv, QueueType, NodesConserved
<1>4. /\ \A s \in Slot : timer'[s] = IF timer[s] = n THEN NoNode ELSE timer[s]
      /\ \A s \in armed' : s \in armed /\ timer[s] # n
  <2> HIDE DEF T
  <2>0. timer \in [Slot -> Node \cup {NoNode}] /\ armed \subseteq Slot
    BY DEF TimerType
  <2>1. CASE T = {}
    <3>1. UNCHANGED <<timer, armed>>
      BY <2>1 DEF Frees, FindAndStopTimer, T
    <3> QED
      BY <1>1, <2>0, <2>1, <3>1
  <2>2. CASE T # {}
    <3>1. timer' = [timer EXCEPT ![Min(T)] = NoNode] /\ armed' = armed \ {Min(T)}
      BY <2>2 DEF Frees, FindAndStopTimer, T
    <3>2. Min(T) \in Slot /\ \A s \in Slot : timer[s] = n <=> s = Min(T)
      BY <1>1, <2>2
    <3> QED
      BY <2>0, <3>1, <3>2
  <2> QED
    BY <2>1, <2>2
<1>5. \A u \in Thread, m \in ToSet(pactive') : FailedActivation(u, m) => FailedActivation(u, m)'
  BY <1>3 DEF FailedActivation
<1>6. TimersMatchActive'
  <2>1. ASSUME NEW m \in ToSet(pactive')
        PROVE  \/ "marked" \in inUse'[m]
               \/ \E s \in Slot : timer'[s] = m
               \/ \E u \in Thread : FailedActivation(u, m)'
    <3>1. m \in ToSet(pactive) /\ m # n /\ m \in Node
      BY <1>2, <1>3
    <3>2. CASE "marked" \in inUse[m]
      BY <3>1, <3>2 DEF Frees
    <3>3. CASE \E s \in Slot : timer[s] = m
      BY <1>4, <3>1, <3>3
    <3>4. CASE \E u \in Thread : FailedActivation(u, m)
      BY <1>5, <3>4
    <3> QED
      BY <3>1, <3>2, <3>3, <3>4 DEF TimedInv, TimersMatchActive
  <2>2. \A s \in Slot : timer'[s] # NoNode => timer'[s] \in ToSet(pactive')
    BY <1>3, <1>4 DEF TimedInv, TimersMatchActive
  <2>3. \A s, u \in Slot : timer'[s] = timer'[u] /\ timer'[s] # NoNode => s = u
    BY <1>4 DEF TimedInv, TimersMatchActive
  <2>4. \A s \in armed' : timer'[s] # NoNode
    <3>1. armed \subseteq Slot
      BY DEF TimerType
    <3> QED
      BY <1>4, <3>1 DEF TimedInv, TimersMatchActive
  <2> QED
    BY <2>1, <2>2, <2>3, <2>4 DEF TimersMatchActive
<1>7. Starting'
  <2>1. ASSUME NEW u \in Thread, th'[u].pc \in {"activate", "activated"}
        PROVE  u # t /\ th'[u] = th[u] /\ th[u].node # n /\ th[u].node \in Node
    <3>1. u # t /\ th'[u] = th[u]
      BY <2>1
    <3>2. th[u].node \in Node /\ Activating(u, th[u].node)
      BY <2>1, <3>1 DEF ThreadsOK, FrameOK, Activating
    <3>3. "marked" \in inUse[th[u].node]
      BY <3>2 DEF MarkedHasOneActivator
    <3> QED
      BY <3>1, <3>2, <3>3 DEF Frees
  <2>2. ASSUME NEW u \in Thread, th'[u].pc = "activate", NEW s \in Slot
        PROVE  timer'[s] # th'[u].node
    BY <1>4, <2>1, <2>2, ConstantsAssumption DEF TimedInv, Starting
  <2>3. ASSUME NEW u \in Thread, th'[u].pc = "activated", th'[u].ok
        PROVE  \E s \in Slot : timer'[s] = th'[u].node
    BY <1>4, <2>1, <2>3 DEF TimedInv, Starting
  <2> QED
    BY <2>2, <2>3 DEF Starting
<1> QED
  BY <1>6, <1>7 DEF TimedInv

-----------------------------------------------------------------------------
(***************************************************************************)
(* wlan_serialization_activate_cmd.  The thread finds a free timer for its *)
(* node, which has none, or gives up; then it clears the mark.             *)
(***************************************************************************)
LEMMA StartTimed ==
  ASSUME IndInv, TimedInv, NEW t \in Thread, FindAndStartTimer(t)
  PROVE  TimedInv'
<1> USE IndParts
<1> DEFINE n == th[t].node
           free == {s \in Slot : timer[s] = NoNode}
<1>0. UNCHANGED <<pactive, inUse>>
  BY DEF FindAndStartTimer, queueVars, nodeVars
<1>1. th[t].pc = "activate" /\ n \in Node /\ n # NoNode
  BY ConstantsAssumption DEF FindAndStartTimer, At, ThreadsOK, FrameOK
<1>2. n \in ToSet(pactive) /\ "marked" \in inUse[n]
  BY <1>1 DEF Activating, MarkedHasOneActivator
<1>3. \A u \in Thread : th[u].pc \in {"activate", "activated"} /\ u # t => th[u].node # n
  BY <1>1 DEF Activating, MarkedHasOneActivator
<1>4. \A s \in Slot : timer[s] # n
  BY <1>1 DEF TimedInv, Starting
<1>5. PICK ok \in BOOLEAN :
        /\ Goto(t, [th[t] EXCEPT !.pc = "activated", !.ok = ok])
        /\ \/ /\ free # {} /\ timer' = [timer EXCEPT ![Min(free)] = n]
              /\ armed' = armed \cup {Min(free)}
           \/ ok = FALSE /\ UNCHANGED <<timer, armed>>
  BY DEF FindAndStartTimer
<1>6. /\ th'[t].pc = "activated" /\ th'[t].node = n /\ th'[t].ok = ok
      /\ \A u \in Thread : u # t => th'[u] = th[u]
  BY <1>5 DEF Goto, ThreadsOK, ThreadType
<1>7. \A u \in Thread, m \in Node : FailedActivation(u, m) => FailedActivation(u, m)'
  BY <1>1, <1>6 DEF FailedActivation
<1>8. timer \in [Slot -> Node \cup {NoNode}] /\ ToSet(pactive) \subseteq Node
  BY ToSetType DEF TimerType, QueueInv, QueueType
<1> HIDE DEF n
<1>9. CASE ok = FALSE /\ UNCHANGED <<timer, armed>>
  <2>1. TimersMatchActive'
    BY <1>0, <1>7, <1>8, <1>9 DEF TimedInv, TimersMatchActive
  <2>2. Starting'
    BY <1>6, <1>9 DEF TimedInv, Starting
  <2> QED
    BY <2>1, <2>2 DEF TimedInv
<1>10. CASE /\ free # {} /\ timer' = [timer EXCEPT ![Min(free)] = n]
            /\ armed' = armed \cup {Min(free)}
  <2> DEFINE new == Min(free)
  <2>1. new \in free
    <3>1. free \in SUBSET Nat
      BY ConstantsAssumption DEF Slot
    <3> QED
      BY <1>10, <3>1, MinIsFirst
  <2>2. new \in Slot /\ timer[new] = NoNode
    BY <2>1
  <2> HIDE DEF new
  <2>3. /\ armed' = armed \cup {new}
        /\ \A s \in Slot : timer'[s] = IF s = new THEN n ELSE timer[s]
    BY <1>8, <1>10, <2>2 DEF new
  <2>4. TimersMatchActive'
    <3>1. ASSUME NEW m \in ToSet(pactive)
          PROVE  \/ "marked" \in inUse[m]
                 \/ \E s \in Slot : timer'[s] = m
                 \/ \E u \in Thread : FailedActivation(u, m)'
      <4>1. CASE \E s \in Slot : timer[s] = m
        <5>1. m # NoNode
          BY <1>8, ConstantsAssumption
        <5> QED
          BY <2>2, <2>3, <4>1, <5>1
      <4>2. CASE \E u \in Thread : FailedActivation(u, m)
        BY <1>7, <1>8, <4>2
      <4> QED
        BY <4>1, <4>2 DEF TimedInv, TimersMatchActive
    <3>2. \A s \in Slot : timer'[s] # NoNode => timer'[s] \in ToSet(pactive)
      BY <1>2, <2>3 DEF TimedInv, TimersMatchActive
    <3>3. \A s, u \in Slot : timer'[s] = timer'[u] /\ timer'[s] # NoNode => s = u
      BY <1>4, <2>3 DEF TimedInv, TimersMatchActive
    <3>4. \A s \in armed' : timer'[s] # NoNode
      <4>1. armed \subseteq Slot
        BY DEF TimerType
      <4> QED
        BY <1>1, <2>2, <2>3, <4>1 DEF TimedInv, TimersMatchActive
    <3> QED
      BY <1>0, <3>1, <3>2, <3>3, <3>4 DEF TimersMatchActive
  <2>5. Starting'
    <3>1. ASSUME NEW u \in Thread, th'[u].pc = "activate", NEW s \in Slot
          PROVE  timer'[s] # th'[u].node
      <4>1. u # t /\ th'[u] = th[u] /\ th[u].node # n
        BY <1>3, <1>6, <3>1
      <4> QED
        BY <2>3, <3>1, <4>1 DEF TimedInv, Starting
    <3>2. ASSUME NEW u \in Thread, th'[u].pc = "activated", th'[u].ok
          PROVE  \E s \in Slot : timer'[s] = th'[u].node
      <4>1. CASE u = t
        BY <1>6, <2>2, <2>3, <4>1
      <4>2. CASE u # t
        <5>1. th'[u] = th[u] /\ th[u].node \in Node
          BY <1>6, <3>2, <4>2 DEF ThreadsOK, FrameOK
        <5>2. PICK s \in Slot : timer[s] = th[u].node
          BY <3>2, <5>1 DEF TimedInv, Starting
        <5>3. s # new
          BY <2>2, <5>1, <5>2, ConstantsAssumption
        <5> QED
          BY <2>3, <5>1, <5>2, <5>3
      <4> QED
        BY <4>1, <4>2
    <3> QED
      BY <3>1, <3>2 DEF Starting
  <2> QED
    BY <2>4, <2>5 DEF TimedInv
<1> QED
  BY <1>5, <1>9, <1>10

\* The mark goes; what the activation left behind is a timer or a failure.
LEMMA DoneTimed ==
  ASSUME IndInv, TimedInv, NEW t \in Thread, ActivationDone(t)
  PROVE  TimedInv'
<1> USE IndParts
<1> DEFINE n == th[t].node
<1>0. UNCHANGED <<pactive, timer, armed>> /\ th[t].pc = "activated"
  BY DEF ActivationDone, At, queueVars, timerVars
<1>1. n \in Node
  BY <1>0 DEF ThreadsOK, FrameOK
<1>2. \A m \in Node : "marked" \in inUse'[m] <=> "marked" \in inUse[m] /\ m # n
  BY <1>1 DEF ActivationDone, FlagType
<1>3. /\ th'[t].pc = "check" /\ th'[t].node = n /\ th'[t].ok = th[t].ok
      /\ \A u \in Thread : u # t => th'[u] = th[u]
  BY DEF ActivationDone, Goto, ThreadsOK, ThreadType
<1>4. ToSet(pactive) \subseteq Node
  BY ToSetType DEF QueueInv, QueueType
<1>5. \A u \in Thread, m \in Node : FailedActivation(u, m) => FailedActivation(u, m)'
  BY <1>0, <1>3 DEF FailedActivation
<1>6. \A m \in Node :
        m = n => (\E s \in Slot : timer[s] = m) \/ FailedActivation(t, m)'
  <2>1. CASE th[t].ok
    BY <1>0, <2>1 DEF TimedInv, Starting
  <2>2. CASE ~th[t].ok
    BY <1>3, <2>2 DEF FailedActivation
  <2> QED
    BY <2>1, <2>2
<1> HIDE DEF n
<1>7. TimersMatchActive'
  <2>1. ASSUME NEW m \in ToSet(pactive)
        PROVE  \/ "marked" \in inUse'[m]
               \/ \E s \in Slot : timer[s] = m
               \/ \E u \in Thread : FailedActivation(u, m)'
    <3>1. CASE m = n
      <4>1. m \in Node
        BY <1>4
      <4> QED
        BY <1>6, <3>1, <4>1
    <3>2. CASE m # n
      <4>1. m \in Node
        BY <1>4
      <4> QED
        BY <1>2, <1>5, <3>2, <4>1 DEF TimedInv, TimersMatchActive
    <3> QED
      BY <3>1, <3>2
  <2> QED
    BY <1>0, <2>1 DEF TimedInv, TimersMatchActive
<1>8. Starting'
  BY <1>0, <1>3 DEF TimedInv, Starting
<1> QED
  BY <1>7, <1>8 DEF TimedInv

\* A failed activation goes on to dequeue its node.
LEMMA CheckTimed ==
  ASSUME IndInv, TimedInv, NEW t \in Thread, CheckAfterActivation(t)
  PROVE  TimedInv'
<1> USE IndParts
<1> DEFINE n == th[t].node
           next == [Idle EXCEPT !.node = n, !.k = th[t].k]
<1>0. UNCHANGED <<pactive, timer, armed, inUse>> /\ th[t].pc = "check"
  BY DEF CheckAfterActivation, At, queueVars, timerVars, nodeVars
<1>1. /\ th'[t].pc \notin {"activate", "activated"}
      /\ \A u \in Thread : u # t => th'[u] = th[u]
      /\ ~th[t].ok => th'[t].pc = "dequeue" /\ th'[t].why = "FAILED" /\ th'[t].node = n
  <2>1. CASE ~th[t].ok /\ Goto(t, [next EXCEPT !.pc = "dequeue", !.why = "FAILED"])
    BY <2>1 DEF Goto, ThreadsOK, Idle
  <2>2. CASE th[t].ok /\ Goto(t, [next EXCEPT !.pc = "dequeue", !.why = "REMOVE"])
    BY <2>2 DEF Goto, ThreadsOK, Idle
  <2>3. CASE th[t].ok /\ Goto(t, [next EXCEPT !.pc = "cancel", !.node = NoNode,
                                              !.req = CancelOne(cmd[n])])
    BY <2>3 DEF Goto, ThreadsOK, Idle
  <2>4. CASE th[t].ok /\ Return(t)
    BY <2>4, ReturnFrame
  <2> QED
    BY <2>1, <2>2, <2>3, <2>4 DEF CheckAfterActivation
<1>2. \A m \in ToSet(pactive) : FailedActivation(t, m) => FailedActivation(t, m)'
  BY <1>0, <1>1 DEF FailedActivation
<1> HIDE DEF n
<1> QED
  BY <1>0, <1>1, <1>2, TimedQuiet

\* wlan_serialization_remove_cmd, and the dequeue of a node by its holder.
LEMMA DequeueTimed ==
  ASSUME IndInv, TimedInv, NEW t \in Thread,
         (\E c \in Cmd : RemoveCmd(t, c)) \/ DequeueNode(t)
  PROVE  TimedInv'
<1> USE IndParts
<1>1. ASSUME NEW c \in Cmd \cup {NoCmd}, NEW why, NEW timedOut, DequeueCmd(t, c, why, timedOut),
             \A m \in ToSet(pactive) : FailedActivation(t, m) => cmd[m] = c
      PROVE  TimedInv'
  <2>1. CASE /\ \A n \in ToSet(pactive) : cmd[n] # c
             /\ Return(t) /\ UNCHANGED <<queueVars, blockVars, nodeVars, timerVars>>
    <3>1. UNCHANGED <<pactive, timer, armed, inUse>>
      BY <2>1 DEF queueVars, nodeVars, timerVars
    <3>2. /\ th'[t].pc \notin {"activate", "activated"}
          /\ \A u \in Thread : u # t => th'[u] = th[u]
      BY <2>1, ReturnFrame
    <3>3. \A m \in ToSet(pactive) : ~FailedActivation(t, m)
      BY <1>1, <2>1
    <3> QED
      BY <3>1, <3>2, <3>3, TimedQuiet
  <2>2. ASSUME NEW n \in ToSet(pactive), cmd[n] = c, "marked" \in inUse[n],
               inUse' = [inUse EXCEPT ![n] = @ \cup {"removal"}],
               Return(t), UNCHANGED <<queueVars, blockVars, cmd, timerVars>>
        PROVE  TimedInv'
    <3>1. UNCHANGED <<pactive, timer, armed>>
      BY <2>2 DEF queueVars, timerVars
    <3>2. /\ th'[t].pc \notin {"activate", "activated"}
          /\ \A u \in Thread : u # t => th'[u] = th[u]
      BY <2>2, ReturnFrame
    <3>3. n \in Node
      BY QueuedNode
    <3>4. \A m \in Node : "marked" \in inUse'[m] <=> "marked" \in inUse[m]
      BY <2>2, <3>3 DEF FlagType
    <3>5. \A m \in ToSet(pactive) : FailedActivation(t, m) => "marked" \in inUse[m]
      BY <1>1, <2>2 DEF BitmapExact
    <3> QED
      BY <3>1, <3>2, <3>4, <3>5, TimedQuiet
  <2>3. ASSUME NEW n \in ToSet(pactive), cmd[n] = c, Frees(n, why = "TIMEOUT"),
               th'[t].pc = "move", \A u \in Thread : u # t => th'[u] = th[u]
        PROVE  TimedInv'
    <3>1. \A m \in ToSet(pactive) : FailedActivation(t, m) => m = n
      BY <1>1, <2>3 DEF BitmapExact
    <3> QED
      BY <2>3, <3>1, TimedLeave
  <2>4. \/ /\ \A n \in ToSet(pactive) : cmd[n] # c
           /\ Return(t) /\ UNCHANGED <<queueVars, blockVars, nodeVars, timerVars>>
        \/ \E n \in ToSet(pactive) :
             /\ cmd[n] = c /\ "marked" \in inUse[n]
             /\ inUse' = [inUse EXCEPT ![n] = @ \cup {"removal"}]
             /\ Return(t) /\ UNCHANGED <<queueVars, blockVars, cmd, timerVars>>
        \/ \E n \in ToSet(pactive) :
             /\ cmd[n] = c /\ Frees(n, why = "TIMEOUT")
             /\ th'[t].pc = "move" /\ \A u \in Thread : u # t => th'[u] = th[u]
    BY <1>1, DequeueCmdEffect
  <2> QED
    BY <2>1, <2>2, <2>3, <2>4
<1>2. ASSUME NEW c \in Cmd, RemoveCmd(t, c) PROVE TimedInv'
  <2>1. th[t].pc = "idle" /\ DequeueCmd(t, c, "REMOVE", NoCmd)
    BY <1>2 DEF RemoveCmd, At
  <2>2. \A m \in ToSet(pactive) : ~FailedActivation(t, m)
    BY <2>1 DEF FailedActivation
  <2> QED
    BY <1>1, <2>1, <2>2
<1>3. CASE DequeueNode(t)
  <2>1. th[t].pc = "dequeue" /\ DequeueCmd(t, cmd[th[t].node], th[t].why, th[t].cmd)
    BY <1>3 DEF DequeueNode, At
  <2>2. th[t].node \in Node
    BY <2>1 DEF ThreadsOK, FrameOK
  <2>3. cmd[th[t].node] \in Cmd \cup {NoCmd}
    BY <2>2 DEF QueueInv, QueueType
  <2>4. \A m \in ToSet(pactive) : FailedActivation(t, m) => cmd[m] = cmd[th[t].node]
    BY DEF FailedActivation
  <2> QED
    BY <1>1, <2>1, <2>3, <2>4
<1> QED
  BY <1>2, <1>3

\* The moves of pending commands.
LEMMA MoveTimed ==
  ASSUME IndInv, TimedInv, NEW t \in Thread, MovePendingToActive(t) \/ MoveNext(t)
  PROVE  TimedInv'
<1> USE IndParts
<1>1. th[t].pc \in {"move", "resume"} /\ UNCHANGED <<timer, armed>>
  BY DEF MovePendingToActive, MoveNext, At, timerVars
<1>2. \A m \in ToSet(pactive) : ~FailedActivation(t, m)
  BY <1>1 DEF FailedActivation
<1>3. ASSUME Return(t), UNCHANGED <<queueVars, inUse>> PROVE TimedInv'
  <2>1. /\ th'[t].pc \notin {"activate", "activated"}
        /\ \A u \in Thread : u # t => th'[u] = th[u]
    BY <1>3, ReturnFrame
  <2> QED
    BY <1>1, <1>2, <1>3, <2>1, TimedQuiet DEF queueVars
<1>4. ASSUME NEW list \in Seq(Node), NEW budget \in Nat, NEW byVdev,
             ToSet(list) \subseteq ToSet(ppending), MoveLoop(t, list, budget, byVdev)
      PROVE  TimedInv'
  <2>1. ASSUME NEW i \in Nat, MovesFrom(list, budget, byVdev, i),
               th'[t].pc = "activate", th'[t].node = list[i],
               \A u \in Thread : u # t => th'[u] = th[u]
        PROVE  TimedInv'
    <3> DEFINE n == list[i]
    <3>1. /\ n \in ToSet(ppending) /\ pactive' = Insert(pactive, n, cmd[n])
          /\ inUse' = [inUse EXCEPT ![n] = @ \cup {"marked"}]
      BY <2>1 DEF MovesFrom
    <3>2. n \in Node /\ n \notin ToSet(pactive) /\ pactive \in Seq(Node)
      BY <3>1, QueuedNode DEF QueueInv, QueueType, NodesConserved
    <3>3. ToSet(pactive') = ToSet(pactive) \cup {n}
      BY <3>1, <3>2, InsertMembers
    <3>4. th'[t].node = n
      BY <2>1
    <3> HIDE DEF n
    <3> QED
      BY <1>1, <2>1, <3>1, <3>2, <3>3, <3>4, TimedEnter
  <2> QED
    BY <1>3, <1>4, <2>1, MoveLoopEffect
<1>5. CASE MovePendingToActive(t)
  <2> DEFINE c == th[t].cmd
             byVdev == c \notin Blocking /\ waiting = 0
             list == IF byVdev THEN vpending[VdevOf[c]] ELSE ppending
  <2>1. th[t].pc = "move" /\ MoveLoop(t, list, Len(list), byVdev)
    BY <1>5 DEF MovePendingToActive, At
  <2>2. c \in Cmd /\ VdevOf[c] \in Vdev
    BY <2>1, ConstantsAssumption DEF ThreadsOK, FrameOK
  <2> HIDE DEF c
  <2>3. /\ vpending[VdevOf[c]] \in Seq(Node) /\ ppending \in Seq(Node)
        /\ ToSet(vpending[VdevOf[c]]) \subseteq ToSet(ppending)
    BY <2>2 DEF QueueInv, QueueType, MembersAgree
  <2>4. list \in Seq(Node) /\ ToSet(list) \subseteq ToSet(ppending)
    BY <2>3
  <2>5. Len(list) \in Nat
    BY <2>4, LenProperties
  <2> HIDE DEF list, byVdev
  <2> QED
    BY <1>4, <2>1, <2>4, <2>5
<1>6. CASE MoveNext(t)
  <2>1. CASE Return(t) /\ UNCHANGED <<queueVars, blockVars, inUse, bug>>
    BY <1>3, <2>1
  <2>2. CASE MoveLoop(t, ppending, th[t].left, FALSE)
    <3>1. ppending \in Seq(Node) /\ th[t].left \in Nat
      BY DEF QueueInv, QueueType, ThreadsOK, ThreadType
    <3> QED
      BY <1>4, <2>2, <3>1
  <2> QED
    BY <1>6, <2>1, <2>2 DEF MoveNext
<1> QED
  BY <1>5, <1>6

\* Cancels: a command being activated is only marked, others are taken off.
LEMMA CancelTimed ==
  ASSUME IndInv, TimedInv, NEW t \in Thread,
         \/ \E r \in CancelReqs : CancelRequest(t, r)
         \/ CancelQueue(t) \/ CancelNext(t)
  PROVE  TimedInv'
<1> USE IndParts
<1>1. th[t].pc \in {"idle", "cancel", "cancelled"}
  BY DEF CancelRequest, CancelQueue, CancelNext, At
<1>2. \A m \in ToSet(pactive) : ~FailedActivation(t, m)
  BY <1>1 DEF FailedActivation
<1>3. ASSUME NEW r \in CancelReqType, Return(t) \/ NextQueue(t, r),
             UNCHANGED <<queueVars, timerVars>>,
             \A m \in Node : "marked" \in inUse'[m] <=> "marked" \in inUse[m]
      PROVE  TimedInv'
  <2>1. /\ th'[t].pc \notin {"activate", "activated"}
        /\ \A u \in Thread : u # t => th'[u] = th[u]
    BY <1>3, ReturnFrame, NextQueueFrame
  <2> QED
    BY <1>2, <1>3, <2>1, TimedQuiet DEF queueVars, timerVars
<1>4. ASSUME NEW r \in CancelReqType, NEW prev \in Node \cup {NoNode}, NEW budget \in Nat,
             CancelLoop(t, r, prev, budget)
      PROVE  TimedInv'
  <2>1. ASSUME NEW n \in ToSet(pactive), Frees(n, FALSE), Cancelled(t, r, cmd[n])
        PROVE  TimedInv'
    BY <1>2, <2>1, TimedLeave DEF Cancelled
  <2>2. ASSUME NEW n, UNCHANGED <<pactive, vactive, timerVars>>, Cancelled(t, r, cmd[n]),
               \A m \in Node : "marked" \in inUse'[m] <=> "marked" \in inUse[m]
        PROVE  TimedInv'
    BY <1>2, <2>2, TimedQuiet DEF Cancelled, timerVars
  <2> QED
    BY <1>3, <1>4, <2>1, <2>2, CancelLoopEffect
<1>5. \A r \in CancelReqType : QueueLen(r) \in Nat
  BY LenProperties DEF QueueLen, QueueInv, QueueType
<1>6. th[t].req \in CancelReqType /\ th[t].left \in Nat /\ th[t].node \in Node \cup {NoNode}
  BY DEF ThreadsOK, ThreadType
<1>7. ASSUME NEW r \in CancelReqs, CancelRequest(t, r) PROVE TimedInv'
  BY <1>4, <1>5, <1>7, ConstantsAssumption DEF CancelRequest
<1>8. CASE CancelQueue(t)
  BY <1>4, <1>5, <1>6, <1>8 DEF CancelQueue
<1>9. CASE CancelNext(t)
  <2>1. CASE NextQueue(t, th[t].req) /\ UNCHANGED <<queueVars, nodeVars, timerVars, bug>>
    BY <1>3, <1>6, <2>1 DEF nodeVars
  <2>2. CASE CancelLoop(t, th[t].req, th[t].node, th[t].left)
    BY <1>4, <1>6, <2>2
  <2> QED
    BY <1>9, <2>1, <2>2 DEF CancelNext
<1> QED
  BY <1>7, <1>8, <1>9

\* A request.
LEMMA RequestTimed ==
  ASSUME IndInv, TimedInv, NEW t \in Thread, NEW c \in Cmd, Request(t, c)
  PROVE  TimedInv'
<1> USE IndParts
<1> DEFINE n == Head(pool)
<1>1. th[t].pc = "idle" /\ UNCHANGED <<timer, armed>>
  BY DEF Request, CanRequest, At, timerVars
<1>2. n \in ToSet(pool) /\ n \in Node
  BY ToSetType DEF Request, QueueInv, QueueType
<1>3. n \notin ToSet(pactive) /\ pactive \in Seq(Node)
  BY <1>2 DEF QueueInv, QueueType, NodesConserved
<1>4. CASE /\ pactive' = Insert(pactive, n, c)
           /\ inUse' = [inUse EXCEPT ![n] = @ \cup {"marked"}]
           /\ Goto(t, [Idle EXCEPT !.pc = "activate", !.node = n])
  <2>1. ToSet(pactive') = ToSet(pactive) \cup {n}
    BY <1>2, <1>3, <1>4, InsertMembers
  <2>2. /\ th'[t].pc = "activate" /\ th'[t].node = n
        /\ \A u \in Thread : u # t => th'[u] = th[u]
    BY <1>4 DEF Goto, ThreadsOK, Idle
  <2> HIDE DEF n
  <2> QED
    BY <1>1, <1>2, <1>3, <1>4, <2>1, <2>2, TimedEnter
<1>5. CASE UNCHANGED <<pactive, inUse, th>>
  BY <1>1, <1>5, TimedStill
<1> QED
  BY <1>4, <1>5 DEF Request

\* The timers, and the steps that touch neither them nor the active list.
LEMMA OtherTimed ==
  ASSUME IndInv, TimedInv,
         \/ \E t \in Thread, c \in Cmd : RequestRefused(t, c)
         \/ \E s \in Slot : TimerHandler(s)
         \/ \E c \in Cmd : UpdateTimer(c)
         \/ \E v \in Vdev : VdevQueueDisable(v) \/ VdevDelete(v)
         \/ UNCHANGED vars
  PROVE  TimedInv'
<1>1. UNCHANGED <<pactive, timer, th, inUse>>
  BY DEF RequestRefused, TimerHandler, UpdateTimer, VdevQueueDisable, VdevDelete, vars,
         queueVars, nodeVars, timerVars
<1>2. ASSUME NEW c \in Cmd, UpdateTimer(c), NEW s \in armed' PROVE s \in armed \/ timer[s] # NoNode
  <2>1. TimersOf(c) # {} /\ TimersOf(c) \in SUBSET Nat /\ armed' = armed \cup {Min(TimersOf(c))}
    BY <1>2, ConstantsAssumption DEF UpdateTimer, TimersOf, Slot
  <2>2. Min(TimersOf(c)) \in TimersOf(c)
    BY <2>1, MinIsFirst
  <2> QED
    BY <1>2, <2>1, <2>2 DEF TimersOf
<1>3. \A s \in armed' : s \in armed \/ timer[s] # NoNode
  BY <1>2 DEF RequestRefused, TimerHandler, VdevQueueDisable, VdevDelete, vars, timerVars
<1> QED
  BY <1>1, <1>3, TimedStill

\* The scheduler thread takes up an expired timer, and lets go of its reference.
LEMMA HandlerTimed ==
  ASSUME IndInv, TimedInv,
         (\E s \in Slot : GenericTimerCb(s)) \/ (\E t \in Thread : ReleaseRef(t))
  PROVE  TimedInv'
<1> USE IndParts
<1>1. ASSUME NEW s \in Slot, GenericTimerCb(s) PROVE TimedInv'
  <2>1. /\ Sched \in Thread /\ th[Sched].pc = "idle"
        /\ UNCHANGED <<pactive, timer, armed, inUse>>
    BY <1>1, ConstantsAssumption DEF GenericTimerCb, At, queueVars, nodeVars
  <2>2. /\ th'[Sched].pc \notin {"activate", "activated"}
        /\ \A u \in Thread : u # Sched => th'[u] = th[u]
    <3> DEFINE f == [Idle EXCEPT !.pc = "dequeue", !.node = timer[s],
                                 !.cmd = cmd[timer[s]], !.why = "TIMEOUT"]
    <3>1. UNCHANGED th \/ Goto(Sched, f)
      BY <1>1 DEF GenericTimerCb
    <3>2. f.pc = "dequeue"
      BY DEF Idle
    <3> HIDE DEF f
    <3> QED
      BY <2>1, <3>1, <3>2 DEF Goto, ThreadsOK
  <2>3. \A m \in ToSet(pactive) : ~FailedActivation(Sched, m)
    BY <2>1 DEF FailedActivation
  <2> QED
    BY <2>1, <2>2, <2>3, TimedQuiet
<1>2. ASSUME NEW t \in Thread, ReleaseRef(t) PROVE TimedInv'
  <2>1. /\ th[t].pc = "putref" /\ Return(t)
        /\ UNCHANGED <<pactive, timer, armed, inUse>>
    BY <1>2 DEF ReleaseRef, At, queueVars, nodeVars
  <2>2. /\ th'[t].pc \notin {"activate", "activated"}
        /\ \A u \in Thread : u # t => th'[u] = th[u]
    BY <2>1, ReturnFrame
  <2>3. \A m \in ToSet(pactive) : ~FailedActivation(t, m)
    BY <2>1 DEF FailedActivation
  <2> QED
    BY <2>1, <2>2, <2>3, TimedQuiet
<1> QED
  BY <1>1, <1>2

-----------------------------------------------------------------------------
\* Every step keeps the timers in order.
LEMMA NextTimed == IndInv /\ TimedInv /\ [Next]_vars => TimedInv'
<1> SUFFICES ASSUME IndInv, TimedInv, [Next]_vars PROVE TimedInv'
  OBVIOUS
<1>1. ASSUME NEW t \in Thread, NEW c \in Cmd, Request(t, c) PROVE TimedInv'
  BY <1>1, RequestTimed
<1>2. ASSUME NEW t \in Thread, (\E c \in Cmd : RemoveCmd(t, c)) \/ DequeueNode(t)
      PROVE  TimedInv'
  BY <1>2, DequeueTimed
<1>3. ASSUME NEW t \in Thread,
             (\E r \in CancelReqs : CancelRequest(t, r)) \/ CancelQueue(t) \/ CancelNext(t)
      PROVE  TimedInv'
  BY <1>3, CancelTimed
<1>4. ASSUME NEW t \in Thread, MovePendingToActive(t) \/ MoveNext(t) PROVE TimedInv'
  BY <1>4, MoveTimed
<1>5. ASSUME NEW t \in Thread, FindAndStartTimer(t) PROVE TimedInv'
  BY <1>5, StartTimed
<1>6. ASSUME NEW t \in Thread, ActivationDone(t) PROVE TimedInv'
  BY <1>6, DoneTimed
<1>7. ASSUME NEW t \in Thread, CheckAfterActivation(t) PROVE TimedInv'
  BY <1>7, CheckTimed
<1>8. ASSUME (\E s \in Slot : GenericTimerCb(s)) \/ (\E t \in Thread : ReleaseRef(t))
      PROVE  TimedInv'
  BY <1>8, HandlerTimed
<1>9. ASSUME \/ \E t \in Thread, c \in Cmd : RequestRefused(t, c)
             \/ \E s \in Slot : TimerHandler(s)
             \/ \E c \in Cmd : UpdateTimer(c)
             \/ \E v \in Vdev : VdevQueueDisable(v) \/ VdevDelete(v)
             \/ UNCHANGED vars
      PROVE  TimedInv'
  BY <1>9, OtherTimed
<1> QED
  BY <1>1, <1>2, <1>3, <1>4, <1>5, <1>6, <1>7, <1>8, <1>9 DEF Next, Step, Lost

\* No timer is in use at first, and no command active.
LEMMA InitTimed == Init => TimedInv
<1> SUFFICES ASSUME Init PROVE TimedInv
  OBVIOUS
<1>1. ToSet(pactive) = {}
  BY DEF Init, ToSet
<1>2. \A t \in Thread : th[t].pc = "idle"
  BY DEF Init, Idle
<1> QED
  BY <1>1, <1>2 DEF Init, TimedInv, TimersMatchActive, Starting

LEMMA TimedInductive == Spec => [](IndInv /\ TimedInv)
BY InitIndInv, InitTimed, NextIndInv, NextTimed, PTL DEF Spec

(***************************************************************************)
(* For any number of timers, vdevs and threads, with timers expiring, the  *)
(* scheduler refusing their messages and vdevs being deleted: an active    *)
(* command that finished its activation has a timer or a thread on its way *)
(* to dequeue it, and a timer in use points to one active command.         *)
(***************************************************************************)
THEOREM TimersStayMatched == Spec => []TimersMatchActive
<1>1. TimedInv => TimersMatchActive
  BY DEF TimedInv
<1> QED
  BY <1>1, TimedInductive, PTL

-----------------------------------------------------------------------------
(***************************************************************************)
(* The references on a vdev.  A timer that is started takes one; it goes   *)
(* when the timer is stopped, except for a timer that expired: the handler *)
(* on the scheduler thread keeps it through the dequeue and everything the *)
(* dequeue leads to, and releases it at the end.  Only that thread owes a  *)
(* reference, one at a time, so what is owed on a vdev is 0 or 1.          *)
(***************************************************************************)
TimersFor(v) == {s \in Slot : timer[s] # NoNode /\ VdevOf[cmd[timer[s]]] = v}

Holds(f, v) ==
  \/ f.pc = "putref" /\ VdevOf[f.cmd] = v
  \/ \E i \in DOMAIN f.k : f.k[i].pc = "putref" /\ VdevOf[f.k[i].cmd] = v

OwedOn(v) == IF Holds(th[Sched], v) THEN 1 ELSE 0

Balanced == \A v \in Vdev : refs[v] = Cardinality(TimersFor(v)) + OwedOn(v)

Stacks == \A t \in Thread : HandlerStack(t, th[t])

\* The handlers that hold a reference: the scheduler thread or none.
LEMMA HoldersCount ==
  ASSUME Stacks, NEW v \in Vdev
  PROVE  Cardinality(HandlersHolding(v)) = OwedOn(v)
<1>1. HandlersHolding(v) = {t \in Thread : Holds(th[t], v)}
  BY DEF HandlersHolding, Holds
<1>2. ASSUME NEW t \in Thread, Holds(th[t], v) PROVE t = Sched
  BY <1>2 DEF Stacks, HandlerStack, Owed, Holds
<1>3. CASE Holds(th[Sched], v)
  <2>1. HandlersHolding(v) = {Sched}
    BY <1>1, <1>2, <1>3, ConstantsAssumption
  <2> QED
    BY <1>3, <2>1, FS_Singleton DEF OwedOn
<1>4. CASE ~Holds(th[Sched], v)
  <2>1. HandlersHolding(v) = {}
    BY <1>1, <1>2, <1>4
  <2> QED
    BY <1>4, <2>1, FS_EmptySet DEF OwedOn
<1> QED
  BY <1>3, <1>4

\* RefsBalanced in these terms, before and after a step.
LEMMA BalanceForm == Stacks => (RefsBalanced <=> Balanced)
<1> SUFFICES ASSUME Stacks PROVE RefsBalanced <=> Balanced
  OBVIOUS
<1>1. \A v \in Vdev : Cardinality(HandlersHolding(v)) = OwedOn(v)
  BY HoldersCount
<1> HIDE DEF Stacks
<1> QED
  BY <1>1 DEF RefsBalanced, Balanced, TimersFor

\* The same after a step.
LEMMA BalanceFormPrime == (Stacks => (RefsBalanced <=> Balanced))'
BY BalanceForm, PTL

\* A handler between its expiry and its dequeue has the thread for itself.
Expiring(f) == f.pc = "dequeue" /\ f.why = "TIMEOUT"

(***************************************************************************)
(* What a step of a thread has to keep: the shape of its stack, the bound  *)
(* on the messages, and the sum.                                           *)
(***************************************************************************)
LEMMA RefStep ==
  ASSUME RefInv, ExpiryUndisturbed, NEW t \in Thread,
         \A u \in Thread : u # t => th'[u] = th[u],
         HandlerStack(t, th'[t]), ~Expiring(th'[t]),
         \A s \in Slot : timerMsgs'[s] <= MaxTimerMsgs, Balanced'
  PROVE  RefInv'
<1>1. Stacks'
  <2>1. \A u \in Thread : HandlerStack(u, th'[u])
    BY DEF RefInv
  <2> QED
    BY <2>1 DEF Stacks, HandlerStack, Owed
<1>2. RefsBalanced'
  BY <1>1, BalanceFormPrime
<1>3. ExpiryFresh'
  <2>1. ASSUME NEW u \in Thread, Expiring(th'[u]) PROVE FALSE
    <3>1. u # t /\ th'[u] = th[u]
      BY <2>1
    <3>2. MaxTimerMsgs # 0
      BY <2>1, <3>1 DEF RefInv, ExpiryFresh, Expiring
    <3> QED
      BY <3>1, <3>2 DEF ExpiryUndisturbed
  <2> QED
    BY <2>1 DEF ExpiryFresh, Expiring
<1> QED
  BY <1>1, <1>2, <1>3 DEF RefInv, Stacks

\* The timers in use for a vdev, when no timer is started or stopped.
LEMMA TimersForKept ==
  ASSUME TimedInv, UNCHANGED timer, \A n \in ToSet(pactive) : cmd'[n] = cmd[n]
  PROVE  \A v \in Vdev : TimersFor(v)' = TimersFor(v)
<1>1. \A s \in Slot : timer[s] # NoNode => cmd'[timer[s]] = cmd[timer[s]]
  BY DEF TimedInv, TimersMatchActive
<1> QED
  BY <1>1 DEF TimersFor

\* A step that touches no timer and no reference, and owes what it owed.
LEMMA RefQuiet ==
  ASSUME TimedInv, RefInv, ExpiryUndisturbed, NEW t \in Thread,
         UNCHANGED <<timer, refs, timerMsgs>>, \A n \in ToSet(pactive) : cmd'[n] = cmd[n],
         \A u \in Thread : u # t => th'[u] = th[u],
         HandlerStack(t, th'[t]), ~Expiring(th'[t]),
         \A v \in Vdev : Holds(th'[t], v) <=> Holds(th[t], v)
  PROVE  RefInv'
<1>1. Balanced
  BY BalanceForm DEF RefInv, Stacks
<1>2. \A v \in Vdev : TimersFor(v)' = TimersFor(v)
  BY TimersForKept
<1>3. \A v \in Vdev : Holds(th'[Sched], v) <=> Holds(th[Sched], v)
  BY ConstantsAssumption
<1>4. \A v \in Vdev : OwedOn(v)' = OwedOn(v)
  BY <1>3 DEF OwedOn, Holds
<1>5. Balanced'
  BY <1>1, <1>2, <1>4 DEF Balanced
<1>6. \A s \in Slot : timerMsgs'[s] <= MaxTimerMsgs
  BY DEF RefInv
<1> QED
  BY <1>5, <1>6, RefStep

-----------------------------------------------------------------------------
(***************************************************************************)
(* The stack of callers: a step inside a call keeps it, a return takes the *)
(* innermost caller off it, a walk of the whole pending list puts itself   *)
(* on it.  None of these changes what is owed.                             *)
(***************************************************************************)
SameDebt(f, g) == \A v \in Vdev : Holds(g, v) <=> Holds(f, v)

LEMMA StackSame ==
  ASSUME NEW t \in Thread, NEW f, NEW g, HandlerStack(t, f), f.pc # "putref", g.k = f.k,
         g.pc \notin {"idle", "putref"}, ~Expiring(g)
  PROVE  HandlerStack(t, g) /\ SameDebt(f, g)
BY DEF HandlerStack, Owed, SameDebt, Holds, Expiring

LEMMA StackReturn ==
  ASSUME ThreadsOK, NEW t \in Thread, HandlerStack(t, th[t]), th[t].pc # "putref", Return(t)
  PROVE  /\ HandlerStack(t, th'[t]) /\ SameDebt(th[t], th'[t]) /\ ~Expiring(th'[t])
         /\ \A u \in Thread : u # t => th'[u] = th[u]
<1> DEFINE k == th[t].k
<1>0. \A u \in Thread : u # t => th'[u] = th[u]
  BY ReturnFrame
<1>1. k \in Seq(Caller)
  BY DEF ThreadsOK, ThreadType
<1>2. CASE k = <<>>
  <2>1. th'[t] = Idle
    BY <1>2 DEF Return, Goto, ThreadsOK
  <2>2. Idle.pc = "idle" /\ Idle.k = <<>>
    BY DEF Idle
  <2> HIDE DEF Idle
  <2> QED
    BY <1>0, <1>2, <2>1, <2>2 DEF HandlerStack, Owed, SameDebt, Holds, Expiring
<1>3. CASE k # <<>>
  <2> DEFINE g == [Idle EXCEPT !.pc = Head(k).pc, !.left = Head(k).left,
                               !.cmd = Head(k).cmd, !.k = Tail(k)]
  <2>1. th'[t] = g
    BY <1>3 DEF Return, Goto, ThreadsOK
  <2>2. g.pc = Head(k).pc /\ g.cmd = Head(k).cmd /\ g.k = Tail(k)
    BY DEF Idle
  <2> HIDE DEF g, k
  <2>3. /\ Len(k) \in Nat \ {0} /\ DOMAIN k = 1..Len(k) /\ Head(k) = k[1]
        /\ Tail(k) \in Seq(Caller) /\ Len(Tail(k)) = Len(k) - 1
        /\ DOMAIN Tail(k) = 1..(Len(k) - 1)
        /\ \A i \in 1..(Len(k) - 1) : Tail(k)[i] = k[i + 1]
    BY <1>1, <1>3
  <2>4. Head(k) \in Caller
    BY <1>1, <1>3
  <2>5. g.pc \in {"resume", "putref"}
    BY <2>2, <2>4 DEF Caller
  <2>6. \A i \in DOMAIN k : k[i].pc = "putref" => t = Sched /\ i = Len(k) /\ k[i].cmd \in Cmd
    BY DEF HandlerStack, Owed, k
  <2>7. g.pc = "putref" => t = Sched /\ g.k = <<>> /\ g.cmd \in Cmd
    <3>1. SUFFICES ASSUME g.pc = "putref" PROVE t = Sched /\ g.k = <<>> /\ g.cmd \in Cmd
      OBVIOUS
    <3>2. t = Sched /\ Len(k) = 1 /\ g.cmd \in Cmd
      BY <2>2, <2>3, <2>6, <3>1
    <3>3. Len(Tail(k)) = 0
      <4>1. Len(Tail(k)) = Len(k) - 1
        BY <2>3
      <4> QED
        BY <3>2, <4>1
    <3>4. Tail(k) = <<>>
      <4>1. Tail(k) # <<>> => Len(Tail(k)) \in Nat \ {0}
        BY <2>3, EmptySeq
      <4> QED
        BY <3>3, <4>1
    <3> QED
      BY <2>2, <3>2, <3>4
  <2>8. \A i \in DOMAIN g.k : i \in Nat /\ i + 1 \in DOMAIN k /\ g.k[i] = k[i + 1]
    BY <2>2, <2>3
  <2>9. \A i \in Owed(g) : t = Sched /\ i = Len(g.k) /\ g.k[i].cmd \in Cmd
    BY <2>2, <2>3, <2>6, <2>8 DEF Owed
  <2>10. HandlerStack(t, g)
    BY <2>5, <2>7, <2>9 DEF HandlerStack
  <2>11. ASSUME NEW v \in Vdev PROVE Holds(g, v) <=> Holds(th[t], v)
    <3>1. ASSUME Holds(g, v) PROVE Holds(th[t], v)
      <4>1. CASE g.pc = "putref" /\ VdevOf[g.cmd] = v
        BY <2>2, <2>3, <4>1 DEF Holds, k
      <4>2. ASSUME NEW i \in DOMAIN g.k, g.k[i].pc = "putref", VdevOf[g.k[i].cmd] = v
            PROVE  Holds(th[t], v)
        BY <2>8, <4>2 DEF Holds, k
      <4> QED
        BY <3>1, <4>1, <4>2 DEF Holds
    <3>2. ASSUME Holds(th[t], v) PROVE Holds(g, v)
      <4>1. PICK i \in DOMAIN k : k[i].pc = "putref" /\ VdevOf[k[i].cmd] = v
        BY <3>2 DEF Holds, k
      <4>2. CASE i = 1
        BY <2>2, <2>3, <4>1, <4>2 DEF Holds
      <4>3. CASE i # 1
        <5>1. i - 1 \in DOMAIN g.k /\ g.k[i - 1] = k[i]
          BY <2>2, <2>3, <4>1, <4>3
        <5> QED
          BY <4>1, <5>1 DEF Holds
      <4> QED
        BY <4>2, <4>3
    <3> QED
      BY <3>1, <3>2
  <2> QED
    BY <1>0, <2>1, <2>5, <2>10, <2>11 DEF SameDebt, Expiring
<1> QED
  BY <1>2, <1>3

\* The walk of the whole pending list calls wlan_serialization_activate_cmd.
LEMMA StackPush ==
  ASSUME NEW t \in Thread, NEW f \in ThreadType, NEW g, NEW e, HandlerStack(t, f),
         f.pc # "putref", e.pc # "putref", g.k = Cons(e, f.k),
         g.pc \notin {"idle", "putref", "dequeue"}
  PROVE  HandlerStack(t, g) /\ SameDebt(f, g)
<1> DEFINE k == f.k
<1>1. k \in Seq(Caller)
  BY DEF ThreadType
<1> HIDE DEF k
<1>2. /\ Len(k) \in Nat /\ DOMAIN k = 1..Len(k)
      /\ Len(g.k) = Len(k) + 1 /\ DOMAIN g.k = 1..(Len(k) + 1) /\ g.k[1] = e
      /\ \A i \in 1..Len(k) : g.k[i + 1] = k[i]
  <2>1. g.k = <<e>> \o k
    BY DEF Cons, k
  <2> QED
    BY <1>1, <2>1
<1>3. ASSUME NEW i \in DOMAIN g.k, g.k[i].pc = "putref"
      PROVE  i - 1 \in DOMAIN k /\ g.k[i] = k[i - 1]
  <2>1. i # 1
    BY <1>2, <1>3
  <2> QED
    BY <1>2, <1>3, <2>1
<1>4. \A i \in DOMAIN k : k[i].pc = "putref" => t = Sched /\ i = Len(k) /\ k[i].cmd \in Cmd
  BY DEF HandlerStack, Owed, k
<1>5. \A i \in Owed(g) : t = Sched /\ i = Len(g.k) /\ g.k[i].cmd \in Cmd
  BY <1>2, <1>3, <1>4 DEF Owed
<1>6. HandlerStack(t, g)
  BY <1>5 DEF HandlerStack
<1>7. ASSUME NEW v \in Vdev PROVE Holds(g, v) <=> Holds(f, v)
  <2>1. Holds(g, v) => Holds(f, v)
    BY <1>3 DEF Holds, k
  <2>2. Holds(f, v) => Holds(g, v)
    <3>1. \A i \in DOMAIN k : i + 1 \in DOMAIN g.k /\ g.k[i + 1] = k[i]
      BY <1>2
    <3> QED
      BY <3>1 DEF Holds, k
  <2> QED
    BY <2>1, <2>2
<1> QED
  BY <1>6, <1>7 DEF SameDebt

\* The thread returns to its caller.
LEMMA RefReturn ==
  ASSUME IndInv, TimedInv, RefInv, ExpiryUndisturbed, NEW t \in Thread,
         th[t].pc # "putref", Return(t), UNCHANGED <<timer, refs, timerMsgs>>,
         \A n \in ToSet(pactive) : cmd'[n] = cmd[n]
  PROVE  RefInv'
<1>1. ThreadsOK /\ HandlerStack(t, th[t])
  BY IndParts DEF RefInv
<1>2. /\ HandlerStack(t, th'[t]) /\ SameDebt(th[t], th'[t]) /\ ~Expiring(th'[t])
      /\ \A u \in Thread : u # t => th'[u] = th[u]
  BY <1>1, StackReturn
<1> QED
  BY <1>2, RefQuiet DEF SameDebt

\* The thread goes on inside its call.
LEMMA RefInside ==
  ASSUME TimedInv, RefInv, ExpiryUndisturbed, NEW t \in Thread,
         th[t].pc # "putref", th'[t].k = th[t].k, th'[t].pc \notin {"idle", "putref"},
         ~Expiring(th'[t]), \A u \in Thread : u # t => th'[u] = th[u],
         UNCHANGED <<timer, refs, timerMsgs>>, \A n \in ToSet(pactive) : cmd'[n] = cmd[n]
  PROVE  RefInv'
<1>1. HandlerStack(t, th[t])
  BY DEF RefInv
<1>2. HandlerStack(t, th'[t]) /\ SameDebt(th[t], th'[t])
  BY <1>1, StackSame
<1> QED
  BY <1>2, RefQuiet DEF SameDebt

\* A request starts no timer yet: the node it fills has none.
LEMMA RequestRef ==
  ASSUME IndInv, TimedInv, RefInv, ExpiryUndisturbed, NEW t \in Thread, NEW c \in Cmd,
         Request(t, c)
  PROVE  RefInv'
<1> USE IndParts
<1> DEFINE n == Head(pool)
<1>1. /\ th[t].pc = "idle" /\ UNCHANGED <<timer, refs, timerMsgs>>
      /\ cmd' = [cmd EXCEPT ![n] = c]
  BY DEF Request, CanRequest, At, timerVars
<1>2. n \in ToSet(pool)
  BY ToSetType DEF Request, QueueInv, QueueType
<1>3. \A m \in ToSet(pactive) : cmd'[m] = cmd[m]
  <2>1. ToSet(pactive) \subseteq Node /\ n \notin ToSet(pactive)
    BY <1>2, ToSetType DEF QueueInv, QueueType, NodesConserved
  <2> QED
    BY <1>1, <2>1 DEF QueueInv, QueueType
<1>4. HandlerStack(t, th[t]) /\ th[t].k = <<>>
  BY <1>1 DEF RefInv, HandlerStack
<1>5. CASE Goto(t, [Idle EXCEPT !.pc = "activate", !.node = n])
  <2>1. /\ th'[t].pc = "activate" /\ th'[t].k = <<>>
        /\ \A u \in Thread : u # t => th'[u] = th[u]
    BY <1>5 DEF Goto, ThreadsOK, Idle
  <2> HIDE DEF n
  <2> QED
    BY <1>1, <1>3, <1>4, <2>1, RefInside DEF Expiring
<1>6. CASE UNCHANGED th
  <2>1. ~Expiring(th'[t])
    BY <1>1, <1>6 DEF Expiring
  <2> QED
    BY <1>1, <1>3, <1>4, <1>6, <2>1, RefQuiet
<1> QED
  BY <1>5, <1>6 DEF Request

\* A timer is started: it holds a reference on the vdev of the command.
LEMMA StartRef ==
  ASSUME IndInv, TimedInv, RefInv, ExpiryUndisturbed, NEW t \in Thread, FindAndStartTimer(t)
  PROVE  RefInv'
<1> USE IndParts
<1> DEFINE n == th[t].node
           v == VdevOf[cmd[n]]
           free == {s \in Slot : timer[s] = NoNode}
<1>0. UNCHANGED <<pactive, cmd, timerMsgs>>
  BY DEF FindAndStartTimer, queueVars, nodeVars
<1>1. th[t].pc = "activate" /\ n \in Node /\ n # NoNode
  BY ConstantsAssumption DEF FindAndStartTimer, At, ThreadsOK, FrameOK
<1>2. n \in ToSet(pactive)
  BY <1>1 DEF Activating, MarkedHasOneActivator
<1>3. v \in Vdev
  BY <1>2, QueuedNode
<1>4. PICK ok \in BOOLEAN :
        /\ Goto(t, [th[t] EXCEPT !.pc = "activated", !.ok = ok])
        /\ \/ /\ free # {} /\ timer' = [timer EXCEPT ![Min(free)] = n]
              /\ refs' = [refs EXCEPT ![v] = @ + 1]
           \/ UNCHANGED <<timer, refs>>
  BY DEF FindAndStartTimer
<1>5. /\ th'[t].pc = "activated" /\ th'[t].k = th[t].k
      /\ \A u \in Thread : u # t => th'[u] = th[u]
  BY <1>4 DEF Goto, ThreadsOK, ThreadType
<1>6. HandlerStack(t, th'[t]) /\ SameDebt(th[t], th'[t]) /\ ~Expiring(th'[t])
  <2>1. HandlerStack(t, th[t])
    BY DEF RefInv
  <2> QED
    BY <1>1, <1>5, <2>1, StackSame DEF Expiring
<1> HIDE DEF n
<1>7. CASE UNCHANGED <<timer, refs>>
  BY <1>0, <1>5, <1>6, <1>7, RefQuiet DEF SameDebt
<1>8. CASE /\ free # {} /\ timer' = [timer EXCEPT ![Min(free)] = n]
           /\ refs' = [refs EXCEPT ![v] = @ + 1]
  <2> DEFINE new == Min(free)
  <2>1. new \in free
    <3>1. free \in SUBSET Nat
      BY ConstantsAssumption DEF Slot
    <3> QED
      BY <1>8, <3>1, MinIsFirst
  <2>2. new \in Slot /\ timer[new] = NoNode
    BY <2>1
  <2>3. \A s \in Slot : timer'[s] = IF s = new THEN n ELSE timer[s]
    BY <1>8, <2>2 DEF TimerType
  <2> HIDE DEF new
  <2>4. Balanced /\ refs \in [Vdev -> Int]
    BY BalanceForm DEF RefInv, Stacks, TimerType
  <2>5. \A w \in Vdev : OwedOn(w)' = OwedOn(w)
    BY <1>5, <1>6, ConstantsAssumption DEF OwedOn, Holds, SameDebt
  <2>6. ASSUME NEW w \in Vdev PROVE refs'[w] = Cardinality(TimersFor(w)') + OwedOn(w)
    <3>1. CASE w = v
      <4>1. TimersFor(w)' = TimersFor(w) \cup {new} /\ new \notin TimersFor(w)
        BY <1>0, <1>1, <2>2, <2>3, <3>1 DEF TimersFor
      <4>2. TimersFor(w) \subseteq Slot /\ IsFiniteSet(Slot)
        BY FS_Interval, ConstantsAssumption DEF TimersFor, Slot
      <4>3. IsFiniteSet(TimersFor(w))
        BY <4>2, FS_Subset
      <4>4. Cardinality(TimersFor(w)') = Cardinality(TimersFor(w)) + 1
        BY <4>1, <4>3, FS_AddElement
      <4>5. Cardinality(TimersFor(w)) \in Nat /\ OwedOn(w) \in Nat
        BY <4>3, FS_CardinalityType DEF OwedOn
      <4>6. refs'[w] = refs[w] + 1 /\ refs[w] = Cardinality(TimersFor(w)) + OwedOn(w)
        BY <1>3, <1>8, <2>4, <3>1 DEF Balanced
      <4> QED
        BY <4>4, <4>5, <4>6
    <3>2. CASE w # v
      <4>1. TimersFor(w)' = TimersFor(w)
        BY <1>0, <2>2, <2>3, <3>2 DEF TimersFor
      <4>2. refs'[w] = refs[w]
        BY <1>8, <2>4, <3>2
      <4> QED
        BY <2>4, <4>1, <4>2 DEF Balanced
    <3> QED
      BY <3>1, <3>2
  <2>7. Balanced'
    BY <2>5, <2>6 DEF Balanced
  <2>8. \A s \in Slot : timerMsgs'[s] <= MaxTimerMsgs
    BY <1>0 DEF RefInv
  <2> QED
    BY <1>5, <1>6, <2>7, <2>8, RefStep
<1> QED
  BY <1>4, <1>7, <1>8

\* The mark is turned into CMD_IS_ACTIVE, and what was asked for is looked at.
LEMMA ActivatedRef ==
  ASSUME IndInv, TimedInv, RefInv, ExpiryUndisturbed, NEW t \in Thread,
         ActivationDone(t) \/ CheckAfterActivation(t)
  PROVE  RefInv'
<1> USE IndParts
<1> DEFINE n == th[t].node
           next == [Idle EXCEPT !.node = n, !.k = th[t].k]
<1>1. /\ th[t].pc \in {"activated", "check"} /\ UNCHANGED <<timer, refs, timerMsgs>>
      /\ \A m \in ToSet(pactive) : cmd'[m] = cmd[m]
  BY DEF ActivationDone, CheckAfterActivation, At, timerVars, nodeVars
<1>2. ASSUME Return(t) PROVE RefInv'
  BY <1>1, <1>2, RefReturn
<1>3. ASSUME NEW f, Goto(t, f), f.pc \notin {"idle", "putref"}, f.k = th[t].k, ~Expiring(f)
      PROVE  RefInv'
  <2>1. th'[t] = f /\ \A u \in Thread : u # t => th'[u] = th[u]
    BY <1>3 DEF Goto, ThreadsOK
  <2> QED
    BY <1>1, <1>3, <2>1, RefInside
<1>4. CASE ActivationDone(t)
  <2> DEFINE f == [th[t] EXCEPT !.pc = "check"]
  <2>1. Goto(t, f) /\ f.pc = "check" /\ f.k = th[t].k
    BY <1>4 DEF ActivationDone, ThreadsOK, ThreadType
  <2> HIDE DEF f
  <2> QED
    BY <1>3, <2>1 DEF Expiring
<1>5. CASE CheckAfterActivation(t)
  <2> DEFINE f == [next EXCEPT !.pc = "dequeue", !.why = "FAILED"]
             g == [next EXCEPT !.pc = "dequeue", !.why = "REMOVE"]
             h == [next EXCEPT !.pc = "cancel", !.node = NoNode, !.req = CancelOne(cmd[n])]
  <2>1. Goto(t, f) \/ Goto(t, g) \/ Goto(t, h) \/ Return(t)
    BY <1>5 DEF CheckAfterActivation
  <2>2. /\ f.pc = "dequeue" /\ f.why = "FAILED" /\ f.k = th[t].k
        /\ g.pc = "dequeue" /\ g.why = "REMOVE" /\ g.k = th[t].k
        /\ h.pc = "cancel" /\ h.k = th[t].k
    BY DEF Idle
  <2> HIDE DEF f, g, h
  <2> QED
    BY <1>2, <1>3, <2>1, <2>2 DEF Expiring
<1> QED
  BY <1>4, <1>5

(***************************************************************************)
(* A node leaves the active list: its timer, if it has one, is no longer   *)
(* in use for the vdev, and the reference goes unless it is kept.          *)
(***************************************************************************)
LEMMA FreedTimers ==
  ASSUME IndInv, TimedInv, NEW n \in ToSet(pactive), NEW keepRef \in BOOLEAN, Frees(n, keepRef)
  PROVE  /\ \A w \in Vdev : w # VdevOf[cmd[n]] =>
              TimersFor(w)' = TimersFor(w) /\ refs'[w] = refs[w]
         /\ \A v \in Vdev : v = VdevOf[cmd[n]] =>
              /\ Cardinality(TimersFor(v)) \in Nat /\ Cardinality(TimersFor(v)') \in Nat
              /\ IF TimersOf(cmd[n]) = {}
                 THEN TimersFor(v)' = TimersFor(v) /\ refs'[v] = refs[v]
                 ELSE /\ Cardinality(TimersFor(v)') = Cardinality(TimersFor(v)) - 1
                      /\ refs'[v] = IF keepRef THEN refs[v] ELSE refs[v] - 1
<1> USE IndParts
<1> DEFINE T == TimersOf(cmd[n])
           x == Min(T)
<1>1. /\ T = {s \in Slot : timer[s] = n} /\ \A s, u \in T : s = u
      /\ T # {} => x \in T
  BY TimersOfNode
<1>2. n \in Node /\ n # NoNode /\ cmd[n] \in Cmd /\ VdevOf[cmd[n]] \in Vdev
  BY QueuedNode, ConstantsAssumption
<1>3. /\ timer \in [Slot -> Node \cup {NoNode}] /\ refs \in [Vdev -> Int]
      /\ cmd \in [Node -> Cmd \cup {NoCmd}] /\ cmd' = [cmd EXCEPT ![n] = NoCmd]
  BY DEF TimerType, QueueInv, QueueType, Frees
<1>4. FindAndStopTimer(cmd[n], keepRef)
  BY DEF Frees
<1> HIDE DEF T, x
<1>5. \A s \in Slot : timer'[s] = IF timer[s] = n THEN NoNode ELSE timer[s]
  <2>1. CASE T = {}
    BY <1>1, <1>3, <1>4, <2>1 DEF FindAndStopTimer, T
  <2>2. CASE T # {}
    <3>1. timer' = [timer EXCEPT ![x] = NoNode]
      BY <1>4, <2>2 DEF FindAndStopTimer, T, x
    <3>2. x \in Slot /\ \A s \in Slot : timer[s] = n <=> s = x
      BY <1>1, <2>2
    <3> QED
      BY <1>3, <3>1, <3>2
  <2> QED
    BY <2>1, <2>2
<1>6. \A s \in Slot : timer[s] # NoNode /\ timer[s] # n =>
        timer'[s] = timer[s] /\ cmd'[timer'[s]] = cmd[timer[s]]
  BY <1>3, <1>5
<1>7. \A w \in Vdev : TimersFor(w)' = TimersFor(w) \ T
  BY <1>1, <1>5, <1>6 DEF TimersFor
<1>8. \A w \in Vdev : IsFiniteSet(TimersFor(w)) /\ Cardinality(TimersFor(w)) \in Nat
  <2>1. IsFiniteSet(Slot)
    BY FS_Interval, ConstantsAssumption DEF Slot
  <2> QED
    BY <2>1, FS_Subset, FS_CardinalityType DEF TimersFor
<1>9. ASSUME NEW w \in Vdev, w # VdevOf[cmd[n]]
      PROVE  TimersFor(w)' = TimersFor(w) /\ refs'[w] = refs[w]
  <2>1. TimersFor(w) \cap T = {}
    BY <1>1, <1>9 DEF TimersFor
  <2>2. TimersFor(w)' = TimersFor(w)
    BY <1>7, <2>1
  <2>3. refs'[w] = refs[w]
    BY <1>2, <1>3, <1>4, <1>9 DEF FindAndStopTimer
  <2> QED
    BY <2>2, <2>3
<1>10. ASSUME NEW v \in Vdev, v = VdevOf[cmd[n]]
       PROVE  /\ Cardinality(TimersFor(v)) \in Nat /\ Cardinality(TimersFor(v)') \in Nat
              /\ IF T = {}
                 THEN TimersFor(v)' = TimersFor(v) /\ refs'[v] = refs[v]
                 ELSE /\ Cardinality(TimersFor(v)') = Cardinality(TimersFor(v)) - 1
                      /\ refs'[v] = IF keepRef THEN refs[v] ELSE refs[v] - 1
  <2>1. CASE T = {}
    <3>1. TimersFor(v)' = TimersFor(v)
      BY <1>7, <2>1
    <3>2. refs'[v] = refs[v]
      BY <1>4, <2>1 DEF FindAndStopTimer, T
    <3> QED
      BY <1>8, <2>1, <3>1, <3>2
  <2>2. CASE T # {}
    <3>1. T = {x} /\ x \in TimersFor(v)
      BY <1>1, <1>2, <1>10, <2>2 DEF TimersFor
    <3>2. TimersFor(v)' = TimersFor(v) \ {x}
      BY <1>7, <3>1
    <3>3. /\ Cardinality(TimersFor(v)') = Cardinality(TimersFor(v)) - 1
          /\ Cardinality(TimersFor(v)') \in Nat
      BY <1>8, <3>1, <3>2, FS_RemoveElement, FS_CardinalityType
    <3>4. refs' = IF keepRef THEN refs ELSE [refs EXCEPT ![VdevOf[cmd[n]]] = @ - 1]
      BY <1>4, <2>2 DEF FindAndStopTimer, T
    <3>5. refs'[v] = IF keepRef THEN refs[v] ELSE refs[v] - 1
      BY <1>3, <1>10, <3>4
    <3> QED
      BY <1>8, <2>2, <3>3, <3>5
  <2> QED
    BY <2>1, <2>2
<1> QED
  BY <1>9, <1>10 DEF T

\* A command is dequeued or cancelled before its timer expired.
LEMMA RefFree ==
  ASSUME IndInv, TimedInv, RefInv, ExpiryUndisturbed, NEW t \in Thread,
         NEW n \in ToSet(pactive), Frees(n, FALSE), th[t].pc # "putref",
         th'[t].k = th[t].k, th'[t].pc \notin {"idle", "putref", "dequeue"},
         \A u \in Thread : u # t => th'[u] = th[u]
  PROVE  RefInv'
<1> DEFINE T == TimersOf(cmd[n])
<1>1. HandlerStack(t, th'[t]) /\ SameDebt(th[t], th'[t]) /\ ~Expiring(th'[t])
  <2>1. HandlerStack(t, th[t]) /\ ~Expiring(th'[t])
    BY DEF RefInv, Expiring
  <2> QED
    BY <2>1, StackSame
<1>2. Balanced
  BY BalanceForm DEF RefInv, Stacks
<1>3. \A w \in Vdev : OwedOn(w)' = OwedOn(w) /\ OwedOn(w) \in Nat
  BY <1>1, ConstantsAssumption DEF OwedOn, Holds, SameDebt
<1>4. ASSUME NEW w \in Vdev PROVE refs'[w] = Cardinality(TimersFor(w)') + OwedOn(w)
  <2>1. refs[w] = Cardinality(TimersFor(w)) + OwedOn(w)
    BY <1>2 DEF Balanced
  <2>2. \/ TimersFor(w)' = TimersFor(w) /\ refs'[w] = refs[w]
        \/ /\ Cardinality(TimersFor(w)) \in Nat
           /\ Cardinality(TimersFor(w)') = Cardinality(TimersFor(w)) - 1
           /\ refs'[w] = refs[w] - 1
    BY FreedTimers
  <2> QED
    BY <1>3, <2>1, <2>2
<1>5. Balanced'
  BY <1>3, <1>4 DEF Balanced
<1>6. \A s \in Slot : timerMsgs'[s] <= MaxTimerMsgs
  BY DEF RefInv, Frees
<1> QED
  BY <1>1, <1>5, <1>6, RefStep

(***************************************************************************)
(* The handler of an expired timer dequeues the command: the timer no      *)
(* longer stands for the reference, and the handler owes its release.      *)
(***************************************************************************)
LEMMA RefKeep ==
  ASSUME IndInv, TimedInv, RefInv, ExpiryUndisturbed, NEW t \in Thread,
         NEW n \in ToSet(pactive), Frees(n, TRUE), Expiring(th[t]),
         cmd[n] = cmd[th[t].node], th'[t].pc = "move",
         th'[t].k = Cons([pc |-> "putref", left |-> 0, cmd |-> th[t].cmd], th[t].k),
         \A u \in Thread : u # t => th'[u] = th[u]
  PROVE  RefInv'
<1> USE IndParts
<1> DEFINE e == [pc |-> "putref", left |-> 0, cmd |-> th[t].cmd]
<1>1. /\ t = Sched /\ th[t].k = <<>> /\ th[t].cmd \in Cmd /\ th[t].pc = "dequeue"
      /\ cmd[th[t].node] = th[t].cmd /\ \E s \in Slot : timer[s] = th[t].node
  BY DEF RefInv, HandlerStack, ExpiryFresh, Expiring
<1>2. th[t].node \in Node /\ th[t].node # NoNode
  BY <1>1, ConstantsAssumption DEF ThreadsOK, FrameOK
<1>3. th[t].node = n
  <2>1. th[t].node \in ToSet(pactive)
    BY <1>1, <1>2 DEF TimedInv, TimersMatchActive
  <2> QED
    BY <2>1 DEF BitmapExact
<1>4. TimersOf(cmd[n]) # {}
  BY <1>1, <1>3, TimersOfNode
<1>5. th'[t].k = <<e>>
  <2>1. th'[t].k = <<e>> \o <<>>
    BY <1>1 DEF Cons
  <2> HIDE DEF e
  <2>2. <<e>> \in Seq({e})
    OBVIOUS
  <2>3. <<e>> \o <<>> = <<e>>
    BY <2>2, ConcatEmptySeq
  <2> QED
    BY <2>1, <2>3
<1>6. /\ DOMAIN th'[t].k = {1} /\ Len(th'[t].k) = 1 /\ th'[t].k[1] = e
      /\ e.pc = "putref" /\ e.cmd = th[t].cmd
  BY <1>5
<1> HIDE DEF e
<1>7. HandlerStack(t, th'[t]) /\ ~Expiring(th'[t])
  BY <1>1, <1>6 DEF HandlerStack, Owed, Expiring
<1>8. \A w \in Vdev : Holds(th'[t], w) <=> w = VdevOf[cmd[n]]
  BY <1>1, <1>3, <1>6 DEF Holds
<1>9. \A w \in Vdev : ~Holds(th[t], w)
  BY <1>1 DEF Holds
<1>10. \A w \in Vdev :
         OwedOn(w) = 0 /\ OwedOn(w)' = IF w = VdevOf[cmd[n]] THEN 1 ELSE 0
  <2>1. \A w \in Vdev : OwedOn(w) = 0
    BY <1>1, <1>9 DEF OwedOn
  <2>2. \A w \in Vdev : OwedOn(w)' = IF Holds(th'[t], w) THEN 1 ELSE 0
    BY <1>1 DEF OwedOn, Holds
  <2> QED
    BY <1>8, <2>1, <2>2
<1>11. Balanced
  BY BalanceForm DEF RefInv, Stacks
<1>12. ASSUME NEW w \in Vdev PROVE refs'[w] = Cardinality(TimersFor(w)') + OwedOn(w)'
  <2>1. refs[w] = Cardinality(TimersFor(w)) + 0
    BY <1>10, <1>11 DEF Balanced
  <2>2. CASE w = VdevOf[cmd[n]]
    <3>1. /\ Cardinality(TimersFor(w)) \in Nat
          /\ Cardinality(TimersFor(w)') = Cardinality(TimersFor(w)) - 1
          /\ refs'[w] = refs[w]
      BY <1>4, <2>2, FreedTimers
    <3>2. OwedOn(w)' = 1
      BY <1>10, <2>2
    <3> QED
      BY <2>1, <3>1, <3>2
  <2>3. CASE w # VdevOf[cmd[n]]
    <3>1. TimersFor(w)' = TimersFor(w) /\ refs'[w] = refs[w]
      BY <2>3, FreedTimers
    <3>2. OwedOn(w)' = 0
      BY <1>10, <2>3
    <3> QED
      BY <2>1, <3>1, <3>2
  <2> QED
    BY <2>2, <2>3
<1>13. Balanced'
  BY <1>12 DEF Balanced
<1>14. \A s \in Slot : timerMsgs'[s] <= MaxTimerMsgs
  BY DEF RefInv, Frees
<1> QED
  BY <1>7, <1>13, <1>14, RefStep

\* wlan_serialization_remove_cmd, and the dequeue of a node by its holder.
LEMMA DequeueRef ==
  ASSUME IndInv, TimedInv, RefInv, ExpiryUndisturbed, NEW t \in Thread,
         (\E c \in Cmd : RemoveCmd(t, c)) \/ DequeueNode(t)
  PROVE  RefInv'
<1> USE IndParts
<1>1. ASSUME NEW c \in Cmd \cup {NoCmd}, NEW why, NEW timedOut, DequeueCmd(t, c, why, timedOut),
             th[t].pc # "putref",
             why = "TIMEOUT" => Expiring(th[t]) /\ c = cmd[th[t].node] /\ timedOut = th[t].cmd
      PROVE  RefInv'
  <2>1. ASSUME Return(t), UNCHANGED <<cmd, timerVars>> PROVE RefInv'
    BY <1>1, <2>1, RefReturn DEF timerVars
  <2>2. ASSUME NEW n \in ToSet(pactive), cmd[n] = c, Frees(n, why = "TIMEOUT"),
               th'[t].pc = "move", \A u \in Thread : u # t => th'[u] = th[u],
               th'[t].k = IF why = "TIMEOUT"
                          THEN Cons([pc |-> "putref", left |-> 0, cmd |-> timedOut], th[t].k)
                          ELSE th[t].k
        PROVE  RefInv'
    <3>1. CASE why = "TIMEOUT"
      <4>1. Frees(n, TRUE)
        <5>1. (why = "TIMEOUT") = TRUE
          BY <3>1
        <5> QED
          BY <2>2, <5>1
      <4>2. th'[t].k = Cons([pc |-> "putref", left |-> 0, cmd |-> th[t].cmd], th[t].k)
        BY <1>1, <2>2, <3>1
      <4> QED
        BY <1>1, <2>2, <3>1, <4>1, <4>2, RefKeep
    <3>2. CASE why # "TIMEOUT"
      <4>1. Frees(n, FALSE)
        <5>1. (why = "TIMEOUT") = FALSE
          BY <3>2
        <5> QED
          BY <2>2, <5>1
      <4> QED
        BY <1>1, <2>2, <3>2, <4>1, RefFree
    <3> QED
      BY <3>1, <3>2
  <2>3. \/ Return(t) /\ UNCHANGED <<cmd, timerVars>>
        \/ \E n \in ToSet(pactive) :
             /\ cmd[n] = c /\ Frees(n, why = "TIMEOUT") /\ th'[t].pc = "move"
             /\ th'[t].k = IF why = "TIMEOUT"
                           THEN Cons([pc |-> "putref", left |-> 0, cmd |-> timedOut], th[t].k)
                           ELSE th[t].k
             /\ \A u \in Thread : u # t => th'[u] = th[u]
    BY <1>1, DequeueCmdEffect DEF nodeVars
  <2> QED
    BY <2>1, <2>2, <2>3
<1>2. ASSUME NEW c \in Cmd, RemoveCmd(t, c) PROVE RefInv'
  <2>1. th[t].pc = "idle" /\ DequeueCmd(t, c, "REMOVE", NoCmd)
    BY <1>2 DEF RemoveCmd, At
  <2> QED
    BY <1>1, <2>1
<1>3. CASE DequeueNode(t)
  <2>1. th[t].pc = "dequeue" /\ DequeueCmd(t, cmd[th[t].node], th[t].why, th[t].cmd)
    BY <1>3 DEF DequeueNode, At
  <2>2. th[t].node \in Node
    BY <2>1 DEF ThreadsOK, FrameOK
  <2>3. cmd[th[t].node] \in Cmd \cup {NoCmd}
    BY <2>2 DEF QueueInv, QueueType
  <2> QED
    BY <1>1, <2>1, <2>3 DEF Expiring
<1> QED
  BY <1>2, <1>3

\* The moves of pending commands.
LEMMA MoveRef ==
  ASSUME IndInv, TimedInv, RefInv, ExpiryUndisturbed, NEW t \in Thread,
         MovePendingToActive(t) \/ MoveNext(t)
  PROVE  RefInv'
<1> USE IndParts
<1>1. /\ th[t].pc \in {"move", "resume"} /\ UNCHANGED <<timer, refs, timerMsgs>>
      /\ \A m \in ToSet(pactive) : cmd'[m] = cmd[m]
  BY DEF MovePendingToActive, MoveNext, At, timerVars
<1>2. ASSUME Return(t) PROVE RefInv'
  BY <1>1, <1>2, RefReturn
<1>3. ASSUME NEW list \in Seq(Node), NEW budget \in Nat, NEW byVdev,
             ToSet(list) \subseteq ToSet(ppending), MoveLoop(t, list, budget, byVdev)
      PROVE  RefInv'
  <2>1. ASSUME NEW i \in Nat, th'[t].pc = "activate",
               th'[t].k = IF byVdev THEN th[t].k
                          ELSE Cons([pc |-> "resume", cmd |-> NoCmd, left |-> budget - i],
                                    th[t].k),
               \A u \in Thread : u # t => th'[u] = th[u]
        PROVE  RefInv'
    <3>1. HandlerStack(t, th[t]) /\ th[t] \in ThreadType /\ ~Expiring(th'[t])
      BY <2>1 DEF RefInv, ThreadsOK, Expiring
    <3>2. HandlerStack(t, th'[t]) /\ SameDebt(th[t], th'[t])
      <4>1. CASE byVdev
        BY <1>1, <2>1, <3>1, <4>1, StackSame
      <4>2. CASE ~byVdev
        <5> DEFINE e == [pc |-> "resume", cmd |-> NoCmd, left |-> budget - i]
        <5>1. th'[t].k = Cons(e, th[t].k) /\ e.pc = "resume"
          BY <2>1, <4>2
        <5> HIDE DEF e
        <5> QED
          BY <1>1, <2>1, <3>1, <5>1, StackPush
      <4> QED
        BY <4>1, <4>2
    <3> QED
      BY <1>1, <2>1, <3>1, <3>2, RefQuiet DEF SameDebt
  <2>2. \/ Return(t)
        \/ \E i \in Nat :
             /\ th'[t].pc = "activate"
             /\ th'[t].k = IF byVdev THEN th[t].k
                           ELSE Cons([pc |-> "resume", cmd |-> NoCmd, left |-> budget - i],
                                     th[t].k)
             /\ \A u \in Thread : u # t => th'[u] = th[u]
    BY <1>3, MoveLoopEffect
  <2> QED
    BY <1>2, <2>1, <2>2
<1>4. CASE MovePendingToActive(t)
  <2> DEFINE c == th[t].cmd
             byVdev == c \notin Blocking /\ waiting = 0
             list == IF byVdev THEN vpending[VdevOf[c]] ELSE ppending
  <2>1. th[t].pc = "move" /\ MoveLoop(t, list, Len(list), byVdev)
    BY <1>4 DEF MovePendingToActive, At
  <2>2. c \in Cmd /\ VdevOf[c] \in Vdev
    BY <2>1, ConstantsAssumption DEF ThreadsOK, FrameOK
  <2> HIDE DEF c
  <2>3. /\ vpending[VdevOf[c]] \in Seq(Node) /\ ppending \in Seq(Node)
        /\ ToSet(vpending[VdevOf[c]]) \subseteq ToSet(ppending)
    BY <2>2 DEF QueueInv, QueueType, MembersAgree
  <2>4. list \in Seq(Node) /\ ToSet(list) \subseteq ToSet(ppending)
    BY <2>3
  <2>5. Len(list) \in Nat
    BY <2>4, LenProperties
  <2> HIDE DEF list, byVdev
  <2> QED
    BY <1>3, <2>1, <2>4, <2>5
<1>5. CASE MoveNext(t)
  <2>1. CASE MoveLoop(t, ppending, th[t].left, FALSE)
    <3>1. ppending \in Seq(Node) /\ th[t].left \in Nat
      BY DEF QueueInv, QueueType, ThreadsOK, ThreadType
    <3> QED
      BY <1>3, <2>1, <3>1
  <2> QED
    BY <1>2, <1>5, <2>1 DEF MoveNext
<1> QED
  BY <1>4, <1>5

\* Cancels: a timer is stopped with its reference, or none is touched.
LEMMA CancelRef ==
  ASSUME IndInv, TimedInv, RefInv, ExpiryUndisturbed, NEW t \in Thread,
         \/ \E r \in CancelReqs : CancelRequest(t, r)
         \/ CancelQueue(t) \/ CancelNext(t)
  PROVE  RefInv'
<1> USE IndParts
<1>1. th[t].pc \in {"idle", "cancel", "cancelled"}
  BY DEF CancelRequest, CancelQueue, CancelNext, At
<1>2. ASSUME NEW r \in CancelReqType, Return(t) \/ NextQueue(t, r), UNCHANGED <<cmd, timerVars>>
      PROVE  RefInv'
  <2>1. CASE Return(t)
    BY <1>1, <1>2, <2>1, RefReturn DEF timerVars
  <2>2. CASE ~Return(t)
    <3> DEFINE f == [Idle EXCEPT !.pc = "cancel", !.k = th[t].k,
                                 !.req = [r EXCEPT !.queues = Tail(@)]]
    <3>1. Goto(t, f)
      BY <1>2, <2>2 DEF NextQueue
    <3>2. f.pc = "cancel" /\ f.k = th[t].k
      BY DEF Idle
    <3> HIDE DEF f
    <3>3. th'[t] = f /\ \A u \in Thread : u # t => th'[u] = th[u]
      BY <3>1 DEF Goto, ThreadsOK
    <3> QED
      BY <1>1, <1>2, <3>2, <3>3, RefInside DEF Expiring, timerVars
  <2> QED
    BY <2>1, <2>2
<1>3. ASSUME NEW r \in CancelReqType, NEW prev \in Node \cup {NoNode}, NEW budget \in Nat,
             CancelLoop(t, r, prev, budget)
      PROVE  RefInv'
  <2>1. ASSUME NEW n \in ToSet(pactive), Frees(n, FALSE), Cancelled(t, r, cmd[n])
        PROVE  RefInv'
    BY <1>1, <2>1, RefFree DEF Cancelled
  <2>2. ASSUME NEW n \in ToSet(ppending), Cancelled(t, r, cmd[n]),
               cmd' = [cmd EXCEPT ![n] = NoCmd], UNCHANGED timerVars
        PROVE  RefInv'
    <3>1. ToSet(pactive) \subseteq Node /\ n \notin ToSet(pactive)
      BY ToSetType DEF QueueInv, QueueType, NodesConserved
    <3>2. \A m \in ToSet(pactive) : cmd'[m] = cmd[m]
      BY <2>2, <3>1 DEF QueueInv, QueueType
    <3> QED
      BY <1>1, <2>2, <3>2, RefInside DEF Cancelled, Expiring, timerVars
  <2>3. \/ UNCHANGED <<cmd, timerVars>> /\ (Return(t) \/ NextQueue(t, r))
        \/ \E n \in ToSet(pactive) : Frees(n, FALSE) /\ Cancelled(t, r, cmd[n])
        \/ \E n \in ToSet(ppending) : /\ Cancelled(t, r, cmd[n]) /\ UNCHANGED timerVars
                                      /\ cmd' = [cmd EXCEPT ![n] = NoCmd]
    BY <1>3, CancelLoopEffect
  <2> QED
    BY <1>2, <2>1, <2>2, <2>3
<1>4. \A r \in CancelReqType : QueueLen(r) \in Nat
  BY LenProperties DEF QueueLen, QueueInv, QueueType
<1>5. th[t].req \in CancelReqType /\ th[t].left \in Nat /\ th[t].node \in Node \cup {NoNode}
  BY DEF ThreadsOK, ThreadType
<1>6. ASSUME NEW r \in CancelReqs, CancelRequest(t, r) PROVE RefInv'
  BY <1>3, <1>4, <1>6, ConstantsAssumption DEF CancelRequest
<1>7. CASE CancelQueue(t)
  BY <1>3, <1>4, <1>5, <1>7 DEF CancelQueue
<1>8. CASE CancelNext(t)
  <2>1. CASE NextQueue(t, th[t].req) /\ UNCHANGED <<queueVars, nodeVars, timerVars, bug>>
    BY <1>2, <1>5, <2>1 DEF nodeVars
  <2>2. CASE CancelLoop(t, th[t].req, th[t].node, th[t].left)
    BY <1>3, <1>5, <2>2
  <2> QED
    BY <1>8, <2>1, <2>2 DEF CancelNext
<1> QED
  BY <1>6, <1>7, <1>8

\* No thread moves, no timer is started or stopped.
LEMMA RefStill ==
  ASSUME RefInv, UNCHANGED <<th, cmd, timer, refs>>,
         \A s \in Slot : timerMsgs'[s] <= MaxTimerMsgs
  PROVE  RefInv'
<1>1. RefsBalanced'
  BY DEF RefInv, RefsBalanced, HandlersHolding
<1>2. ExpiryFresh'
  BY DEF RefInv, ExpiryFresh
<1>3. \A t \in Thread : HandlerStack(t, th[t])'
  BY DEF RefInv, HandlerStack, Owed
<1> QED
  BY <1>1, <1>2, <1>3 DEF RefInv

\* The scheduler thread takes up an expired timer: nothing is owed yet.
LEMMA ExpiryRef ==
  ASSUME IndInv, TimedInv, RefInv, NEW s \in Slot, GenericTimerCb(s)
  PROVE  RefInv'
<1> USE IndParts
<1> DEFINE f == [Idle EXCEPT !.pc = "dequeue", !.node = timer[s],
                             !.cmd = cmd[timer[s]], !.why = "TIMEOUT"]
<1>1. /\ Sched \in Thread /\ th[Sched].pc = "idle" /\ UNCHANGED <<cmd, timer, refs>>
      /\ timerMsgs[s] > 0 /\ timerMsgs' = [timerMsgs EXCEPT ![s] = @ - 1]
  BY ConstantsAssumption DEF GenericTimerCb, At, nodeVars
<1>2. timerMsgs \in [Slot -> Nat] /\ MaxTimerMsgs \in Nat /\ \A u \in Slot : timerMsgs[u] <= MaxTimerMsgs
  BY ConstantsAssumption DEF TimerType, RefInv
<1>3. MaxTimerMsgs # 0 /\ \A u \in Slot : timerMsgs'[u] <= MaxTimerMsgs
  BY <1>1, <1>2
<1>4. CASE UNCHANGED th
  BY <1>1, <1>3, <1>4, RefStill
<1>5. CASE timer[s] # NoNode /\ cmd[timer[s]] # NoCmd /\ Goto(Sched, f)
  <2>1. /\ f.pc = "dequeue" /\ f.why = "TIMEOUT" /\ f.k = <<>>
        /\ f.node = timer[s] /\ f.cmd = cmd[timer[s]]
    BY DEF Idle
  <2> HIDE DEF f
  <2>2. th'[Sched] = f /\ \A u \in Thread : u # Sched => th'[u] = th[u]
    BY <1>1, <1>5 DEF Goto, ThreadsOK
  <2>3. f.cmd \in Cmd
    <3>1. timer[s] \in Node
      BY <1>5 DEF TimerType
    <3> QED
      BY <1>5, <2>1, <3>1 DEF QueueInv, QueueType
  <2>4. HandlerStack(Sched, f)
    BY <2>1, <2>3 DEF HandlerStack, Owed
  <2>5. Stacks'
    <3>1. \A u \in Thread : HandlerStack(u, th'[u])
      BY <2>2, <2>4 DEF RefInv
    <3> QED
      BY <3>1 DEF Stacks, HandlerStack, Owed
  <2>6. ExpiryFresh'
    <3>1. ASSUME NEW u \in Thread, th'[u].pc = "dequeue", th'[u].why = "TIMEOUT"
          PROVE  /\ MaxTimerMsgs # 0 /\ cmd[th'[u].node] = th'[u].cmd
                 /\ \E x \in Slot : timer[x] = th'[u].node
      <4>1. CASE u = Sched
        BY <1>3, <2>1, <2>2, <4>1
      <4>2. CASE u # Sched
        BY <2>2, <3>1, <4>2 DEF RefInv, ExpiryFresh
      <4> QED
        BY <4>1, <4>2
    <3> QED
      BY <1>1, <3>1 DEF ExpiryFresh
  <2>7. Balanced
    BY BalanceForm DEF RefInv, Stacks
  <2>8. th[Sched].k = <<>>
    BY <1>1 DEF RefInv, HandlerStack
  <2>9. \A v \in Vdev : ~Holds(f, v) /\ ~Holds(th[Sched], v)
    BY <1>1, <2>1, <2>8 DEF Holds
  <2>10. \A v \in Vdev : OwedOn(v)' = OwedOn(v)
    BY <2>2, <2>9 DEF OwedOn, Holds
  <2>11. Balanced'
    BY <1>1, <2>7, <2>10 DEF Balanced, TimersFor
  <2>12. RefsBalanced'
    BY <2>5, <2>11, BalanceFormPrime
  <2> QED
    BY <1>3, <2>5, <2>6, <2>12 DEF RefInv, Stacks
<1> QED
  BY <1>4, <1>5 DEF GenericTimerCb

\* The handler is done and releases the reference it kept.
LEMMA ReleasedRef ==
  ASSUME IndInv, TimedInv, RefInv, ExpiryUndisturbed, NEW t \in Thread, ReleaseRef(t)
  PROVE  RefInv'
<1> USE IndParts
<1> DEFINE v == VdevOf[th[t].cmd]
<1>1. /\ th[t].pc = "putref" /\ Return(t) /\ UNCHANGED <<cmd, timer, timerMsgs>>
      /\ refs' = [refs EXCEPT ![v] = @ - 1] /\ refs \in [Vdev -> Int]
  BY DEF ReleaseRef, At, nodeVars, TimerType
<1>2. t = Sched /\ th[t].k = <<>> /\ th[t].cmd \in Cmd
  BY <1>1 DEF RefInv, HandlerStack
<1>3. v \in Vdev
  BY <1>2, ConstantsAssumption
<1>4. th'[t] = Idle /\ \A u \in Thread : u # t => th'[u] = th[u]
  BY <1>1, <1>2 DEF Return, Goto, ThreadsOK
<1>5. Idle.pc = "idle" /\ Idle.k = <<>>
  BY DEF Idle
<1>6. HandlerStack(t, th'[t]) /\ ~Expiring(th'[t])
  BY <1>4, <1>5 DEF HandlerStack, Owed, Expiring
<1>7. \A w \in Vdev : (Holds(th[t], w) <=> w = v) /\ ~Holds(th'[t], w)
  BY <1>1, <1>2, <1>4, <1>5 DEF Holds
<1> HIDE DEF v
<1>8. \A w \in Vdev : OwedOn(w) = (IF w = v THEN 1 ELSE 0) /\ OwedOn(w)' = 0
  <2>1. \A w \in Vdev : OwedOn(w)' = IF Holds(th'[t], w) THEN 1 ELSE 0
    BY <1>2 DEF OwedOn, Holds
  <2> QED
    BY <1>2, <1>7, <2>1 DEF OwedOn
<1>9. Balanced
  BY BalanceForm DEF RefInv, Stacks
<1>10. ASSUME NEW w \in Vdev PROVE refs'[w] = Cardinality(TimersFor(w)') + OwedOn(w)'
  <2>1. TimersFor(w)' = TimersFor(w)
    BY <1>1 DEF TimersFor
  <2>2. Cardinality(TimersFor(w)) \in Nat
    <3>1. IsFiniteSet(Slot) /\ TimersFor(w) \subseteq Slot
      BY FS_Interval, ConstantsAssumption DEF Slot, TimersFor
    <3> QED
      BY <3>1, FS_Subset, FS_CardinalityType
  <2>3. refs[w] = Cardinality(TimersFor(w)) + IF w = v THEN 1 ELSE 0
    BY <1>8, <1>9 DEF Balanced
  <2>4. refs'[w] = IF w = v THEN refs[w] - 1 ELSE refs[w]
    BY <1>1
  <2>5. OwedOn(w)' = 0
    BY <1>8
  <2> QED
    BY <2>1, <2>2, <2>3, <2>4, <2>5
<1>11. Balanced'
  BY <1>10 DEF Balanced
<1>12. \A s \in Slot : timerMsgs'[s] <= MaxTimerMsgs
  BY <1>1 DEF RefInv
<1> QED
  BY <1>4, <1>6, <1>11, <1>12, RefStep

\* The timers that expire, and the steps that start and stop none.
LEMMA OtherRef ==
  ASSUME IndInv, RefInv,
         \/ \E t \in Thread, c \in Cmd : RequestRefused(t, c)
         \/ \E s \in Slot : TimerHandler(s)
         \/ \E c \in Cmd : UpdateTimer(c)
         \/ \E v \in Vdev : VdevQueueDisable(v) \/ VdevDelete(v)
         \/ UNCHANGED vars
  PROVE  RefInv'
<1>1. UNCHANGED <<th, cmd, timer, refs>>
  BY DEF RequestRefused, TimerHandler, UpdateTimer, VdevQueueDisable, VdevDelete, vars,
         nodeVars, timerVars
<1>2. /\ timerMsgs \in [Slot -> Nat] /\ MaxTimerMsgs \in Nat
      /\ \A s \in Slot : timerMsgs[s] <= MaxTimerMsgs
  BY IndParts, ConstantsAssumption DEF TimerType, RefInv
<1>3. ASSUME NEW s \in Slot, TimerHandler(s), NEW u \in Slot
      PROVE  timerMsgs'[u] <= MaxTimerMsgs
  <2>1. timerMsgs[s] < MaxTimerMsgs
    BY <1>3 DEF TimerHandler
  <2>2. CASE timerMsgs' = [timerMsgs EXCEPT ![s] = @ + 1]
    BY <1>2, <2>1, <2>2
  <2>3. CASE UNCHANGED timerMsgs
    BY <1>2, <2>3
  <2> QED
    BY <1>3, <2>2, <2>3 DEF TimerHandler
<1>4. (\E s \in Slot : TimerHandler(s)) \/ UNCHANGED timerMsgs
  BY DEF RequestRefused, UpdateTimer, VdevQueueDisable, VdevDelete, vars, timerVars
<1>5. \A s \in Slot : timerMsgs'[s] <= MaxTimerMsgs
  BY <1>2, <1>3, <1>4
<1> QED
  BY <1>1, <1>5, RefStill

-----------------------------------------------------------------------------
\* Every step keeps the references in balance.
LEMMA NextRef ==
  ExpiryUndisturbed /\ IndInv /\ TimedInv /\ RefInv /\ [Next]_vars => RefInv'
<1> SUFFICES ASSUME ExpiryUndisturbed, IndInv, TimedInv, RefInv, [Next]_vars PROVE RefInv'
  OBVIOUS
<1>1. ASSUME NEW t \in Thread, NEW c \in Cmd, Request(t, c) PROVE RefInv'
  BY <1>1, RequestRef
<1>2. ASSUME NEW t \in Thread, (\E c \in Cmd : RemoveCmd(t, c)) \/ DequeueNode(t)
      PROVE  RefInv'
  BY <1>2, DequeueRef
<1>3. ASSUME NEW t \in Thread,
             (\E r \in CancelReqs : CancelRequest(t, r)) \/ CancelQueue(t) \/ CancelNext(t)
      PROVE  RefInv'
  BY <1>3, CancelRef
<1>4. ASSUME NEW t \in Thread, MovePendingToActive(t) \/ MoveNext(t) PROVE RefInv'
  BY <1>4, MoveRef
<1>5. ASSUME NEW t \in Thread, FindAndStartTimer(t) PROVE RefInv'
  BY <1>5, StartRef
<1>6. ASSUME NEW t \in Thread, ActivationDone(t) \/ CheckAfterActivation(t) PROVE RefInv'
  BY <1>6, ActivatedRef
<1>7. ASSUME NEW s \in Slot, GenericTimerCb(s) PROVE RefInv'
  BY <1>7, ExpiryRef
<1>8. ASSUME NEW t \in Thread, ReleaseRef(t) PROVE RefInv'
  BY <1>8, ReleasedRef
<1>9. ASSUME \/ \E t \in Thread, c \in Cmd : RequestRefused(t, c)
             \/ \E s \in Slot : TimerHandler(s)
             \/ \E c \in Cmd : UpdateTimer(c)
             \/ \E v \in Vdev : VdevQueueDisable(v) \/ VdevDelete(v)
             \/ UNCHANGED vars
      PROVE  RefInv'
  BY <1>9, OtherRef
<1> QED
  BY <1>1, <1>2, <1>3, <1>4, <1>5, <1>6, <1>7, <1>8, <1>9 DEF Next, Step, Lost

\* At first no timer is in use and nothing is owed.
LEMMA InitRef == Init => RefInv
<1> SUFFICES ASSUME Init PROVE RefInv
  OBVIOUS
<1>1. \A t \in Thread : th[t].pc = "idle" /\ th[t].k = <<>>
  BY DEF Init, Idle
<1>2. Stacks
  BY <1>1 DEF Stacks, HandlerStack, Owed
<1>3. Balanced
  <2>1. \A v \in Vdev : TimersFor(v) = {}
    BY DEF Init, TimersFor
  <2>2. \A v \in Vdev : OwedOn(v) = 0
    BY <1>1, ConstantsAssumption DEF OwedOn, Holds
  <2>3. Cardinality({}) = 0
    BY FS_EmptySet
  <2>4. \A v \in Vdev : Cardinality(TimersFor(v)) = 0
    BY <2>1, <2>3
  <2>5. \A v \in Vdev : refs[v] = 0
    BY DEF Init
  <2> QED
    BY <2>2, <2>4, <2>5 DEF Balanced
<1>4. RefsBalanced
  BY <1>2, <1>3, BalanceForm
<1>5. \A s \in Slot : timerMsgs[s] <= MaxTimerMsgs
  BY ConstantsAssumption DEF Init
<1> QED
  BY <1>1, <1>2, <1>4, <1>5 DEF RefInv, ExpiryFresh, Stacks

(***************************************************************************)
(* For any number of timers, vdevs and commands: the references held on a  *)
(* vdev are those of its timers in use and the one a handler has yet to    *)
(* release, through requests, removals, cancels, timeouts, failed posts    *)
(* and vdevs being deleted.  The hypothesis is that no thread comes in     *)
(* between the expiry and the dequeue: one thread, or timers that do not   *)
(* expire.  With both, the node may hold a command of another vdev by then *)
(* and wlan_serialization_generic_timer_cb releases the wrong reference.   *)
(***************************************************************************)
THEOREM ReferencesBalance == ExpiryUndisturbed => (Spec => []RefsBalanced)
<1> SUFFICES ASSUME ExpiryUndisturbed PROVE Spec => []RefsBalanced
  OBVIOUS
<1>1. IndInv /\ TimedInv /\ RefInv /\ [Next]_vars => IndInv' /\ TimedInv' /\ RefInv'
  BY NextIndInv, NextTimed, NextRef
<1>2. Init => IndInv /\ TimedInv /\ RefInv
  BY InitIndInv, InitTimed, InitRef
<1>3. RefInv => RefsBalanced
  BY DEF RefInv
<1> QED
  BY <1>1, <1>2, <1>3, PTL DEF Spec
=============================================================================
