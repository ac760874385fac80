----------------------------- MODULE SerNonScan -----------------------------
(***************************************************************************)
(* The non-scan command queues of one pdev of the serialization component  *)
(* (umac/cmn_services/serialization).  A client asks for a command to be   *)
(* run on a vdev; the component keeps at most one command per vdev active, *)
(* and runs a blocking command only when no other vdev runs one.           *)
(*                                                                         *)
(* Grain of atomicity: one action per section of code that holds           *)
(* pdev_queue_lock (or timer_lock).  The callbacks of a command run with   *)
(* no lock held, so everything else can happen between two actions of a    *)
(* thread.  A client that calls the component from inside a callback is    *)
(* seen as a call by another thread at that moment.                        *)
(***************************************************************************)
EXTENDS Lists

CONSTANTS
  Cmd,             \* commands, one per (cmd_id, cmd_type, vdev)
  Vdev,            \* the vdevs of the pdev
  Node,            \* the entries of cmd_pool_list
  Thread,          \* contexts that call the component
  Sched,           \* the scheduler thread, on which expired timers are handled
  NTimers,         \* psoc max_active_cmds, the number of timers
  VdevOf,          \* vdev of a command
  IdType,          \* (cmd_id, cmd_type) of a command, its vdev left out
  Blocking,        \* commands with is_blocking
  HighPriority,    \* commands with is_high_priority
  QueueDisabling,  \* commands with queue_disable
  CancelReqs,      \* the cancel and purge requests clients make
  Doomed,          \* vdevs that get deleted while commands are queued
  PdevActiveMax, PdevPendingMax, VdevActiveMax, VdevPendingMax,
  MaxWaiting,      \* bound on the growth of blocking_cmd_waiting
  MaxDepth,        \* no request arrives while a call is nested this deep
  MaxTimerMsgs,    \* bound on unhandled expiry messages per timer, 0: no expiry
  PostMayFail,     \* may scheduler_post_message fail?
  NoNode, NoCmd

Slot == 1..NTimers

(***************************************************************************)
(* A cancel request: the commands it matches, whether it stops after one,  *)
(* and the queues it walks, in order.                                      *)
(***************************************************************************)
CancelReqType ==
  [match: SUBSET Cmd, single: BOOLEAN, queues: Seq({"active", "pending"})]

NoReq == [match |-> {}, single |-> FALSE, queues |-> <<>>]

ASSUME ConstantsAssumption ==
  /\ Sched \in Thread
  /\ NoNode \notin Node
  /\ NoCmd \notin Cmd
  /\ VdevOf \in [Cmd -> Vdev]
  /\ DOMAIN IdType = Cmd
  /\ {Blocking, HighPriority, QueueDisabling} \subseteq SUBSET Cmd
  /\ CancelReqs \subseteq CancelReqType
  /\ Doomed \subseteq Vdev
  /\ \A r \in CancelReqs : r.queues # <<>>
  /\ {NTimers, PdevActiveMax, PdevPendingMax, VdevActiveMax, VdevPendingMax,
      MaxWaiting, MaxDepth, MaxTimerMsgs} \subseteq Nat
  /\ PostMayFail \in BOOLEAN
  /\ IsFiniteSet(Node) /\ IsFiniteSet(Vdev)

\* WLAN_SER_MAX_ACTIVE_CMDS is WLAN_SER_MAX_VDEVS, max_active_cmds of a vdev is 1.
ASSUME LimitsAssumption ==
  /\ VdevActiveMax > 0
  /\ Cardinality(Vdev) <= PdevActiveMax

VARIABLES
  pool,           \* cmd_pool_list, in order
  pactive,        \* active_list of the pdev
  ppending,       \* pending_list of the pdev
  vactive,        \* active_list of each vdev
  vpending,       \* pending_list of each vdev
  queueDisable,   \* vdevs whose queue_disable is set
  bitmap,         \* vdev_active_cmd_bitmap
  blockingActive, \* blocking_cmd_active
  waiting,        \* blocking_cmd_waiting, a uint16_t
  cmd,            \* the command stored in a node, NoCmd once it is zeroed
  inUse,          \* bits of cmd_in_use: marked, active, cancel, removal
  timer,          \* timers[i].cmd: the node whose command it points to
  armed,          \* the timers that are running
  timerMsgs,      \* expiry messages in the scheduler queue, per timer
  refs,           \* vdev references held with WLAN_SERIALIZATION_ID
  live,           \* vdevs that can still give out a reference
  th,             \* what each thread is doing
  bug             \* the QDF_BUG and QDF_ASSERT hit, and walks off a list

queueVars == <<pool, pactive, ppending, vactive, vpending>>
blockVars == <<bitmap, blockingActive, waiting>>
nodeVars  == <<cmd, inUse>>
timerVars == <<timer, armed, timerMsgs, refs>>
vars == <<queueVars, queueDisable, blockVars, nodeVars, timerVars, live, th, bug>>

(***************************************************************************)
(* A thread: its next step, the node and the command it works on, the      *)
(* status of the activation, the ser_queue_reason, the cancel request, the *)
(* iterations its loop has left, and the callers to return to.             *)
(***************************************************************************)
PC == {"idle", "activate", "activated", "check", "dequeue", "move", "resume",
       "cancelled", "cancel", "putref"}

Idle == [pc |-> "idle", node |-> NoNode, cmd |-> NoCmd, ok |-> TRUE,
         why |-> "REMOVE", req |-> NoReq, left |-> 0, k |-> <<>>]

Caller == [pc: {"resume", "putref"}, left: Nat, cmd: Cmd \cup {NoCmd}]

\* A walk along the wrong list leaves the model: no thread goes on after it.
At(t, pc) == th[t].pc = pc /\ "stale_walk" \notin bug

Goto(t, frame) == th' = [th EXCEPT ![t] = frame]

Return(t) ==
  LET k == th[t].k
  IN  Goto(t, IF k = <<>> THEN Idle
              ELSE [Idle EXCEPT !.pc = Head(k).pc, !.left = Head(k).left,
                                !.cmd = Head(k).cmd, !.k = Tail(k)])

-----------------------------------------------------------------------------
(***************************************************************************)
(* The lists.                                                              *)
(***************************************************************************)
Insert(list, n, c) == IF c \in HighPriority THEN Cons(n, list) ELSE Append(list, n)

HasCmd(list, c) == \E n \in ToSet(list) : cmd[n] = c

\* Mutant: WLAN_SER_MATCH_CMD_ID, the vdev is not compared.
FindCmdOfAnyVdev(list, c) ==
  list[Min({i \in DOMAIN list : IdType[cmd[list[i]]] = IdType[c]})]

\* wlan_serialization_find_cmd with WLAN_SER_MATCH_CMD_ID_VDEV
FindCmd(list, c) == list[Min({i \in DOMAIN list : cmd[list[i]] = c})]

RemoveCmdFrom(list, c) == RemoveFirst(list, FindCmd(list, c))

\* Mutant: the active list of the pdev is full one command too early.
FullTooEarly(v, active) ==
  IF active THEN Len(vactive[v]) = VdevActiveMax \/ Len(pactive) = PdevActiveMax - 1
            ELSE Len(vpending[v]) = VdevPendingMax \/ Len(ppending) = PdevPendingMax

Full(v, active) ==
  IF active THEN Len(vactive[v]) = VdevActiveMax \/ Len(pactive) = PdevActiveMax
            ELSE Len(vpending[v]) = VdevPendingMax \/ Len(ppending) = PdevPendingMax

(***************************************************************************)
(* blocking_cmd_waiting is a uint16_t; the check that lets a non-blocking  *)
(* command run reads it through a uint8_t.                                 *)
(***************************************************************************)
\* Mutant: a counter that does not wrap around.
NoWrap(i) == i

UInt16(i) == i % 65536
UInt8(i) == i % 256

\* Mutant: blocking_cmd_active is not looked at.
AllowedDuringBlocking(c) ==
  IF c \in Blocking
  THEN bitmap = {}
  ELSE UInt8(waiting) = 0 /\ VdevOf[c] \notin bitmap

IsActiveNonScanCmdAllowed(c) ==
  IF c \in Blocking
  THEN bitmap = {}
  ELSE ~blockingActive /\ UInt8(waiting) = 0 /\ VdevOf[c] \notin bitmap

WaitingAfterCheck(c) ==
  IF c \in Blocking /\ bitmap # {} THEN UInt16(waiting + 1) ELSE waiting

ActiveCmdAllowed(c) ==
  IsActiveNonScanCmdAllowed(c) /\ vpending[VdevOf[c]] = <<>>

-----------------------------------------------------------------------------
(***************************************************************************)
(* wlan_serialization_request and wlan_serialization_enqueue_cmd.  A       *)
(* request on a disabled queue changes nothing.                            *)
(***************************************************************************)
CanRequest(t, c) ==
  /\ At(t, "idle")
  /\ VdevOf[c] \notin queueDisable
  /\ c \in Blocking => waiting < MaxWaiting \/ waiting > 65535 - MaxWaiting
  /\ \A u \in Thread : Len(th[u].k) < MaxDepth

DuplicateOf(c) ==
  HasCmd(IF ActiveCmdAllowed(c) THEN vactive[VdevOf[c]] ELSE vpending[VdevOf[c]], c)

DisableQueueFor(c) ==
  queueDisable' = IF c \in QueueDisabling THEN queueDisable \cup {VdevOf[c]}
                                          ELSE queueDisable

\* Refused after wlan_serialization_is_active_cmd_allowed has run.
RequestRefused(t, c) ==
  /\ CanRequest(t, c)
  /\ \/ /\ DuplicateOf(c) \/ pool = <<>>
        /\ UNCHANGED <<pool, queueDisable>>
     \/ /\ ~DuplicateOf(c)
        /\ pool # <<>>
        /\ Full(VdevOf[c], ActiveCmdAllowed(c))
        /\ pool' = Append(Tail(pool), Head(pool))
        /\ DisableQueueFor(c)
  /\ waiting' = WaitingAfterCheck(c)
  /\ UNCHANGED <<pactive, ppending, vactive, vpending, bitmap, blockingActive,
                 nodeVars, timerVars, live, th, bug>>

Request(t, c) ==
  LET v == VdevOf[c]
      n == Head(pool)
  IN  /\ CanRequest(t, c)
      /\ ~DuplicateOf(c)
      /\ pool # <<>>
      /\ ~Full(v, ActiveCmdAllowed(c))
      /\ pool' = Tail(pool)
      /\ cmd' = [cmd EXCEPT ![n] = c]
      /\ waiting' = WaitingAfterCheck(c)
      /\ DisableQueueFor(c)
      /\ \/ /\ ActiveCmdAllowed(c)
            /\ vactive' = [vactive EXCEPT ![v] = Insert(@, n, c)]
            /\ pactive' = Insert(pactive, n, c)
            /\ bitmap' = bitmap \cup {v}
            /\ blockingActive' = (blockingActive \/ c \in Blocking)
            /\ inUse' = [inUse EXCEPT ![n] = @ \cup {"marked"}]
            /\ Goto(t, [Idle EXCEPT !.pc = "activate", !.node = n])
            /\ UNCHANGED <<vpending, ppending>>
         \/ /\ ~ActiveCmdAllowed(c)
            /\ vpending' = [vpending EXCEPT ![v] = Insert(@, n, c)]
            /\ ppending' = Insert(ppending, n, c)
            /\ UNCHANGED <<vactive, pactive, bitmap, blockingActive, inUse, th>>
      /\ UNCHANGED <<timerVars, live, bug>>

-----------------------------------------------------------------------------
(***************************************************************************)
(* wlan_serialization_activate_cmd: start a timer and call the client back *)
(* with WLAN_SER_CB_ACTIVATE_CMD, which may fail; then, under the lock,    *)
(* turn CMD_MARKED_FOR_ACTIVATION into CMD_IS_ACTIVE; then, with the lock  *)
(* released, look at what was asked for in the meantime.                   *)
(***************************************************************************)
\* Mutant: no timer is started, and the client is called all the same.
ActivateWithoutTimer(t) ==
  /\ At(t, "activate")
  /\ \E ok \in BOOLEAN : Goto(t, [th[t] EXCEPT !.pc = "activated", !.ok = ok])
  /\ UNCHANGED <<queueVars, queueDisable, blockVars, nodeVars, timerVars, live, bug>>

FindAndStartTimer(t) ==
  LET n == th[t].node
      v == VdevOf[cmd[n]]
      free == {s \in Slot : timer[s] = NoNode}
  IN  /\ At(t, "activate")
      /\ \/ /\ free # {}
            /\ v \in live
            /\ timer' = [timer EXCEPT ![Min(free)] = n]
            /\ armed' = armed \cup {Min(free)}
            /\ refs' = [refs EXCEPT ![v] = @ + 1]
            /\ \E ok \in BOOLEAN :
                 Goto(t, [th[t] EXCEPT !.pc = "activated", !.ok = ok])
         \/ /\ free = {} \/ v \notin live
            /\ Goto(t, [th[t] EXCEPT !.pc = "activated", !.ok = FALSE])
            /\ UNCHANGED <<timer, armed, refs>>
      /\ UNCHANGED <<queueVars, queueDisable, blockVars, nodeVars, timerMsgs,
                     live, bug>>

\* Mutant: CMD_MARKED_FOR_ACTIVATION is not cleared.
ActivationKeepsMark(t) ==
  /\ At(t, "activated")
  /\ inUse' = [inUse EXCEPT ![th[t].node] = @ \cup {"active"}]
  /\ Goto(t, [th[t] EXCEPT !.pc = "check"])
  /\ UNCHANGED <<queueVars, queueDisable, blockVars, cmd, timerVars, live, bug>>

ActivationDone(t) ==
  /\ At(t, "activated")
  /\ inUse' = [inUse EXCEPT ![th[t].node] = (@ \ {"marked"}) \cup {"active"}]
  /\ Goto(t, [th[t] EXCEPT !.pc = "check"])
  /\ UNCHANGED <<queueVars, queueDisable, blockVars, cmd, timerVars, live, bug>>

\* The request that a command marked for cancel gets once it is active.
CancelOne(c) == [match |-> {d \in Cmd : IdType[d] = IdType[c]},
                 single |-> TRUE, queues |-> <<"active">>]

CheckAfterActivation(t) ==
  LET n == th[t].node
      next == [Idle EXCEPT !.node = n, !.k = th[t].k]
  IN  /\ At(t, "check")
      /\ \/ /\ ~th[t].ok
            /\ Goto(t, [next EXCEPT !.pc = "dequeue", !.why = "FAILED"])
         \/ /\ th[t].ok /\ "removal" \in inUse[n]
            /\ Goto(t, [next EXCEPT !.pc = "dequeue", !.why = "REMOVE"])
         \/ /\ th[t].ok /\ "removal" \notin inUse[n] /\ "cancel" \in inUse[n]
            /\ Goto(t, [next EXCEPT !.pc = "cancel", !.node = NoNode,
                                    !.req = CancelOne(cmd[n])])
         \/ /\ th[t].ok /\ inUse[n] \cap {"removal", "cancel"} = {}
            /\ Return(t)
      /\ UNCHANGED <<queueVars, queueDisable, blockVars, nodeVars, timerVars,
                     live, bug>>

-----------------------------------------------------------------------------
(***************************************************************************)
(* wlan_serialization_find_and_stop_timer: the timer is looked up by the   *)
(* command, and the vdev reference is kept when the timer expired.         *)
(***************************************************************************)
TimersOf(c) == {s \in Slot : timer[s] # NoNode /\ cmd[timer[s]] = c}

\* Mutant: the reference is released on a timeout as well.
StopAlwaysReleases(c, keepRef) ==
  IF TimersOf(c) = {}
  THEN UNCHANGED <<timer, armed, refs>>
  ELSE /\ timer' = [timer EXCEPT ![Min(TimersOf(c))] = NoNode]
       /\ armed' = armed \ {Min(TimersOf(c))}
       /\ refs' = [refs EXCEPT ![VdevOf[c]] = @ - 1]

FindAndStopTimer(c, keepRef) ==
  IF TimersOf(c) = {}
  THEN UNCHANGED <<timer, armed, refs>>
  ELSE /\ timer' = [timer EXCEPT ![Min(TimersOf(c))] = NoNode]
       /\ armed' = armed \ {Min(TimersOf(c))}
       /\ refs' = IF keepRef THEN refs ELSE [refs EXCEPT ![VdevOf[c]] = @ - 1]

\* Mutant: the node is not put back into the pool.
LeakNode(n) ==
  /\ cmd' = [cmd EXCEPT ![n] = NoCmd]
  /\ inUse' = [inUse EXCEPT ![n] = {}]
  /\ UNCHANGED pool

\* The node is zeroed and goes to the back of the pool.
FreeNode(n) ==
  /\ cmd' = [cmd EXCEPT ![n] = NoCmd]
  /\ inUse' = [inUse EXCEPT ![n] = {}]
  /\ pool' = Append(pool, n)

\* Mutant: the bit of the vdev stays set.
ClearBlockingOnly(c) ==
  /\ blockingActive' = (blockingActive /\ c \notin Blocking)
  /\ UNCHANGED bitmap

ClearActive(c) ==
  /\ blockingActive' = (blockingActive /\ c \notin Blocking)
  /\ bitmap' = bitmap \ {VdevOf[c]}

(***************************************************************************)
(* wlan_serialization_dequeue_cmd on the active queue, up to the unlock.   *)
(* The client then gets WLAN_SER_CB_RELEASE_MEM_CMD and the thread goes on *)
(* to move pending commands; a timer handler first remembers the reference *)
(* it has to release.                                                      *)
(***************************************************************************)
DequeueCmd(t, c, why, timedOut) ==
  \/ /\ c = NoCmd \/ (c # NoCmd /\ ~HasCmd(vactive[VdevOf[c]], c))
     /\ Return(t)
     /\ UNCHANGED <<queueVars, blockVars, nodeVars, timerVars>>
  \/ /\ c # NoCmd /\ HasCmd(vactive[VdevOf[c]], c)
     /\ "marked" \in inUse[FindCmd(vactive[VdevOf[c]], c)]
     /\ inUse' = [inUse EXCEPT ![FindCmd(vactive[VdevOf[c]], c)] = @ \cup {"removal"}]
     /\ Return(t)
     /\ UNCHANGED <<queueVars, blockVars, cmd, timerVars>>
  \/ /\ c # NoCmd /\ HasCmd(vactive[VdevOf[c]], c)
     /\ "marked" \notin inUse[FindCmd(vactive[VdevOf[c]], c)]
     /\ vactive' = [vactive EXCEPT ![VdevOf[c]] = RemoveCmdFrom(@, c)]
     /\ pactive' = RemoveCmdFrom(pactive, c)
     /\ ClearActive(c)
     /\ FindAndStopTimer(c, why = "TIMEOUT")
     /\ FreeNode(FindCmd(pactive, c))
     /\ Goto(t, [Idle EXCEPT !.pc = "move", !.cmd = c,
                   !.k = IF why = "TIMEOUT"
                         THEN Cons([pc |-> "putref", left |-> 0, cmd |-> timedOut],
                                   th[t].k)
                         ELSE th[t].k])
     /\ UNCHANGED <<vpending, ppending, waiting, timerMsgs>>

\* wlan_serialization_remove_cmd
RemoveCmd(t, c) ==
  /\ At(t, "idle")
  /\ DequeueCmd(t, c, "REMOVE", NoCmd)
  /\ UNCHANGED <<queueDisable, live, bug>>

\* The callers that pass a pointer into the node: what it holds now counts.
DequeueNode(t) ==
  /\ At(t, "dequeue")
  /\ DequeueCmd(t, cmd[th[t].node], th[t].why, th[t].cmd)
  /\ UNCHANGED <<queueDisable, live, bug>>

-----------------------------------------------------------------------------
(***************************************************************************)
(* wlan_ser_move_non_scan_pending_to_active.  One locked stretch of the    *)
(* loop: skip the commands of vdevs that are active, then activate one or  *)
(* stop.  byVdev: the loop walks the pending list of one vdev only.        *)
(***************************************************************************)
Busy(c) == VdevOf[c] \in bitmap
Blocked(c) == c \in Blocking /\ bitmap # {}

\* Mutant: the walk ends one short, while (--qsize) for while (qsize--).
StopsOneShort(list, budget, byVdev) ==
  {i \in 1..(Min({budget, Len(list)}) - 1) :
     byVdev \/ Blocked(cmd[list[i]]) \/ ~Busy(cmd[list[i]])}

\* Mutant: the first node is stepped over before it is looked at.
StopsAfterFirst(list, budget, byVdev) ==
  {i \in 1..Min({budget, Len(list)}) :
     (i > 1 \/ Len(list) = 1)
     /\ (byVdev \/ Blocked(cmd[list[i]]) \/ ~Busy(cmd[list[i]]))}

\* Where the walk ends, if it finds no earlier one: what is in between is skipped.
Stops(list, budget, byVdev) ==
  {i \in 1..Min({budget, Len(list)}) :
     byVdev \/ Blocked(cmd[list[i]]) \/ ~Busy(cmd[list[i]])}

MoveLoop(t, list, budget, byVdev) ==
  LET stops == Stops(list, budget, byVdev)
      c == cmd[list[Min(stops)]]
      v == VdevOf[c]
      n == FindCmd(ppending, c)
      canMove == stops # {} /\ ~Busy(c) /\ (byVdev \/ ~Blocked(c))
  IN  \/ /\ ~canMove
         /\ Return(t)
         /\ UNCHANGED <<queueVars, blockVars, inUse, bug>>
      \/ /\ canMove
         /\ vpending' = [vpending EXCEPT ![v] = RemoveCmdFrom(@, c)]
         /\ ppending' = RemoveCmdFrom(ppending, c)
         /\ \/ /\ Full(v, TRUE)        \* QDF_ASSERT(0)
               /\ pool' = Append(pool, n)
               /\ bug' = bug \cup {"add_active"}
               /\ Return(t)
               /\ UNCHANGED <<vactive, pactive, blockVars, inUse>>
            \/ /\ ~Full(v, TRUE)
               /\ vactive' = [vactive EXCEPT ![v] = Insert(@, n, c)]
               /\ pactive' = Insert(pactive, n, c)
               /\ bitmap' = bitmap \cup {v}
               /\ blockingActive' = (blockingActive \/ c \in Blocking)
               /\ waiting' = IF c \in Blocking THEN UInt16(waiting - 1) ELSE waiting
               /\ inUse' = [inUse EXCEPT ![n] = @ \cup {"marked"}]
               /\ Goto(t, [Idle EXCEPT !.pc = "activate", !.node = n,
                             !.k = IF byVdev THEN th[t].k
                                   ELSE Cons([pc |-> "resume", cmd |-> NoCmd,
                                              left |-> budget - Min(stops)],
                                             th[t].k)])
               /\ UNCHANGED <<pool, bug>>

MovePendingToActive(t) ==
  LET c == th[t].cmd
      byVdev == c \notin Blocking /\ waiting = 0
      list == IF byVdev THEN vpending[VdevOf[c]] ELSE ppending
  IN  /\ At(t, "move")
      /\ MoveLoop(t, list, Len(list), byVdev)
      /\ UNCHANGED <<queueDisable, cmd, timerVars, live>>

\* Back in the loop after wlan_serialization_activate_cmd returned.
MoveNext(t) ==
  /\ At(t, "resume")
  /\ \/ /\ blockingActive
        /\ Return(t)
        /\ UNCHANGED <<queueVars, blockVars, inUse, bug>>
     \/ /\ ~blockingActive
        /\ MoveLoop(t, ppending, th[t].left, FALSE)
  /\ UNCHANGED <<queueDisable, cmd, timerVars, live>>

-----------------------------------------------------------------------------
(***************************************************************************)
(* wlan_ser_cancel_non_scan_cmd, called for each queue of the request.     *)
(* One locked stretch of the loop: from the node after prev, mark for      *)
(* cancel the matching commands that are being activated, and take the     *)
(* first other match off the queues.  The callbacks run unlocked, so prev  *)
(* may have left the list when the loop goes on: the walk then follows the *)
(* links of another list, and the model stops there.                       *)
(***************************************************************************)
NextQueue(t, r) ==
  IF Len(r.queues) <= 1
  THEN Return(t)
  ELSE Goto(t, [Idle EXCEPT !.pc = "cancel", !.k = th[t].k,
                            !.req = [r EXCEPT !.queues = Tail(@)]])

CancelLoop(t, r, prev, budget) ==
  LET isActive == Head(r.queues) = "active"
      list == IF isActive THEN pactive ELSE ppending
      stale == prev # NoNode /\ list # <<>> /\ budget > 0 /\ prev \notin ToSet(list)
      from == IF prev \in ToSet(list) THEN Min({i \in DOMAIN list : list[i] = prev}) ELSE 0
      walk == (from + 1)..Min({Len(list), from + budget})
      Match(i) == cmd[list[i]] \in r.match
      Marked(i) == isActive /\ "marked" \in inUse[list[i]]
      hits == {i \in walk : Match(i) /\ ~Marked(i)}
      hit == Min(hits)
      seen == {i \in walk : \A j \in hits : i < j}
      toMark == {list[i] : i \in {j \in seen : Match(j)}}
      passed == {i \in seen : ~Match(i)}
      c == cmd[list[hit]]
      marked == [n \in Node |-> IF n \in toMark THEN inUse[n] \cup {"cancel"} ELSE inUse[n]]
  IN  \/ /\ stale
         /\ bug' = bug \cup {"stale_walk"}
         /\ Return(t)
         /\ UNCHANGED <<queueVars, nodeVars, timerVars>>
      \/ /\ ~stale /\ hits = {}
         /\ inUse' = marked
         /\ NextQueue(t, r)
         /\ UNCHANGED <<queueVars, cmd, timerVars, bug>>
      \/ /\ ~stale /\ hits # {} /\ isActive /\ TimersOf(c) = {}   \* QDF_BUG(0)
         /\ inUse' = marked
         /\ bug' = bug \cup {"no_timer"}
         /\ NextQueue(t, r)
         /\ UNCHANGED <<queueVars, cmd, timerVars>>
      \/ /\ ~stale /\ hits # {} /\ (isActive => TimersOf(c) # {})
         /\ IF isActive
            THEN /\ FindAndStopTimer(c, FALSE)
                 /\ pactive' = RemoveFirst(pactive, list[hit])
                 /\ vactive' = [vactive EXCEPT ![VdevOf[c]] = RemoveFirst(@, list[hit])]
                 /\ UNCHANGED <<ppending, vpending>>
            ELSE /\ ppending' = RemoveFirst(ppending, list[hit])
                 /\ vpending' = [vpending EXCEPT ![VdevOf[c]] = RemoveFirst(@, list[hit])]
                 /\ UNCHANGED <<pactive, vactive, timer, armed, refs>>
         /\ cmd' = [cmd EXCEPT ![list[hit]] = NoCmd]
         /\ inUse' = [marked EXCEPT ![list[hit]] = {}]
         /\ pool' = Append(pool, list[hit])
         /\ Goto(t, [Idle EXCEPT !.pc = "cancelled", !.cmd = c, !.req = r,
                       !.k = th[t].k, !.left = budget - (hit - from),
                       !.node = IF passed = {} THEN prev ELSE list[Max(passed)]])
         /\ UNCHANGED <<timerMsgs, bug>>

QueueLen(r) == IF Head(r.queues) = "active" THEN Len(pactive) ELSE Len(ppending)

\* wlan_serialization_cancel_request and the purge functions
CancelRequest(t, r) ==
  /\ At(t, "idle")
  /\ CancelLoop(t, r, NoNode, QueueLen(r))
  /\ UNCHANGED <<queueDisable, blockVars, live>>

CancelQueue(t) ==
  /\ At(t, "cancel")
  /\ CancelLoop(t, th[t].req, NoNode, QueueLen(th[t].req))
  /\ UNCHANGED <<queueDisable, blockVars, live>>

\* After WLAN_SER_CB_CANCEL_CMD and WLAN_SER_CB_RELEASE_MEM_CMD.
CancelNext(t) ==
  LET c == th[t].cmd
      r == th[t].req
  IN  /\ At(t, "cancelled")
      /\ IF Head(r.queues) = "active"
         THEN /\ ClearActive(c)
              /\ UNCHANGED waiting
         ELSE /\ waiting' = IF c \in Blocking THEN UInt16(waiting - 1) ELSE waiting
              /\ UNCHANGED <<blockingActive, bitmap>>
      /\ \/ /\ r.single
            /\ NextQueue(t, r)
            /\ UNCHANGED <<queueVars, nodeVars, timerVars, bug>>
         \/ /\ ~r.single
            /\ CancelLoop(t, r, th[t].node, th[t].left)
      /\ UNCHANGED <<queueDisable, live>>

-----------------------------------------------------------------------------
(***************************************************************************)
(* Timers.  The expiry handler posts the timer to the scheduler; the       *)
(* scheduler thread looks at the command the timer points to by then.      *)
(***************************************************************************)
\* Mutant: the expiry is not posted to the scheduler.
ExpireSilently(s) ==
  /\ s \in armed
  /\ armed' = armed \ {s}
  /\ UNCHANGED <<queueVars, queueDisable, blockVars, nodeVars, timer, timerMsgs, refs,
                 live, th, bug>>

TimerHandler(s) ==
  /\ s \in armed
  /\ timerMsgs[s] < MaxTimerMsgs
  /\ armed' = armed \ {s}
  /\ \/ timerMsgs' = [timerMsgs EXCEPT ![s] = @ + 1]
     \/ PostMayFail /\ UNCHANGED timerMsgs
  /\ UNCHANGED <<queueVars, queueDisable, blockVars, nodeVars, timer, refs, live,
                 th, bug>>

GenericTimerCb(s) ==
  /\ At(Sched, "idle")
  /\ timerMsgs[s] > 0
  /\ timerMsgs' = [timerMsgs EXCEPT ![s] = @ - 1]
  /\ IF timer[s] = NoNode \/ cmd[timer[s]] = NoCmd
     THEN UNCHANGED th
     ELSE Goto(Sched, [Idle EXCEPT !.pc = "dequeue", !.node = timer[s],
                                   !.cmd = cmd[timer[s]], !.why = "TIMEOUT"])
  /\ UNCHANGED <<queueVars, queueDisable, blockVars, nodeVars, timer, armed, refs,
                 live, bug>>

\* The end of wlan_serialization_generic_timer_cb
ReleaseRef(t) ==
  /\ At(t, "putref")
  /\ refs' = [refs EXCEPT ![VdevOf[th[t].cmd]] = @ - 1]
  /\ Return(t)
  /\ UNCHANGED <<queueVars, queueDisable, blockVars, nodeVars, timer, armed,
                 timerMsgs, live, bug>>

\* wlan_serialization_update_timer, of any client at any time
UpdateTimer(c) ==
  /\ MaxTimerMsgs > 0
  /\ TimersOf(c) # {}
  /\ armed' = armed \cup {Min(TimersOf(c))}
  /\ UNCHANGED <<queueVars, queueDisable, blockVars, nodeVars, timer, timerMsgs,
                 refs, live, th, bug>>

-----------------------------------------------------------------------------
\* wlan_ser_vdev_queue_disable
VdevQueueDisable(v) ==
  /\ v \in Doomed
  /\ queueDisable' = queueDisable \cup {v}
  /\ UNCHANGED <<queueVars, blockVars, nodeVars, timerVars, live, th, bug>>

\* The object manager starts to delete a vdev: no reference can be taken.
VdevDelete(v) ==
  /\ v \in Doomed
  /\ live' = live \ {v}
  /\ UNCHANGED <<queueVars, queueDisable, blockVars, nodeVars, timerVars, th, bug>>

(***************************************************************************)
(* wlan_serialization_pdev_create_handler, _vdev_create_handler and        *)
(* _psoc_enable: empty queues, all nodes in the pool, no timer in use.     *)
(***************************************************************************)
Init ==
  /\ pool \in {s \in [1..Cardinality(Node) -> Node] : ToSet(s) = Node}
  /\ pactive = <<>> /\ ppending = <<>>
  /\ vactive = [v \in Vdev |-> <<>>] /\ vpending = [v \in Vdev |-> <<>>]
  /\ queueDisable = {} /\ bitmap = {}
  /\ blockingActive = FALSE /\ waiting = 0
  /\ cmd = [n \in Node |-> NoCmd] /\ inUse = [n \in Node |-> {}]
  /\ timer = [s \in Slot |-> NoNode] /\ armed = {} /\ timerMsgs = [s \in Slot |-> 0]
  /\ refs = [v \in Vdev |-> 0] /\ live = Vdev
  /\ th = [t \in Thread |-> Idle] /\ bug = {}

\* What a thread does inside a call, as opposed to starting one.
Step(t) ==
  \/ FindAndStartTimer(t) \/ ActivationDone(t) \/ CheckAfterActivation(t)
  \/ DequeueNode(t) \/ MovePendingToActive(t) \/ MoveNext(t)
  \/ CancelQueue(t) \/ CancelNext(t) \/ ReleaseRef(t)

Lost == "stale_walk" \in bug /\ UNCHANGED vars

Next ==
  \/ \E t \in Thread :
       \/ \E c \in Cmd : Request(t, c) \/ RequestRefused(t, c) \/ RemoveCmd(t, c)
       \/ \E r \in CancelReqs : CancelRequest(t, r)
       \/ Step(t)
  \/ \E s \in Slot : TimerHandler(s) \/ GenericTimerCb(s)
  \/ \E c \in Cmd : UpdateTimer(c)
  \/ \E v \in Vdev : VdevQueueDisable(v) \/ VdevDelete(v)
  \/ Lost

Spec == Init /\ [][Next]_vars
-----------------------------------------------------------------------------
(***************************************************************************)
(* Type invariant: every variable keeps its shape, list members are nodes  *)
(* and a thread's operands fit its step.                                   *)
(***************************************************************************)
ThreadType ==
  [pc: PC, node: Node \cup {NoNode}, cmd: Cmd \cup {NoCmd}, ok: BOOLEAN,
   why: {"REMOVE", "FAILED", "TIMEOUT"}, req: CancelReqType, left: Nat,
   k: Seq(Caller)]

QueueType ==
  /\ pool \in Seq(Node) /\ pactive \in Seq(Node) /\ ppending \in Seq(Node)
  /\ vactive \in [Vdev -> Seq(Node)] /\ vpending \in [Vdev -> Seq(Node)]
  /\ cmd \in [Node -> Cmd \cup {NoCmd}]

FrameOK(f) ==
  /\ f \in ThreadType
  /\ f.pc \in {"activate", "activated", "check", "dequeue"} => f.node \in Node
  /\ f.pc \in {"move", "cancelled"} => f.cmd \in Cmd

ThreadsOK == th \in [Thread -> ThreadType] /\ \A t \in Thread : FrameOK(th[t])

BlockType ==
  /\ bitmap \subseteq Vdev /\ blockingActive \in BOOLEAN
  /\ waiting \in Nat /\ waiting < 65536

TimerType ==
  /\ timer \in [Slot -> Node \cup {NoNode}] /\ armed \subseteq Slot
  /\ timerMsgs \in [Slot -> Nat] /\ refs \in [Vdev -> Int]

FlagType ==
  /\ inUse \in [Node -> SUBSET {"marked", "active", "cancel", "removal"}]
  /\ queueDisable \subseteq Vdev /\ live \subseteq Vdev
  /\ bug \subseteq {"add_active", "no_timer", "stale_walk"}

TypeOK == QueueType /\ BlockType /\ TimerType /\ FlagType /\ ThreadsOK

-----------------------------------------------------------------------------
(***************************************************************************)
(* Each node of the pool is in exactly one of the free, active and pending *)
(* lists, once, and holds a command exactly when it is not free: no path   *)
(* of request, move, dequeue or cancel loses a node or queues it twice.    *)
(***************************************************************************)
NodesConserved ==
  /\ IsInjective(pool) /\ IsInjective(pactive) /\ IsInjective(ppending)
  /\ ToSet(pool) \cap ToSet(pactive) = {}
  /\ ToSet(pool) \cap ToSet(ppending) = {}
  /\ ToSet(pactive) \cap ToSet(ppending) = {}
  /\ ToSet(pool) \cup ToSet(pactive) \cup ToSet(ppending) = Node
  /\ \A n \in Node : cmd[n] = NoCmd <=> n \in ToSet(pool)

(***************************************************************************)
(* The list of a vdev is what the list of the pdev holds for that vdev, in *)
(* the same order: the two are added to and searched separately.           *)
(***************************************************************************)
Agrees(vlist, plist, v) ==
  /\ IsInjective(vlist) /\ ToSet(vlist) = {n \in ToSet(plist) : VdevOf[cmd[n]] = v}
  /\ \A m, n \in ToSet(vlist) : Before(vlist, m, n) <=> Before(plist, m, n)

ListsAgree ==
  \A v \in Vdev : Agrees(vactive[v], pactive, v) /\ Agrees(vpending[v], ppending, v)

(***************************************************************************)
(* The bit of a vdev is set exactly while it has an active command, or a   *)
(* cancelled active command whose callbacks are still running; at most one *)
(* command per vdev is active, and none while such a cancel is in progress *)
(* (vdev_active_cmd_bitmap is set and cleared apart from the lists).       *)
(***************************************************************************)
CancellingActive(t, v) ==
  /\ th[t].pc = "cancelled"
  /\ Head(th[t].req.queues) = "active"
  /\ VdevOf[th[t].cmd] = v

BitmapExact ==
  /\ \A v \in Vdev :
       /\ v \in bitmap <=> vactive[v] # <<>> \/ \E t \in Thread : CancellingActive(t, v)
       /\ \A t \in Thread : CancellingActive(t, v) => vactive[v] = <<>>
       /\ \A t, u \in Thread : CancellingActive(t, v) /\ CancellingActive(u, v) => t = u
  /\ \A m, n \in ToSet(pactive) : VdevOf[cmd[m]] = VdevOf[cmd[n]] => m = n

(***************************************************************************)
(* A node marked for activation is in the active list and exactly one      *)
(* thread is activating it: nobody frees it under the callback.            *)
(***************************************************************************)
Activating(t, n) == th[t].pc \in {"activate", "activated"} /\ th[t].node = n

MarkedHasOneActivator ==
  \A n \in Node :
    /\ "marked" \in inUse[n] => n \in ToSet(pactive)
    /\ "marked" \in inUse[n] <=> \E t \in Thread : Activating(t, n)
    /\ \A t, u \in Thread : Activating(t, n) /\ Activating(u, n) => t = u

(***************************************************************************)
(* The timers match the active list.  A command that finished its          *)
(* activation has a timer, unless the thread whose activation failed is    *)
(* still on its way to dequeue it: an active command cannot stay for ever  *)
(* with nothing to time it out.  A timer in use points to a node of the    *)
(* active list, no two timers to the same one; a running timer is in use.  *)
(***************************************************************************)
FailedActivation(t, n) ==
  /\ th[t].node = n
  /\ \/ th[t].pc = "check" /\ ~th[t].ok
     \/ th[t].pc = "dequeue" /\ th[t].why = "FAILED"

TimersMatchActive ==
  /\ \A n \in ToSet(pactive) :
       \/ "marked" \in inUse[n]
       \/ \E s \in Slot : timer[s] = n
       \/ \E t \in Thread : FailedActivation(t, n)
  /\ \A s \in Slot : timer[s] # NoNode => timer[s] \in ToSet(pactive)
  /\ \A s, u \in Slot : timer[s] = timer[u] /\ timer[s] # NoNode => s = u
  /\ \A s \in armed : timer[s] # NoNode

(***************************************************************************)
(* The references held on a vdev are one per timer in use for it, plus one *)
(* for each timer handler that has dequeued its command and not yet        *)
(* released the reference.                                                 *)
(***************************************************************************)
HandlersHolding(v) ==
  {t \in Thread : \/ th[t].pc = "putref" /\ VdevOf[th[t].cmd] = v
                  \/ \E i \in DOMAIN th[t].k :
                       th[t].k[i].pc = "putref" /\ VdevOf[th[t].k[i].cmd] = v}

RefsBalanced ==
  \A v \in Vdev :
    refs[v] = Cardinality({s \in Slot : timer[s] # NoNode /\ VdevOf[cmd[timer[s]]] = v})
              + Cardinality(HandlersHolding(v))

(***************************************************************************)
(* The QDF_ASSERT(0) of wlan_ser_move_non_scan_pending_to_active is not    *)
(* reached: a command taken off the pending list always fits in the active *)
(* list, whatever runs while the loop has dropped the lock.                *)
(***************************************************************************)
MoveNeverFails == "add_active" \notin bug

(***************************************************************************)
(* With nothing in progress, a vdev with pending commands has an active    *)
(* one, or the removal of another command will look at the whole pending   *)
(* list of the pdev: no pending command is forgotten.                      *)
(***************************************************************************)
NothingStranded ==
  (\A t \in Thread : th[t].pc = "idle") =>
     \A v \in Vdev : vpending[v] # <<>> =>
        \/ vactive[v] # <<>>
        \/ pactive # <<>> /\ (blockingActive \/ waiting # 0)

(***************************************************************************)
(* For blocking commands, no other commands from any vdev should be active *)
(* (wlan_serialization_non_scan.c:95).                                     *)
(***************************************************************************)
BlockingRuns == \E n \in ToSet(pactive) : cmd[n] \in Blocking

BlockingExclusive == BlockingRuns => Len(pactive) = 1

(***************************************************************************)
(* On one thread a blocking command runs alone as long as the counter      *)
(* blocking_cmd_waiting has never missed a pending one.  The move from the *)
(* list of a vdev trusts the counter and not the bitmap, and a request     *)
(* that goes to the pending list with no command active is not counted.    *)
(***************************************************************************)
WaitingCounted == (\E n \in ToSet(ppending) : cmd[n] \in Blocking) => waiting # 0

ExclusiveIfCounted == []WaitingCounted => []BlockingExclusive

(***************************************************************************)
(* Of the commands waiting on a vdev, the one at the head is activated     *)
(* first, also when the loop walks the list of the whole pdev and skips    *)
(* the commands of busy vdevs.                                             *)
(***************************************************************************)
VdevOrderKept ==
  [][\A v \in Vdev : \A n \in ToSet(vpending[v]) :
       n \in ToSet(vactive'[v]) => n = Head(vpending[v])]_vars

-----------------------------------------------------------------------------
(***************************************************************************)
(* What makes NodesConserved, BitmapExact and MarkedHasOneActivator        *)
(* inductive: a vdev list has the members of the pdev list that are for    *)
(* the vdev, and a command is pending at most once.                        *)
(***************************************************************************)
MembersAgree ==
  \A v \in Vdev :
    /\ IsInjective(vactive[v]) /\ IsInjective(vpending[v])
    /\ ToSet(vactive[v]) = {n \in ToSet(pactive) : VdevOf[cmd[n]] = v}
    /\ ToSet(vpending[v]) = {n \in ToSet(ppending) : VdevOf[cmd[n]] = v}

PendingOnce == \A m, n \in ToSet(ppending) : cmd[m] = cmd[n] => m = n

(***************************************************************************)
(* What makes TimersMatchActive inductive on top: a node has no timer      *)
(* before its activation starts one, and has one when that succeeded.      *)
(***************************************************************************)
Starting ==
  \A t \in Thread :
    /\ th[t].pc = "activate" => \A s \in Slot : timer[s] # th[t].node
    /\ th[t].pc = "activated" /\ th[t].ok => \E s \in Slot : timer[s] = th[t].node

TimedInv == TimersMatchActive /\ Starting

(***************************************************************************)
(* What makes RefsBalanced inductive.  Only the scheduler thread owes the  *)
(* release of a reference, as the outermost thing it does; and a handler   *)
(* that is about to dequeue still finds the command that expired, with its *)
(* timer.  The last needs that no thread comes between the two.            *)
(***************************************************************************)
ExpiryUndisturbed == Thread = {Sched} \/ MaxTimerMsgs = 0

Owed(f) == {i \in DOMAIN f.k : f.k[i].pc = "putref"}

HandlerStack(t, f) ==
  /\ f.pc = "idle" => f.k = <<>>
  /\ f.pc = "putref" => t = Sched /\ f.k = <<>> /\ f.cmd \in Cmd
  /\ f.pc = "dequeue" /\ f.why = "TIMEOUT" => t = Sched /\ f.k = <<>> /\ f.cmd \in Cmd
  /\ \A i \in Owed(f) : t = Sched /\ i = Len(f.k) /\ f.k[i].cmd \in Cmd

ExpiryFresh ==
  \A t \in Thread : th[t].pc = "dequeue" /\ th[t].why = "TIMEOUT" =>
    /\ MaxTimerMsgs # 0
    /\ cmd[th[t].node] = th[t].cmd
    /\ \E s \in Slot : timer[s] = th[t].node

RefInv == /\ RefsBalanced /\ ExpiryFresh
          /\ \A t \in Thread : HandlerStack(t, th[t])
          /\ \A s \in Slot : timerMsgs[s] <= MaxTimerMsgs

(***************************************************************************)
(* What makes NothingStranded inductive for clients that have no blocking  *)
(* commands and cancel pending ones only: a vdev whose commands wait has   *)
(* an active one, or a thread is about to move one of them.                *)
(***************************************************************************)
PendingCancelsOnly ==
  Blocking = {} /\ \A r \in CancelReqs : ToSet(r.queues) \subseteq {"pending"}

WalksPending(f) ==
  f.pc \in {"cancel", "cancelled"} =>
    f.req.queues # <<>> /\ ToSet(f.req.queues) \subseteq {"pending"}

Attended(v) == vactive[v] # <<>> \/ \E t \in Thread : th[t].pc = "move" /\ VdevOf[th[t].cmd] = v

AttendedInv == /\ waiting = 0 /\ ~blockingActive
               /\ \A n \in Node : "cancel" \notin inUse[n]
               /\ \A t \in Thread : WalksPending(th[t])
               /\ \A v \in Vdev : vpending[v] # <<>> => Attended(v)

(***************************************************************************)
(* What makes BlockingExclusive inductive on one thread: the flag          *)
(* blocking_cmd_active says whether a blocking command runs or is being    *)
(* cancelled, nothing runs during such a cancel, and no blocking command   *)
(* runs when the thread has dequeued one and goes on to move others.       *)
(***************************************************************************)
CancelsBlocking(f) ==
  f.pc = "cancelled" /\ Head(f.req.queues) = "active" /\ f.cmd \in Blocking

ExclusiveInv ==
  /\ \A m, n \in ToSet(pactive) : cmd[n] \in Blocking => m = n
  /\ blockingActive <=> BlockingRuns \/ CancelsBlocking(th[Sched])
  /\ CancelsBlocking(th[Sched]) => ToSet(pactive) = {}
  /\ th[Sched].pc = "move" => ~BlockingRuns

IndInv == TypeOK /\ NodesConserved /\ MembersAgree /\ PendingOnce /\ BitmapExact
          /\ MarkedHasOneActivator /\ MoveNeverFails

-----------------------------------------------------------------------------
(***************************************************************************)
(* Fairness.  A call that has started goes on to its end; a running timer  *)
(* expires; the scheduler thread handles every message of its queue, also  *)
(* when other work keeps coming to it.                                     *)
(***************************************************************************)
Fairness ==
  /\ \A t \in Thread : WF_vars(Step(t))
  /\ \A s \in Slot : WF_vars(TimerHandler(s)) /\ SF_vars(GenericTimerCb(s))

FairSpec == Spec /\ Fairness

(***************************************************************************)
(* A pending command does not wait for ever.                               *)
(***************************************************************************)
PendingServed == \A n \in Node : n \in ToSet(ppending) ~> n \notin ToSet(ppending)
=============================================================================
