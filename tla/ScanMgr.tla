------------------------------ MODULE ScanMgr ------------------------------
(***************************************************************************)
(* Scan requests from the client to the firmware and back: the scan        *)
(* manager (umac/scan) on top of the scan queues of the serialization      *)
(* component.  At most MaxActive scans run at a time over all pdevs; the   *)
(* others wait in the pending list of their pdev.                          *)
(*                                                                         *)
(* Everything that touches the queues runs on the scheduler thread, one    *)
(* message at a time.  A message is handled in several actions, because    *)
(* activate, dequeue and move call each other and because clients, timers, *)
(* the firmware and the deletion of a vdev go on meanwhile.  The calls     *)
(* nest only in tail position, so one continuation is enough.              *)
(***************************************************************************)
EXTENDS Integers, FiniteSets, SequencesExt, Lists

CONSTANTS
  Scan,        \* scan requests, one per scan_id
  Vdev, Pdev,
  VdevOf,      \* vdev of a scan request
  PdevOf,      \* pdev of a vdev
  Doomed,      \* vdevs that get deleted while scans are queued
  CancelReqs,  \* the cancel requests clients make
  MaxActive,   \* max_active_scans_allowed, of the psoc
  MaxPending,  \* WLAN_SER_MAX_PENDING_SCAN_CMDS, of a pdev
  NTimers,     \* psoc max_active_cmds, the number of timers
  MaxMsgs,     \* room for client messages in the scheduler queue
  MaxEvents,   \* room for firmware events in the scheduler queue
  NoScan

\* WLAN_SCAN_CANCEL_SINGLE, without and with wait_tgt_cancel, _VDEV_ALL, _PDEV_ALL
CancelReqType == [op: {"single", "wait"}, scan: Scan, vdev: Vdev]
                   \cup [op: {"vdev", "pdev"}, scan: {NoScan}, vdev: Vdev]

ASSUME ScanConstants ==
  /\ IsFiniteSet(Scan) /\ IsFiniteSet(Vdev) /\ IsFiniteSet(Pdev)
  /\ VdevOf \in [Scan -> Vdev]
  /\ PdevOf \in [Vdev -> Pdev]
  /\ Doomed \subseteq Vdev
  /\ CancelReqs \subseteq CancelReqType
  /\ \A c \in CancelReqs : c.scan # NoScan => c.vdev = VdevOf[c.scan]
  /\ {MaxActive, MaxPending, NTimers, MaxMsgs, MaxEvents} \subseteq Nat
  /\ NoScan \notin Scan

\* The psoc has a timer for every scan that may be active, and the active list
\* and the pool of a pdev have room for them.
ASSUME TimersAssumption == MaxActive <= NTimers

VARIABLES
  active,   \* active_list of the scan queue of each pdev
  pending,  \* pending_list of the scan queue of each pdev
  timer,    \* timers[i].cmd
  armed,    \* the timers that are running
  req,      \* where the scan_start_request of a scan is
  done,     \* completion events its requester got
  refs,     \* references to each vdev held for scans and for their timers
  live,     \* vdevs that can still give out a reference
  fw,       \* scans the firmware runs
  told,     \* scans the firmware runs and was told to stop
  osif,     \* scheduler queue of the OS_IF module: what clients ask for
  events,   \* scheduler queue of the SCAN module: what the firmware reports
  sys,      \* scheduler queue of the SYS module: expired timers
  sched,    \* what the scheduler thread is doing
  missed    \* history: pdevs passed over when a place became free

queueVars == <<active, pending>>
timerVars == <<timer, armed>>
msgVars   == <<osif, events, sys>>
vars == <<queueVars, timerVars, req, done, refs, live, fw, told, msgVars, sched, missed>>

-----------------------------------------------------------------------------
Slot == 1..NTimers
PdevOfScan(s) == PdevOf[VdevOf[s]]
OfVdev(v) == {s \in Scan : VdevOf[s] = v}
OfPdev(p) == {s \in Scan : PdevOfScan(s) = p}

Start(s) == [op |-> "start", scan |-> s, vdev |-> VdevOf[s]]

OsifMsg == CancelReqs \cup {Start(s) : s \in Scan}
Event == [scan: Scan, terminal: BOOLEAN]

\* What is left to do once the queues are settled.
After == [kind: {"none", "event", "timeout"}, scan: Scan \cup {NoScan}]
NoAfter == [kind |-> "none", scan |-> NoScan]

Idle == [pc |-> "idle", scan |-> NoScan, why |-> "REMOVE", after |-> NoAfter]

AtPc(pc) == sched.pc = pc

Run(pc, s, why, after) ==
  sched' = [pc |-> pc, scan |-> s, why |-> why, after |-> after]

Goto(pc) == sched' = [sched EXCEPT !.pc = pc]

SlotOf(s) == {i \in Slot : timer[i] = s}

\* The scans in the lists of all pdevs.
InLists(lists) == {s \in Scan : \E p \in Pdev : s \in ToSet(lists[p])}

\* wlan_serialization_active_scan_cmd_count_handler on every pdev
ActiveScans == InLists(active)

\* wlan_serialization_is_active_scan_cmd_allowed
ActiveAllowed(p) == Cardinality(ActiveScans) < MaxActive

\* References given back: one per scan of S on the vdev.
RefsLess(S) == [v \in Vdev |-> refs[v] - Cardinality(S \cap OfVdev(v))]

Completed(S) == [s \in Scan |-> IF s \in S THEN done[s] + 1 ELSE done[s]]

Freed(S) == [s \in Scan |-> IF s \in S THEN "freed" ELSE req[s]]

\* Mutant: the timer of a command that is removed keeps running.
TimersKept(S) == UNCHANGED timerVars

TimersLess(S) ==
  /\ timer' = [i \in Slot |-> IF timer[i] \in S THEN NoScan ELSE timer[i]]
  /\ armed' = {i \in armed : timer[i] \notin S}

Init ==
  /\ active = [p \in Pdev |-> <<>>] /\ pending = [p \in Pdev |-> <<>>]
  /\ timer = [i \in Slot |-> NoScan] /\ armed = {}
  /\ req = [s \in Scan |-> "new"]
  /\ done = [s \in Scan |-> 0]
  /\ refs = [v \in Vdev |-> 0]
  /\ live = Vdev
  /\ fw = {} /\ told = {}
  /\ osif = <<>> /\ events = <<>> /\ sys = <<>>
  /\ sched = Idle
  /\ missed = {}

-----------------------------------------------------------------------------
(***************************************************************************)
(* The clients: ucfg_scan_start and ucfg_scan_cancel, from any context.    *)
(* A call that is refused (scanning is disabled, the vdev is being         *)
(* deleted, the message cannot be posted) returns an error, frees the      *)
(* request and changes nothing here.                                       *)
(***************************************************************************)
PostOsif(msg) ==
  /\ msg.vdev \in live
  /\ Len(osif) < MaxMsgs
  /\ osif' = Append(osif, msg)
  /\ refs' = [refs EXCEPT ![msg.vdev] = @ + 1]

ScanStart(s) ==
  /\ req[s] = "new"
  /\ PostOsif(Start(s))
  /\ req' = [req EXCEPT ![s] = "held"]
  /\ UNCHANGED <<queueVars, timerVars, done, live, fw, told, events, sys, sched, missed>>

ScanCancel(c) ==
  /\ c.scan # NoScan => req[c.scan] = "held"
  /\ PostOsif(c)
  /\ UNCHANGED <<queueVars, timerVars, req, done, live, fw, told, events, sys, sched, missed>>

\* The deletion of a vdev begins; what is queued for it keeps it in memory.
VdevDelete(v) ==
  /\ v \in live \cap Doomed
  /\ live' = live \ {v}
  /\ UNCHANGED <<queueVars, timerVars, req, done, refs, fw, told, msgVars, sched, missed>>

-----------------------------------------------------------------------------
(***************************************************************************)
(* The firmware, and tgt_scan_event_handler, which takes its events.  An   *)
(* event is lost when its vdev is being deleted or the queue is full.      *)
(***************************************************************************)
FwEvent(s, terminal) ==
  /\ s \in fw
  /\ fw' = IF terminal THEN fw \ {s} ELSE fw
  /\ told' = IF terminal THEN told \ {s} ELSE told
  /\ LET v == VdevOf[s]
         taken == v \in live /\ Len(events) < MaxEvents
     IN /\ taken \/ terminal
        /\ events' = IF taken THEN Append(events, [scan |-> s, terminal |-> terminal])
                              ELSE events
        /\ refs' = IF taken THEN [refs EXCEPT ![v] = @ + 1] ELSE refs
  /\ UNCHANGED <<queueVars, timerVars, req, done, live, osif, sys, sched, missed>>

\* wlan_serialization_timer_handler: the command is ended on the scheduler thread.
TimerHandler(i) ==
  /\ i \in armed
  /\ armed' = armed \ {i}
  /\ sys' = Append(sys, i)
  /\ UNCHANGED <<queueVars, timer, req, done, refs, live, fw, told, osif, events, sched, missed>>

-----------------------------------------------------------------------------
(***************************************************************************)
(* scm_scan_start_req: the request goes to the active list when the limit  *)
(* allows it and nothing of its pdev waits, else to the pending list.      *)
(***************************************************************************)
TakeStart(s) ==
  /\ AtPc("idle") /\ osif # <<>> /\ Head(osif) = Start(s)
  /\ osif' = Tail(osif)
  /\ UNCHANGED <<timerVars, live, fw, told, events, sys, missed>>

ActiveNow(p) == ActiveAllowed(p) /\ pending[p] = <<>>

StartReqActive(s) ==
  LET p == PdevOfScan(s) IN
  /\ TakeStart(s)
  /\ ActiveNow(p)
  /\ active' = [active EXCEPT ![p] = Append(@, s)]
  /\ Run("activate", s, "REQUEST", NoAfter)
  /\ UNCHANGED <<pending, req, done, refs>>

StartReqPending(s) ==
  LET p == PdevOfScan(s) IN
  /\ TakeStart(s)
  /\ ~ActiveNow(p)
  /\ Len(pending[p]) < MaxPending
  /\ pending' = [pending EXCEPT ![p] = Append(@, s)]
  /\ UNCHANGED <<active, req, done, refs, sched>>

\* Scanning is disabled by now, the request has no channel left, a rule denies
\* it or the pending list is full: the requester gets INTERNAL_FAILURE.
StartReqRefused(s) ==
  /\ TakeStart(s)
  /\ done' = Completed({s})
  /\ refs' = RefsLess({s})
  /\ req' = Freed({s})
  /\ UNCHANGED <<queueVars, sched>>

-----------------------------------------------------------------------------
(***************************************************************************)
(* wlan_serialization_activate_cmd and the callback scm_activate_scan_-    *)
(* request.  The timer takes a reference to the vdev; when it cannot, the  *)
(* command is dropped and nobody is told.                                  *)
(***************************************************************************)
ActivateNoTimer ==
  /\ AtPc("activate")
  /\ VdevOf[sched.scan] \notin live
  /\ sched' = [sched EXCEPT !.pc = "dequeue", !.why = "ACTIVATION_FAILED"]
  /\ UNCHANGED <<queueVars, timerVars, req, done, refs, live, fw, told, msgVars, missed>>

\* Mutant: the timer is set up and not started.
StartTimerUnarmed(s) ==
  LET i == Min(SlotOf(NoScan)) IN
  /\ VdevOf[s] \in live
  /\ timer' = [timer EXCEPT ![i] = s]
  /\ refs' = [refs EXCEPT ![VdevOf[s]] = @ + 1]
  /\ UNCHANGED armed

StartTimer(s) ==
  LET i == Min(SlotOf(NoScan)) IN
  /\ VdevOf[s] \in live
  /\ timer' = [timer EXCEPT ![i] = s]
  /\ armed' = armed \cup {i}
  /\ refs' = [refs EXCEPT ![VdevOf[s]] = @ + 1]

ActivateOK ==
  /\ AtPc("activate")
  /\ StartTimer(sched.scan)
  /\ fw' = fw \cup {sched.scan}
  /\ Goto("finish")
  /\ UNCHANGED <<queueVars, req, done, live, told, msgVars, missed>>

\* Mutant: tgt_scan_start fails and the requester is not told.
ActivateFailsSilently ==
  /\ AtPc("activate")
  /\ StartTimer(sched.scan)
  /\ sched' = [sched EXCEPT !.pc = "dequeue", !.why = "ACTIVATION_FAILED"]
  /\ UNCHANGED <<queueVars, req, done, live, fw, told, msgVars, missed>>

\* tgt_scan_start fails: the requester is told now, the command dequeued next.
ActivateFails ==
  /\ AtPc("activate")
  /\ StartTimer(sched.scan)
  /\ done' = Completed({sched.scan})
  /\ sched' = [sched EXCEPT !.pc = "dequeue", !.why = "ACTIVATION_FAILED"]
  /\ UNCHANGED <<queueVars, req, live, fw, told, msgVars, missed>>

\* Mutant: the reference of an expired timer is given back here as well.
DequeuePutsTimerRef ==
  LET s == sched.scan  p == PdevOfScan(s) IN
  /\ AtPc("dequeue")
  /\ s \in ToSet(active[p])
  /\ active' = [active EXCEPT ![p] = RemoveFirst(@, s)]
  /\ TimersLess({s})
  /\ LET ofTimer == IF SlotOf(s) # {} THEN 1 ELSE 0
     IN refs' = [refs EXCEPT ![VdevOf[s]] = @ - 1 - ofTimer]
  /\ req' = Freed({s})
  /\ Goto("move")
  /\ UNCHANGED <<pending, done, live, fw, told, msgVars, missed>>

\* Mutant: after an activation that failed the next command is not tried.
DequeueNoMoveAfterFailure ==
  LET s == sched.scan  p == PdevOfScan(s) IN
  /\ AtPc("dequeue")
  /\ s \in ToSet(active[p])
  /\ active' = [active EXCEPT ![p] = RemoveFirst(@, s)]
  /\ TimersLess({s})
  /\ LET ofTimer == IF SlotOf(s) # {} /\ sched.why # "TIMEOUT" THEN 1 ELSE 0
     IN refs' = [refs EXCEPT ![VdevOf[s]] = @ - 1 - ofTimer]
  /\ req' = Freed({s})
  /\ Goto(IF sched.why = "ACTIVATION_FAILED" THEN "finish" ELSE "move")
  /\ UNCHANGED <<pending, done, live, fw, told, msgVars, missed>>

(***************************************************************************)
(* wlan_serialization_dequeue_cmd.  The timer's reference is given back    *)
(* here, unless the timer expired: then generic_timer_cb does it.  The     *)
(* callback RELEASE_MEM gives the request's own back and frees it.         *)
(***************************************************************************)
Dequeue ==
  LET s == sched.scan  p == PdevOfScan(s) IN
  /\ AtPc("dequeue")
  /\ s \in ToSet(active[p])
  /\ active' = [active EXCEPT ![p] = RemoveFirst(@, s)]
  /\ TimersLess({s})
  /\ LET ofTimer == IF SlotOf(s) # {} /\ sched.why # "TIMEOUT" THEN 1 ELSE 0
     IN refs' = [refs EXCEPT ![VdevOf[s]] = @ - 1 - ofTimer]
  /\ req' = Freed({s})
  /\ Goto("move")
  /\ UNCHANGED <<pending, done, live, fw, told, msgVars, missed>>

(***************************************************************************)
(* wlan_ser_move_scan_pending_to_active: the head of the pending list of   *)
(* the same pdev takes the place, if the limit still allows it.  A pdev    *)
(* whose requests wait although a place is free has been missed.           *)
(***************************************************************************)
Passed(p, pend, total) ==
  {q \in Pdev : pend[q] # <<>> /\ total < MaxActive /\ (q \in missed \/ q # p)}

MovePending ==
  LET p == PdevOfScan(sched.scan) IN
  /\ AtPc("move")
  /\ pending[p] # <<>> /\ ActiveAllowed(p)
  /\ active' = [active EXCEPT ![p] = Append(@, Head(pending[p]))]
  /\ pending' = [pending EXCEPT ![p] = Tail(@)]
  /\ sched' = [sched EXCEPT !.pc = "activate", !.scan = Head(pending[p])]
  /\ missed' = Passed(p, pending', Cardinality(ActiveScans) + 1)
  /\ UNCHANGED <<timerVars, req, done, refs, live, fw, told, msgVars>>

MoveNothing ==
  LET p == PdevOfScan(sched.scan) IN
  /\ AtPc("move")
  /\ pending[p] = <<>> \/ ~ActiveAllowed(p)
  /\ Goto("finish")
  /\ missed' = Passed(p, pending, Cardinality(ActiveScans))
  /\ UNCHANGED <<queueVars, timerVars, req, done, refs, live, fw, told, msgVars>>

\* Back in the handler of the message: the event handler posts the event, and
\* it and generic_timer_cb give back the reference they hold.
Finish ==
  LET after == sched.after IN
  /\ AtPc("finish")
  /\ done' = IF after.kind = "event" THEN Completed({after.scan}) ELSE done
  /\ refs' = IF after.kind = "none" THEN refs ELSE RefsLess({after.scan})
  /\ sched' = Idle
  /\ UNCHANGED <<queueVars, timerVars, req, live, fw, told, msgVars, missed>>

-----------------------------------------------------------------------------
(***************************************************************************)
(* scm_scan_event_handler: an event of a scan that is not active any more  *)
(* is dropped; a terminal one releases the command.                        *)
(***************************************************************************)
Dropped(s) == s \notin ActiveScans \/ VdevOf[s] \notin live

EventHandler ==
  LET e == Head(events) IN
  /\ AtPc("idle") /\ events # <<>>
  /\ events' = Tail(events)
  /\ IF e.terminal /\ ~Dropped(e.scan)
     THEN /\ Run("dequeue", e.scan, "REMOVE", [kind |-> "event", scan |-> e.scan])
          /\ UNCHANGED refs
     ELSE /\ refs' = RefsLess({e.scan})
          /\ UNCHANGED sched
  /\ UNCHANGED <<queueVars, timerVars, req, done, live, fw, told, osif, sys, missed>>

\* Mutant: the firmware is not told to stop a scan that timed out.
TimerCbTellsHostOnly ==
  LET s == timer[Head(sys)] IN
  /\ AtPc("idle") /\ sys # <<>>
  /\ sys' = Tail(sys)
  /\ IF s = NoScan
     THEN UNCHANGED <<done, sched>>
     ELSE /\ done' = Completed({s})
          /\ Run("dequeue", s, "TIMEOUT", [kind |-> "timeout", scan |-> s])
  /\ UNCHANGED <<queueVars, timerVars, req, refs, live, fw, told, osif, events, missed>>

(***************************************************************************)
(* wlan_serialization_generic_timer_cb, on the scheduler thread.  It acts  *)
(* on the command the timer points to now.                                 *)
(***************************************************************************)
GenericTimerCb ==
  LET s == timer[Head(sys)] IN
  /\ AtPc("idle") /\ sys # <<>>
  /\ sys' = Tail(sys)
  /\ IF s = NoScan
     THEN UNCHANGED <<told, done, sched>>
     ELSE /\ told' = told \cup ({s} \cap fw)
          /\ done' = Completed({s})
          /\ Run("dequeue", s, "TIMEOUT", [kind |-> "timeout", scan |-> s])
  /\ UNCHANGED <<queueVars, timerVars, req, refs, live, fw, osif, events, missed>>

(***************************************************************************)
(* scm_scan_cancel_req.  With wait_tgt_cancel only the firmware is told.   *)
(* Otherwise every command that matches is removed from both lists, the    *)
(* requesters get CANCELLED, and nothing takes the places that become      *)
(* free.                                                                   *)
(***************************************************************************)
Matching(c) ==
  CASE c.op = "single" -> {c.scan}
    [] c.op = "vdev"   -> OfVdev(c.vdev)
    [] c.op = "pdev"   -> OfPdev(PdevOf[c.vdev])
    [] OTHER           -> {}

\* wlan_ser_cancel_scan_cmd on the active and on the pending list
TakeOut(p, on, off) ==
  /\ active' = [active EXCEPT ![p] = Without(@, on)]
  /\ pending' = [pending EXCEPT ![p] = Without(@, off)]
  /\ TimersLess(on)
  /\ done' = Completed(on \cup off)
  /\ req' = Freed(on \cup off)

CancelReq ==
  LET c == Head(osif)
      p == PdevOf[c.vdev]
      on == Matching(c) \cap ToSet(active[p])
      off == Matching(c) \cap ToSet(pending[p])
      stop == IF c.op = "wait" THEN {c.scan} \cap ActiveScans ELSE on
  IN
  /\ AtPc("idle") /\ osif # <<>> /\ c.op # "start"
  /\ osif' = Tail(osif)
  /\ TakeOut(p, on, off)
  /\ told' = told \cup (fw \cap stop)
  /\ refs' = [v \in Vdev |-> RefsLess(on)[v] - Cardinality((on \cup off) \cap OfVdev(v))
                               - (IF v = c.vdev THEN 1 ELSE 0)]
  /\ missed' = {q \in Pdev : pending'[q] # <<>> /\ (q \in missed \/ on # {})}
  /\ UNCHANGED <<live, fw, events, sys, sched>>

Next ==
  \/ \E s \in Scan : \/ ScanStart(s)
                     \/ StartReqActive(s) \/ StartReqPending(s) \/ StartReqRefused(s)
                     \/ \E terminal \in BOOLEAN : FwEvent(s, terminal)
  \/ \E c \in CancelReqs : ScanCancel(c)
  \/ \E v \in Vdev : VdevDelete(v)
  \/ \E i \in Slot : TimerHandler(i)
  \/ ActivateNoTimer \/ ActivateOK \/ ActivateFails
  \/ Dequeue \/ MovePending \/ MoveNothing \/ Finish
  \/ EventHandler \/ GenericTimerCb \/ CancelReq

Spec == Init /\ [][Next]_vars

(***************************************************************************)
(* Fairness: timers expire, the scheduler thread ends the handler it runs  *)
(* and serves each of its queues again and again.  The clients and the     *)
(* firmware may do nothing.                                                *)
(***************************************************************************)
Chain == ActivateNoTimer \/ ActivateOK \/ ActivateFails \/ Dequeue
           \/ MovePending \/ MoveNothing \/ Finish

StartReq == \E s \in Scan : StartReqActive(s) \/ StartReqPending(s) \/ StartReqRefused(s)

Fairness ==
  /\ WF_vars(Chain)
  /\ \A i \in Slot : WF_vars(TimerHandler(i))
  /\ SF_vars(StartReq \/ CancelReq)
  /\ SF_vars(EventHandler)
  /\ SF_vars(GenericTimerCb)

FairSpec == Spec /\ Fairness

-----------------------------------------------------------------------------
(***************************************************************************)
(* Properties.                                                             *)
(***************************************************************************)
\* The lists of a queue hold commands of their pdev, none of them twice.
ListsOK(lists) ==
  /\ lists \in [Pdev -> Seq(Scan)]
  /\ \A p \in Pdev : IsInjective(lists[p]) /\ ToSet(lists[p]) \subseteq OfPdev(p)

\* The values the variables of the scan queues and of the scan manager take.
TypeOK ==
  /\ ListsOK(active) /\ ListsOK(pending)
  /\ timer \in [Slot -> Scan \cup {NoScan}] /\ armed \subseteq Slot
  /\ req \in [Scan -> {"new", "held", "freed"}]
  /\ done \in [Scan -> Nat]
  /\ refs \in [Vdev -> Nat]
  /\ live \subseteq Vdev /\ fw \subseteq Scan /\ told \subseteq Scan
  /\ missed \subseteq Pdev
  /\ osif \in Seq(OsifMsg)
  /\ events \in Seq(Event) /\ sys \in Seq(Slot)
  /\ sched \in [pc: {"idle", "activate", "dequeue", "move", "finish"},
                scan: Scan \cup {NoScan},
                why: {"REQUEST", "REMOVE", "ACTIVATION_FAILED", "TIMEOUT"}, after: After]

\* A scan whose timer, cancel request and completion event race is completed
\* once: the requester never gets a second completion event, and gets none
\* only for a scan dropped because its vdev was being deleted
\* (scm_post_internal_scan_complete_event, scm_scan_event_handler).
OneCompletion ==
  \A s \in Scan :
    /\ done[s] <= 1
    /\ req[s] = "freed" /\ VdevOf[s] \in live =>
         done[s] = 1 \/ sched.after = [kind |-> "event", scan |-> s]
    /\ done[s] = 1 => req[s] = "freed" \/ (AtPc("dequeue") /\ sched.scan = s)

\* The references to a vdev: those of the requests in memory, of the timers,
\* of the cancel requests and of the firmware events in the scheduler queues,
\* and of the handler that runs (an event, or a timer that expired).
OfRequests(v) == Cardinality({s \in OfVdev(v) : req[s] = "held"})
OfTimers(v) == Cardinality({i \in Slot : timer[i] \in OfVdev(v)})
OfCancels(v) == Occurrences(osif, {c \in CancelReqs : c.vdev = v})
OfEvents(v) == Occurrences(events, {e \in Event : VdevOf[e.scan] = v})

HandlerHolds ==
  \/ sched.after.kind = "event"
  \/ sched.after.kind = "timeout" /\ ~(AtPc("dequeue") /\ sched.why = "TIMEOUT")

OfHandler(v) == IF HandlerHolds /\ sched.after.scan \in OfVdev(v) THEN 1 ELSE 0

\* Every reference to a vdev belongs to a request, a message, a timer or the
\* handler that runs, so it is given back exactly once on every path: the
\* vdev can be freed and is never freed early.
RefsExact ==
  \A v \in Vdev :
    refs[v] = OfRequests(v) + OfTimers(v) + OfCancels(v) + OfEvents(v) + OfHandler(v)

\* Between two messages exactly the active scans have a timer, one each, and
\* their requests are in memory; "an active command should always have the
\* timer" (QDF_BUG in wlan_ser_cancel_scan_cmd).
ActiveTimed ==
  /\ AtPc("idle") =>
       \A s \in Scan : Cardinality(SlotOf(s)) = IF s \in ActiveScans THEN 1 ELSE 0
  /\ AtPc("dequeue") => sched.scan \in ActiveScans
  /\ \A p \in Pdev, s \in Scan : s \in ToSet(active[p]) \cup ToSet(pending[p]) => req[s] = "held"

\* The firmware scans for nobody: a scan it runs is active, or the firmware
\* was told to stop it (tgt_scan_cancel after a timeout or a cancel request).
FirmwareTold == fw \subseteq ActiveScans \cup told

\* The limit on active scans holds over all pdevs
\* (wlan_serialization_is_active_scan_cmd_allowed), and between two messages a
\* request waits only because the limit is reached, or because its pdev was
\* missed when a place became free.
WaitsForLimit ==
  /\ Cardinality(ActiveScans) <= MaxActive
  /\ AtPc("idle") =>
       \A p \in Pdev : pending[p] # <<>> /\ p \notin missed =>
                         Cardinality(ActiveScans) >= MaxActive

\* What wlan_serialization_enqueue_cmd says of scan commands: one goes to the
\* pending queue "as we reached max allowed scan active command".
PendingMeansLimit ==
  AtPc("idle") =>
    \A p \in Pdev : pending[p] # <<>> => Cardinality(ActiveScans) >= MaxActive

\* An accepted request ends, whatever the firmware, the other clients and the
\* deletion of vdevs do: an active one always, by its timer if by nothing else,
\* and a waiting one unless its pdev is missed.
RequestEnds ==
  \A s \in Scan :
    (req[s] = "held") ~>
       \/ req[s] = "freed"
       \/ PdevOfScan(s) \in missed /\ s \notin ActiveScans


-----------------------------------------------------------------------------
(***************************************************************************)
(* The inductive invariant: TypeOK, RefsExact and what follows.            *)
(***************************************************************************)
\* Scans that wait in a pending list, and scans whose start message is queued.
Waiting == InLists(pending)
Asked == {s \in Scan : Start(s) \in ToSet(osif)}

\* No request is asked for twice.
UniqueStarts(q) == \A j, k \in DOMAIN q : q[j].op = "start" /\ q[j] = q[k] => j = k

\* A request is in at most one place, and in memory as long as it is in one.
Places ==
  /\ ActiveScans \cap Waiting = {}
  /\ Asked \cap (ActiveScans \cup Waiting) = {}
  /\ \A s \in ActiveScans \cup Waiting \cup Asked : req[s] = "held"
  /\ UniqueStarts(osif)

\* The command in hand is on its way into or out of the active list.
InHand(s) == sched.scan = s /\ (AtPc("activate") \/ AtPc("dequeue"))

\* A timer points to an active scan, and no two to the same; every active scan
\* has one but for the command in hand, which has none before it is activated.
Timed ==
  /\ \A i \in Slot : timer[i] \in ActiveScans \cup {NoScan}
  /\ \A i, j \in Slot : timer[i] = timer[j] /\ timer[i] # NoScan => i = j
  /\ \A s \in ActiveScans : SlotOf(s) # {} \/ InHand(s)
  /\ AtPc("activate") => SlotOf(sched.scan) = {}
  /\ AtPc("dequeue") /\ sched.why = "TIMEOUT" => SlotOf(sched.scan) # {}

\* What the handler works on and has left to do.
Handling ==
  /\ AtPc("idle") <=> sched = Idle
  /\ sched.pc # "idle" => sched.scan \in Scan
  /\ sched.after.kind # "none" => sched.after.scan \in Scan
  /\ AtPc("activate") \/ AtPc("dequeue") => sched.scan \in ActiveScans
  /\ AtPc("dequeue") =>
       \/ sched.why = "REMOVE" /\ sched.after = [kind |-> "event", scan |-> sched.scan]
       \/ sched.why = "TIMEOUT" /\ sched.after = [kind |-> "timeout", scan |-> sched.scan]
       \/ sched.why = "ACTIVATION_FAILED"
  /\ ~(AtPc("dequeue") /\ sched.why = "REMOVE") /\ sched.after.kind = "event" =>
       req[sched.after.scan] = "freed" /\ done[sched.after.scan] = 0

\* Who has been told of the end of a scan.
Told ==
  \A s \in Scan :
    /\ req[s] = "freed" => done[s] \in {0, 1}
    /\ req[s] # "freed" /\ ~(AtPc("dequeue") /\ sched.scan = s) => done[s] = 0
    /\ AtPc("dequeue") /\ sched.scan = s =>
         \/ sched.why = "REMOVE" /\ done[s] = 0
         \/ sched.why = "TIMEOUT" /\ done[s] = 1
         \/ sched.why = "ACTIVATION_FAILED" /\ done[s] \in {0, 1}
              /\ (done[s] = 0 => VdevOf[s] \notin live)
    /\ req[s] = "freed" /\ VdevOf[s] \in live =>
         done[s] = 1 \/ sched.after = [kind |-> "event", scan |-> s]

\* Before it is activated the firmware knows nothing of a scan; when it
\* reported the end of a scan it does not run it any more.
NotBegun(s) ==
  req[s] = "new" \/ s \in Asked \cup Waiting \/ (AtPc("activate") /\ sched.scan = s)

Firmware ==
  /\ \A s \in Scan : NotBegun(s) => s \notin fw /\ \A e \in ToSet(events) : e.scan # s
  /\ \A e \in ToSet(events) : e.terminal => e.scan \notin fw
  /\ AtPc("dequeue") /\ sched.scan \in fw => sched.scan \in told
  /\ FirmwareTold

\* A place that became free is offered before the message is done with.
Limit ==
  LET total == Cardinality(ActiveScans) + (IF AtPc("move") THEN 1 ELSE 0)
  IN /\ total <= MaxActive
     /\ \A p \in Pdev : pending[p] # <<>> /\ p \notin missed => total >= MaxActive

IndInv == TypeOK /\ Places /\ Timed /\ Handling /\ Told /\ Firmware /\ Limit /\ RefsExact
=============================================================================
