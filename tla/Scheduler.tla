------------------------------ MODULE Scheduler ------------------------------
(***************************************************************************)
(* The scheduler: clients post messages, one thread takes them from its    *)
(* queues by priority and runs their handlers.  Another thread enables and *)
(* disables the scheduler, and the power-management client suspends and    *)
(* resumes its thread.                                                     *)
(*                                                                         *)
(* An action is one atomic operation of the code: a list operation under   *)
(* the lock of a queue, an atomic bit or counter, an event.  Everything    *)
(* between two of them may be interleaved with the other threads.          *)
(*                                                                         *)
(* A message is an atom; Where gives its queue, and High the messages      *)
(* posted with is_high_priority.  All queues are registered.               *)
(***************************************************************************)
EXTENDS Integers, FiniteSets, SequencesExt

CONSTANTS
  Msg, Poster, NoMsg,
  NQueues,       \* SCHEDULER_NUMBER_OF_MSG_QUEUE
  MaxMessages,   \* SCHEDULER_CORE_MAX_MESSAGES
  Where,         \* the queue of a message
  High,          \* messages that go to the front of their queue
  MayGiveUp,     \* the client may stop waiting for the thread to suspend
  Quiet          \* clients do not post once the thread has exited

Queue == 0 .. NQueues - 1

ASSUME ConstantsAssumption ==
  /\ NQueues \in Nat \ {0} /\ MaxMessages \in Nat
  /\ Where \in [Msg -> Queue] /\ High \subseteq Msg
  /\ NoMsg \notin Msg
  /\ MayGiveUp \in BOOLEAN /\ Quiet \in BOOLEAN

VARIABLES
  q,            \* sch_msg_q[i].mq_list
  depth,        \* __sched_queue_depth
  flags,        \* sch_event_flag
  schThread,    \* sch_thread # NULL
  startEvent,   \* sch_start_event, sch_shutdown and resume_sch_event:
  shutdownEvent,\*   signalled and not yet waited for
  resumeEvent,
  post,         \* the call a client is making
  thr,          \* the scheduler thread: where it is, queue index, message, shutdown
  ctl,          \* the thread that enables and disables
  flushIdx,     \* the queue it is flushing
  client        \* the power-management client

schedVars == <<q, depth, flags>>
eventVars == <<startEvent, shutdownEvent, resumeEvent>>
ctlVars == <<schThread, ctl, flushIdx>>
vars == <<schedVars, eventVars, ctlVars, post, thr, client>>

IdlePost == [pc |-> "idle", msg |-> NoMsg]
NoThread == [pc |-> "none", idx |-> 0, msg |-> NoMsg, shutdown |-> FALSE]

Queued == {m \in Msg : \E i \in Queue : m \in ToSet(q[i])}

\* Messages that hold a unit of __sched_queue_depth.
Handling == {m \in Msg : thr.msg = m}
Posting == {m \in Msg : \E p \in Poster : post[p] = [pc |-> "put", msg |-> m]}
Counted == Queued \cup Handling \cup Posting

\* Posts that are being refused; they hold one too.
Refused == {p \in Poster : post[p].pc = "undo"}

\* Message structures a client can still fill in: the others are in use.
Fresh(m) == m \notin Counted /\ \A p \in Poster : post[p].msg # m
-----------------------------------------------------------------------------
(***************************************************************************)
(* scheduler_post_msg_by_priority.  The test of sch_thread, the count of   *)
(* messages, the insertion and the event bit are separate steps.  Quiet    *)
(* clients begin no call once the thread has exited, and the calls they    *)
(* had begun are over before scheduler_disable goes on (see Join).         *)
(***************************************************************************)
PostCheck(p, m) ==
  /\ post[p].pc = "idle" /\ Fresh(m)
  /\ schThread
  /\ Quiet => thr.pc # "none"
  /\ post' = [post EXCEPT ![p] = [pc |-> "dup", msg |-> m]]
  /\ UNCHANGED <<schedVars, eventVars, ctlVars, thr, client>>

\* scheduler_core_msg_dup: the count goes up first, and back when the limit
\* is passed or memory is short.
MsgDup(p) ==
  /\ post[p].pc = "dup"
  /\ depth' = depth + 1
  /\ \/ depth' <= MaxMessages /\ post' = [post EXCEPT ![p].pc = "put"]
     \/ post' = [post EXCEPT ![p] = [pc |-> "undo", msg |-> NoMsg]]
  /\ UNCHANGED <<q, flags, eventVars, ctlVars, thr, client>>

\* Mutant: a refused message stays counted.
UndoWithoutCount(p) ==
  /\ post[p].pc = "undo"
  /\ post' = [post EXCEPT ![p] = IdlePost]
  /\ UNCHANGED <<schedVars, eventVars, ctlVars, thr, client>>

DecQueueCount(p) ==
  /\ post[p].pc = "undo"
  /\ depth' = depth - 1
  /\ post' = [post EXCEPT ![p] = IdlePost]
  /\ UNCHANGED <<q, flags, eventVars, ctlVars, thr, client>>

\* scheduler_mq_put, scheduler_mq_put_front
MqPut(p) ==
  /\ post[p].pc = "put"
  /\ LET m == post[p].msg
         s == q[Where[m]]
     IN  q' = [q EXCEPT ![Where[m]] = IF m \in High THEN Cons(m, s) ELSE Append(s, m)]
  /\ post' = [post EXCEPT ![p] = [pc |-> "signal", msg |-> NoMsg]]
  /\ UNCHANGED <<depth, flags, eventVars, ctlVars, thr, client>>

\* Mutant: the event bit is not set.
PostWithoutSignal(p) ==
  /\ post[p].pc = "signal"
  /\ post' = [post EXCEPT ![p] = IdlePost]
  /\ UNCHANGED <<schedVars, eventVars, ctlVars, thr, client>>

PostSignal(p) ==
  /\ post[p].pc = "signal"
  /\ flags' = flags \cup {"POST"}
  /\ post' = [post EXCEPT ![p] = IdlePost]
  /\ UNCHANGED <<q, depth, eventVars, ctlVars, thr, client>>
-----------------------------------------------------------------------------
(***************************************************************************)
(* scheduler_thread.  It tells scheduler_enable that it runs, then sleeps  *)
(* until a message is posted or it is to suspend.                          *)
(***************************************************************************)
ThreadStart ==
  /\ thr.pc = "start"
  /\ startEvent' = TRUE
  /\ thr' = [thr EXCEPT !.pc = "wait"]
  /\ UNCHANGED <<schedVars, shutdownEvent, resumeEvent, ctlVars, post, client>>

Wake ==
  /\ thr.pc = "wait"
  /\ flags \cap {"POST", "SUSPEND"} # {}
  /\ thr' = [thr EXCEPT !.pc = "clear"]
  /\ UNCHANGED <<schedVars, eventVars, ctlVars, post, client>>

ClearPost ==
  /\ thr.pc = "clear"
  /\ flags' = flags \ {"POST"}
  /\ thr' = [thr EXCEPT !.pc = "check", !.idx = 0]
  /\ UNCHANGED <<q, depth, eventVars, ctlVars, post, client>>

\* hdd_callback (external): the client that waits for the suspend goes on.
HddCallback == client' = IF client = "waiting" THEN "suspended" ELSE client

\* Mutant: the thread shuts down without telling who waits for its suspend.
ShutdownSilently ==
  /\ thr.pc = "check"
  /\ IF "SHUTDOWN" \in flags
     THEN /\ thr' = [thr EXCEPT !.pc = "idle", !.shutdown = TRUE]
          /\ flags' = flags \ {"SUSPEND"}
     ELSE thr' = [thr EXCEPT !.pc = "get"] /\ UNCHANGED flags
  /\ UNCHANGED <<q, depth, eventVars, ctlVars, post, client>>

\* scheduler_thread_process_queues: the head of the loop over the queues.
CheckShutdown ==
  /\ thr.pc = "check"
  /\ \/ /\ "SHUTDOWN" \in flags
        /\ thr' = [thr EXCEPT !.pc = "idle", !.shutdown = TRUE]
        /\ flags' = flags \ {"SUSPEND"}
        /\ IF "SUSPEND" \in flags THEN HddCallback ELSE UNCHANGED client
     \/ /\ "SHUTDOWN" \notin flags
        /\ thr' = [thr EXCEPT !.pc = "get"]
        /\ UNCHANGED <<flags, client>>
  /\ UNCHANGED <<q, depth, eventVars, ctlVars, post>>

\* Mutant: the loop visits one queue too many.
PastLastQueue(i) == IF i < NQueues THEN [thr EXCEPT !.pc = "check", !.idx = i + 1]
                    ELSE [thr EXCEPT !.pc = "idle"]

\* Where the thread goes when queue i is empty.
NextQueue(i) == IF i + 1 < NQueues THEN [thr EXCEPT !.pc = "check", !.idx = i + 1]
                ELSE [thr EXCEPT !.pc = "idle"]

\* scheduler_mq_get
MqGet ==
  /\ thr.pc = "get"
  /\ LET i == thr.idx
     IN  \/ /\ q[i] = <<>>
            /\ thr' = NextQueue(i)
            /\ UNCHANGED q
         \/ /\ q[i] # <<>>
            /\ thr' = [thr EXCEPT !.pc = "handle", !.msg = Head(q[i])]
            /\ q' = [q EXCEPT ![i] = Tail(@)]
  /\ UNCHANGED <<depth, flags, eventVars, ctlVars, post, client>>

\* The handler has returned: scheduler_core_msg_free, and the loop starts
\* again with the queue of highest priority.
Handled ==
  /\ thr.pc = "handle"
  /\ depth' = depth - 1
  /\ thr' = [thr EXCEPT !.pc = "check", !.idx = 0, !.msg = NoMsg]
  /\ UNCHANGED <<q, flags, eventVars, ctlVars, post, client>>

\* After scheduler_thread_process_queues.
AfterQueues == [thr EXCEPT !.pc = IF thr.shutdown THEN "exit" ELSE "wait", !.idx = 0]

\* Mutant: the thread clears the post bit when it has found the queues empty.
ClearPostOnReturn ==
  /\ thr.pc = "idle"
  /\ thr' = IF "SUSPEND" \in flags THEN [thr EXCEPT !.pc = "ack"] ELSE AfterQueues
  /\ flags' = flags \ {"SUSPEND", "POST"}
  /\ UNCHANGED <<q, depth, eventVars, ctlVars, post, client>>

CheckSuspend ==
  /\ thr.pc = "idle"
  /\ thr' = IF "SUSPEND" \in flags THEN [thr EXCEPT !.pc = "ack"] ELSE AfterQueues
  /\ flags' = flags \ {"SUSPEND"}
  /\ UNCHANGED <<q, depth, eventVars, ctlVars, post, client>>

\* Mutant: an old resume event is not reset.
AckWithoutReset ==
  /\ thr.pc = "ack"
  /\ HddCallback
  /\ thr' = [thr EXCEPT !.pc = "suspended"]
  /\ UNCHANGED <<schedVars, eventVars, ctlVars, post>>

\* The section under sch_thread_lock.
AckSuspend ==
  /\ thr.pc = "ack"
  /\ resumeEvent' = FALSE
  /\ HddCallback
  /\ thr' = [thr EXCEPT !.pc = "suspended"]
  /\ UNCHANGED <<schedVars, startEvent, shutdownEvent, ctlVars, post>>

Resumed ==
  /\ thr.pc = "suspended"
  /\ resumeEvent
  /\ resumeEvent' = FALSE
  /\ thr' = AfterQueues
  /\ UNCHANGED <<schedVars, startEvent, shutdownEvent, ctlVars, post, client>>

ThreadExit ==
  /\ thr.pc = "exit"
  /\ shutdownEvent' = TRUE
  /\ thr' = NoThread
  /\ UNCHANGED <<schedVars, startEvent, resumeEvent, ctlVars, post, client>>
-----------------------------------------------------------------------------
(***************************************************************************)
(* scheduler_enable, scheduler_disable                                     *)
(***************************************************************************)
\* A suspended system does not enable the driver.
Enable ==
  /\ ctl = "off" /\ client # "suspended"
  /\ flags' = flags \ {"SHUTDOWN", "POST"}
  /\ \/ /\ thr' = [NoThread EXCEPT !.pc = "start"]
        /\ schThread' = TRUE
        /\ ctl' = "starting"
     \/ UNCHANGED <<thr, schThread, ctl>>        \* no thread could be created
  /\ UNCHANGED <<q, depth, eventVars, flushIdx, post, client>>

Enabled ==
  /\ ctl = "starting"
  /\ startEvent
  /\ startEvent' = FALSE
  /\ ctl' = "on"
  /\ UNCHANGED <<schedVars, shutdownEvent, resumeEvent, schThread, flushIdx, post, thr,
                 client>>

Disable ==
  /\ ctl = "on"
  /\ flags' = flags \cup {"SHUTDOWN"}
  /\ ctl' = "signal"
  /\ UNCHANGED <<q, depth, eventVars, schThread, flushIdx, post, thr, client>>

\* Mutant: the sleeping thread is not woken.
DisableWithoutPost ==
  /\ ctl = "signal"
  /\ ctl' = "join"
  /\ UNCHANGED <<schedVars, eventVars, schThread, flushIdx, post, thr, client>>

DisableSignal ==
  /\ ctl = "signal"
  /\ flags' = flags \cup {"POST"}
  /\ ctl' = "join"
  /\ UNCHANGED <<q, depth, eventVars, schThread, flushIdx, post, thr, client>>

Join ==
  /\ ctl = "join"
  /\ shutdownEvent
  /\ Quiet => \A p \in Poster : post[p].pc = "idle"
  /\ shutdownEvent' = FALSE
  /\ schThread' = FALSE
  /\ ctl' = "flush" /\ flushIdx' = 0
  /\ UNCHANGED <<schedVars, startEvent, resumeEvent, post, thr, client>>

\* Mutant: the last queue is not flushed.
FlushAllButLast ==
  /\ ctl = "flush"
  /\ \/ /\ q[flushIdx] # <<>> /\ flushIdx + 1 < NQueues
        /\ q' = [q EXCEPT ![flushIdx] = Tail(@)]
        /\ depth' = depth - 1
        /\ UNCHANGED <<ctl, flushIdx>>
     \/ /\ q[flushIdx] = <<>> \/ flushIdx + 1 = NQueues
        /\ IF flushIdx + 1 < NQueues
           THEN flushIdx' = flushIdx + 1 /\ UNCHANGED ctl
           ELSE flushIdx' = 0 /\ ctl' = "off"
        /\ UNCHANGED <<q, depth>>
  /\ UNCHANGED <<flags, eventVars, schThread, post, thr, client>>

\* scheduler_queues_flush, one message or the end of one queue
Flush ==
  /\ ctl = "flush"
  /\ \/ /\ q[flushIdx] # <<>>
        /\ q' = [q EXCEPT ![flushIdx] = Tail(@)]
        /\ depth' = depth - 1
        /\ UNCHANGED <<ctl, flushIdx>>
     \/ /\ q[flushIdx] = <<>>
        /\ IF flushIdx + 1 < NQueues
           THEN flushIdx' = flushIdx + 1 /\ UNCHANGED ctl
           ELSE flushIdx' = 0 /\ ctl' = "off"
        /\ UNCHANGED <<q, depth>>
  /\ UNCHANGED <<flags, eventVars, schThread, post, thr, client>>
-----------------------------------------------------------------------------
(***************************************************************************)
(* The power-management client: scheduler_set_event_mask and               *)
(* scheduler_wake_up_controller_thread, scheduler_clear_event_mask,        *)
(* scheduler_resume.                                                       *)
(***************************************************************************)
Suspend ==
  /\ client = "active" /\ ctl = "on"
  /\ flags' = flags \cup {"SUSPEND"}
  /\ client' = "waiting"
  /\ UNCHANGED <<q, depth, eventVars, ctlVars, post, thr>>

GiveUp ==
  /\ MayGiveUp
  /\ client = "waiting"
  /\ flags' = flags \ {"SUSPEND"}
  /\ client' = "active"
  /\ UNCHANGED <<q, depth, eventVars, ctlVars, post, thr>>

Resume ==
  /\ client = "suspended"
  /\ resumeEvent' = TRUE
  /\ client' = "active"
  /\ UNCHANGED <<schedVars, startEvent, shutdownEvent, ctlVars, post, thr>>
-----------------------------------------------------------------------------
Init ==
  /\ q = [i \in Queue |-> <<>>] /\ depth = 0 /\ flags = {}
  /\ schThread = FALSE /\ ctl = "off" /\ flushIdx = 0
  /\ startEvent = FALSE /\ shutdownEvent = FALSE /\ resumeEvent = FALSE
  /\ post = [p \in Poster |-> IdlePost]
  /\ thr = NoThread
  /\ client = "active"

\* A call to post, once begun.
PostStep(p) == MsgDup(p) \/ DecQueueCount(p) \/ MqPut(p) \/ PostSignal(p)

ThreadStep ==
  \/ ThreadStart \/ Wake \/ ClearPost \/ CheckShutdown \/ MqGet \/ Handled
  \/ CheckSuspend \/ AckSuspend \/ Resumed \/ ThreadExit

\* Enable and disable, once begun.
CtlStep == Enabled \/ DisableSignal \/ Join \/ Flush

Next ==
  \/ \E p \in Poster : (\E m \in Msg : PostCheck(p, m)) \/ PostStep(p)
  \/ ThreadStep
  \/ Enable \/ Disable \/ CtlStep
  \/ Suspend \/ GiveUp \/ Resume

Spec == Init /\ [][Next]_vars

(***************************************************************************)
(* Fairness.  Threads that can run do: a post, the scheduler thread (its   *)
(* watchdog bites when a handler does not return), an enable or a disable  *)
(* that has begun.  A system that was suspended is resumed.                *)
(***************************************************************************)
Fairness ==
  /\ \A p \in Poster : WF_vars(PostStep(p))
  /\ WF_vars(ThreadStep) /\ WF_vars(CtlStep) /\ WF_vars(Resume)

FairSpec == Spec /\ Fairness
-----------------------------------------------------------------------------
(***************************************************************************)
(* Type invariant: a queue holds messages that were posted to it, and the  *)
(* loop over the queues stays in their range.                              *)
(***************************************************************************)
ThreadPC == {"none", "start", "wait", "clear", "check", "get", "handle", "idle", "ack",
             "suspended", "exit"}

TypeOK ==
  /\ q \in [Queue -> Seq(Msg)]
  /\ \A i \in Queue : \A m \in ToSet(q[i]) : Where[m] = i
  /\ depth \in Int
  /\ flags \subseteq {"POST", "SUSPEND", "SHUTDOWN"}
  /\ schThread \in BOOLEAN
  /\ startEvent \in BOOLEAN /\ shutdownEvent \in BOOLEAN /\ resumeEvent \in BOOLEAN
  /\ post \in [Poster -> [pc : {"idle", "dup", "put", "signal", "undo"},
                          msg : Msg \cup {NoMsg}]]
  /\ \A p \in Poster : post[p].msg # NoMsg <=> post[p].pc \in {"dup", "put"}
  /\ thr \in [pc : ThreadPC, idx : Queue, msg : Msg \cup {NoMsg}, shutdown : BOOLEAN]
  /\ thr.msg # NoMsg <=> thr.pc = "handle"
  /\ ctl \in {"off", "starting", "on", "signal", "join", "flush"}
  /\ flushIdx \in Queue
  /\ client \in {"active", "waiting", "suspended"}

(***************************************************************************)
(* __sched_queue_depth counts exactly the messages that are queued, being  *)
(* put into a queue or being handled, and the posts that are being         *)
(* refused: no path loses a unit of the pool or frees one twice.           *)
(***************************************************************************)
DepthExact ==
  depth = Cardinality(Counted) + Cardinality(Refused)

\* Someone has announced the messages that are in the queues.
Announced == "POST" \in flags \/ \E p \in Poster : post[p].pc = "signal"

(***************************************************************************)
(* No lost wake-up: the thread neither sleeps nor waits to be resumed with *)
(* a message in a queue unless the post bit is set, or a post is about to  *)
(* set it (scheduler_thread, scheduler_post_msg_by_priority).              *)
(***************************************************************************)
NoLostWakeup ==
  thr.pc \in {"wait", "suspended"} /\ ~thr.shutdown /\ Queued # {} => Announced

(***************************************************************************)
(* scheduler_disable leaves no message behind: with the scheduler off, the *)
(* queues have been flushed.                                               *)
(***************************************************************************)
FlushedWhenOff == ctl = "off" => Queued = {}

(***************************************************************************)
(* From the callback that completes a suspend to the resume, no handler    *)
(* runs on the scheduler thread.                                           *)
(***************************************************************************)
SuspendedIdle == client = "suspended" => thr.pc # "handle"

-----------------------------------------------------------------------------
(***************************************************************************)
(* What makes these invariants inductive.                                  *)
(***************************************************************************)
\* A message is in one place at a time.
OnePlace ==
  /\ \A i \in Queue : IsInjective(q[i])
  /\ thr.msg \notin Queued
  /\ \A p \in Poster : post[p].pc \in {"dup", "put"} =>
        post[p].msg \notin Queued /\ post[p].msg # thr.msg
  /\ \A p, r \in Poster : post[p].msg = post[r].msg /\ post[p].msg # NoMsg => p = r

\* How the life of the thread goes with the calls that start and stop it.
Lifecycle ==
  /\ schThread <=> ctl \notin {"off", "flush"}
  /\ ctl \in {"off", "flush"} => thr.pc = "none" /\ ~shutdownEvent
  /\ shutdownEvent => thr.pc = "none" /\ ctl \in {"signal", "join"}
  /\ "SHUTDOWN" \in flags => ctl \notin {"starting", "on"}
  /\ thr.shutdown => /\ thr.pc \in {"idle", "ack", "suspended", "exit"}
                     /\ ctl \in {"signal", "join"}
  /\ thr.pc = "exit" => thr.shutdown

\* Where the thread can be while its client thinks it is suspended.
SuspendInv ==
  client = "suspended" => \/ thr.pc = "suspended" /\ ~resumeEvent
                          \/ thr.shutdown
                          \/ thr.pc = "none"

\* The queues the thread has passed are empty, or what was put into them
\* since then is announced.
WakeInv ==
  ~thr.shutdown =>
    /\ thr.pc \in {"check", "get"} =>
         \A i \in Queue : i < thr.idx /\ q[i] # <<>> => Announced
    /\ thr.pc \in {"start", "wait", "idle", "ack", "suspended"} =>
         \A i \in Queue : q[i] # <<>> => Announced

\* With quiet clients, nobody posts into a queue that has been flushed.
FlushInv ==
  /\ ctl \in {"off", "flush"} => \A p \in Poster : post[p].pc = "idle"
  /\ ctl = "flush" => \A i \in Queue : i < flushIdx => q[i] = <<>>
  /\ ctl = "off" => \A i \in Queue : q[i] = <<>>
-----------------------------------------------------------------------------
\* The client stopped waiting for a suspend that the thread had taken: the
\* thread waits for a resume that nobody sends.
Abandoned == thr.pc = "suspended" /\ client # "suspended" /\ ~resumeEvent

(***************************************************************************)
(* Who waits for the thread to suspend is answered, also when the          *)
(* scheduler is disabled meanwhile.  The thread looks at the suspend bit   *)
(* when its queues are empty, so only posts that go on for ever can hold   *)
(* the answer up, or a suspend that was given up too late before.          *)
(***************************************************************************)
SuspendAnswered ==
  <>[](\A p \in Poster : post[p].pc = "idle") =>
     (client = "waiting" ~> client # "waiting" \/ Abandoned)

(***************************************************************************)
(* scheduler_disable returns, whatever is being posted, handled or         *)
(* suspended; only a suspend given up too late can keep it waiting.        *)
(***************************************************************************)
DisableReturns == ctl = "signal" ~> (ctl = "off" \/ Abandoned)

(***************************************************************************)
(* A message in the queue of highest priority, not overtaken by others     *)
(* that go to the front, is handled or flushed, with the same exception.   *)
(***************************************************************************)
TopQueueServed ==
  \A m \in Msg \ High : m \in ToSet(q[0]) ~> (m \notin ToSet(q[0]) \/ Abandoned)
=============================================================================
