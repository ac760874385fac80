-------------------------- MODULE SchedulerProofs --------------------------
(***************************************************************************)
(* Theorems about the scheduler, for any messages, clients, number of      *)
(* queues and limit.                                                       *)
(***************************************************************************)
EXTENDS Scheduler, ListLemmas

-----------------------------------------------------------------------------
(***************************************************************************)
(* The queues.                                                             *)
(***************************************************************************)
\* What the proofs need to know about the queues.
QueueInv ==
  /\ q \in [Queue -> Seq(Msg)]
  /\ \A i \in Queue : \A m \in ToSet(q[i]) : Where[m] = i
  /\ \A i \in Queue : IsInjective(q[i])

\* A message put at either end of its queue is queued, the others stay.
LEMMA PutQueue ==
  ASSUME QueueInv, NEW m \in Msg, m \notin Queued,
         q' = [q EXCEPT ![Where[m]] = IF m \in High THEN Cons(m, q[Where[m]])
                                       ELSE Append(q[Where[m]], m)]
  PROVE  QueueInv' /\ Queued' = Queued \cup {m}
<1> DEFINE w == Where[m]
           s == IF m \in High THEN Cons(m, q[w]) ELSE Append(q[w], m)
<1>1. w \in Queue /\ q[w] \in Seq(Msg) /\ m \notin ToSet(q[w])
  BY ConstantsAssumption DEF QueueInv, Queued
<1>2. s \in Seq(Msg) /\ ToSet(s) = ToSet(q[w]) \cup {m} /\ IsInjective(s)
  <2>1. IsInjective(q[w])
    BY <1>1 DEF QueueInv
  <2>2. CASE m \in High
    <3>1. s = Cons(m, q[w])
      BY <2>2
    <3> QED
      BY ONLY <1>1, <2>1, <3>1, ConsMembers
  <2>3. CASE m \notin High
    <3>1. s = Append(q[w], m)
      BY <2>3
    <3>2. /\ Append(q[w], m) \in Seq(Msg)
          /\ ToSet(Append(q[w], m)) = ToSet(q[w]) \cup {m}
          /\ IsInjective(Append(q[w], m))
      BY <1>1, <2>1, AppendMembers, Zenon
    <3> QED
      BY <3>1, <3>2, Zenon
  <2> QED
    BY <2>2, <2>3
<1>3. q' \in [Queue -> Seq(Msg)] /\ q'[w] = s /\ \A i \in Queue \ {w} : q'[i] = q[i]
  BY <1>1, <1>2 DEF QueueInv
<1> HIDE DEF s
<1>4. /\ ToSet(q'[w]) = ToSet(q[w]) \cup {m}
      /\ \A i \in Queue \ {w} : ToSet(q'[i]) = ToSet(q[i])
  BY <1>2, <1>3
<1>5. QueueInv'
  BY <1>1, <1>2, <1>3, <1>4 DEF QueueInv
<1>6. Queued' = Queued \cup {m}
  <2>1. \A x \in Msg : (\E i \in Queue : x \in ToSet(q'[i]))
                        <=> x = m \/ \E i \in Queue : x \in ToSet(q[i])
    BY <1>1, <1>4
  <2> QED
    BY <2>1, Zenon DEF Queued
<1> QED
  BY <1>5, <1>6

\* The head of a queue is taken off it and is then queued nowhere.
LEMMA GetQueue ==
  ASSUME QueueInv, NEW i \in Queue, q[i] # <<>>, q' = [q EXCEPT ![i] = Tail(@)]
  PROVE  /\ QueueInv' /\ Queued' = Queued \ {Head(q[i])}
         /\ Head(q[i]) \in Queued /\ Head(q[i]) \in Msg
<1> DEFINE h == Head(q[i])
<1>1. q[i] \in Seq(Msg) /\ IsInjective(q[i])
  BY DEF QueueInv
<1>2. /\ Tail(q[i]) \in Seq(Msg) /\ ToSet(Tail(q[i])) = ToSet(q[i]) \ {h}
      /\ IsInjective(Tail(q[i]))
      /\ h \in ToSet(q[i]) /\ h \in Msg
  BY <1>1, TailMembers, ToSetType
<1>3. q' \in [Queue -> Seq(Msg)] /\ q'[i] = Tail(q[i]) /\ \A j \in Queue \ {i} : q'[j] = q[j]
  BY <1>2 DEF QueueInv
<1>4. /\ ToSet(q'[i]) = ToSet(q[i]) \ {h}
      /\ \A j \in Queue \ {i} : ToSet(q'[j]) = ToSet(q[j])
  BY <1>2, <1>3
<1>5. \A j \in Queue \ {i} : h \notin ToSet(q[j])
  BY <1>2 DEF QueueInv
<1>6. QueueInv'
  BY <1>1, <1>2, <1>3, <1>4 DEF QueueInv
<1>7. Queued' = Queued \ {h}
  <2>1. \A x \in Msg : (\E j \in Queue : x \in ToSet(q'[j]))
                        <=> x # h /\ \E j \in Queue : x \in ToSet(q[j])
    BY <1>4, <1>5
  <2> QED
    BY <2>1, Zenon DEF Queued
<1>8. h \in Queued
  BY <1>2 DEF Queued
<1> QED
  BY <1>2, <1>6, <1>7, <1>8

\* The queues stay as they are.
LEMMA SameQueues ==
  ASSUME QueueInv, UNCHANGED q
  PROVE  QueueInv' /\ Queued' = Queued
BY DEF QueueInv, Queued

\* Queue 0 exists, and the queue after one that is not the last.
LEMMA QueueRange ==
  /\ 0 \in Queue
  /\ \A i \in Queue : i \in Int /\ i >= 0 /\ (i + 1 < NQueues => i + 1 \in Queue)
  /\ \A i, j \in Queue : ~(i + 1 < NQueues) => (j < i \/ j = i)
  /\ \A i, j \in Queue : j < i + 1 => (j < i \/ j = i)
BY ConstantsAssumption DEF Queue

\* Queued messages are messages; with nothing queued every queue is empty.
LEMMA QueuedMsgs ==
  ASSUME QueueInv
  PROVE  /\ Queued \subseteq Msg
         /\ Queued = {} <=> \A i \in Queue : q[i] = <<>>
<1>1. \A i \in Queue : ToSet(q[i]) \subseteq Msg /\ (q[i] = <<>> <=> ToSet(q[i]) = {})
  BY ToSetType DEF QueueInv
<1> QED
  BY <1>1 DEF Queued
-----------------------------------------------------------------------------
(***************************************************************************)
(* Types and the places of messages.                                       *)
(***************************************************************************)
Places == TypeOK /\ OnePlace

\* The part of the invariant that is about the queues.
LEMMA PlacesQueues == Places => QueueInv
BY DEF Places, TypeOK, OnePlace, QueueInv

\* Actions of a client that leave the queues alone.
LEMMA PlacesPost ==
  ASSUME Places, NEW p \in Poster,
         (\E m \in Msg : PostCheck(p, m)) \/ MsgDup(p) \/ DecQueueCount(p) \/ PostSignal(p)
  PROVE  Places'
<1>1. QueueInv' /\ Queued' = Queued
  BY SameQueues, PlacesQueues DEF PostCheck, MsgDup, DecQueueCount, PostSignal, schedVars
<1>2. CASE \E m \in Msg : PostCheck(p, m)
  <2>1. PICK m \in Msg : PostCheck(p, m)
    BY <1>2
  <2>2. TypeOK'
    BY <1>1, <2>1, ConstantsAssumption
       DEF Places, TypeOK, QueueInv, PostCheck, schedVars, eventVars, ctlVars
  <2>3. m \notin Queued /\ m # thr.msg /\ \A r \in Poster : post[r].msg # m
    BY <2>1 DEF PostCheck, Fresh, Counted, Handling
  <2>4. OnePlace'
    BY <1>1, <2>1, <2>3, ConstantsAssumption
       DEF Places, TypeOK, OnePlace, QueueInv, PostCheck, schedVars
  <2> QED
    BY <2>2, <2>4 DEF Places
<1>3. CASE MsgDup(p)
  <2>1. CASE post' = [post EXCEPT ![p].pc = "put"]
    <3>1. TypeOK'
      BY <1>1, <1>3, <2>1 DEF Places, TypeOK, QueueInv, MsgDup, eventVars, ctlVars
    <3>2. OnePlace'
      BY <1>1, <1>3, <2>1 DEF Places, TypeOK, OnePlace, QueueInv, MsgDup
    <3> QED
      BY <3>1, <3>2 DEF Places
  <2>2. CASE post' = [post EXCEPT ![p] = [pc |-> "undo", msg |-> NoMsg]]
    <3>1. TypeOK'
      BY <1>1, <1>3, <2>2 DEF Places, TypeOK, QueueInv, MsgDup, eventVars, ctlVars
    <3>2. OnePlace'
      BY <1>1, <1>3, <2>2 DEF Places, TypeOK, OnePlace, QueueInv, MsgDup
    <3> QED
      BY <3>1, <3>2 DEF Places
  <2> QED
    BY <1>3, <2>1, <2>2 DEF MsgDup
<1>4. CASE DecQueueCount(p)
  <2>1. TypeOK'
    BY <1>1, <1>4 DEF Places, TypeOK, QueueInv, DecQueueCount, IdlePost, eventVars, ctlVars
  <2>2. OnePlace'
    BY <1>1, <1>4 DEF Places, TypeOK, OnePlace, QueueInv, DecQueueCount, IdlePost
  <2> QED
    BY <2>1, <2>2 DEF Places
<1>5. CASE PostSignal(p)
  <2>1. TypeOK'
    BY <1>1, <1>5 DEF Places, TypeOK, QueueInv, PostSignal, IdlePost, eventVars, ctlVars
  <2>2. OnePlace'
    BY <1>1, <1>5 DEF Places, TypeOK, OnePlace, QueueInv, PostSignal, IdlePost
  <2> QED
    BY <2>1, <2>2 DEF Places
<1> QED
  BY <1>2, <1>3, <1>4, <1>5

\* A message goes from the client that posts it to its queue.
LEMMA PlacesPut ==
  ASSUME Places, NEW p \in Poster, MqPut(p)
  PROVE  Places' /\ Queued' = Queued \cup {post[p].msg}
<1> DEFINE m == post[p].msg
<1>1. m \in Msg /\ m \notin Queued /\ m # thr.msg
  BY DEF Places, TypeOK, OnePlace, MqPut
<1>2. QueueInv' /\ Queued' = Queued \cup {m}
  BY <1>1, PutQueue, PlacesQueues DEF MqPut
<1>3. TypeOK'
  BY <1>2 DEF Places, TypeOK, QueueInv, MqPut, eventVars, ctlVars
<1>4. OnePlace'
  BY <1>1, <1>2 DEF Places, TypeOK, OnePlace, QueueInv, MqPut
<1> QED
  BY <1>2, <1>3, <1>4 DEF Places

\* A message goes from its queue to the thread.
LEMMA PlacesGet ==
  ASSUME Places, MqGet
  PROVE  Places'
<1> DEFINE i == thr.idx
<1>0. i \in Queue /\ thr.msg = NoMsg
  BY DEF Places, TypeOK, MqGet
<1>1. CASE q[i] = <<>>
  <2>1. QueueInv' /\ Queued' = Queued
    BY <1>1, SameQueues, PlacesQueues DEF MqGet
  <2>2. /\ thr' \in [pc : {"check", "idle"}, idx : Queue, msg : {NoMsg}, shutdown : BOOLEAN]
        /\ UNCHANGED <<depth, flags, eventVars, ctlVars, post, client>>
    <3>1. thr' = NextQueue(i) /\ UNCHANGED <<depth, flags, eventVars, ctlVars, post, client>>
      BY <1>1 DEF MqGet
    <3>2. thr \in [pc : ThreadPC, idx : Queue, msg : {NoMsg}, shutdown : BOOLEAN]
      BY <1>0 DEF Places, TypeOK
    <3>3. CASE i + 1 < NQueues
      <4>1. i + 1 \in Queue
        BY <1>0, <3>3, QueueRange
      <4> QED
        BY <3>1, <3>2, <3>3, <4>1 DEF NextQueue
    <3>4. CASE ~(i + 1 < NQueues)
      BY <3>1, <3>2, <3>4 DEF NextQueue
    <3> QED
      BY <3>3, <3>4
  <2>3. TypeOK'
    BY <2>1, <2>2 DEF Places, TypeOK, QueueInv, ThreadPC, eventVars, ctlVars
  <2>4. OnePlace'
    BY <1>0, <2>1, <2>2 DEF Places, TypeOK, OnePlace, QueueInv
  <2> QED
    BY <2>3, <2>4 DEF Places
<1>2. CASE q[i] # <<>>
  <2>1. /\ QueueInv' /\ Queued' = Queued \ {Head(q[i])}
        /\ Head(q[i]) \in Queued /\ Head(q[i]) \in Msg
    BY <1>0, <1>2, GetQueue, PlacesQueues DEF MqGet
  <2>2. TypeOK'
    BY <1>0, <1>2, <2>1, ConstantsAssumption
       DEF Places, TypeOK, QueueInv, MqGet, ThreadPC, eventVars, ctlVars
  <2>3. thr'.msg = Head(q[i]) /\ UNCHANGED post
    BY <1>2 DEF Places, TypeOK, MqGet
  <2>4. OnePlace'
    BY <2>1, <2>3 DEF Places, TypeOK, OnePlace, QueueInv
  <2> QED
    BY <2>2, <2>4 DEF Places
<1> QED
  BY <1>1, <1>2

\* The other steps of the thread leave the queues and the posts alone.
LEMMA PlacesThread ==
  ASSUME Places, ThreadStep, ~MqGet
  PROVE  Places'
<1> DEFINE ThreadType ==
             thr' \in [pc : ThreadPC \ {"handle"}, idx : Queue, msg : {NoMsg},
                      shutdown : BOOLEAN]
           Others ==
             /\ UNCHANGED <<q, ctlVars, post>>
             /\ flags' \subseteq flags /\ depth' \in Int
             /\ startEvent' \in BOOLEAN /\ shutdownEvent' \in BOOLEAN
             /\ resumeEvent' \in BOOLEAN
             /\ client' \in {"active", "waiting", "suspended"}
<1>1. ThreadType /\ Others
  <2>0. /\ thr \in [pc : ThreadPC, idx : Queue, msg : Msg \cup {NoMsg}, shutdown : BOOLEAN]
        /\ thr.msg # NoMsg <=> thr.pc = "handle"
    BY DEF Places, TypeOK
  <2>1. CASE ThreadStart
    <3>1. ThreadType
      BY <2>0, <2>1 DEF ThreadStart, ThreadPC
    <3>2. Others
      BY <2>1 DEF ThreadStart, Places, TypeOK, schedVars, eventVars
    <3> QED
      BY <3>1, <3>2
  <2>2. CASE Wake
    <3>1. ThreadType
      BY <2>0, <2>2 DEF Wake, ThreadPC
    <3>2. Others
      BY <2>2 DEF Wake, Places, TypeOK, schedVars, eventVars
    <3> QED
      BY <3>1, <3>2
  <2>3. CASE ClearPost
    <3>1. ThreadType
      BY <2>0, <2>3, QueueRange DEF ClearPost, ThreadPC
    <3>2. Others
      BY <2>3 DEF ClearPost, Places, TypeOK, schedVars, eventVars
    <3> QED
      BY <3>1, <3>2
  <2>4. CASE CheckShutdown
    <3>1. ThreadType
      BY <2>0, <2>4 DEF CheckShutdown, ThreadPC
    <3>2. Others
      BY <2>4 DEF CheckShutdown, Places, TypeOK, schedVars, eventVars, HddCallback
    <3> QED
      BY <3>1, <3>2
  <2>5. CASE Handled
    <3>1. ThreadType
      BY <2>0, <2>5, QueueRange DEF Handled, ThreadPC
    <3>2. Others
      BY <2>5 DEF Handled, Places, TypeOK, schedVars, eventVars
    <3> QED
      BY <3>1, <3>2
  <2>6. CASE CheckSuspend
    <3>1. ThreadType
      BY <2>0, <2>6, QueueRange DEF CheckSuspend, ThreadPC, AfterQueues
    <3>2. Others
      BY <2>6 DEF CheckSuspend, Places, TypeOK, schedVars, eventVars
    <3> QED
      BY <3>1, <3>2
  <2>7. CASE AckSuspend
    <3>1. ThreadType
      BY <2>0, <2>7 DEF AckSuspend, ThreadPC
    <3>2. Others
      BY <2>7 DEF AckSuspend, Places, TypeOK, schedVars, eventVars, HddCallback
    <3> QED
      BY <3>1, <3>2
  <2>8. CASE Resumed
    <3>1. ThreadType
      BY <2>0, <2>8, QueueRange DEF Resumed, ThreadPC, AfterQueues
    <3>2. Others
      BY <2>8 DEF Resumed, Places, TypeOK, schedVars, eventVars
    <3> QED
      BY <3>1, <3>2
  <2>9. CASE ThreadExit
    <3>1. ThreadType
      BY <2>0, <2>9, QueueRange DEF ThreadExit, ThreadPC, NoThread
    <3>2. Others
      BY <2>9 DEF ThreadExit, Places, TypeOK, schedVars, eventVars
    <3> QED
      BY <3>1, <3>2
  <2> QED
    BY <2>1, <2>2, <2>3, <2>4, <2>5, <2>6, <2>7, <2>8, <2>9 DEF ThreadStep
<1>2. ThreadType
  BY <1>1
<1>3. QueueInv' /\ Queued' = Queued
  BY <1>1, SameQueues, PlacesQueues
<1>4. TypeOK'
  BY <1>1, <1>2, <1>3 DEF Places, TypeOK, QueueInv, ctlVars
<1>5. OnePlace'
  <2>1. NoMsg \notin Queued
    BY ConstantsAssumption DEF Queued
  <2> QED
    BY <1>1, <1>2, <1>3, <2>1 DEF Places, TypeOK, OnePlace, QueueInv
<1> QED
  BY <1>4, <1>5 DEF Places

\* A flush takes messages off the queues.
LEMMA PlacesFlush ==
  ASSUME Places, Flush
  PROVE  Places'
<1>1. CASE q[flushIdx] = <<>>
  <2>1. QueueInv' /\ Queued' = Queued
    BY <1>1, SameQueues, PlacesQueues DEF Flush
  <2>2. flushIdx' \in Queue /\ ctl' \in {"off", "flush"}
    BY <1>1, QueueRange DEF Flush, Places, TypeOK
  <2>3. UNCHANGED <<depth, flags, startEvent, shutdownEvent, resumeEvent, schThread, post,
                    thr, client>>
    BY <1>1 DEF Flush, eventVars
  <2>4. TypeOK' /\ OnePlace'
    BY <2>1, <2>2, <2>3 DEF Places, TypeOK, OnePlace, QueueInv
  <2> QED
    BY <2>4 DEF Places
<1>2. CASE q[flushIdx] # <<>>
  <2>1. /\ QueueInv' /\ Queued' = Queued \ {Head(q[flushIdx])}
    BY <1>2, GetQueue, PlacesQueues DEF Flush, Places, TypeOK
  <2>2. /\ UNCHANGED <<flags, startEvent, shutdownEvent, resumeEvent, schThread, post,
                        thr, client, ctl, flushIdx>>
        /\ depth' = depth - 1
    BY <1>2 DEF Flush, eventVars
  <2>3. TypeOK' /\ OnePlace'
    BY <2>1, <2>2 DEF Places, TypeOK, OnePlace, QueueInv
  <2> QED
    BY <2>3 DEF Places
<1> QED
  BY <1>1, <1>2

\* The other steps of enable, disable, suspend and resume.
LEMMA PlacesControl ==
  ASSUME Places,
         Enable \/ Enabled \/ Disable \/ DisableSignal \/ Join \/ Suspend \/ GiveUp \/ Resume
  PROVE  Places'
<1>1. /\ UNCHANGED <<q, depth, post>>
      /\ flags' \subseteq flags \cup {"POST", "SUSPEND", "SHUTDOWN"}
      /\ startEvent' \in BOOLEAN /\ shutdownEvent' \in BOOLEAN /\ resumeEvent' \in BOOLEAN
      /\ schThread' \in BOOLEAN
      /\ client' \in {"active", "waiting", "suspended"}
      /\ ctl' \in {"off", "starting", "on", "signal", "join", "flush"}
      /\ flushIdx' \in Queue
  BY QueueRange
     DEF Places, TypeOK, Enable, Enabled, Disable, DisableSignal, Join, Suspend, GiveUp, Resume,
         schedVars, eventVars, ctlVars
<1>2. thr' = thr \/ thr' = [NoThread EXCEPT !.pc = "start"]
  BY DEF Enable, Enabled, Disable, DisableSignal, Join, Suspend, GiveUp, Resume
<1>3. /\ thr' \in [pc : ThreadPC, idx : Queue, msg : Msg \cup {NoMsg}, shutdown : BOOLEAN]
      /\ thr'.msg # NoMsg <=> thr'.pc = "handle"
      /\ thr'.msg = NoMsg \/ thr'.msg = thr.msg
  BY <1>2, QueueRange DEF Places, TypeOK, NoThread, ThreadPC
<1>4. QueueInv' /\ Queued' = Queued
  BY <1>1, SameQueues, PlacesQueues
<1>5. TypeOK'
  BY <1>1, <1>3, <1>4 DEF Places, TypeOK, QueueInv
<1>6. OnePlace'
  <2>1. NoMsg \notin Queued
    BY ConstantsAssumption DEF Queued
  <2> QED
    BY <1>1, <1>3, <1>4, <2>1 DEF Places, TypeOK, OnePlace, QueueInv
<1> QED
  BY <1>5, <1>6 DEF Places

\* Nothing is queued, posted or handled at the start.
LEMMA PlacesInit == Init => Places
<1>1. SUFFICES ASSUME Init PROVE Places
  OBVIOUS
<1>2. \A i \in Queue : q[i] = <<>> /\ ToSet(q[i]) = {} /\ IsInjective(q[i])
  BY <1>1 DEF Init, ToSet, IsInjective
<1>3. Queued = {}
  BY <1>2 DEF Queued
<1>4. TypeOK
  <2>1. q \in [Queue -> Seq(Msg)]
    BY <1>1 DEF Init
  <2>2. thr \in [pc : ThreadPC, idx : Queue, msg : Msg \cup {NoMsg}, shutdown : BOOLEAN]
        /\ (thr.msg # NoMsg <=> thr.pc = "handle")
    BY <1>1, QueueRange DEF Init, NoThread, ThreadPC
  <2>3. /\ post \in [Poster -> [pc : {"idle", "dup", "put", "signal", "undo"},
                                msg : Msg \cup {NoMsg}]]
        /\ \A p \in Poster : post[p].msg # NoMsg <=> post[p].pc \in {"dup", "put"}
    BY <1>1 DEF Init, IdlePost
  <2>4. schThread \in BOOLEAN /\ startEvent \in BOOLEAN /\ shutdownEvent \in BOOLEAN
        /\ resumeEvent \in BOOLEAN /\ flushIdx \in Queue /\ depth \in Int
    BY <1>1, QueueRange DEF Init
  <2> QED
    BY <1>1, <1>2, <2>1, <2>2, <2>3, <2>4 DEF Init, TypeOK
<1>5. OnePlace
  BY <1>1, <1>2, <1>3 DEF Init, OnePlace, IdlePost, NoThread
<1> QED
  BY <1>4, <1>5 DEF Places

\* Every step keeps a message in one place.
LEMMA PlacesStep == Places /\ [Next]_vars => Places'
<1> SUFFICES ASSUME Places, [Next]_vars PROVE Places'
  OBVIOUS
<1>1. CASE UNCHANGED vars
  <2>1. Queued' = Queued
    BY <1>1 DEF vars, schedVars, Queued
  <2> QED
    BY <1>1, <2>1 DEF Places, TypeOK, OnePlace, vars, schedVars, eventVars, ctlVars
<1>2. ASSUME NEW p \in Poster, (\E m \in Msg : PostCheck(p, m)) \/ PostStep(p)
      PROVE  Places'
  BY <1>2, PlacesPost, PlacesPut DEF PostStep
<1>3. CASE ThreadStep
  BY <1>3, PlacesGet, PlacesThread
<1>4. CASE Enable \/ Disable \/ CtlStep \/ Suspend \/ GiveUp \/ Resume
  BY <1>4, PlacesFlush, PlacesControl DEF CtlStep
<1> QED
  BY <1>1, <1>2, <1>3, <1>4 DEF Next

(***************************************************************************)
(* The variables keep their shape and the loop of the thread stays within  *)
(* the queues.                                                             *)
(***************************************************************************)
THEOREM TypeCorrect == Spec => []TypeOK
<1>1. Init => Places
  BY PlacesInit
<1>2. Places /\ [Next]_vars => Places'
  BY PlacesStep
<1>3. Places => TypeOK
  BY DEF Places
<1> QED
  BY <1>1, <1>2, <1>3, PTL DEF Spec
-----------------------------------------------------------------------------
(***************************************************************************)
(* The life of the thread, and who believes that it is suspended.          *)
(***************************************************************************)
Life == Lifecycle /\ SuspendInv

\* A step that leaves the thread and those who control it alone.
LEMMA LifeSame ==
  ASSUME Life, UNCHANGED <<schThread, ctl, thr, shutdownEvent, resumeEvent, client>>,
         "SHUTDOWN" \in flags' => "SHUTDOWN" \in flags
  PROVE  Life'
BY DEF Life, Lifecycle, SuspendInv

\* A post changes neither the thread nor those who control it.
LEMMA LifePost ==
  ASSUME Life, NEW p \in Poster, (\E m \in Msg : PostCheck(p, m)) \/ PostStep(p)
  PROVE  Life'
BY LifeSame DEF PostCheck, PostStep, MsgDup, DecQueueCount, MqPut, PostSignal, schedVars,
                eventVars, ctlVars

\* The thread announces its exit once, and only after a shutdown was asked for.
LEMMA LifeThread ==
  ASSUME TypeOK, Life, ThreadStep
  PROVE  Life'
<1>0. thr \in [pc : ThreadPC, idx : Queue, msg : Msg \cup {NoMsg}, shutdown : BOOLEAN]
  BY DEF TypeOK
<1>1. CASE ThreadStart
  BY <1>0, <1>1 DEF Life, Lifecycle, SuspendInv, ThreadStart, schedVars, eventVars, ctlVars
<1>2. CASE Wake
  BY <1>0, <1>2 DEF Life, Lifecycle, SuspendInv, Wake, schedVars, eventVars, ctlVars
<1>3. CASE ClearPost
  BY <1>0, <1>3 DEF Life, Lifecycle, SuspendInv, ClearPost, schedVars, eventVars, ctlVars
<1>4. CASE CheckShutdown
  <2>1. /\ UNCHANGED <<schThread, ctl, shutdownEvent, resumeEvent>>
        /\ flags' \subseteq flags
    BY <1>4 DEF CheckShutdown, eventVars, ctlVars
  <2>2. CASE "SHUTDOWN" \in flags
    <3>1. thr' = [thr EXCEPT !.pc = "idle", !.shutdown = TRUE] /\ thr.pc = "check"
      BY <1>4, <2>2 DEF CheckShutdown
    <3>2. thr'.pc = "idle" /\ thr'.shutdown
      BY <1>0, <3>1
    <3>3. ctl \in {"signal", "join"}
      BY <2>2, <3>1 DEF Life, Lifecycle, TypeOK
    <3> QED
      BY <2>1, <3>1, <3>2, <3>3 DEF Life, Lifecycle, SuspendInv
  <2>3. CASE "SHUTDOWN" \notin flags
    <3>1. thr' = [thr EXCEPT !.pc = "get"] /\ thr.pc = "check" /\ UNCHANGED <<client, flags>>
      BY <1>4, <2>3 DEF CheckShutdown
    <3>2. thr'.pc = "get" /\ thr'.shutdown = thr.shutdown
      BY <1>0, <3>1
    <3> QED
      BY <2>1, <2>3, <3>1, <3>2 DEF Life, Lifecycle, SuspendInv
  <2> QED
    BY <2>2, <2>3
<1>5. CASE MqGet
  BY <1>0, <1>5 DEF Life, Lifecycle, SuspendInv, MqGet, NextQueue, schedVars, eventVars, ctlVars
<1>6. CASE Handled
  BY <1>0, <1>6 DEF Life, Lifecycle, SuspendInv, Handled, schedVars, eventVars, ctlVars
<1>7. CASE CheckSuspend
  BY <1>0, <1>7 DEF Life, Lifecycle, SuspendInv, CheckSuspend, AfterQueues, schedVars, eventVars, ctlVars
<1>8. CASE AckSuspend
  BY <1>0, <1>8 DEF Life, Lifecycle, SuspendInv, AckSuspend, HddCallback, schedVars, eventVars, ctlVars
<1>9. CASE Resumed
  BY <1>0, <1>9 DEF Life, Lifecycle, SuspendInv, Resumed, AfterQueues, schedVars, eventVars, ctlVars
<1>10. CASE ThreadExit
  BY <1>0, <1>10 DEF Life, Lifecycle, SuspendInv, ThreadExit, NoThread, schedVars, eventVars, ctlVars
<1> QED
  BY <1>1, <1>2, <1>3, <1>4, <1>5, <1>6, <1>7, <1>8, <1>9, <1>10 DEF ThreadStep

\* Enable, disable, suspend and resume find the thread where they expect it.
LEMMA LifeControl ==
  ASSUME TypeOK, Life, Enable \/ Disable \/ CtlStep \/ Suspend \/ GiveUp \/ Resume
  PROVE  Life'
<1>0. thr \in [pc : ThreadPC, idx : Queue, msg : Msg \cup {NoMsg}, shutdown : BOOLEAN]
  BY DEF TypeOK
<1>1. CASE Enable
  BY <1>0, <1>1 DEF Life, Lifecycle, SuspendInv, Enable, NoThread, schedVars, eventVars, ctlVars
<1>2. CASE Enabled
  BY <1>0, <1>2 DEF Life, Lifecycle, SuspendInv, Enabled, schedVars, eventVars, ctlVars
<1>3. CASE Disable
  BY <1>0, <1>3 DEF Life, Lifecycle, SuspendInv, Disable, schedVars, eventVars, ctlVars
<1>4. CASE DisableSignal
  BY <1>0, <1>4 DEF Life, Lifecycle, SuspendInv, DisableSignal, schedVars, eventVars, ctlVars
<1>5. CASE Join
  BY <1>0, <1>5 DEF Life, Lifecycle, SuspendInv, Join, schedVars, eventVars, ctlVars
<1>6. CASE Flush
  BY <1>0, <1>6 DEF Life, Lifecycle, SuspendInv, Flush, schedVars, eventVars, ctlVars
<1>7. CASE Suspend
  BY <1>0, <1>7 DEF Life, Lifecycle, SuspendInv, Suspend, schedVars, eventVars, ctlVars
<1>8. CASE GiveUp
  BY <1>0, <1>8 DEF Life, Lifecycle, SuspendInv, GiveUp, schedVars, eventVars, ctlVars
<1>9. CASE Resume
  BY <1>0, <1>9 DEF Life, Lifecycle, SuspendInv, Resume, schedVars, eventVars, ctlVars
<1> QED
  BY <1>1, <1>2, <1>3, <1>4, <1>5, <1>6, <1>7, <1>8, <1>9 DEF CtlStep

\* Every step keeps the life cycle of the thread.
LEMMA LifeStep == TypeOK /\ Life /\ [Next]_vars => Life'
<1> SUFFICES ASSUME TypeOK, Life, [Next]_vars PROVE Life'
  OBVIOUS
<1>1. CASE UNCHANGED vars
  BY <1>1, LifeSame DEF vars, schedVars, eventVars, ctlVars
<1> QED
  BY <1>1, LifePost, LifeThread, LifeControl DEF Next

\* There is no thread at the start.
LEMMA LifeInit == Init => Life
BY DEF Init, Life, Lifecycle, SuspendInv, NoThread

(***************************************************************************)
(* From the completion of a suspend to the resume no handler runs, whoever *)
(* disables and enables the scheduler, posts or gives up meanwhile.        *)
(***************************************************************************)
THEOREM SuspendStopsHandlers == Spec => []SuspendedIdle
<1>1. Init => Life
  BY LifeInit
<1>2. TypeOK /\ Life /\ [Next]_vars => Life'
  BY LifeStep
<1>3. Life => SuspendedIdle
  BY DEF Life, Lifecycle, SuspendInv, SuspendedIdle
<1> QED
  BY <1>1, <1>2, <1>3, TypeCorrect, PTL DEF Spec
-----------------------------------------------------------------------------
(***************************************************************************)
(* Wake-ups, when clients are quiet once the thread has exited.            *)
(***************************************************************************)
Wakes == WakeInv /\ FlushInv

\* A step that leaves the thread and the queues alone and takes back no
\* announcement.
LEMMA WakeSame ==
  ASSUME WakeInv, UNCHANGED <<q, thr>>, Announced => Announced'
  PROVE  WakeInv'
BY DEF WakeInv

\* The steps of a post: the announcement follows the message.
LEMMA WakesPost ==
  ASSUME Places, Life, Wakes, NEW p \in Poster,
         (\E m \in Msg : PostCheck(p, m)) \/ PostStep(p)
  PROVE  Wakes'
<1>1. UNCHANGED <<ctl, flushIdx, thr>>
  BY DEF PostCheck, PostStep, MsgDup, DecQueueCount, MqPut, PostSignal, ctlVars
<1>2. ctl \notin {"off", "flush"}
  BY DEF PostCheck, PostStep, MsgDup, DecQueueCount, MqPut, PostSignal, Life, Lifecycle, Wakes,
         FlushInv
<1>3. FlushInv'
  BY <1>1, <1>2 DEF FlushInv
<1>4. post \in [Poster -> [pc : {"idle", "dup", "put", "signal", "undo"},
                           msg : Msg \cup {NoMsg}]]
  BY DEF Places, TypeOK
<1>5. CASE MqPut(p)
  <2>1. Announced'
    BY <1>4, <1>5 DEF MqPut, Announced
  <2> QED
    BY <1>3, <2>1 DEF Wakes, WakeInv
<1>6. CASE PostSignal(p)
  <2>1. Announced' /\ UNCHANGED q
    BY <1>6 DEF PostSignal, Announced
  <2> QED
    BY <1>1, <1>3, <2>1, WakeSame DEF Wakes
<1>7. CASE (\E m \in Msg : PostCheck(p, m)) \/ MsgDup(p) \/ DecQueueCount(p)
  <2>1. UNCHANGED <<q, flags>> /\ \A r \in Poster \ {p} : post'[r] = post[r]
    BY <1>4, <1>7 DEF PostCheck, MsgDup, DecQueueCount, schedVars
  <2>2. post[p].pc # "signal"
    BY <1>7 DEF PostCheck, MsgDup, DecQueueCount
  <2>3. Announced => Announced'
    BY <2>1, <2>2 DEF Announced
  <2> QED
    BY <1>1, <1>3, <2>1, <2>3, WakeSame DEF Wakes
<1> QED
  BY <1>5, <1>6, <1>7 DEF PostStep

\* The thread moves past a queue only when it is empty.
LEMMA WakesGet ==
  ASSUME Places, Wakes, MqGet
  PROVE  WakeInv'
<1> DEFINE i == thr.idx
<1>0. /\ thr \in [pc : ThreadPC, idx : Queue, msg : Msg \cup {NoMsg}, shutdown : BOOLEAN]
      /\ thr.pc = "get" /\ i \in Queue
  BY DEF Places, TypeOK, MqGet
<1>1. CASE q[i] # <<>>
  <2>1. thr'.pc = "handle"
    BY <1>0, <1>1 DEF MqGet
  <2> QED
    BY <2>1 DEF WakeInv
<1>2. CASE q[i] = <<>>
  <2>1. thr' = NextQueue(i) /\ q' = q /\ (Announced' <=> Announced)
    BY <1>2 DEF MqGet, Announced
  <2>2. ~thr.shutdown => \A j \in Queue : j < i /\ q[j] # <<>> => Announced
    BY <1>0 DEF Wakes, WakeInv
  <2>3. CASE i + 1 < NQueues
    <3>1. thr'.pc = "check" /\ thr'.idx = i + 1 /\ thr'.shutdown = thr.shutdown
      BY <1>0, <2>1, <2>3 DEF NextQueue
    <3> QED
      BY <1>0, <1>2, <2>1, <2>2, <3>1, QueueRange DEF WakeInv
  <2>4. CASE ~(i + 1 < NQueues)
    <3>1. thr'.pc = "idle" /\ thr'.shutdown = thr.shutdown
      BY <1>0, <2>1, <2>4 DEF NextQueue
    <3> QED
      BY <1>0, <1>2, <2>1, <2>2, <2>4, <3>1, QueueRange DEF WakeInv
  <2> QED
    BY <2>3, <2>4
<1> QED
  BY <1>1, <1>2

\* The other steps of the thread: the bit is cleared before the queues are read.
LEMMA WakesThread ==
  ASSUME Places, Life, Wakes, ThreadStep
  PROVE  Wakes'
<1>0. thr \in [pc : ThreadPC, idx : Queue, msg : Msg \cup {NoMsg}, shutdown : BOOLEAN]
  BY DEF Places, TypeOK
<1>1. FlushInv'
  <2>1. thr.pc # "none" /\ UNCHANGED <<ctl, flushIdx>>
    BY DEF ThreadStep, ThreadStart, Wake, ClearPost, CheckShutdown, MqGet, Handled,
           CheckSuspend, AckSuspend, Resumed, ThreadExit, ctlVars
  <2>2. ctl \notin {"off", "flush"}
    BY <2>1 DEF Life, Lifecycle
  <2> QED
    BY <2>1, <2>2 DEF FlushInv
<1>2. CASE ThreadStart \/ AckSuspend \/ Resumed
  <2>1. UNCHANGED <<q, flags, post>>
    BY <1>2 DEF ThreadStart, AckSuspend, Resumed, schedVars
  <2>2. /\ thr.pc \in {"start", "ack", "suspended"} /\ thr'.shutdown = thr.shutdown
        /\ ~thr.shutdown => thr'.pc \in {"wait", "suspended"}
    BY <1>0, <1>2 DEF ThreadStart, AckSuspend, Resumed, AfterQueues
  <2>3. WakeInv'
    BY <2>1, <2>2 DEF Wakes, WakeInv, Announced
  <2> QED
    BY <1>1, <2>3 DEF Wakes
<1>3. CASE CheckSuspend
  <2>1. UNCHANGED <<q, post>> /\ ("POST" \in flags' <=> "POST" \in flags)
    BY <1>3 DEF CheckSuspend
  <2>2. /\ thr.pc = "idle" /\ thr'.shutdown = thr.shutdown
        /\ ~thr.shutdown => thr'.pc \in {"wait", "ack"}
    BY <1>0, <1>3 DEF CheckSuspend, AfterQueues
  <2>3. WakeInv'
    BY <2>1, <2>2 DEF Wakes, WakeInv, Announced
  <2> QED
    BY <1>1, <2>3 DEF Wakes
<1>4. CASE CheckShutdown
  <2>1. CASE "SHUTDOWN" \in flags
    <3>1. thr'.shutdown
      BY <1>0, <1>4, <2>1 DEF CheckShutdown
    <3> QED
      BY <1>1, <3>1 DEF Wakes, WakeInv
  <2>2. CASE "SHUTDOWN" \notin flags
    <3>1. /\ UNCHANGED <<q, flags, post>>
          /\ thr.pc = "check" /\ thr'.pc = "get" /\ thr'.idx = thr.idx
          /\ thr'.shutdown = thr.shutdown
      BY <1>0, <1>4, <2>2 DEF CheckShutdown
    <3>2. WakeInv'
      BY <3>1 DEF Wakes, WakeInv, Announced
    <3> QED
      BY <1>1, <3>2 DEF Wakes
  <2> QED
    BY <2>1, <2>2
<1>5. CASE Wake \/ ClearPost \/ Handled \/ ThreadExit
  <2>1. \/ thr'.pc \in {"clear", "none"}
        \/ thr'.pc = "check" /\ thr'.idx = 0
    <3>1. CASE Wake
      BY <1>0, <3>1 DEF Wake
    <3>2. CASE ClearPost
      BY <1>0, <3>2 DEF ClearPost
    <3>3. CASE Handled
      BY <1>0, <3>3 DEF Handled
    <3>4. CASE ThreadExit
      BY <3>4 DEF ThreadExit, NoThread
    <3> QED
      BY <1>5, <3>1, <3>2, <3>3, <3>4
  <2>2. \A i \in Queue : ~(i < 0)
    BY QueueRange
  <2>3. WakeInv'
    BY <2>1, <2>2 DEF WakeInv
  <2> QED
    BY <1>1, <2>3 DEF Wakes
<1>6. CASE MqGet
  BY <1>1, <1>6, WakesGet DEF Wakes
<1> QED
  BY <1>2, <1>3, <1>4, <1>5, <1>6 DEF ThreadStep

\* A flushed queue stays empty: whoever could have posted has returned.
LEMMA WakesFlush ==
  ASSUME Places, Life, Wakes, Flush
  PROVE  Wakes'
<1>1. thr.pc = "none" /\ UNCHANGED <<thr, post>> /\ ctl = "flush"
  BY DEF Life, Lifecycle, Flush
<1>2. WakeInv'
  BY <1>1 DEF WakeInv
<1>3. flushIdx \in Queue /\ q \in [Queue -> Seq(Msg)]
  BY DEF Places, TypeOK
<1>4. \A i \in Queue : i < flushIdx => q[i] = <<>>
  BY <1>1 DEF Wakes, FlushInv
<1>5. \A p \in Poster : post'[p].pc = "idle"
  BY <1>1 DEF Wakes, FlushInv
<1>6. CASE q[flushIdx] # <<>>
  <2>1. ctl' = "flush" /\ flushIdx' = flushIdx
        /\ \A i \in Queue : i # flushIdx => q'[i] = q[i]
    BY <1>1, <1>3, <1>6 DEF Flush
  <2>2. \A i \in Queue : i < flushIdx' => q'[i] = <<>>
    BY <1>3, <1>4, <2>1, QueueRange
  <2> QED
    BY <1>2, <1>5, <2>1, <2>2 DEF Wakes, FlushInv
<1>7. CASE q[flushIdx] = <<>> /\ flushIdx + 1 < NQueues
  <2>1. ctl' = "flush" /\ flushIdx' = flushIdx + 1 /\ q' = q
    BY <1>1, <1>7 DEF Flush
  <2>2. \A i \in Queue : i < flushIdx + 1 => q[i] = <<>>
    BY <1>3, <1>4, <1>7, QueueRange
  <2> QED
    BY <1>2, <1>5, <2>1, <2>2 DEF Wakes, FlushInv
<1>8. CASE q[flushIdx] = <<>> /\ ~(flushIdx + 1 < NQueues)
  <2>1. ctl' = "off" /\ q' = q
    BY <1>1, <1>8 DEF Flush
  <2>2. \A i \in Queue : q[i] = <<>>
    BY <1>3, <1>4, <1>8, QueueRange
  <2> QED
    BY <1>2, <1>5, <2>1, <2>2 DEF Wakes, FlushInv
<1> QED
  BY <1>6, <1>7, <1>8

\* Enable clears the post bit, but then the queues have been flushed.
LEMMA WakesControl ==
  ASSUME Quiet, Places, Life, Wakes,
         Enable \/ Enabled \/ Disable \/ DisableSignal \/ Join \/ Suspend \/ GiveUp \/ Resume
  PROVE  Wakes'
<1>1. CASE Enable
  <2>1. \A i \in Queue : q'[i] = <<>>
    BY <1>1 DEF Enable, Wakes, FlushInv
  <2>2. WakeInv'
    BY <2>1 DEF WakeInv
  <2>3. FlushInv'
    BY <1>1, <2>1 DEF Enable, Wakes, FlushInv
  <2> QED
    BY <2>2, <2>3 DEF Wakes
<1>2. CASE Join
  <2>1. \A p \in Poster : post'[p].pc = "idle"
    BY <1>2 DEF Join
  <2>2. FlushInv'
    BY <1>2, <2>1, QueueRange DEF Join, FlushInv
  <2>3. WakeInv'
    BY <1>2, WakeSame DEF Join, Wakes, Announced, schedVars
  <2> QED
    BY <2>2, <2>3 DEF Wakes
<1>3. CASE Enabled \/ Disable \/ DisableSignal \/ Suspend \/ GiveUp \/ Resume
  <2>1. /\ UNCHANGED <<q, thr, post>>
        /\ "POST" \in flags => "POST" \in flags'
    BY <1>3 DEF Enabled, Disable, DisableSignal, Suspend, GiveUp, Resume, schedVars
  <2>2. WakeInv'
    BY <2>1, WakeSame DEF Wakes, Announced
  <2>3. /\ ctl' = ctl \/ ctl' \notin {"off", "flush"}
        /\ flushIdx' = flushIdx
    BY <1>3 DEF Enabled, Disable, DisableSignal, Suspend, GiveUp, Resume, ctlVars
  <2>4. FlushInv'
    BY <2>1, <2>3 DEF Wakes, FlushInv
  <2> QED
    BY <2>2, <2>4 DEF Wakes
<1> QED
  BY <1>1, <1>2, <1>3

\* Every step keeps messages announced and flushed queues empty.
LEMMA WakesStep ==
  ASSUME Quiet
  PROVE  Places /\ Life /\ Wakes /\ [Next]_vars => Wakes'
<1> SUFFICES ASSUME Places, Life, Wakes, [Next]_vars PROVE Wakes'
  OBVIOUS
<1>1. CASE UNCHANGED vars
  BY <1>1 DEF Wakes, WakeInv, FlushInv, Announced, vars, schedVars, ctlVars
<1> QED
  BY <1>1, WakesPost, WakesThread, WakesFlush, WakesControl DEF Next, CtlStep

\* The queues are empty at the start.
LEMMA WakesInit == Init => Wakes
BY DEF Init, Wakes, WakeInv, FlushInv, NoThread, IdlePost

\* The conjunction of the invariants, step by step.
LEMMA WakesInvariant ==
  ASSUME Quiet
  PROVE  Spec => [](Places /\ Wakes)
<1>1. Init => Places /\ Life /\ Wakes
  BY PlacesInit, LifeInit, WakesInit
<1>2. Places /\ Life /\ Wakes /\ [Next]_vars => (Places /\ Life /\ Wakes)'
  BY PlacesStep, LifeStep, WakesStep DEF Places
<1> QED
  BY <1>1, <1>2, PTL DEF Spec

(***************************************************************************)
(* No wake-up is lost, whatever is posted while the thread looks at its    *)
(* flags and queues, suspends, resumes or starts again, provided clients   *)
(* are quiet once it has exited.                                           *)
(***************************************************************************)
THEOREM WakeupsAreKept ==
  ASSUME Quiet
  PROVE  Spec => []NoLostWakeup
<1>1. Places /\ Wakes => NoLostWakeup
  <2> SUFFICES ASSUME Places, Wakes, thr.pc \in {"wait", "suspended"}, ~thr.shutdown, Queued # {}
               PROVE  Announced
    BY DEF NoLostWakeup
  <2>1. PICK i \in Queue : q[i] # <<>>
    BY PlacesQueues, QueuedMsgs
  <2> QED
    BY <2>1 DEF Wakes, WakeInv
<1> QED
  BY <1>1, WakesInvariant, PTL

(***************************************************************************)
(* scheduler_disable leaves no message in any queue, under the same        *)
(* condition on the clients.                                               *)
(***************************************************************************)
THEOREM DisableFlushes ==
  ASSUME Quiet
  PROVE  Spec => []FlushedWhenOff
<1>1. Places /\ Wakes => FlushedWhenOff
  BY PlacesQueues, QueuedMsgs DEF Wakes, FlushInv, FlushedWhenOff
<1> QED
  BY <1>1, WakesInvariant, PTL
-----------------------------------------------------------------------------
(***************************************************************************)
(* The count of messages.                                                  *)
(***************************************************************************)
CountInv == IsFiniteSet(Counted) /\ IsFiniteSet(Refused) /\ DepthExact

\* What is counted stays the same.
LEMMA CountSame ==
  ASSUME CountInv, Counted' = Counted, Refused' = Refused, depth' = depth
  PROVE  CountInv'
BY DEF CountInv, DepthExact

\* A message more.
LEMMA CountMore ==
  ASSUME CountInv, NEW m, m \notin Counted, Counted' = Counted \cup {m}, Refused' = Refused,
         depth' = depth + 1
  PROVE  CountInv'
<1>1. IsFiniteSet(Counted') /\ Cardinality(Counted') = Cardinality(Counted) + 1
  BY FS_AddElement DEF CountInv
<1>2. Cardinality(Counted) \in Nat /\ Cardinality(Refused) \in Nat
  BY FS_CardinalityType DEF CountInv
<1> QED
  BY <1>1, <1>2 DEF CountInv, DepthExact

\* A message less.
LEMMA CountLess ==
  ASSUME CountInv, NEW m \in Counted, Counted' = Counted \ {m}, Refused' = Refused,
         depth' = depth - 1
  PROVE  CountInv'
<1>1. IsFiniteSet(Counted') /\ Cardinality(Counted') = Cardinality(Counted) - 1
  BY FS_RemoveElement DEF CountInv
<1>2. Cardinality(Counted) \in Nat /\ Cardinality(Refused) \in Nat
  BY FS_CardinalityType DEF CountInv
<1> QED
  BY <1>1, <1>2 DEF CountInv, DepthExact

\* A refusal begins.
LEMMA RefuseMore ==
  ASSUME CountInv, NEW p, p \notin Refused, Refused' = Refused \cup {p}, Counted' = Counted,
         depth' = depth + 1
  PROVE  CountInv'
<1>1. IsFiniteSet(Refused') /\ Cardinality(Refused') = Cardinality(Refused) + 1
  BY FS_AddElement DEF CountInv
<1>2. Cardinality(Counted) \in Nat /\ Cardinality(Refused) \in Nat
  BY FS_CardinalityType DEF CountInv
<1> QED
  BY <1>1, <1>2 DEF CountInv, DepthExact

\* A refusal is over.
LEMMA RefuseLess ==
  ASSUME CountInv, NEW p \in Refused, Refused' = Refused \ {p}, Counted' = Counted,
         depth' = depth - 1
  PROVE  CountInv'
<1>1. IsFiniteSet(Refused') /\ Cardinality(Refused') = Cardinality(Refused) - 1
  BY FS_RemoveElement DEF CountInv
<1>2. Cardinality(Counted) \in Nat /\ Cardinality(Refused) \in Nat
  BY FS_CardinalityType DEF CountInv
<1> QED
  BY <1>1, <1>2 DEF CountInv, DepthExact

\* The steps of a post.
LEMMA CountPost ==
  ASSUME Places, CountInv, NEW p \in Poster, (\E m \in Msg : PostCheck(p, m)) \/ PostStep(p)
  PROVE  CountInv'
<1>0. post \in [Poster -> [pc : {"idle", "dup", "put", "signal", "undo"},
                           msg : Msg \cup {NoMsg}]]
  BY DEF Places, TypeOK
<1>1. Handling' = Handling
  BY DEF Handling, PostCheck, PostStep, MsgDup, DecQueueCount, MqPut, PostSignal
<1>2. CASE (\E m \in Msg : PostCheck(p, m)) \/ PostSignal(p)
  <2>1. /\ UNCHANGED <<q, depth>> /\ \A r \in Poster \ {p} : post'[r] = post[r]
        /\ post[p].pc \in {"idle", "signal"} /\ post'[p].pc \in {"dup", "idle"}
    BY <1>0, <1>2 DEF PostCheck, PostSignal, IdlePost, schedVars
  <2>2. Queued' = Queued /\ Posting' = Posting /\ Refused' = Refused
    BY <2>1 DEF Queued, Posting, Refused
  <2>3. Counted' = Counted
    BY <1>1, <2>2 DEF Counted
  <2> QED
    BY <2>1, <2>2, <2>3, CountSame
<1>3. CASE MsgDup(p)
  <2>0. UNCHANGED q /\ depth' = depth + 1 /\ post[p].pc = "dup"
    BY <1>3 DEF MsgDup
  <2>1. Queued' = Queued
    BY <2>0 DEF Queued
  <2>2. CASE post' = [post EXCEPT ![p].pc = "put"]
    <3> DEFINE m == post[p].msg
    <3>1. /\ post'[p] = [pc |-> "put", msg |-> m]
          /\ \A r \in Poster \ {p} : post'[r] = post[r]
      BY <1>0, <2>2
    <3>2. /\ m \in Msg /\ m \notin Queued /\ m # thr.msg
          /\ \A r \in Poster \ {p} : post[r].msg # m
      BY <1>0, <2>0 DEF Places, TypeOK, OnePlace
    <3>3. m \notin Counted
      BY <2>0, <3>2 DEF Counted, Handling, Posting
    <3>4. Posting' = Posting \cup {m}
      BY <2>0, <3>1, <3>2 DEF Posting
    <3>5. Counted' = Counted \cup {m}
      BY <1>1, <2>1, <3>4 DEF Counted
    <3>6. Refused' = Refused
      BY <2>0, <3>1 DEF Refused
    <3> QED
      BY <2>0, <3>3, <3>5, <3>6, CountMore
  <2>3. CASE post' = [post EXCEPT ![p] = [pc |-> "undo", msg |-> NoMsg]]
    <3>1. post'[p].pc = "undo" /\ \A r \in Poster \ {p} : post'[r] = post[r]
      BY <1>0, <2>3
    <3>2. p \notin Refused /\ Refused' = Refused \cup {p}
      BY <2>0, <3>1 DEF Refused
    <3>3. Posting' = Posting
      BY <2>0, <3>1 DEF Posting
    <3>4. Counted' = Counted
      BY <1>1, <2>1, <3>3 DEF Counted
    <3> QED
      BY <2>0, <3>2, <3>4, RefuseMore
  <2> QED
    BY <1>3, <2>2, <2>3 DEF MsgDup
<1>4. CASE DecQueueCount(p)
  <2>1. /\ UNCHANGED q /\ depth' = depth - 1 /\ post[p].pc = "undo"
        /\ post'[p].pc = "idle" /\ \A r \in Poster \ {p} : post'[r] = post[r]
    BY <1>0, <1>4 DEF DecQueueCount, IdlePost
  <2>2. Queued' = Queued /\ Posting' = Posting
    BY <2>1 DEF Queued, Posting
  <2>3. p \in Refused /\ Refused' = Refused \ {p}
    BY <2>1 DEF Refused
  <2>4. Counted' = Counted
    BY <1>1, <2>2 DEF Counted
  <2> QED
    BY <2>1, <2>3, <2>4, RefuseLess
<1>5. CASE MqPut(p)
  <2> DEFINE m == post[p].msg
  <2>1. /\ UNCHANGED depth /\ post[p].pc = "put"
        /\ post'[p].pc = "signal" /\ \A r \in Poster \ {p} : post'[r] = post[r]
    BY <1>0, <1>5 DEF MqPut
  <2>2. Queued' = Queued \cup {m}
    BY <1>5, PlacesPut
  <2>3. Refused' = Refused
    BY <2>1 DEF Refused
  <2>4. m \in Msg /\ post[p] = [pc |-> "put", msg |-> m]
        /\ \A r \in Poster \ {p} : post[r].msg # m
    BY <1>0, <2>1 DEF Places, TypeOK, OnePlace
  <2>5. m \in Posting /\ Posting' = Posting \ {m}
    BY <2>1, <2>4 DEF Posting
  <2>6. Counted' = Counted
    BY <1>1, <2>2, <2>5 DEF Counted
  <2> QED
    BY <2>1, <2>3, <2>6, CountSame
<1> QED
  BY <1>2, <1>3, <1>4, <1>5 DEF PostStep

\* A message taken by the thread is still counted; a handled one is not.
LEMMA CountThread ==
  ASSUME Places, CountInv, ThreadStep
  PROVE  CountInv'
<1>0. /\ thr \in [pc : ThreadPC, idx : Queue, msg : Msg \cup {NoMsg}, shutdown : BOOLEAN]
      /\ thr.msg # NoMsg <=> thr.pc = "handle"
      /\ NoMsg \notin Msg
  BY ConstantsAssumption DEF Places, TypeOK
<1>1. UNCHANGED post
  BY DEF ThreadStep, ThreadStart, Wake, ClearPost, CheckShutdown, MqGet, Handled,
         CheckSuspend, AckSuspend, Resumed, ThreadExit
<1>2. Refused' = Refused /\ Posting' = Posting
  BY <1>1 DEF Refused, Posting
<1>3. CASE MqGet /\ q[thr.idx] # <<>>
  <2> DEFINE h == Head(q[thr.idx])
  <2>1. Queued' = Queued \ {h} /\ h \in Queued /\ h \in Msg
    BY <1>0, <1>3, GetQueue, PlacesQueues DEF MqGet
  <2>2. thr'.msg = h /\ thr.msg = NoMsg /\ UNCHANGED depth
    BY <1>0, <1>3 DEF MqGet
  <2>3. Handling' = {h} /\ Handling = {}
    BY <1>0, <2>1, <2>2 DEF Handling
  <2>4. Counted' = Counted
    BY <1>2, <2>1, <2>3 DEF Counted
  <2> QED
    BY <1>2, <2>2, <2>4, CountSame
<1>4. CASE Handled
  <2> DEFINE m == thr.msg
  <2>1. UNCHANGED q /\ depth' = depth - 1 /\ m \in Msg /\ thr'.msg = NoMsg
    BY <1>0, <1>4 DEF Handled
  <2>2. Queued' = Queued
    BY <2>1 DEF Queued
  <2>3. Handling' = {} /\ Handling = {m}
    BY <1>0, <2>1 DEF Handling
  <2>4. m \notin Queued /\ m \notin Posting
    BY DEF Places, OnePlace, Posting
  <2>5. m \in Counted /\ Counted' = Counted \ {m}
    BY <1>2, <2>2, <2>3, <2>4 DEF Counted
  <2> QED
    BY <1>2, <2>1, <2>5, CountLess
<1>5. CASE ~Handled /\ ~(MqGet /\ q[thr.idx] # <<>>)
  <2>1. UNCHANGED <<q, depth>> /\ thr'.msg = thr.msg
    <3>1. CASE MqGet
      BY <1>0, <1>5, <3>1 DEF MqGet, NextQueue
    <3>2. CASE ThreadStart \/ Wake \/ ClearPost
      BY <1>0, <3>2 DEF ThreadStart, Wake, ClearPost, schedVars
    <3>3. CASE CheckShutdown
      BY <1>0, <3>3 DEF CheckShutdown
    <3>4. CASE CheckSuspend \/ AckSuspend \/ Resumed
      BY <1>0, <3>4 DEF CheckSuspend, AckSuspend, Resumed, AfterQueues, schedVars
    <3>5. CASE ThreadExit
      BY <1>0, <3>5 DEF ThreadExit, NoThread, schedVars
    <3> QED
      BY <1>5, <3>1, <3>2, <3>3, <3>4, <3>5 DEF ThreadStep
  <2>2. Queued' = Queued /\ Handling' = Handling
    BY <2>1 DEF Queued, Handling
  <2>3. Counted' = Counted
    BY <1>2, <2>2 DEF Counted
  <2> QED
    BY <1>2, <2>1, <2>3, CountSame
<1> QED
  BY <1>3, <1>4, <1>5

\* A flushed message is no longer counted.
LEMMA CountFlush ==
  ASSUME Places, CountInv, Flush
  PROVE  CountInv'
<1>1. Refused' = Refused /\ Posting' = Posting /\ Handling' = Handling
  BY DEF Flush, Refused, Posting, Handling
<1>2. CASE q[flushIdx] = <<>>
  <2>1. UNCHANGED <<q, depth>>
    BY <1>2 DEF Flush
  <2>2. Counted' = Counted
    BY <1>1, <2>1 DEF Counted, Queued
  <2> QED
    BY <1>1, <2>1, <2>2, CountSame
<1>3. CASE q[flushIdx] # <<>>
  <2> DEFINE h == Head(q[flushIdx])
  <2>1. flushIdx \in Queue /\ q' = [q EXCEPT ![flushIdx] = Tail(@)] /\ depth' = depth - 1
    BY <1>3 DEF Flush, Places, TypeOK
  <2>2. Queued' = Queued \ {h} /\ h \in Queued /\ h \in Msg
    BY <1>3, <2>1, GetQueue, PlacesQueues
  <2>3. \A p \in Poster : post[p].pc = "put" => post[p].msg # h
    BY <2>2 DEF Places, OnePlace
  <2>4. h \notin Posting /\ h \notin Handling
    BY <2>2, <2>3 DEF Places, OnePlace, Posting, Handling
  <2>5. h \in Counted /\ Counted' = Counted \ {h}
    BY <1>1, <2>2, <2>4 DEF Counted
  <2> QED
    BY <1>1, <2>1, <2>5, CountLess
<1> QED
  BY <1>2, <1>3

\* Enable, disable, suspend and resume count nothing: when a thread is
\* created, the one before it had no message in hand.
LEMMA CountControl ==
  ASSUME Places, Life, CountInv,
         Enable \/ Enabled \/ Disable \/ DisableSignal \/ Join \/ Suspend \/ GiveUp \/ Resume
  PROVE  CountInv'
<1>1. UNCHANGED <<q, depth, post>>
  BY DEF Enable, Enabled, Disable, DisableSignal, Join, Suspend, GiveUp, Resume, schedVars
<1>2. thr'.msg = thr.msg
  <2>1. CASE Enable
    <3>1. thr.msg = NoMsg
      BY <2>1 DEF Enable, Life, Lifecycle, Places, TypeOK
    <3> QED
      BY <2>1, <3>1 DEF Enable, NoThread
  <2>2. CASE ~Enable
    BY <2>2 DEF Enabled, Disable, DisableSignal, Join, Suspend, GiveUp, Resume
  <2> QED
    BY <2>1, <2>2
<1>3. Refused' = Refused /\ Posting' = Posting
  BY <1>1 DEF Refused, Posting
<1>4. Handling' = Handling /\ Queued' = Queued
  BY <1>1, <1>2 DEF Handling, Queued
<1>5. Counted' = Counted
  BY <1>3, <1>4 DEF Counted
<1> QED
  BY <1>1, <1>3, <1>5, CountSame

\* Every step keeps the count exact.
LEMMA CountStep == Places /\ Life /\ CountInv /\ [Next]_vars => CountInv'
<1> SUFFICES ASSUME Places, Life, CountInv, [Next]_vars PROVE CountInv'
  OBVIOUS
<1>1. CASE UNCHANGED vars
  <2>1. Counted' = Counted /\ Refused' = Refused /\ depth' = depth
    BY <1>1 DEF vars, schedVars, Counted, Queued, Handling, Posting, Refused
  <2> QED
    BY <2>1, CountSame
<1> QED
  BY <1>1, CountPost, CountThread, CountFlush, CountControl DEF Next, CtlStep

\* Nothing is counted at the start.
LEMMA CountInit == Init => CountInv
<1> SUFFICES ASSUME Init PROVE CountInv
  OBVIOUS
<1>1. Queued = {}
  <2>1. \A i \in Queue : q[i] = <<>>
    BY DEF Init
  <2> QED
    BY <2>1, PlacesInit, PlacesQueues, QueuedMsgs
<1>2. Handling = {} /\ Posting = {} /\ Refused = {}
  BY ConstantsAssumption DEF Init, Handling, Posting, Refused, IdlePost, NoThread
<1>3. Counted = {}
  BY <1>1, <1>2 DEF Counted
<1>4. depth = 0
  BY DEF Init
<1> QED
  BY <1>2, <1>3, <1>4, FS_EmptySet DEF CountInv, DepthExact

(***************************************************************************)
(* The count that limits the scheduler is exact in every interleaving: no  *)
(* path leaks a unit or gives one back twice.                              *)
(***************************************************************************)
THEOREM DepthIsExact == Spec => []DepthExact
<1>1. Init => Places /\ Life /\ CountInv
  BY PlacesInit, LifeInit, CountInit
<1>2. Places /\ Life /\ CountInv /\ [Next]_vars => (Places /\ Life /\ CountInv)'
  BY PlacesStep, LifeStep, CountStep DEF Places
<1>3. CountInv => DepthExact
  BY DEF CountInv
<1> QED
  BY <1>1, <1>2, <1>3, PTL DEF Spec
=============================================================================
