--------------------------- MODULE VdevMlmeProofs ---------------------------
(***************************************************************************)
(* Proofs about VdevMlme and the response timer it is composed with        *)
(* (VdevRsp), for every bound on the firmware's queue and the scheduler's. *)
(*                                                                         *)
(* IndInv says who has the turn of the state machine: the firmware or the  *)
(* driver (Owing), or the event under dispatch (HasTurn), never two of     *)
(* them and, in a state that waits, never nobody.  There is one lemma for  *)
(* each handler of vdev_mlme_sm.c, for each step of the threads around it  *)
(* and for the steps of the timer; the theorems are at the end.            *)
(***************************************************************************)
EXTENDS VdevMlme, FiniteSetTheorems, TLAPS

\* The events that handlers dispatch are events that some handler has a case for.
LEMMA EventNames ==
  {"START", "DOWN_COMPLETE", "DOWN", "START_REQ_FAIL", "START_REQ", "RESTART_REQ", "RADAR_DETECTED",
   "STA_CONN_START", "DFS_CAC_WAIT", "DFS_CAC_COMPLETED", "START_SUCCESS", "SUSPEND_RESTART",
   "HOST_RESTART", "CSA_RESTART", "UP_HOST_RESTART", "FW_VDEV_RESTART", "UP_FAIL", "ROAM",
   "RESTART_REQ_FAIL", "START_RESP", "RESTART_RESP", "CONN_PROGRESS", "CONNECTION_FAIL",
   "DISCONNECT_COMPLETE", "CHAN_SWITCH_DISABLED", "CSA_COMPLETE", "STOP_REQ", "STOP_RESP",
   "MLME_DOWN_REQ", "STOP_FAIL", "DOWN_FAIL"} \subseteq Events
<1>. DEFINE S == {"INIT", "START", "DFS_CAC_WAIT", "UP", "RESTART_PROGRESS", "CONN_PROGRESS",
                  "CSA_RESTART", "SUSPEND_DOWN", "STOP_PROGRESS", "DOWN_PROGRESS"}
<1>1. S \subseteq DOMAIN Handles
  BY DEF Handles, SuperStates, SubStates, StartStates, SuspendStates, StopStates
<1>2. \A s \in S : Handles[s] \subseteq Events
  BY <1>1 DEF Events
<1>. QED BY <1>2 DEF Handles, SuperStates, SubStates, StartStates, SuspendStates, StopStates

\* A vdev in INIT that is getting an event is not being deleted: nobody owes it.
LEMMA NobodyOwes ==
  ASSUME IndInv, sm = "INIT", ev # NoEv
  PROVE  Owing = {}
<1>1. "DELETE" \notin Owing
  BY DEF IndInv, TypeOK, OneTurn, DownWhenGone, Owing, Dues
<1>. QED BY <1>1 DEF IndInv, OneTurn, OwedIn, SuperStates, SubStates

\* START and SUSPEND are only passed through: the lock is not released there.
LEMMA LockFree ==
  ASSUME IndInv, ev = NoEv
  PROVE  sm \notin {"START", "SUSPEND"}
BY DEF IndInv, OneTurn, TurnsIn, Handles, SuperStates, SubStates, NoEv

\* The response bits are finitely many.
LEMMA BitsFinite ==
  ASSUME RspTypeOK
  PROVE  IsFiniteSet(rsp.bits) /\ Cardinality(rsp.bits) \in Nat
<1>1. \A x : IsFiniteSet({x})
  BY FS_Singleton
<1>2. IsFiniteSet({"START"} \cup {"RESTART"}) /\ IsFiniteSet({"STOP"} \cup {"DELETE"})
  BY <1>1, FS_Union
<1>3. IsFiniteSet(({"START"} \cup {"RESTART"}) \cup ({"STOP"} \cup {"DELETE"}))
  BY <1>2, FS_Union
<1>4. IsFiniteSet(Bits)
  <2>1. Bits = (({"START"} \cup {"RESTART"}) \cup ({"STOP"} \cup {"DELETE"}))
                 \cup {"PEER_DELETE_ALL"}
    BY DEF Bits
  <2>. QED BY <1>1, <1>3, <2>1, FS_Union
<1>. QED BY <1>4, FS_Subset, FS_CardinalityType DEF RspTypeOK, Timers

\* Setting the bit of a command releases the references of the bits it replaces.
LEMMA SendKeeps ==
  ASSUME RspTypeOK, RefsMatchBits, NEW b \in Bits, Send(b)
  PROVE  /\ snd' = b
         /\ rsp'.bits = {b}
         /\ rsp' \in Timers
         /\ RefsMatchBits'
<1>1. Cardinality({b}) = 1
  BY FS_Singleton
<1>2. rsp' = RspTimerSet(rsp, b) /\ snd = NoBit /\ snd' = b
  BY DEF Send
<1>3. rsp' \in Timers
  <2>1. rsp.refs - Cardinality(rsp.bits) \in Int /\ {b} \in SUBSET Bits
    BY BitsFinite DEF RspTypeOK, Timers
  <2>2. \A c \in BOOLEAN : (rsp.armed /\ c) \in BOOLEAN /\ (rsp.inuse /\ c) \in BOOLEAN
    OBVIOUS
  <2>3. (IF Cardinality(rsp.bits) = 0 THEN rsp.status ELSE "SUCCESS")
          \in {"SUCCESS", "TIMEOUT", "CANCELED"}
    BY DEF RspTypeOK, Timers
  <2>. QED BY <2>1, <2>2, <2>3, <1>2, Zenon DEF RspTypeOK, Timers, RspTimerSet
<1>4. rsp'.bits = {b} /\ rsp'.refs = rsp.refs - Cardinality(rsp.bits)
  BY <1>2 DEF RspTypeOK, Timers, RspTimerSet
<1>5. b # NoBit
  BY DEF NoBit, Bits
<1>. QED BY BitsFinite, <1>1, <1>2, <1>3, <1>4, <1>5 DEF RefsMatchBits, RspTypeOK, Timers

\* Stopping the timer for a response releases a reference iff its bit was set.
LEMMA StopKeeps ==
  ASSUME RspTypeOK, NEW r \in Timers,
         NEW b \in Bits, r.bits = rsp.bits
  PROVE  /\ RspTimerStop(r, b) \in Timers
         /\ RspTimerStop(r, b).bits = r.bits \ {b}
         /\ Cardinality(RspTimerStop(r, b).bits) \in Nat
         /\ RspTimerStop(r, b).refs - Cardinality(RspTimerStop(r, b).bits)
              = r.refs - Cardinality(r.bits)
<1>1. CASE b \notin r.bits
  BY <1>1, BitsFinite DEF RspTimerStop, Timers
<1>2. CASE b \in r.bits
  <2>1. Cardinality(r.bits \ {b}) = Cardinality(r.bits) - 1
    BY <1>2, BitsFinite, FS_RemoveElement
  <2>2. RspTimerStop(r, b).refs = r.refs - 1 /\ RspTimerStop(r, b).bits = r.bits \ {b}
    BY <1>2 DEF RspTimerStop, Timers
  <2>3. RspTimerStop(r, b) \in Timers
    <3>1. r.refs - 1 \in Int /\ r.bits \ {b} \in SUBSET Bits
      BY DEF Timers
    <3>. QED BY <1>2, <3>1, Zenon DEF RspTimerStop, Timers
  <2>4. Cardinality(r.bits \ {b}) \in Nat
    BY BitsFinite, FS_Difference, FS_CardinalityType
  <2>. QED BY <2>1, <2>2, <2>3, <2>4, BitsFinite DEF Timers
<1>. QED BY <1>1, <1>2

\* The same, for a step that stops the timer and sends nothing.
LEMMA StopStep ==
  ASSUME RspTypeOK, RefsMatchBits, NEW b \in Bits, rsp' = RspTimerStop(rsp, b), UNCHANGED snd
  PROVE  rsp' \in Timers /\ rsp'.bits = rsp.bits \ {b} /\ RefsMatchBits'
<1>1. rsp \in Timers
  BY DEF RspTypeOK
<1>2. /\ rsp' \in Timers /\ rsp'.bits = rsp.bits \ {b} /\ Cardinality(rsp'.bits) \in Nat
      /\ rsp'.refs - Cardinality(rsp'.bits) = rsp.refs - Cardinality(rsp.bits)
  BY <1>1, StopKeeps
<1>. QED BY <1>1, <1>2, BitsFinite DEF RefsMatchBits, Timers

\* A handler that sends nothing leaves what the timer waits for alone.
LEMMA QuietAwaited ==
  ASSUME Awaited, UNCHANGED <<rsp, snd, asked, answer, cb>>, ev # NoEv
  PROVE  Awaited'
BY DEF Awaited

\* A command is sent only when no other command of the turn is with the firmware.
LEMMA SentAwaited ==
  ASSUME IndInv, NEW b \in Bits, Send(b), asked \subseteq {"PEER_DELETE_ALL"},
         asked' = asked \cup {b}, ev' = NoEv, UNCHANGED <<answer, cb>>
  PROVE  Awaited'
<1>1. rsp'.bits = {b} /\ snd' = b
  BY SendKeeps DEF IndInv, TypeOK
<1>2. answer = NoAnswer => answer.bit \notin Bits
  BY DEF NoAnswer, NoBit, Bits
<1>. QED BY <1>1, <1>2 DEF IndInv, Awaited

\* INIT: a START is accepted or refused, a DOWN completes at once.
LEMMA InitKeeps == ASSUME IndInv, InitEvent PROVE IndInv'
<1>. USE DEF InitEvent, In, Stay, Done, Dispatch, NoCall, NotifyDownComplete, TransitionTo,
             Handler, SuperStates, SubStates, StartStates, SuspendStates, StopStates
<1>1. TypeOK'
  <2>1. RspTypeOK'
    BY DEF IndInv, TypeOK, RspTypeOK
  <2>2. ev' \in Events \cup {NoEv}
    BY EventNames DEF IndInv, TypeOK
  <2>3. /\ sm' \in (SuperStates \ {"STOP"}) \cup SubStates /\ mlmeState' \in SuperStates
        /\ bug' \subseteq {"entry", "handler"}
    BY DEF IndInv, TypeOK
  <2>4. due' \subseteq Dues /\ asked' \subseteq Bits
    BY DEF IndInv, TypeOK, Bits, Dues
  <2>5. downReq' \in BOOLEAN
    BY DEF IndInv, TypeOK
  <2>. QED BY <2>1, <2>2, <2>3, <2>4, <2>5 DEF IndInv, TypeOK
<1>2. RefsMatchBits'
  BY DEF IndInv, RefsMatchBits
<1>3. NoAssertion' /\ ModeFits'
  BY DEF IndInv, TypeOK, NoAssertion, ModeFits, Parent, NoEv, OneTurn, TurnsIn, Turns
<1>4. DownWhenGone' /\ OneTurn'
  BY NobodyOwes DEF IndInv, TypeOK, OneTurn, Owing, OwedIn, TurnsIn, Turns, HasTurn, Handles,
         DownWhenGone, NoEv, Bits, Dues
<1>5. TurnNotLost'
  BY DEF IndInv, TypeOK, TurnNotLost, OneTurn, Owing, OwedIn, TurnsIn, Turns, HasTurn,
         DownWhenGone, NoEv
<1>6. Awaited'
  BY QuietAwaited DEF IndInv, NoEv
<1>. QED BY <1>1, <1>2, <1>3, <1>4, <1>5, <1>6 DEF IndInv

\* START hands the event down to one of its substates.
LEMMA StartKeeps == ASSUME IndInv, StartEvent PROVE IndInv'
<1>. USE DEF StartEvent, In, Dispatch, NoCall, TransitionTo, Handler, SuperStates, SubStates,
             StartStates, SuspendStates, StopStates
<1>1. TypeOK'
  <2>1. RspTypeOK'
    BY DEF IndInv, TypeOK, RspTypeOK
  <2>2. ev' \in Events \cup {NoEv}
    BY EventNames DEF IndInv, TypeOK
  <2>3. /\ sm' \in (SuperStates \ {"STOP"}) \cup SubStates /\ mlmeState' \in SuperStates
        /\ bug' \subseteq {"entry", "handler"}
    BY DEF IndInv, TypeOK
  <2>4. due' \subseteq Dues /\ asked' \subseteq Bits
    BY DEF IndInv, TypeOK, Bits, Dues
  <2>5. downReq' \in BOOLEAN
    BY DEF IndInv, TypeOK
  <2>. QED BY <2>1, <2>2, <2>3, <2>4, <2>5 DEF IndInv, TypeOK
<1>2. RefsMatchBits'
  BY DEF IndInv, RefsMatchBits
<1>3. NoAssertion' /\ ModeFits'
  BY DEF IndInv, TypeOK, NoAssertion, ModeFits, Parent, NoEv, OneTurn, TurnsIn, Turns
<1>4. DownWhenGone' /\ OneTurn'
  BY DEF IndInv, TypeOK, OneTurn, Owing, OwedIn, TurnsIn, Turns, HasTurn, Handles, DownWhenGone,
         NoEv, Bits, Dues
<1>5. TurnNotLost'
  BY DEF IndInv, TypeOK, TurnNotLost, OneTurn, Owing, OwedIn, TurnsIn, Turns, HasTurn,
         DownWhenGone, NoEv
<1>6. Awaited'
  BY QuietAwaited DEF IndInv, NoEv
<1>. QED BY <1>1, <1>2, <1>3, <1>4, <1>5, <1>6 DEF IndInv

\* DFS_CAC_WAIT: the turn is with DFS until its CAC ends, is stopped or is taken back.
LEMMA DfsCacWaitKeeps == ASSUME IndInv, DfsCacWaitEvent PROVE IndInv'
<1>. USE DEF DfsCacWaitEvent, In, Stay, Done, Dispatch, NoCall, Owe, TransitionTo, Handler,
             SuperStates, SubStates, StartStates, SuspendStates, StopStates
<1>1. TypeOK'
  <2>1. RspTypeOK'
    BY DEF IndInv, TypeOK, RspTypeOK
  <2>2. ev' \in Events \cup {NoEv}
    BY EventNames DEF IndInv, TypeOK
  <2>3. /\ sm' \in (SuperStates \ {"STOP"}) \cup SubStates /\ mlmeState' \in SuperStates
        /\ bug' \subseteq {"entry", "handler"}
    BY DEF IndInv, TypeOK
  <2>4. due' \subseteq Dues /\ asked' \subseteq Bits
    BY DEF IndInv, TypeOK, Bits, Dues
  <2>5. downReq' \in BOOLEAN
    BY DEF IndInv, TypeOK
  <2>. QED BY <2>1, <2>2, <2>3, <2>4, <2>5 DEF IndInv, TypeOK
<1>2. RefsMatchBits'
  BY DEF IndInv, RefsMatchBits
<1>3. NoAssertion' /\ ModeFits'
  BY DEF IndInv, TypeOK, NoAssertion, ModeFits, Parent, NoEv, OneTurn, TurnsIn, Turns
<1>4. DownWhenGone' /\ OneTurn'
  BY ZenonT(60) DEF IndInv, TypeOK, OneTurn, Owing, OwedIn, TurnsIn, Turns, HasTurn, Handles, DownWhenGone,
         NoEv, Bits, Dues
<1>5. TurnNotLost'
  BY DEF IndInv, TypeOK, TurnNotLost, OneTurn, Owing, OwedIn, TurnsIn, Turns, HasTurn,
         DownWhenGone, NoEv
<1>6. Awaited'
  BY QuietAwaited DEF IndInv, NoEv
<1>. QED BY <1>1, <1>2, <1>3, <1>4, <1>5, <1>6 DEF IndInv

\* UP: the beacon is up, or a restart or a DOWN is handed to SUSPEND.
LEMMA UpKeeps == ASSUME IndInv, UpEvent PROVE IndInv'
<1>. USE DEF UpEvent, In, Stay, Done, Dispatch, NoCall, TransitionTo, Handler, SuperStates,
             SubStates, StartStates, SuspendStates, StopStates
<1>1. TypeOK'
  <2>1. RspTypeOK'
    BY DEF IndInv, TypeOK, RspTypeOK
  <2>2. ev' \in Events \cup {NoEv}
    BY EventNames DEF IndInv, TypeOK
  <2>3. /\ sm' \in (SuperStates \ {"STOP"}) \cup SubStates /\ mlmeState' \in SuperStates
        /\ bug' \subseteq {"entry", "handler"}
    BY DEF IndInv, TypeOK
  <2>4. due' \subseteq Dues /\ asked' \subseteq Bits
    BY DEF IndInv, TypeOK, Bits, Dues
  <2>5. downReq' \in BOOLEAN
    BY DEF IndInv, TypeOK
  <2>. QED BY <2>1, <2>2, <2>3, <2>4, <2>5 DEF IndInv, TypeOK
<1>2. RefsMatchBits'
  BY DEF IndInv, RefsMatchBits
<1>3. NoAssertion' /\ ModeFits'
  BY DEF IndInv, TypeOK, NoAssertion, ModeFits, Parent, NoEv, OneTurn, TurnsIn, Turns
<1>4. DownWhenGone' /\ OneTurn'
  BY ZenonT(60) DEF IndInv, TypeOK, OneTurn, Owing, OwedIn, TurnsIn, Turns, HasTurn, Handles, DownWhenGone,
         NoEv, Bits, Dues
<1>5. TurnNotLost'
  BY DEF IndInv, TypeOK, TurnNotLost, OneTurn, Owing, OwedIn, TurnsIn, Turns, HasTurn,
         DownWhenGone, NoEv
<1>6. Awaited'
  BY QuietAwaited DEF IndInv, NoEv
<1>. QED BY <1>1, <1>2, <1>3, <1>4, <1>5, <1>6 DEF IndInv

\* SUSPEND hands the event down to one of its substates.
LEMMA SuspendKeeps == ASSUME IndInv, SuspendEvent PROVE IndInv'
<1>. USE DEF SuspendEvent, In, Dispatch, NoCall, TransitionTo, Handler, SuperStates, SubStates,
             StartStates, SuspendStates, StopStates
<1>1. TypeOK'
  <2>1. RspTypeOK'
    BY DEF IndInv, TypeOK, RspTypeOK
  <2>2. ev' \in Events \cup {NoEv}
    BY EventNames DEF IndInv, TypeOK
  <2>3. /\ sm' \in (SuperStates \ {"STOP"}) \cup SubStates /\ mlmeState' \in SuperStates
        /\ bug' \subseteq {"entry", "handler"}
    BY DEF IndInv, TypeOK
  <2>4. due' \subseteq Dues /\ asked' \subseteq Bits
    BY DEF IndInv, TypeOK, Bits, Dues
  <2>5. downReq' \in BOOLEAN
    BY DEF IndInv, TypeOK
  <2>. QED BY <2>1, <2>2, <2>3, <2>4, <2>5 DEF IndInv, TypeOK
<1>2. RefsMatchBits'
  BY DEF IndInv, RefsMatchBits
<1>3. NoAssertion' /\ ModeFits'
  BY DEF IndInv, TypeOK, NoAssertion, ModeFits, Parent, NoEv, OneTurn, TurnsIn, Turns
<1>4. DownWhenGone' /\ OneTurn'
  BY DEF IndInv, TypeOK, OneTurn, Owing, OwedIn, TurnsIn, Turns, HasTurn, Handles, DownWhenGone,
         NoEv, Bits, Dues
<1>5. TurnNotLost'
  BY DEF IndInv, TypeOK, TurnNotLost, OneTurn, Owing, OwedIn, TurnsIn, Turns, HasTurn,
         DownWhenGone, NoEv
<1>6. Awaited'
  BY QuietAwaited DEF IndInv, NoEv
<1>. QED BY <1>1, <1>2, <1>3, <1>4, <1>5, <1>6 DEF IndInv

\* START_PROGRESS: START is sent to the firmware, and its answer comes back.
LEMMA StartProgressKeeps == ASSUME IndInv, StartProgressEvent PROVE IndInv'
<1>. USE DEF StartProgressEvent, In, Stay, Done, Dispatch, NoCall, Command, TransitionTo, Handler,
             SuperStates, SubStates, StartStates, SuspendStates, StopStates
<1>1. TypeOK'
  <2>1. RspTypeOK'
    BY SendKeeps DEF IndInv, TypeOK, RspTypeOK, Bits
  <2>2. ev' \in Events \cup {NoEv}
    BY EventNames DEF IndInv, TypeOK
  <2>3. /\ sm' \in (SuperStates \ {"STOP"}) \cup SubStates /\ mlmeState' \in SuperStates
        /\ bug' \subseteq {"entry", "handler"}
    BY DEF IndInv, TypeOK
  <2>4. due' \subseteq Dues /\ asked' \subseteq Bits
    BY DEF IndInv, TypeOK, Bits, Dues
  <2>5. downReq' \in BOOLEAN
    BY DEF IndInv, TypeOK
  <2>. QED BY <2>1, <2>2, <2>3, <2>4, <2>5 DEF IndInv, TypeOK
<1>2. RefsMatchBits'
  BY SendKeeps DEF IndInv, TypeOK, Bits, RefsMatchBits
<1>3. NoAssertion' /\ ModeFits'
  BY DEF IndInv, TypeOK, NoAssertion, ModeFits, Parent, NoEv, OneTurn, TurnsIn, Turns
<1>4. DownWhenGone' /\ OneTurn'
  BY ZenonT(60) DEF IndInv, TypeOK, OneTurn, Owing, OwedIn, TurnsIn, Turns, HasTurn, Handles, DownWhenGone,
         NoEv, Bits, Dues
<1>5. TurnNotLost'
  BY DEF IndInv, TypeOK, TurnNotLost, OneTurn, Owing, OwedIn, TurnsIn, Turns, HasTurn,
         DownWhenGone, NoEv
<1>6. Awaited'
  <2>1. \/ UNCHANGED <<rsp, snd, asked>>
        \/ /\ asked \subseteq {"PEER_DELETE_ALL"} /\ ev' = NoEv
           /\ \E b \in Bits : Send(b) /\ asked' = asked \cup {b}
    BY DEF IndInv, TypeOK, OneTurn, Owing, OwedIn, Turns, HasTurn, Bits
  <2>. QED BY <2>1, QuietAwaited, SentAwaited DEF IndInv, NoEv
<1>. QED BY <1>1, <1>2, <1>3, <1>4, <1>5, <1>6 DEF IndInv

\* RESTART_PROGRESS: RESTART is sent, after the answer to an overtaken START.
LEMMA RestartProgressKeeps == ASSUME IndInv, RestartProgressEvent PROVE IndInv'
<1>. USE DEF RestartProgressEvent, In, Stay, Done, Dispatch, NoCall, Command, TransitionTo,
             Handler, SuperStates, SubStates, StartStates, SuspendStates, StopStates
<1>1. TypeOK'
  <2>1. RspTypeOK'
    BY SendKeeps DEF IndInv, TypeOK, RspTypeOK, Bits
  <2>2. ev' \in Events \cup {NoEv}
    BY EventNames DEF IndInv, TypeOK
  <2>3. /\ sm' \in (SuperStates \ {"STOP"}) \cup SubStates /\ mlmeState' \in SuperStates
        /\ bug' \subseteq {"entry", "handler"}
    BY DEF IndInv, TypeOK
  <2>4. due' \subseteq Dues /\ asked' \subseteq Bits
    BY DEF IndInv, TypeOK, Bits, Dues
  <2>5. downReq' \in BOOLEAN
    BY DEF IndInv, TypeOK
  <2>. QED BY <2>1, <2>2, <2>3, <2>4, <2>5 DEF IndInv, TypeOK
<1>2. RefsMatchBits'
  BY SendKeeps DEF IndInv, TypeOK, Bits, RefsMatchBits
<1>3. NoAssertion' /\ ModeFits'
  BY DEF IndInv, TypeOK, NoAssertion, ModeFits, Parent, NoEv, OneTurn, TurnsIn, Turns
<1>4. DownWhenGone' /\ OneTurn'
  BY ZenonT(60) DEF IndInv, TypeOK, OneTurn, Owing, OwedIn, TurnsIn, Turns, HasTurn, Handles, DownWhenGone,
         NoEv, Bits, Dues
<1>5. TurnNotLost'
  BY DEF IndInv, TypeOK, TurnNotLost, OneTurn, Owing, OwedIn, TurnsIn, Turns, HasTurn,
         DownWhenGone, NoEv
<1>6. Awaited'
  <2>1. \/ UNCHANGED <<rsp, snd, asked>>
        \/ /\ asked \subseteq {"PEER_DELETE_ALL"} /\ ev' = NoEv
           /\ \E b \in Bits : Send(b) /\ asked' = asked \cup {b}
    BY DEF IndInv, TypeOK, OneTurn, Owing, OwedIn, Turns, HasTurn, Bits
  <2>. QED BY <2>1, QuietAwaited, SentAwaited DEF IndInv, NoEv
<1>. QED BY <1>1, <1>2, <1>3, <1>4, <1>5, <1>6 DEF IndInv

\* CONN_PROGRESS: the driver connects, or DFS gets the turn for its CAC.
LEMMA ConnProgressKeeps == ASSUME IndInv, ConnProgressEvent PROVE IndInv'
<1>. USE DEF ConnProgressEvent, In, Stay, Done, Dispatch, NoCall, Owe, BugUnless, TransitionTo,
             Handler, SuperStates, SubStates, StartStates, SuspendStates, StopStates
<1>1. TypeOK'
  <2>1. RspTypeOK'
    BY DEF IndInv, TypeOK, RspTypeOK
  <2>2. ev' \in Events \cup {NoEv}
    BY EventNames DEF IndInv, TypeOK
  <2>3. /\ sm' \in (SuperStates \ {"STOP"}) \cup SubStates /\ mlmeState' \in SuperStates
        /\ bug' \subseteq {"entry", "handler"}
    BY DEF IndInv, TypeOK
  <2>4. due' \subseteq Dues /\ asked' \subseteq Bits
    BY DEF IndInv, TypeOK, Bits, Dues
  <2>5. downReq' \in BOOLEAN
    BY DEF IndInv, TypeOK
  <2>. QED BY <2>1, <2>2, <2>3, <2>4, <2>5 DEF IndInv, TypeOK
<1>2. RefsMatchBits'
  BY DEF IndInv, RefsMatchBits
<1>3. NoAssertion' /\ ModeFits'
  BY DEF IndInv, TypeOK, NoAssertion, ModeFits, Parent, NoEv, OneTurn, TurnsIn, Turns
<1>4. DownWhenGone' /\ OneTurn'
  BY ZenonT(60) DEF IndInv, TypeOK, OneTurn, Owing, OwedIn, TurnsIn, Turns, HasTurn, Handles, DownWhenGone,
         NoEv, Bits, Dues
<1>5. TurnNotLost'
  BY DEF IndInv, TypeOK, TurnNotLost, OneTurn, Owing, OwedIn, TurnsIn, Turns, HasTurn,
         DownWhenGone, NoEv
<1>6. Awaited'
  BY QuietAwaited DEF IndInv, NoEv
<1>. QED BY <1>1, <1>2, <1>3, <1>4, <1>5, <1>6 DEF IndInv

\* DISCONN_PROGRESS: whoever owes the turn pays it into the way down.
LEMMA DisconnProgressKeeps == ASSUME IndInv, DisconnProgressEvent PROVE IndInv'
<1>. USE DEF DisconnProgressEvent, In, Dispatch, NoCall, TransitionTo, Handler, SuperStates,
             SubStates, StartStates, SuspendStates, StopStates
<1>1. TypeOK'
  <2>1. RspTypeOK'
    BY DEF IndInv, TypeOK, RspTypeOK
  <2>2. ev' \in Events \cup {NoEv}
    BY EventNames DEF IndInv, TypeOK
  <2>3. /\ sm' \in (SuperStates \ {"STOP"}) \cup SubStates /\ mlmeState' \in SuperStates
        /\ bug' \subseteq {"entry", "handler"}
    BY DEF IndInv, TypeOK
  <2>4. due' \subseteq Dues /\ asked' \subseteq Bits
    BY DEF IndInv, TypeOK, Bits, Dues
  <2>5. downReq' \in BOOLEAN
    BY DEF IndInv, TypeOK
  <2>. QED BY <2>1, <2>2, <2>3, <2>4, <2>5 DEF IndInv, TypeOK
<1>2. RefsMatchBits'
  BY DEF IndInv, RefsMatchBits
<1>3. NoAssertion' /\ ModeFits'
  BY DEF IndInv, TypeOK, NoAssertion, ModeFits, Parent, NoEv, OneTurn, TurnsIn, Turns
<1>4. DownWhenGone' /\ OneTurn'
  BY DEF IndInv, TypeOK, OneTurn, Owing, OwedIn, TurnsIn, Turns, HasTurn, Handles, DownWhenGone,
         NoEv, Bits, Dues
<1>5. TurnNotLost'
  BY DEF IndInv, TypeOK, TurnNotLost, OneTurn, Owing, OwedIn, TurnsIn, Turns, HasTurn,
         DownWhenGone, NoEv
<1>6. Awaited'
  BY QuietAwaited DEF IndInv, NoEv
<1>. QED BY <1>1, <1>2, <1>3, <1>4, <1>5, <1>6 DEF IndInv

\* SUSPEND_DOWN waits for the peers to be disconnected.
LEMMA SuspendDownKeeps == ASSUME IndInv, SuspendDownEvent PROVE IndInv'
<1>. USE DEF SuspendDownEvent, In, Stay, Done, Dispatch, NoCall, DisconnectPeers, TransitionTo,
             Handler, Owe, Command, SuperStates, SubStates, StartStates, SuspendStates, StopStates
<1>1. TypeOK'
  <2>1. RspTypeOK'
    BY SendKeeps DEF IndInv, TypeOK, RspTypeOK, Bits
  <2>2. ev' \in Events \cup {NoEv}
    BY EventNames DEF IndInv, TypeOK
  <2>3. /\ sm' \in (SuperStates \ {"STOP"}) \cup SubStates /\ mlmeState' \in SuperStates
        /\ bug' \subseteq {"entry", "handler"}
    BY DEF IndInv, TypeOK
  <2>4. due' \subseteq Dues /\ asked' \subseteq Bits
    BY DEF IndInv, TypeOK, Bits, Dues
  <2>5. downReq' \in BOOLEAN
    BY DEF IndInv, TypeOK
  <2>. QED BY <2>1, <2>2, <2>3, <2>4, <2>5 DEF IndInv, TypeOK
<1>2. RefsMatchBits'
  BY SendKeeps DEF IndInv, TypeOK, Bits, RefsMatchBits
<1>3. NoAssertion' /\ ModeFits'
  BY DEF IndInv, TypeOK, NoAssertion, ModeFits, Parent, NoEv, OneTurn, TurnsIn, Turns
<1>4. DownWhenGone' /\ OneTurn'
  BY DEF IndInv, TypeOK, OneTurn, Owing, OwedIn, TurnsIn, Turns, HasTurn, Handles, DownWhenGone,
         NoEv, Bits, Dues
<1>5. TurnNotLost'
  BY DEF IndInv, TypeOK, TurnNotLost, OneTurn, Owing, OwedIn, TurnsIn, Turns, HasTurn,
         DownWhenGone, NoEv
<1>6. Awaited'
  <2>1. \/ UNCHANGED <<rsp, snd, asked>>
        \/ /\ asked \subseteq {"PEER_DELETE_ALL"} /\ ev' = NoEv
           /\ \E b \in Bits : Send(b) /\ asked' = asked \cup {b}
    BY DEF IndInv, TypeOK, OneTurn, Owing, OwedIn, Turns, HasTurn, Bits
  <2>. QED BY <2>1, QuietAwaited, SentAwaited DEF IndInv, NoEv
<1>. QED BY <1>1, <1>2, <1>3, <1>4, <1>5, <1>6 DEF IndInv

\* SUSPEND_RESTART waits for the peers to be disconnected.
LEMMA SuspendRestartKeeps == ASSUME IndInv, SuspendRestartEvent PROVE IndInv'
<1>. USE DEF SuspendRestartEvent, In, Stay, Done, Dispatch, NoCall, DisconnectPeers, TransitionTo,
             Handler, Owe, Command, SuperStates, SubStates, StartStates, SuspendStates, StopStates
<1>1. TypeOK'
  <2>1. RspTypeOK'
    BY SendKeeps DEF IndInv, TypeOK, RspTypeOK, Bits
  <2>2. ev' \in Events \cup {NoEv}
    BY EventNames DEF IndInv, TypeOK
  <2>3. /\ sm' \in (SuperStates \ {"STOP"}) \cup SubStates /\ mlmeState' \in SuperStates
        /\ bug' \subseteq {"entry", "handler"}
    BY DEF IndInv, TypeOK
  <2>4. due' \subseteq Dues /\ asked' \subseteq Bits
    BY DEF IndInv, TypeOK, Bits, Dues
  <2>5. downReq' \in BOOLEAN
    BY DEF IndInv, TypeOK
  <2>. QED BY <2>1, <2>2, <2>3, <2>4, <2>5 DEF IndInv, TypeOK
<1>2. RefsMatchBits'
  BY SendKeeps DEF IndInv, TypeOK, Bits, RefsMatchBits
<1>3. NoAssertion' /\ ModeFits'
  BY DEF IndInv, TypeOK, NoAssertion, ModeFits, Parent, NoEv, OneTurn, TurnsIn, Turns
<1>4. DownWhenGone' /\ OneTurn'
  BY DEF IndInv, TypeOK, OneTurn, Owing, OwedIn, TurnsIn, Turns, HasTurn, Handles, DownWhenGone,
         NoEv, Bits, Dues
<1>5. TurnNotLost'
  BY DEF IndInv, TypeOK, TurnNotLost, OneTurn, Owing, OwedIn, TurnsIn, Turns, HasTurn,
         DownWhenGone, NoEv
<1>6. Awaited'
  <2>1. \/ UNCHANGED <<rsp, snd, asked>>
        \/ /\ asked \subseteq {"PEER_DELETE_ALL"} /\ ev' = NoEv
           /\ \E b \in Bits : Send(b) /\ asked' = asked \cup {b}
    BY DEF IndInv, TypeOK, OneTurn, Owing, OwedIn, Turns, HasTurn, Bits
  <2>. QED BY <2>1, QuietAwaited, SentAwaited DEF IndInv, NoEv
<1>. QED BY <1>1, <1>2, <1>3, <1>4, <1>5, <1>6 DEF IndInv

\* HOST_RESTART waits for the peers to be disconnected.
LEMMA HostRestartKeeps == ASSUME IndInv, HostRestartEvent PROVE IndInv'
<1>. USE DEF HostRestartEvent, In, Stay, Done, Dispatch, NoCall, DisconnectPeers, TransitionTo,
             Handler, Owe, Command, SuperStates, SubStates, StartStates, SuspendStates, StopStates
<1>1. TypeOK'
  <2>1. RspTypeOK'
    BY SendKeeps DEF IndInv, TypeOK, RspTypeOK, Bits
  <2>2. ev' \in Events \cup {NoEv}
    BY EventNames DEF IndInv, TypeOK
  <2>3. /\ sm' \in (SuperStates \ {"STOP"}) \cup SubStates /\ mlmeState' \in SuperStates
        /\ bug' \subseteq {"entry", "handler"}
    BY DEF IndInv, TypeOK
  <2>4. due' \subseteq Dues /\ asked' \subseteq Bits
    BY DEF IndInv, TypeOK, Bits, Dues
  <2>5. downReq' \in BOOLEAN
    BY DEF IndInv, TypeOK
  <2>. QED BY <2>1, <2>2, <2>3, <2>4, <2>5 DEF IndInv, TypeOK
<1>2. RefsMatchBits'
  BY SendKeeps DEF IndInv, TypeOK, Bits, RefsMatchBits
<1>3. NoAssertion' /\ ModeFits'
  BY DEF IndInv, TypeOK, NoAssertion, ModeFits, Parent, NoEv, OneTurn, TurnsIn, Turns
<1>4. DownWhenGone' /\ OneTurn'
  BY DEF IndInv, TypeOK, OneTurn, Owing, OwedIn, TurnsIn, Turns, HasTurn, Handles, DownWhenGone,
         NoEv, Bits, Dues
<1>5. TurnNotLost'
  BY DEF IndInv, TypeOK, TurnNotLost, OneTurn, Owing, OwedIn, TurnsIn, Turns, HasTurn,
         DownWhenGone, NoEv
<1>6. Awaited'
  <2>1. \/ UNCHANGED <<rsp, snd, asked>>
        \/ /\ asked \subseteq {"PEER_DELETE_ALL"} /\ ev' = NoEv
           /\ \E b \in Bits : Send(b) /\ asked' = asked \cup {b}
    BY DEF IndInv, TypeOK, OneTurn, Owing, OwedIn, Turns, HasTurn, Bits
  <2>. QED BY <2>1, QuietAwaited, SentAwaited DEF IndInv, NoEv
<1>. QED BY <1>1, <1>2, <1>3, <1>4, <1>5, <1>6 DEF IndInv

\* CSA_RESTART: the channel switch goes on beside the state machine.
LEMMA CsaRestartKeeps == ASSUME IndInv, CsaRestartEvent PROVE IndInv'
<1>. USE DEF CsaRestartEvent, In, Stay, Done, Dispatch, NoCall, Owe, TransitionTo, Handler,
             SuperStates, SubStates, StartStates, SuspendStates, StopStates
<1>1. TypeOK'
  <2>1. RspTypeOK'
    BY DEF IndInv, TypeOK, RspTypeOK
  <2>2. ev' \in Events \cup {NoEv}
    BY EventNames DEF IndInv, TypeOK
  <2>3. /\ sm' \in (SuperStates \ {"STOP"}) \cup SubStates /\ mlmeState' \in SuperStates
        /\ bug' \subseteq {"entry", "handler"}
    BY DEF IndInv, TypeOK
  <2>4. due' \subseteq Dues /\ asked' \subseteq Bits
    BY DEF IndInv, TypeOK, Bits, Dues
  <2>5. downReq' \in BOOLEAN
    BY DEF IndInv, TypeOK
  <2>. QED BY <2>1, <2>2, <2>3, <2>4, <2>5 DEF IndInv, TypeOK
<1>2. RefsMatchBits'
  BY DEF IndInv, RefsMatchBits
<1>3. NoAssertion' /\ ModeFits'
  BY DEF IndInv, TypeOK, NoAssertion, ModeFits, Parent, NoEv, OneTurn, TurnsIn, Turns
<1>4. DownWhenGone' /\ OneTurn'
  BY DEF IndInv, TypeOK, OneTurn, Owing, OwedIn, TurnsIn, Turns, HasTurn, Handles, DownWhenGone,
         NoEv, Bits, Dues
<1>5. TurnNotLost'
  BY DEF IndInv, TypeOK, TurnNotLost, OneTurn, Owing, OwedIn, TurnsIn, Turns, HasTurn,
         DownWhenGone, NoEv
<1>6. Awaited'
  BY QuietAwaited DEF IndInv, NoEv
<1>. QED BY <1>1, <1>2, <1>3, <1>4, <1>5, <1>6 DEF IndInv

\* STOP_PROGRESS: STOP is sent, then the BSS peer is deleted.
LEMMA StopProgressKeeps == ASSUME IndInv, StopProgressEvent PROVE IndInv'
<1>. USE DEF StopProgressEvent, In, Stay, Done, Dispatch, NoCall, Owe, TransitionTo, Handler,
             SuperStates, SubStates, StartStates, SuspendStates, StopStates
<1>1. TypeOK'
  <2>1. RspTypeOK'
    BY SendKeeps DEF IndInv, TypeOK, RspTypeOK, Bits
  <2>2. ev' \in Events \cup {NoEv}
    BY EventNames DEF IndInv, TypeOK
  <2>3. /\ sm' \in (SuperStates \ {"STOP"}) \cup SubStates /\ mlmeState' \in SuperStates
        /\ bug' \subseteq {"entry", "handler"}
    BY DEF IndInv, TypeOK
  <2>4. due' \subseteq Dues /\ asked' \subseteq Bits
    BY DEF IndInv, TypeOK, Bits, Dues
  <2>5. downReq' \in BOOLEAN
    BY DEF IndInv, TypeOK
  <2>. QED BY <2>1, <2>2, <2>3, <2>4, <2>5 DEF IndInv, TypeOK
<1>2. RefsMatchBits'
  BY SendKeeps DEF IndInv, TypeOK, Bits, RefsMatchBits
<1>3. NoAssertion' /\ ModeFits'
  BY DEF IndInv, TypeOK, NoAssertion, ModeFits, Parent, NoEv, OneTurn, TurnsIn, Turns
<1>4. DownWhenGone' /\ OneTurn'
  BY DEF IndInv, TypeOK, OneTurn, Owing, OwedIn, TurnsIn, Turns, HasTurn, Handles, DownWhenGone,
         NoEv, Bits, Dues
<1>5. TurnNotLost'
  BY DEF IndInv, TypeOK, TurnNotLost, OneTurn, Owing, OwedIn, TurnsIn, Turns, HasTurn,
         DownWhenGone, NoEv
<1>6. Awaited'
  <2>1. \/ UNCHANGED <<rsp, snd, asked>>
        \/ /\ asked \subseteq {"PEER_DELETE_ALL"} /\ ev' = NoEv
           /\ \E b \in Bits : Send(b) /\ asked' = asked \cup {b}
    BY DEF IndInv, TypeOK, OneTurn, Owing, OwedIn, Turns, HasTurn, Bits
  <2>. QED BY <2>1, QuietAwaited, SentAwaited DEF IndInv, NoEv
<1>. QED BY <1>1, <1>2, <1>3, <1>4, <1>5, <1>6 DEF IndInv

\* DOWN_PROGRESS: the driver takes the vdev down.
LEMMA DownProgressKeeps == ASSUME IndInv, DownProgressEvent PROVE IndInv'
<1>. USE DEF DownProgressEvent, In, Stay, Done, Dispatch, NoCall, Owe, TransitionTo, Handler,
             SuperStates, SubStates, StartStates, SuspendStates, StopStates
<1>1. TypeOK'
  <2>1. RspTypeOK'
    BY DEF IndInv, TypeOK, RspTypeOK
  <2>2. ev' \in Events \cup {NoEv}
    BY EventNames DEF IndInv, TypeOK
  <2>3. /\ sm' \in (SuperStates \ {"STOP"}) \cup SubStates /\ mlmeState' \in SuperStates
        /\ bug' \subseteq {"entry", "handler"}
    BY DEF IndInv, TypeOK
  <2>4. due' \subseteq Dues /\ asked' \subseteq Bits
    BY DEF IndInv, TypeOK, Bits, Dues
  <2>5. downReq' \in BOOLEAN
    BY DEF IndInv, TypeOK
  <2>. QED BY <2>1, <2>2, <2>3, <2>4, <2>5 DEF IndInv, TypeOK
<1>2. RefsMatchBits'
  BY DEF IndInv, RefsMatchBits
<1>3. NoAssertion' /\ ModeFits'
  BY DEF IndInv, TypeOK, NoAssertion, ModeFits, Parent, NoEv, OneTurn, TurnsIn, Turns
<1>4. DownWhenGone' /\ OneTurn'
  BY DEF IndInv, TypeOK, OneTurn, Owing, OwedIn, TurnsIn, Turns, HasTurn, Handles, DownWhenGone,
         NoEv, Bits, Dues
<1>5. TurnNotLost'
  BY DEF IndInv, TypeOK, TurnNotLost, OneTurn, Owing, OwedIn, TurnsIn, Turns, HasTurn,
         DownWhenGone, NoEv
<1>6. Awaited'
  BY QuietAwaited DEF IndInv, NoEv
<1>. QED BY <1>1, <1>2, <1>3, <1>4, <1>5, <1>6 DEF IndInv

\* The default branch of a handler loses a turn only in the case recorded in missed.
LEMMA NotHandledKeeps == ASSUME IndInv, NotHandled PROVE IndInv'
<1>. USE DEF NotHandled, Done, rspVars
<1>1. TypeOK' /\ RefsMatchBits' /\ NoAssertion' /\ ModeFits'
  BY DEF IndInv, TypeOK, RspTypeOK, RefsMatchBits, NoAssertion, ModeFits, NoEv
<1>2. DownWhenGone' /\ Awaited'
  BY DEF IndInv, DownWhenGone, Awaited
<1>3. sm # "START" /\ sm # "SUSPEND"
  BY DEF IndInv, OneTurn, TurnsIn, Handles, SuperStates, SubStates
<1>4. OneTurn'
  BY <1>3 DEF IndInv, OneTurn, Owing, HasTurn, Turns, NoEv
<1>5. TurnNotLost'
  <2>1. HasTurn => sm = "RESTART_PROGRESS" /\ ev = "START_REQ_FAIL"
    BY DEF IndInv, TypeOK, OneTurn, HasTurn, TurnsIn, Handles, SuperStates, SubStates,
           StartStates,
           SuspendStates, StopStates
  <2>2. sm \in {"SUSPEND_DOWN", "SUSPEND_RESTART", "HOST_RESTART"} => ev # "DISCONNECT_COMPLETE"
    BY DEF Handles, SuperStates, SubStates, StartStates, SuspendStates, StopStates
  <2>3. sm = "SUSPEND_DOWN" => ev \notin {"DOWN", "RESTART_REQ_FAIL"}
    BY DEF Handles, SuperStates, SubStates, StartStates, SuspendStates, StopStates
  <2>4. sm \in {"SUSPEND_RESTART", "HOST_RESTART"} => ev # sm
    BY DEF Handles, SuperStates, SubStates, StartStates, SuspendStates, StopStates
  <2>. QED BY <2>1, <2>2, <2>3, <2>4 DEF IndInv, TurnNotLost, Owing, HasTurn
<1>. QED BY <1>1, <1>2, <1>4, <1>5 DEF IndInv

\* Starting the timer takes the reference that setting the bit left out.
LEMMA StartedKeeps ==
  ASSUME RspTypeOK, RefsMatchBits, snd # NoBit
  PROVE  LET r == RspTimerStarted(rsp) IN
         r \in Timers /\ r.bits = rsp.bits /\ r.refs = Cardinality(r.bits)
<1>1. rsp.refs + 1 \in Int
  BY DEF RspTypeOK, Timers
<1>2. RspTimerStarted(rsp) \in Timers
  BY <1>1, Zenon DEF RspTypeOK, Timers, RspTimerStarted
<1>. QED BY <1>2, BitsFinite DEF RspTypeOK, RefsMatchBits, Timers, RspTimerStarted

\* The sender's second half: a command that cannot be sent leaves the turn to the driver.
LEMMA CommandSentKeeps == ASSUME IndInv, CommandSent PROVE IndInv'
<1>. USE DEF CommandSent
<1>. DEFINE r == RspTimerStarted(rsp)
<1>0. /\ ev = NoEv /\ snd # NoBit /\ snd \in asked /\ snd' = NoBit /\ snd \in Bits
      /\ RspTypeOK /\ RefsMatchBits
  BY DEF IndInv, Awaited, SendDone, SendFailed, DeleteSimulated, NoBit, TypeOK, RspTypeOK
<1>a. r \in Timers /\ r.bits = rsp.bits /\ r.refs = Cardinality(r.bits)
  BY <1>0, StartedKeeps
<1>1. rsp' \in Timers /\ rsp'.bits \subseteq rsp.bits /\ rsp'.refs = Cardinality(rsp'.bits)
  <2>1. CASE SendDone
    BY <2>1, <1>a DEF SendDone
  <2>2. CASE SendFailed
    <3>. DEFINE c == [r EXCEPT !.status = "CANCELED"]
    <3>1. c \in Timers /\ c.bits = rsp.bits /\ c.refs = Cardinality(c.bits)
      BY <1>a DEF Timers
    <3>2. rsp' = RspTimerStop(c, snd)
      BY <2>2 DEF SendFailed
    <3>. HIDE DEF c
    <3>. QED BY <3>1, <3>2, <1>0, StopKeeps, BitsFinite DEF Timers
  <2>3. CASE DeleteSimulated
    BY <2>3, <1>a, <1>0, StopKeeps, BitsFinite DEF DeleteSimulated, Timers
  <2>. QED BY <2>1, <2>2, <2>3
<1>b. SendFailed => rsp'.bits = rsp.bits \ {snd}
  <2>. DEFINE c == [r EXCEPT !.status = "CANCELED"]
  <2>1. c \in Timers /\ c.bits = rsp.bits
    BY <1>a DEF Timers
  <2>2. SendFailed => rsp' = RspTimerStop(c, snd)
    BY DEF SendFailed
  <2>. HIDE DEF c
  <2>. QED BY <2>1, <2>2, <1>0, StopKeeps
<1>2. RefsMatchBits'
  BY <1>0, <1>1 DEF RefsMatchBits, Timers
<1>3. TypeOK'
  <2>1. fw' \in Seq(Bits) /\ Len(fw') <= MaxFw
    BY SMTT(30), <1>0, BoundsAssumption DEF RspTypeOK, SendDone, SendFailed, DeleteSimulated
  <2>2. RspTypeOK'
    BY <1>0, <1>1, <2>1 DEF RspTypeOK
  <2>3. due' \subseteq Dues /\ asked' \subseteq Bits /\ vdev' \in {"none", "created", "deleting"}
    BY <1>0 DEF IndInv, TypeOK, FailEvent, Dues
  <2>. QED BY <2>2, <2>3 DEF IndInv, TypeOK
<1>4. NoAssertion' /\ ModeFits'
  BY DEF IndInv, NoAssertion, ModeFits
<1>5. snd # "DELETE" => vdev' = vdev /\ vdev = "created"
  BY <1>0 DEF IndInv, DownWhenGone, SendFailed, SendDone, DeleteSimulated, TypeOK
<1>6. CASE SendDone /\ UNCHANGED <<due, asked, vdev>>
  <2>1. DownWhenGone' /\ OneTurn'
    BY <1>6 DEF IndInv, DownWhenGone, OneTurn, Owing, HasTurn
  <2>2. TurnNotLost'
    BY <1>6 DEF IndInv, TurnNotLost, Owing, HasTurn
  <2>3. Awaited'
    BY <1>6, <1>0, <1>a DEF IndInv, Awaited, SendDone, NoBit
  <2>. QED BY <1>2, <1>3, <1>4, <2>1, <2>2, <2>3 DEF IndInv
<1>7. CASE /\ SendFailed
           /\ snd \in rsp.bits
           /\ due' = due \cup FailEvent(snd)
           /\ asked' = asked \ {snd}
           /\ vdev' = IF snd = "DELETE" THEN "none" ELSE vdev
  <2>1. /\ asked' = asked \ {snd} /\ due' = due \cup FailEvent(snd)
        /\ vdev' = (IF snd = "DELETE" THEN "none" ELSE vdev) /\ snd \in rsp.bits
    BY <1>7
  <2>2. snd = "DELETE" => asked = {"DELETE"} /\ due = {} /\ sm = "INIT"
    BY <1>0 DEF IndInv, OneTurn, DownWhenGone
  <2>3. snd \in {"START", "RESTART", "STOP"} => Owing = {snd} /\ Owing' = FailEvent(snd)
    <3>1. snd \in {"START", "RESTART", "STOP"} => Owing = {snd}
      BY <1>0 DEF IndInv, OneTurn, Owing
    <3>2. snd \in {"START", "RESTART", "STOP"} =>
            asked \subseteq {snd, "PEER_DELETE_ALL"} /\ due \subseteq {snd, "DISCONNECT", "CSA"}
      BY <3>1 DEF Owing
    <3>3. snd \in {"START", "RESTART", "STOP"} => snd \notin due
      BY DEF IndInv, TypeOK, Dues
    <3>. QED BY <3>1, <3>2, <3>3, <2>1 DEF Owing, FailEvent
  <2>4. snd = "PEER_DELETE_ALL" => Owing' = Owing /\ "DISCONNECT" \in due'
    BY <1>0, <2>1 DEF Owing, FailEvent
  <2>5. DownWhenGone'
    BY <1>0, <1>5, <2>1, <2>2 DEF IndInv, DownWhenGone, FailEvent
  <2>6. OneTurn'
    <3>1. snd \in {"START", "RESTART", "STOP"} => FailEvent(snd) \subseteq OwedIn[sm]
      BY <2>3 DEF IndInv, TypeOK, OneTurn, OwedIn, FailEvent, SuperStates, SubStates, StartStates,
             SuspendStates, StopStates
    <3>2. snd \in {"START", "RESTART", "STOP"} => \A x, y \in FailEvent(snd) : x = y
      BY DEF FailEvent
    <3>3. snd = "DELETE" => Owing' = {}
      BY <2>1, <2>2 DEF Owing, FailEvent
    <3>4. snd \in {"START", "RESTART", "STOP", "PEER_DELETE_ALL", "DELETE"}
      BY <1>0 DEF Bits
    <3>. QED BY <1>0, <1>5, <2>1, <2>3, <2>4, <3>1, <3>2, <3>3, <3>4 DEF IndInv, OneTurn, HasTurn,
           Turns, NoEv
  <2>7. TurnNotLost'
    <3>1. CASE snd = "PEER_DELETE_ALL"
      BY <3>1, <2>1, <2>4 DEF IndInv, TurnNotLost, HasTurn, FailEvent
    <3>2. CASE snd \in {"START", "RESTART", "STOP"}
      <4>1. Owing' # {}
        BY <3>2, <2>3 DEF FailEvent
      <4>2. sm \notin {"SUSPEND_DOWN", "SUSPEND_RESTART", "HOST_RESTART"}
        BY <3>2, <2>3 DEF IndInv, OneTurn, OwedIn, SuperStates, SubStates, SuspendStates
      <4>. QED BY <4>1, <4>2 DEF TurnNotLost
    <3>3. CASE snd = "DELETE"
      BY <3>3, <2>2 DEF TurnNotLost
    <3>. QED BY <3>1, <3>2, <3>3, <1>0 DEF Bits
  <2>8. Awaited'
    <3>1. rsp'.bits = rsp.bits \ {snd}
      BY <1>1, <1>b, <1>7
    <3>. QED BY <3>1, <1>0, <2>1 DEF IndInv, Awaited, NoBit
  <2>. QED BY <1>2, <1>3, <1>4, <2>5, <2>6, <2>7, <2>8 DEF IndInv
<1>8. CASE DeleteSimulated /\ asked' = asked \ {"DELETE"} /\ vdev' = "none" /\ UNCHANGED due
  <2>1. asked = {"DELETE"} /\ due = {} /\ sm = "INIT" /\ vdev = "deleting"
    BY <1>0, <1>8 DEF IndInv, OneTurn, DownWhenGone, DeleteSimulated
  <2>2. asked' = {} /\ due' = {} /\ vdev' = "none"
    BY <2>1, <1>8
  <2>3. Owing' = {}
    BY <2>2 DEF Owing
  <2>4. DownWhenGone' /\ OneTurn' /\ TurnNotLost'
    BY <1>0, <2>1, <2>2, <2>3 DEF IndInv, DownWhenGone, OneTurn, TurnNotLost, HasTurn, Turns, NoEv
  <2>5. Awaited'
    BY <1>0, <1>1, <2>1, <2>2 DEF IndInv, Awaited, NoBit
  <2>. QED BY <1>2, <1>3, <1>4, <2>4, <2>5 DEF IndInv
<1>. QED BY <1>6, <1>7, <1>8

\* An answer gives the turn back in the state that waits for it.
LEMMA AnswerDeliveredKeeps == ASSUME IndInv, AnswerDelivered PROVE IndInv'
<1>. USE DEF AnswerDelivered
<1>0. ev = NoEv /\ snd = NoBit /\ answer \in Answers
  BY DEF Free, IndInv, TypeOK, RspTypeOK
<1>1. answer.bit \in Bits
  BY <1>0 DEF Answers
<1>2. TypeOK'
  <2>1. ev' \in Events \cup {NoEv}
    BY EventNames DEF AnswerEvent
  <2>2. RspTypeOK'
    BY DEF IndInv, TypeOK, RspTypeOK
  <2>. QED BY <2>1, <2>2 DEF IndInv, TypeOK
<1>3. RefsMatchBits' /\ NoAssertion' /\ ModeFits'
  BY DEF IndInv, RefsMatchBits, NoAssertion, ModeFits, AnswerEvent, NoEv
<1>4. DownWhenGone' /\ OneTurn'
  <2>1. CASE vdev # "created"
    BY <2>1, <1>0 DEF IndInv, TypeOK, DownWhenGone, OneTurn, Owing, OwedIn, HasTurn, Turns, NoEv,
           AnswerEvent
  <2>2. CASE vdev = "created" /\ answer.bit \in {"START", "RESTART", "STOP"}
    <3>1. answer.bit \in asked
      BY <1>0, <2>2 DEF IndInv, Awaited
    <3>2. Owing = {answer.bit}
      BY <3>1, <2>2 DEF IndInv, OneTurn, Owing
    <3>3. Owing' = {}
      BY <3>1, <3>2, <2>2 DEF Owing, IndInv, TypeOK, Dues
    <3>4. ev' \in TurnsIn[sm] /\ ev' # "RADAR_DETECTED"
      BY <3>2, <2>2 DEF IndInv, TypeOK, OneTurn, OwedIn, TurnsIn, AnswerEvent, SuperStates,
             SubStates, StartStates, SuspendStates, StopStates
    <3>. QED BY <1>0, LockFree, <3>3, <3>4, <2>2 DEF IndInv, OneTurn, DownWhenGone, HasTurn
  <2>3. CASE vdev = "created" /\ answer.bit \in {"DELETE", "PEER_DELETE_ALL"}
    <3>1. Owing' = Owing
      BY <2>3 DEF IndInv, OneTurn, Owing
    <3>2. ev' \in {"DISCONNECT_COMPLETE", NoEv}
      BY <2>3 DEF AnswerEvent
    <3>. QED BY <1>0, LockFree, <3>1, <3>2, <2>3 DEF IndInv, OneTurn, DownWhenGone, HasTurn,
           Turns, NoEv
  <2>. QED BY <1>1, <2>1, <2>2, <2>3 DEF Bits
<1>5. TurnNotLost'
  <2>1. CASE answer.bit \in {"START", "RESTART", "STOP"} /\ vdev = "created"
    BY <2>1, <1>0 DEF IndInv, TurnNotLost, HasTurn, Turns, AnswerEvent, NoEv
  <2>2. CASE answer.bit = "PEER_DELETE_ALL" /\ vdev = "created"
    BY <2>2, <1>0 DEF IndInv, TurnNotLost, HasTurn, Turns, AnswerEvent, Owing, NoEv
  <2>3. CASE answer.bit = "DELETE" \/ vdev # "created"
    BY <2>3, <1>0 DEF IndInv, TurnNotLost, HasTurn, Turns, AnswerEvent, Owing, NoEv, DownWhenGone,
           OneTurn
  <2>. QED BY <1>1, <2>1, <2>2, <2>3 DEF Bits
<1>6. Awaited'
  BY <1>0 DEF IndInv, TypeOK, RspTypeOK, Timers, Bits, Awaited, NoAnswer, NoBit
<1>. QED BY <1>2, <1>3, <1>4, <1>5, <1>6 DEF IndInv

\* So does the driver; peers and channel switches leave the turn where it is.
LEMMA PayDueKeeps == ASSUME IndInv, NEW d \in Dues, PayDue(d) PROVE IndInv'
<1>. USE DEF PayDue, Free, rspVars
<1>1. ev' \in Events
  BY EventNames DEF DueEvent, Dues
<1>2. TypeOK' /\ RefsMatchBits'
  BY <1>1 DEF IndInv, TypeOK, RspTypeOK, RefsMatchBits
<1>3. NoAssertion' /\ ModeFits'
  BY DEF IndInv, NoAssertion, ModeFits, DueEvent, Dues
<1>4. vdev = "created" /\ DownWhenGone'
  BY DEF IndInv, DownWhenGone
<1>5. CASE d \in {"DISCONNECT", "CSA"}
  <2>1. Owing' = Owing /\ ev' \in {"DISCONNECT_COMPLETE", "CSA_COMPLETE", "CHAN_SWITCH_DISABLED"}
    BY <1>5 DEF Owing, DueEvent
  <2>2. OneTurn'
    BY LockFree, <2>1 DEF IndInv, OneTurn, HasTurn, Turns
  <2>3. TurnNotLost'
    BY <2>1, <1>5 DEF IndInv, TurnNotLost, HasTurn, Turns, DueEvent, NoEv
  <2>4. Awaited'
    BY DEF IndInv, Awaited
  <2>. QED BY <1>2, <1>3, <1>4, <2>2, <2>3, <2>4 DEF IndInv
<1>6. CASE d \notin {"DISCONNECT", "CSA"}
  <2>1. Owing = {d} /\ d \notin asked
    <3>1. d \notin asked
      BY DEF IndInv, TypeOK, Bits, Dues
    <3>. QED BY <3>1, <1>6 DEF IndInv, OneTurn, Owing
  <2>2. Owing' = {}
    BY <2>1 DEF Owing
  <2>3. ev' \in TurnsIn[sm] /\ ev' \in Turns
    BY <2>1, <1>6 DEF IndInv, TypeOK, OneTurn, OwedIn, TurnsIn, Turns, DueEvent, Dues,
           SuperStates,
         SubStates, StartStates, SuspendStates, StopStates
  <2>4. OneTurn'
    BY LockFree, <2>2, <2>3 DEF IndInv, OneTurn
  <2>5. TurnNotLost'
    BY <2>3, <1>6 DEF IndInv, TurnNotLost, HasTurn, NoEv
  <2>6. Awaited'
    BY DEF IndInv, Awaited
  <2>. QED BY <1>2, <1>3, <1>4, <2>4, <2>5, <2>6 DEF IndInv
<1>. QED BY <1>5, <1>6

\* A request is no turn.
LEMMA RequestKeeps == ASSUME IndInv, NEW e \in AllRequests, Request(e) PROVE IndInv'
<1>. USE DEF Request, Free, rspVars
<1>1. TypeOK' /\ RefsMatchBits'
  <2>1. ev' \in Events
    BY EventNames DEF AllRequests
  <2>2. downReq' \in BOOLEAN
    BY DEF IndInv, TypeOK
  <2>. QED BY <2>1, <2>2 DEF IndInv, TypeOK, RspTypeOK, RefsMatchBits
<1>2. NoAssertion' /\ ModeFits' /\ DownWhenGone'
  BY DEF IndInv, NoAssertion, ModeFits, DownWhenGone, AllRequests
<1>3. OneTurn'
  BY LockFree DEF IndInv, OneTurn, Owing, HasTurn, Turns, AllRequests
<1>4. TurnNotLost'
  BY DEF IndInv, TurnNotLost, Owing, HasTurn, Turns, AllRequests, NoEv
<1>5. Awaited'
  BY DEF IndInv, Awaited
<1>. QED BY <1>1, <1>2, <1>3, <1>4, <1>5 DEF IndInv

\* A radar takes the turn only from the CAC, which DFS has stopped.
LEMMA RadarKeeps == ASSUME IndInv, Radar PROVE IndInv'
<1>. USE DEF Radar, Free, rspVars
<1>1. TypeOK' /\ RefsMatchBits'
  BY EventNames DEF IndInv, TypeOK, RspTypeOK, RefsMatchBits
<1>2. NoAssertion' /\ ModeFits' /\ DownWhenGone'
  BY DEF IndInv, NoAssertion, ModeFits, DownWhenGone, RadarStates
<1>3. sm = "DFS_CAC_WAIT" => Owing' = {}
  BY DEF IndInv, TypeOK, OneTurn, Owing, OwedIn, SuperStates, SubStates, Bits
<1>4. sm # "DFS_CAC_WAIT" => Owing' = Owing
  <2>1. sm \in RadarStates /\ sm # "DFS_CAC_WAIT" => "CAC" \notin OwedIn[sm]
    BY DEF RadarStates, OwedIn, SuperStates, SubStates, StartStates, SuspendStates, StopStates
  <2>2. sm # "DFS_CAC_WAIT" => "CAC" \notin due
    BY <2>1 DEF IndInv, OneTurn, Owing
  <2>. QED BY <2>2 DEF Owing
<1>5. OneTurn'
  BY LockFree, <1>3, <1>4 DEF IndInv, OneTurn, HasTurn, Turns
<1>6. TurnNotLost'
  BY <1>3, <1>4 DEF IndInv, TurnNotLost, HasTurn, Turns, NoEv
<1>7. Awaited'
  BY DEF IndInv, Awaited
<1>. QED BY <1>1, <1>2, <1>5, <1>6, <1>7 DEF IndInv

\* A vdev is created down.
LEMMA VdevCreateKeeps == ASSUME IndInv, VdevCreate PROVE IndInv'
<1>. USE DEF VdevCreate, Free
<1>1. sm = "INIT" /\ due = {} /\ asked = {}
  BY DEF IndInv, DownWhenGone
<1>2. rsp' \in Timers /\ rsp'.bits = rsp.bits /\ rsp'.refs = rsp.refs
  BY DEF IndInv, TypeOK, RspTypeOK, Timers, RspTimerInit
<1>3. TypeOK' /\ RefsMatchBits'
  BY <1>2 DEF IndInv, TypeOK, RspTypeOK, RefsMatchBits, SuperStates
<1>4. NoAssertion' /\ ModeFits' /\ DownWhenGone'
  BY DEF IndInv, NoAssertion, ModeFits, DownWhenGone, NoEv, SubStates, StartStates, SuspendStates,
         StopStates
<1>5. OneTurn' /\ TurnNotLost'
  BY DEF OneTurn, TurnNotLost, Owing, HasTurn, Turns, NoEv
<1>6. Awaited'
  BY <1>1, <1>2 DEF IndInv, Awaited
<1>. QED BY <1>3, <1>4, <1>5, <1>6 DEF IndInv

\* A vdev is deleted when it is down and nobody owes it.
LEMMA VdevDeleteKeeps == ASSUME IndInv, VdevDelete PROVE IndInv'
<1>. USE DEF VdevDelete, Free
<1>1. "DELETE" \in Bits /\ RspTypeOK /\ RefsMatchBits
  BY DEF Bits, IndInv, TypeOK
<1>2. RefsMatchBits' /\ rsp' \in Timers /\ snd' = "DELETE"
  BY <1>1, SendKeeps
<1>3. TypeOK' /\ NoAssertion' /\ ModeFits' /\ DownWhenGone'
  BY <1>1, <1>2 DEF IndInv, TypeOK, RspTypeOK, NoAssertion, ModeFits, DownWhenGone
<1>4. OneTurn' /\ TurnNotLost'
  BY DEF OneTurn, TurnNotLost, Owing, OwedIn, HasTurn, Turns, NoEv, SuperStates, SubStates
<1>5. Awaited'
  BY SentAwaited, <1>1
<1>. QED BY <1>2, <1>3, <1>4, <1>5 DEF IndInv

\* The timer's callback answers a response that is awaited.
LEMMA FirstBitIn ==
  ASSUME NEW B \in SUBSET Bits, B # {}
  PROVE  FirstBit(B) \in B
<1>. DEFINE P(i) == RspOrder[i] \in B /\ \A j \in 1..(i - 1) : RspOrder[j] \notin B
<1>1. DOMAIN RspOrder = 1..5
  BY DEF RspOrder
<1>2. /\ RspOrder[1] = "START" /\ RspOrder[2] = "RESTART" /\ RspOrder[3] = "STOP"
      /\ RspOrder[4] = "DELETE" /\ RspOrder[5] = "PEER_DELETE_ALL"
  BY DEF RspOrder
<1>3. \E i \in DOMAIN RspOrder : P(i)
  <2>1. 1..(1 - 1) = {} /\ 1..(2 - 1) = {1} /\ 1..(3 - 1) = {1, 2} /\ 1..(4 - 1) = {1, 2, 3}
        /\ 1..(5 - 1) = {1, 2, 3, 4}
    OBVIOUS
  <2>2. P(1) \/ P(2) \/ P(3) \/ P(4) \/ P(5)
    BY <1>2, <2>1 DEF Bits
  <2>. QED BY <1>1, <2>2
<1>. QED BY <1>3 DEF FirstBit

\* Firmware events and expiries: an awaited response becomes the answer to be handed over.
LEMMA RspStepKeeps == ASSUME IndInv, RspStep, UNCHANGED smVars PROVE IndInv'
<1>. USE DEF smVars
<1>1. /\ NoAssertion' /\ ModeFits' /\ DownWhenGone' /\ OneTurn' /\ TurnNotLost'
      /\ RspTypeOK /\ RefsMatchBits /\ rsp \in Timers
  BY DEF IndInv, NoAssertion, ModeFits, DownWhenGone, OneTurn, TurnNotLost, Owing, HasTurn,
         TypeOK, RspTypeOK
<1>2. RspTypeOK' => TypeOK'
  BY DEF IndInv, TypeOK
<1>3. ASSUME NEW ok \in BOOLEAN, ResponseHandler(ok) PROVE IndInv'
  <2>. DEFINE b == Head(fw)
  <2>1. b \in Bits /\ fw' \in Seq(Bits) /\ Len(fw') <= MaxFw
    <3>1. fw \in Seq(Bits) /\ fw # <<>> /\ fw' = Tail(fw) /\ Len(fw) <= MaxFw
      BY <1>3, <1>1 DEF ResponseHandler, RspTypeOK
    <3>. QED BY <3>1, BoundsAssumption
  <2>2. rsp' = RspTimerStop(rsp, b) /\ snd' = snd
    BY <1>3 DEF ResponseHandler
  <2>3. rsp' \in Timers /\ rsp'.bits = rsp.bits \ {b} /\ RefsMatchBits'
    BY <1>1, <2>1, <2>2, StopStep
  <2>4. answer' = (IF b \in rsp.bits THEN [bit |-> b, ok |-> ok] ELSE NoAnswer) /\ answer = NoAnswer
    BY <1>3 DEF ResponseHandler, SchedulerFree
  <2>5. RspTypeOK'
    BY <1>1, <1>3, <2>1, <2>3, <2>4 DEF RspTypeOK, ResponseHandler, Answers
  <2>6. Awaited'
    <3>1. answer.bit = NoBit /\ NoBit \notin Bits
      BY <2>4 DEF NoAnswer, NoBit, Bits
    <3>2. b \in rsp.bits => answer'.bit = b
      BY <2>4
    <3>3. b \notin rsp.bits => answer' = answer
      BY <2>4
    <3>. QED BY <1>1, <1>3, <2>1, <2>2, <2>3, <2>4, <3>1, <3>2, <3>3
         DEF IndInv, TypeOK, Awaited, ResponseHandler, SchedulerFree
  <2>. QED BY <1>1, <1>2, <2>3, <2>5, <2>6 DEF IndInv
<1>4. CASE FwSilent
  <2>1. fw' \in Seq(Bits) /\ Len(fw') <= MaxFw
    BY <1>4, <1>1, BoundsAssumption DEF FwSilent, RspTypeOK
  <2>. QED BY <1>1, <1>2, <1>4, <2>1 DEF IndInv, FwSilent, RspTypeOK, RefsMatchBits, Awaited
<1>5. CASE TimerExpire
  <2>1. rsp' \in Timers /\ rsp'.bits = rsp.bits /\ rsp'.refs = rsp.refs
    BY <1>1, <1>5 DEF TimerExpire, Timers
  <2>2. msgs' \in 0..MaxMsgs
    BY <1>1, <1>5, BoundsAssumption DEF TimerExpire, RspTypeOK
  <2>. QED BY <1>1, <1>2, <1>5, <2>1, <2>2 DEF IndInv, TimerExpire, RspTypeOK, RefsMatchBits,
         Awaited
<1>6. CASE TimerCb
  <2>1. rsp' \in Timers /\ rsp'.bits = rsp.bits /\ rsp'.refs = rsp.refs
    BY <1>1, <1>6 DEF TimerCb, Timers
  <2>2. msgs' \in 0..MaxMsgs /\ cb' \in {"idle", "expired"}
    BY <1>1, <1>6, BoundsAssumption DEF TimerCb, RspTypeOK
  <2>. QED BY <1>1, <1>2, <1>6, <2>1, <2>2 DEF IndInv, TimerCb, SchedulerFree, RspTypeOK,
         RefsMatchBits, Awaited
<1>7. CASE TimerCbStop
  <2>1. CASE rsp.bits = {}
    BY <2>1, <1>1, <1>2, <1>7 DEF IndInv, TimerCbStop, RspTypeOK, RefsMatchBits, Awaited
  <2>2. CASE rsp.bits # {}
    <3>. DEFINE b == FirstBit(rsp.bits)
    <3>1. b \in rsp.bits /\ b \in Bits
      BY <2>2, <1>1, FirstBitIn DEF Timers
    <3>2. /\ rsp' = RspTimerStop(rsp, b) /\ answer' = [bit |-> b, ok |-> FALSE]
          /\ UNCHANGED <<snd, msgs, fw>> /\ cb = "expired" /\ cb' = "idle"
      BY <2>2, <1>7 DEF TimerCbStop
    <3>. HIDE DEF b
    <3>3. rsp' \in Timers /\ rsp'.bits = rsp.bits \ {b} /\ RefsMatchBits'
      BY <1>1, <3>1, <3>2, StopStep
    <3>4. RspTypeOK'
      BY <1>1, <3>1, <3>2, <3>3 DEF RspTypeOK, Answers
    <3>5. Awaited'
      <4>1. answer = NoAnswer /\ answer.bit = NoBit /\ NoBit \notin Bits /\ answer'.bit = b
        BY <3>2 DEF IndInv, Awaited, NoAnswer, NoBit, Bits
      <4>. QED BY <1>1, <3>1, <3>2, <3>3, <4>1 DEF IndInv, TypeOK, Awaited
    <3>. QED BY <1>1, <1>2, <3>3, <3>4, <3>5 DEF IndInv
  <2>. QED BY <2>1, <2>2
<1>. QED BY <1>3, <1>4, <1>5, <1>6, <1>7 DEF RspStep

-----------------------------------------------------------------------------
\* The invariant holds initially ...
LEMMA InitIndInv == Init => IndInv
<1>. SUFFICES ASSUME Init PROVE IndInv
  OBVIOUS
<1>. USE DEF Init, RspInit
<1>1. rsp \in Timers /\ RefsMatchBits
  BY FS_EmptySet DEF Timers, RefsMatchBits
<1>2. TypeOK
  <2>1. RspTypeOK
    BY <1>1, BoundsAssumption DEF RspTypeOK
  <2>. QED BY <2>1 DEF TypeOK, SuperStates
<1>3. NoAssertion /\ ModeFits /\ DownWhenGone
  BY DEF NoAssertion, ModeFits, DownWhenGone, NoEv, SubStates, StartStates, SuspendStates,
         StopStates
<1>4. OneTurn /\ TurnNotLost
  BY DEF OneTurn, TurnNotLost, Owing, HasTurn, Turns, NoEv
<1>5. Awaited
  BY DEF Awaited
<1>. QED BY <1>1, <1>2, <1>3, <1>4, <1>5 DEF IndInv

\* ... every handler keeps it ...
LEMMA HandlerStepKeeps == ASSUME IndInv, HandlerStep PROVE IndInv'
BY InitKeeps, StartKeeps, DfsCacWaitKeeps, UpKeeps, SuspendKeeps, StartProgressKeeps,
   RestartProgressKeeps, ConnProgressKeeps, DisconnProgressKeeps, SuspendDownKeeps,
   SuspendRestartKeeps, HostRestartKeeps, CsaRestartKeeps, StopProgressKeeps, DownProgressKeeps,
   NotHandledKeeps DEF HandlerStep

\* ... and so does every step of the specification.
LEMMA NextKeeps == IndInv /\ [Next]_vars => IndInv'
<1>. SUFFICES ASSUME IndInv, [Next]_vars PROVE IndInv'
  OBVIOUS
<1>1. CASE UNCHANGED vars
  BY <1>1 DEF vars, rspVars, smVars, IndInv, TypeOK, RspTypeOK, RefsMatchBits, NoAssertion,
         ModeFits,
         DownWhenGone, OneTurn, TurnNotLost, Awaited, Owing, HasTurn
<1>2. CASE Next
  BY <1>2, HandlerStepKeeps, CommandSentKeeps, AnswerDeliveredKeeps, PayDueKeeps, RequestKeeps,
     RadarKeeps, VdevCreateKeeps, VdevDeleteKeeps, RspStepKeeps DEF Next
<1>. QED BY <1>1, <1>2

\* The inductive invariant holds in every reachable state: the vdev's state machine
\* (vdev_mlme_sm.c) has its turn, or somebody who will give it back, at all times.
THEOREM Inductive == Spec => []IndInv
BY InitIndInv, NextKeeps, PTL DEF Spec

\* Every variable keeps its type: the state machine dispatches only events it knows,
\* and the timer never holds a bit that is no response bit.
THEOREM TypeCorrect == Spec => []TypeOK
<1>1. IndInv => TypeOK
  BY DEF IndInv
<1>. QED BY <1>1, Inductive, PTL

\* The response timer holds one psoc reference for every response it waits for, whoever
\* stops it and however an expiry interleaves with a sender (target_if_vdev_mgr_tx_ops.c).
THEOREM TimerReferences == Spec => []RefsMatchBits
<1>1. IndInv => RefsMatchBits
  BY DEF IndInv
<1>. QED BY <1>1, Inductive, PTL

\* No QDF_BUG of vdev_mlme_sm.c fails: every substate is entered under its superstate and
\* the station's events reach stations only.
THEOREM AssertionsHold == Spec => []NoAssertion
<1>1. IndInv => NoAssertion
  BY DEF IndInv
<1>. QED BY <1>1, Inductive, PTL

\* One START, RESTART, STOP or DELETE is with the firmware at a time, and while it is, its
\* bit is set or its answer is being handed to the MLME (target_if_vdev_mgr_tx_ops.c:112).
THEOREM OneCommandAtATime == Spec => []OneCommand
<1>1. IndInv => OneCommand
  <2>. SUFFICES ASSUME IndInv PROVE OneCommand
    OBVIOUS
  <2>. DEFINE A == asked \ {"PEER_DELETE_ALL"}
  <2>1. \A x, y \in A : x = y
    BY DEF IndInv, OneTurn, Owing
  <2>2. A = {} \/ \E x : A = {x}
    BY <2>1
  <2>3. Cardinality(A) = 0 \/ Cardinality(A) = 1
    BY <2>2, FS_EmptySet, FS_Singleton, Zenon
  <2>. QED BY <2>3 DEF OneCommand, IndInv, Awaited
<1>. QED BY <1>1, Inductive, PTL

\* A state that waits is owed its event: no interleaving of requests, radars, answers and
\* expiries leaves the state machine waiting for nobody, the START that fails in
\* RESTART_PROGRESS apart.
THEOREM NeverStuck == Spec => []NotStuck
<1>1. IndInv => NotStuck
  BY DEF IndInv, NotStuck, TurnNotLost, Quiescent, Free, Waiting, Owing, HasTurn, Turns, NoEv,
         SubStates, StartStates, SuspendStates, StopStates
<1>. QED BY <1>1, Inductive, PTL
=============================================================================
