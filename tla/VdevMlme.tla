------------------------------ MODULE VdevMlme ------------------------------
(***************************************************************************)
(* The state machine of one vdev (umac/mlme/vdev_mgr/core/src/             *)
(* vdev_mlme_sm.c on umac/cmn_services/sm_engine), composed with the       *)
(* response timer of its firmware commands (VdevRsp).                      *)
(*                                                                         *)
(* wlan_vdev_mlme_sm_deliver_evt holds the state machine's lock while an   *)
(* event is dispatched and while the handler redispatches it: ev is the    *)
(* event being dispatched, and each action *Event below is one handler.    *)
(* The callbacks of struct vdev_mlme_ops belong to the driver and are      *)
(* external: what they owe the state machine later is in due.              *)
(***************************************************************************)
EXTENDS VdevRsp

VARIABLES
  mode,       \* opmode of the vdev
  sm,         \* sm->cur_state
  mlmeState,  \* vdev->vdev_mlme.mlme_state
  ev,         \* the event being dispatched under the lock
  due,        \* what the driver's callbacks still owe the state machine
  asked,      \* commands sent for the state machine and not answered
  vdev,       \* "none", "created" or "deleting"
  downReq,    \* a DOWN was requested and its completion not notified
  missed,     \* a failed START reached RESTART_PROGRESS, which ignores it
  bug         \* QDF_BUG assertions that failed

smVars == <<mode, sm, mlmeState, ev, due, asked, vdev, downReq, missed, bug>>
vars == <<rspVars, smVars>>

NoEv == "none"
AP == "AP"
STA == "STA"

\* sm_info: the substates of every superstate
StartStates == {"START_PROGRESS", "RESTART_PROGRESS", "CONN_PROGRESS", "DISCONN_PROGRESS"}
SuspendStates == {"SUSPEND_DOWN", "SUSPEND_RESTART", "HOST_RESTART", "CSA_RESTART"}
StopStates == {"STOP_PROGRESS", "DOWN_PROGRESS"}
SubStates == StartStates \cup SuspendStates \cup StopStates
SuperStates == {"INIT", "START", "DFS_CAC_WAIT", "UP", "SUSPEND", "STOP"}
Parent == [s \in SubStates |-> CASE s \in StartStates -> "START"
                                 [] s \in SuspendStates -> "SUSPEND"
                                 [] s \in StopStates -> "STOP"]

Init ==
  /\ RspInit
  /\ mode \in {AP, STA}
  /\ sm = "INIT"
  /\ mlmeState = "INIT"
  /\ ev = NoEv
  /\ due = {}
  /\ asked = {}
  /\ vdev = "none"
  /\ downReq = FALSE
  /\ missed = FALSE
  /\ bug = {}

\* The lock of the state machine.
Free == ev = NoEv /\ snd = NoBit

-----------------------------------------------------------------------------
(***************************************************************************)
(* wlan_sm_transition_to with the entry functions of sm_info: a superstate *)
(* sets mlme_state, a substate asserts that its parent has set it.         *)
(***************************************************************************)
TransitionTo(s) ==
  /\ sm' = IF s = "STOP" THEN "STOP_PROGRESS" ELSE s
  /\ mlmeState' = IF s \in SubStates THEN mlmeState ELSE s
  /\ bug' = IF s \in SubStates /\ mlmeState # Parent[s] THEN bug \cup {"entry"} ELSE bug

Stay == UNCHANGED <<sm, mlmeState, bug>>
BugUnless(cond) == bug' = IF cond THEN bug ELSE bug \cup {"handler"}

Dispatch(e) == ev' = e
Done == ev' = NoEv

\* What a handler leaves alone unless it says otherwise.
NoCall == UNCHANGED <<rsp, snd, due, asked, downReq>>
Command(b) ==
  /\ Send(b)
  /\ asked' = asked \cup {b}
  /\ UNCHANGED <<due, downReq>>
Owe(d) ==
  /\ due' = due \cup {d}
  /\ UNCHANGED <<rsp, snd, asked, downReq>>
NotifyDownComplete ==
  /\ downReq' = FALSE
  /\ UNCHANGED <<rsp, snd, due, asked>>
\* mlme_vdev_disconnect_peers: one by one, or with one firmware command
DisconnectPeers == Owe("DISCONNECT") \/ Command("PEER_DELETE_ALL")

In(s, events) == sm = s /\ ev \in events
Handler == UNCHANGED <<cb, msgs, fw, answer, mode, vdev, missed>>

-----------------------------------------------------------------------------
\* Mutant: a failed START does not complete the DOWN that waited for it.
InitEventKeepsDown ==
  /\ \/ /\ In("INIT", {"START"})
        /\ \/ TransitionTo("START") /\ Dispatch("START_REQ") /\ NoCall
           \/ Stay /\ Done /\ NotifyDownComplete
     \/ In("INIT", {"DOWN_COMPLETE", "DOWN"}) /\ Stay /\ Done /\ NotifyDownComplete
     \/ In("INIT", {"START_REQ_FAIL"}) /\ Stay /\ Done /\ NoCall
  /\ Handler

InitEvent ==
  /\ \/ /\ In("INIT", {"START"})
        /\ \/ TransitionTo("START") /\ Dispatch("START_REQ") /\ NoCall
           \/ Stay /\ Done /\ NotifyDownComplete      \* validate_basic_params failed
     \/ /\ In("INIT", {"DOWN_COMPLETE", "DOWN", "START_REQ_FAIL"})
        /\ Stay /\ Done /\ NotifyDownComplete
  /\ Handler

StartEvent ==
  /\ \/ In("START", {"START_REQ"}) /\ TransitionTo("START_PROGRESS")
     \/ In("START", {"RESTART_REQ", "RADAR_DETECTED"}) /\ TransitionTo("RESTART_PROGRESS")
     \/ In("START", {"STA_CONN_START"}) /\ TransitionTo("CONN_PROGRESS")
  /\ Dispatch(ev)
  /\ NoCall
  /\ Handler

DfsCacWaitEvent ==
  /\ \/ /\ In("DFS_CAC_WAIT", {"DFS_CAC_WAIT"})
        /\ Stay /\ Done /\ Owe("CAC")
     \/ /\ In("DFS_CAC_WAIT", {"DOWN"})
        /\ TransitionTo("STOP") /\ Dispatch("STOP_REQ")
        /\ due' = due \ {"CAC"}                        \* mlme_vdev_dfs_cac_timer_stop
        /\ UNCHANGED <<rsp, snd, asked, downReq>>
     \/ /\ In("DFS_CAC_WAIT", {"RADAR_DETECTED"})
        /\ TransitionTo("START") /\ Dispatch("RESTART_REQ") /\ NoCall
     \/ /\ In("DFS_CAC_WAIT", {"DFS_CAC_COMPLETED"})
        /\ \/ mode = STA /\ TransitionTo("START") /\ Dispatch("STA_CONN_START")
           \/ mode # STA /\ TransitionTo("UP") /\ Dispatch("START_SUCCESS")
        /\ NoCall
  /\ Handler

UpEvent ==
  /\ \/ /\ In("UP", {"START_SUCCESS"})
        /\ Stay
        /\ Done \/ Dispatch("UP_FAIL")                 \* mlme_vdev_up_send
     \/ /\ In("UP", {"SUSPEND_RESTART", "HOST_RESTART", "CSA_RESTART", "DOWN", "UP_FAIL"})
        /\ TransitionTo("SUSPEND") /\ Dispatch(ev)
     \/ /\ In("UP", {"RADAR_DETECTED"})
        /\ TransitionTo("SUSPEND") /\ Dispatch("CSA_RESTART")
     \/ /\ In("UP", {"UP_HOST_RESTART", "START", "ROAM"})
        /\ Stay /\ Done
     \/ /\ In("UP", {"FW_VDEV_RESTART"})
        /\ TransitionTo("START") /\ Dispatch("RESTART_REQ")
  /\ NoCall
  /\ Handler

SuspendEvent ==
  /\ \/ /\ In("SUSPEND", {"DOWN", "RESTART_REQ_FAIL"})
        /\ TransitionTo("SUSPEND_DOWN") /\ Dispatch(ev)
     \/ /\ In("SUSPEND", {"SUSPEND_RESTART", "HOST_RESTART", "CSA_RESTART"})
        /\ TransitionTo(ev) /\ Dispatch(ev)
     \/ /\ In("SUSPEND", {"UP_FAIL"})
        /\ TransitionTo("SUSPEND_DOWN") /\ Dispatch("DOWN")
  /\ NoCall
  /\ Handler

-----------------------------------------------------------------------------
\* Mutant: a radar sends RESTART without waiting for the answer to START.
StartProgressHasty ==
  /\ \/ In("START_PROGRESS", {"START_REQ"}) /\ Stay /\ Done /\ Command("START")
     \/ In("START_PROGRESS", {"RADAR_DETECTED"}) /\ TransitionTo("RESTART_PROGRESS")
        /\ Dispatch("RESTART_REQ") /\ NoCall
     \/ /\ In("START_PROGRESS", {"START_RESP", "RESTART_RESP"})
        /\ TransitionTo("CONN_PROGRESS") /\ Dispatch("CONN_PROGRESS") /\ NoCall
     \/ In("START_PROGRESS", {"START_REQ_FAIL"}) /\ TransitionTo("INIT") /\ Dispatch(ev) /\ NoCall
     \/ In("START_PROGRESS", {"DOWN"}) /\ TransitionTo("DISCONN_PROGRESS") /\ Done /\ NoCall
  /\ Handler

StartProgressEvent ==
  /\ \/ /\ In("START_PROGRESS", {"START_REQ"})
        /\ Stay /\ Done /\ Command("START")
     \/ /\ In("START_PROGRESS", {"RADAR_DETECTED"})
        /\ TransitionTo("RESTART_PROGRESS") /\ Done /\ NoCall
     \/ /\ In("START_PROGRESS", {"START_RESP", "RESTART_RESP"})
        /\ TransitionTo("CONN_PROGRESS") /\ Dispatch("CONN_PROGRESS") /\ NoCall
     \/ /\ In("START_PROGRESS", {"START_REQ_FAIL"})
        /\ TransitionTo("INIT") /\ Dispatch(ev) /\ NoCall
     \/ /\ In("START_PROGRESS", {"DOWN"})
        /\ TransitionTo("DISCONN_PROGRESS") /\ Done /\ NoCall
  /\ Handler

\* Mutant: a failed RESTART enters SUSPEND_DOWN without its superstate.
RestartProgressSkips ==
  /\ \/ In("RESTART_PROGRESS", {"RESTART_REQ", "START_RESP"}) /\ Stay /\ Done /\ Command("RESTART")
     \/ /\ In("RESTART_PROGRESS", {"RESTART_RESP"})
        /\ TransitionTo("CONN_PROGRESS") /\ Dispatch("CONN_PROGRESS") /\ NoCall
     \/ /\ In("RESTART_PROGRESS", {"RESTART_REQ_FAIL"})
        /\ TransitionTo("SUSPEND_DOWN") /\ Dispatch(ev) /\ NoCall
     \/ In("RESTART_PROGRESS", {"DOWN"}) /\ TransitionTo("DISCONN_PROGRESS") /\ Done /\ NoCall
  /\ Handler

\* A RADAR_DETECTED fails the handler's assertion: DFS holds it back (Radar).
RestartProgressEvent ==
  /\ \/ /\ In("RESTART_PROGRESS", {"RESTART_REQ", "START_RESP"})
        /\ Stay /\ Done /\ Command("RESTART")
     \/ /\ In("RESTART_PROGRESS", {"RESTART_RESP"})
        /\ TransitionTo("CONN_PROGRESS") /\ Dispatch("CONN_PROGRESS") /\ NoCall
     \/ /\ In("RESTART_PROGRESS", {"RESTART_REQ_FAIL"})
        /\ TransitionTo("SUSPEND") /\ Dispatch(ev) /\ NoCall
     \/ /\ In("RESTART_PROGRESS", {"DOWN"})
        /\ TransitionTo("DISCONN_PROGRESS") /\ Done /\ NoCall
  /\ Handler

\* mlme_vdev_start_continue: failure, CAC first, up at once (AP) or connect (STA)
ConnProgressEvent ==
  /\ \/ /\ In("CONN_PROGRESS", {"CONN_PROGRESS"})
        /\ Stay
        /\ \/ Dispatch("CONNECTION_FAIL") /\ NoCall
           \/ Dispatch("DFS_CAC_WAIT") /\ NoCall
           \/ mode # STA /\ Dispatch("START_SUCCESS") /\ NoCall
           \/ mode = STA /\ Done /\ Owe("CONNECTION")
     \/ /\ In("CONN_PROGRESS", {"DFS_CAC_WAIT"})
        /\ TransitionTo("DFS_CAC_WAIT") /\ Dispatch(ev) /\ NoCall
     \/ /\ In("CONN_PROGRESS", {"START_SUCCESS"})
        /\ TransitionTo("UP") /\ Dispatch(ev) /\ NoCall
     \/ /\ In("CONN_PROGRESS", {"STA_CONN_START"})
        /\ BugUnless(mode = STA) /\ UNCHANGED <<sm, mlmeState>>
        /\ Done /\ Owe("CONNECTION")
     \/ /\ In("CONN_PROGRESS", {"RADAR_DETECTED"})
        /\ BugUnless(mode = STA) /\ UNCHANGED <<sm, mlmeState>>
        /\ Done /\ NoCall
     \/ /\ In("CONN_PROGRESS", {"DOWN", "CONNECTION_FAIL"})
        /\ TransitionTo("DISCONN_PROGRESS") /\ Dispatch(ev) /\ NoCall
  /\ Handler

DisconnProgressEvent ==
  /\ \/ /\ In("DISCONN_PROGRESS", {"START_RESP", "CONNECTION_FAIL"})
        /\ TransitionTo("STOP") /\ Dispatch("STOP_REQ")
     \/ /\ In("DISCONN_PROGRESS", {"RESTART_RESP", "RESTART_REQ_FAIL"})
        /\ TransitionTo("SUSPEND") /\ Dispatch("DOWN")
     \/ /\ In("DISCONN_PROGRESS", {"START_REQ_FAIL"})
        /\ TransitionTo("INIT") /\ Dispatch(ev)
  /\ NoCall
  /\ Handler

-----------------------------------------------------------------------------
SuspendDownEvent ==
  /\ \/ /\ In("SUSPEND_DOWN", {"DOWN", "RESTART_REQ_FAIL"})
        /\ Stay /\ Done /\ DisconnectPeers
     \/ /\ In("SUSPEND_DOWN", {"DISCONNECT_COMPLETE"})
        /\ TransitionTo("STOP") /\ Dispatch("STOP_REQ") /\ NoCall
  /\ Handler

SuspendRestartEvent ==
  /\ \/ /\ In("SUSPEND_RESTART", {"SUSPEND_RESTART"})
        /\ Stay /\ Done /\ DisconnectPeers
     \/ /\ In("SUSPEND_RESTART", {"DISCONNECT_COMPLETE"})
        /\ TransitionTo("START") /\ Dispatch("RESTART_REQ") /\ NoCall
     \/ /\ In("SUSPEND_RESTART", {"DOWN"})
        /\ TransitionTo("SUSPEND_DOWN") /\ Done /\ NoCall
     \/ /\ In("SUSPEND_RESTART", {"RADAR_DETECTED"})
        /\ TransitionTo("CSA_RESTART") /\ Dispatch("CSA_RESTART") /\ NoCall
  /\ Handler

\* Mutant: a DOWN overtaking a host restart forgets the peers being disconnected.
HostRestartForgets ==
  /\ \/ In("HOST_RESTART", {"HOST_RESTART"}) /\ Stay /\ Done /\ DisconnectPeers
     \/ /\ In("HOST_RESTART", {"DISCONNECT_COMPLETE"})
        /\ TransitionTo("UP") /\ Dispatch("UP_HOST_RESTART") /\ NoCall
     \/ /\ In("HOST_RESTART", {"DOWN"})
        /\ TransitionTo("SUSPEND_DOWN") /\ Done
        /\ due' = due \ {"DISCONNECT"}
        /\ UNCHANGED <<rsp, snd, asked, downReq>>
     \/ /\ In("HOST_RESTART", {"RADAR_DETECTED"})
        /\ TransitionTo("CSA_RESTART") /\ Dispatch("CSA_RESTART") /\ NoCall
  /\ Handler

HostRestartEvent ==
  /\ \/ /\ In("HOST_RESTART", {"HOST_RESTART"})
        /\ Stay /\ Done /\ DisconnectPeers
     \/ /\ In("HOST_RESTART", {"DISCONNECT_COMPLETE"})
        /\ TransitionTo("UP") /\ Dispatch("UP_HOST_RESTART") /\ NoCall
     \/ /\ In("HOST_RESTART", {"DOWN"})
        /\ TransitionTo("SUSPEND_DOWN") /\ Done /\ NoCall
     \/ /\ In("HOST_RESTART", {"RADAR_DETECTED"})
        /\ TransitionTo("CSA_RESTART") /\ Dispatch("CSA_RESTART") /\ NoCall
  /\ Handler

CsaRestartEvent ==
  /\ \/ /\ In("CSA_RESTART", {"CHAN_SWITCH_DISABLED"})
        /\ TransitionTo("UP") /\ Dispatch("UP_HOST_RESTART") /\ NoCall
     \/ /\ In("CSA_RESTART", {"CSA_RESTART"})
        /\ Stay /\ Done /\ Owe("CSA")
     \/ /\ In("CSA_RESTART", {"CSA_COMPLETE"})         \* mlme_vdev_is_newchan_no_cac
        /\ \/ TransitionTo("START") /\ Dispatch("RESTART_REQ")
           \/ TransitionTo("SUSPEND_RESTART") /\ Dispatch("SUSPEND_RESTART")
        /\ NoCall
     \/ /\ In("CSA_RESTART", {"DOWN"})
        /\ TransitionTo("SUSPEND_DOWN") /\ Dispatch(ev) /\ NoCall
     \/ /\ In("CSA_RESTART", {"RADAR_DETECTED"})
        /\ Stay /\ Done /\ NoCall
  /\ Handler

-----------------------------------------------------------------------------
\* A stopped vdev beacons no longer: no channel switch is announced any more.
StopProgressEvent ==
  /\ \/ /\ In("STOP_PROGRESS", {"STOP_REQ"})
        /\ Stay /\ Done
        /\ Send("STOP")
        /\ asked' = asked \cup {"STOP"}
        /\ due' = due \ {"CSA"}
        /\ UNCHANGED downReq
     \/ /\ In("STOP_PROGRESS", {"STOP_RESP"})
        /\ Stay /\ Done /\ Owe("BSS_PEER")             \* mlme_vdev_stop_continue
     \/ /\ In("STOP_PROGRESS", {"MLME_DOWN_REQ", "STOP_FAIL"})
        /\ TransitionTo("DOWN_PROGRESS") /\ Dispatch("MLME_DOWN_REQ") /\ NoCall
  /\ Handler

DownProgressEvent ==
  /\ \/ /\ In("DOWN_PROGRESS", {"DOWN"})
        /\ Stay /\ Done /\ NoCall
     \/ /\ In("DOWN_PROGRESS", {"MLME_DOWN_REQ"})
        /\ Stay /\ Done /\ Owe("DOWN")                 \* mlme_vdev_down_send
     \/ /\ In("DOWN_PROGRESS", {"DOWN_COMPLETE", "DOWN_FAIL"})
        /\ TransitionTo("INIT") /\ Dispatch("DOWN_COMPLETE") /\ NoCall
  /\ Handler

(***************************************************************************)
(* The default branch of every handler: wlan_sm_dispatch reports the event *)
(* as not handled and nothing else happens.                                *)
(***************************************************************************)
Handles ==
  [s \in SuperStates \cup SubStates |->
    CASE s = "INIT" -> {"START", "DOWN_COMPLETE", "DOWN", "START_REQ_FAIL"}
      [] s = "START" -> {"START_REQ", "RESTART_REQ", "RADAR_DETECTED", "STA_CONN_START"}
      [] s = "DFS_CAC_WAIT" -> {"DFS_CAC_WAIT", "DOWN", "RADAR_DETECTED", "DFS_CAC_COMPLETED"}
      [] s = "UP" -> {"START_SUCCESS", "SUSPEND_RESTART", "HOST_RESTART", "CSA_RESTART", "DOWN",
                      "RADAR_DETECTED", "UP_HOST_RESTART", "START", "FW_VDEV_RESTART", "UP_FAIL", "ROAM"}
      [] s = "SUSPEND" -> {"DOWN", "RESTART_REQ_FAIL", "SUSPEND_RESTART", "HOST_RESTART",
                           "CSA_RESTART", "UP_FAIL"}
      [] s = "STOP" -> {}
      [] s = "START_PROGRESS" -> {"START_REQ", "RADAR_DETECTED", "START_RESP", "RESTART_RESP",
                                  "START_REQ_FAIL", "DOWN"}
      [] s = "RESTART_PROGRESS" -> {"RESTART_REQ", "START_RESP", "RESTART_RESP", "RESTART_REQ_FAIL",
                                    "DOWN", "RADAR_DETECTED"}
      [] s = "CONN_PROGRESS" -> {"CONN_PROGRESS", "DFS_CAC_WAIT", "START_SUCCESS", "STA_CONN_START",
                                 "RADAR_DETECTED", "DOWN", "CONNECTION_FAIL"}
      [] s = "DISCONN_PROGRESS" -> {"START_RESP", "CONNECTION_FAIL", "RESTART_RESP",
                                    "RESTART_REQ_FAIL", "START_REQ_FAIL"}
      [] s = "SUSPEND_DOWN" -> {"DOWN", "RESTART_REQ_FAIL", "DISCONNECT_COMPLETE"}
      [] s = "SUSPEND_RESTART" -> {"SUSPEND_RESTART", "DISCONNECT_COMPLETE", "DOWN", "RADAR_DETECTED"}
      [] s = "HOST_RESTART" -> {"HOST_RESTART", "DISCONNECT_COMPLETE", "DOWN", "RADAR_DETECTED"}
      [] s = "CSA_RESTART" -> {"CHAN_SWITCH_DISABLED", "CSA_RESTART", "CSA_COMPLETE", "DOWN",
                               "RADAR_DETECTED"}
      [] s = "STOP_PROGRESS" -> {"STOP_REQ", "STOP_RESP", "MLME_DOWN_REQ", "STOP_FAIL"}
      [] s = "DOWN_PROGRESS" -> {"DOWN", "MLME_DOWN_REQ", "DOWN_COMPLETE", "DOWN_FAIL"}]

NotHandled ==
  /\ ev # NoEv
  /\ ev \notin Handles[sm]
  /\ Done
  /\ missed' = (missed \/ (sm = "RESTART_PROGRESS" /\ ev = "START_REQ_FAIL"))
  /\ UNCHANGED <<rspVars, mode, sm, mlmeState, due, asked, vdev, downReq, bug>>

HandlerStep ==
  \/ InitEvent \/ StartEvent \/ DfsCacWaitEvent \/ UpEvent \/ SuspendEvent
  \/ StartProgressEvent \/ RestartProgressEvent \/ ConnProgressEvent \/ DisconnProgressEvent
  \/ SuspendDownEvent \/ SuspendRestartEvent \/ HostRestartEvent \/ CsaRestartEvent
  \/ StopProgressEvent \/ DownProgressEvent \/ NotHandled

-----------------------------------------------------------------------------
(***************************************************************************)
(* The sender's second half: the driver reports a command that could not   *)
(* be sent; a vdev whose DELETE could not be sent is taken as deleted.     *)
(***************************************************************************)
FailEvent(b) ==
  CASE b = "START" -> {"START_REQ_FAIL"} [] b = "RESTART" -> {"RESTART_REQ_FAIL"}
    [] b = "STOP" -> {"STOP_FAIL"} [] b = "PEER_DELETE_ALL" -> {"DISCONNECT"} [] OTHER -> {}

CommandSent ==
  /\ ev = NoEv
  /\ \/ /\ SendDone
        /\ UNCHANGED <<due, asked, vdev>>
     \/ /\ SendFailed
        /\ snd \in rsp.bits
        /\ due' = due \cup FailEvent(snd)
        /\ asked' = asked \ {snd}
        /\ vdev' = IF snd = "DELETE" THEN "none" ELSE vdev
     \/ /\ DeleteSimulated
        /\ asked' = asked \ {"DELETE"}
        /\ vdev' = "none"
        /\ UNCHANGED due
  /\ UNCHANGED <<cb, msgs, answer, mode, sm, mlmeState, ev, downReq, missed, bug>>

(***************************************************************************)
(* tgt_vdev_mgr_*_response_handler and the driver's ext_*_rsp callbacks:   *)
(* an answer becomes an event of the state machine.                        *)
(***************************************************************************)
AnswerEvent(a) ==
  CASE a.bit = "START" -> IF a.ok THEN "START_RESP" ELSE "START_REQ_FAIL"
    [] a.bit = "RESTART" -> IF a.ok THEN "RESTART_RESP" ELSE "RESTART_REQ_FAIL"
    [] a.bit = "STOP" -> "STOP_RESP"
    [] a.bit = "PEER_DELETE_ALL" -> "DISCONNECT_COMPLETE"
    [] OTHER -> NoEv

AnswerDelivered ==
  /\ Free
  /\ answer # NoAnswer
  /\ answer' = NoAnswer
  /\ asked' = asked \ {answer.bit}
  /\ ev' = IF vdev = "created" THEN AnswerEvent(answer) ELSE NoEv
  /\ vdev' = IF answer.bit = "DELETE" /\ vdev = "deleting" THEN "none" ELSE vdev
  /\ UNCHANGED <<rsp, snd, cb, msgs, fw, mode, sm, mlmeState, due, downReq, missed, bug>>

(***************************************************************************)
(* The driver and DFS pay what they owe.                                   *)
(***************************************************************************)
DueEvent(d) ==
  CASE d = "DISCONNECT" -> {"DISCONNECT_COMPLETE"}
    [] d = "BSS_PEER" -> {"MLME_DOWN_REQ"}
    [] d = "DOWN" -> {"DOWN_COMPLETE", "DOWN_FAIL"}
    [] d = "CSA" -> {"CSA_COMPLETE", "CHAN_SWITCH_DISABLED"}
    [] d = "CAC" -> {"DFS_CAC_COMPLETED"}
    [] d = "CONNECTION" -> {"CONNECTION_FAIL"} \cup
                           (IF sm = "DISCONN_PROGRESS" THEN {} ELSE {"START_SUCCESS"})
    [] OTHER -> {d}
Dues == {"DISCONNECT", "BSS_PEER", "DOWN", "CSA", "CAC", "CONNECTION",
         "START_REQ_FAIL", "RESTART_REQ_FAIL", "STOP_FAIL"}

PayDue(d) ==
  /\ Free
  /\ d \in due
  /\ due' = due \ {d}
  /\ ev' \in DueEvent(d)
  /\ UNCHANGED <<rspVars, mode, sm, mlmeState, asked, vdev, downReq, missed, bug>>

(***************************************************************************)
(* Requests.  One DOWN at a time (wlan_vdev_mlme_ser_stop_bss).  A radar   *)
(* is reported in the states whose handler allows it; DFS drops its CAC.   *)
(***************************************************************************)
Requests == {"START", "DOWN", "FW_VDEV_RESTART"} \cup
            (IF mode = STA THEN {"ROAM"} ELSE {"SUSPEND_RESTART", "HOST_RESTART", "CSA_RESTART"})
RadarStates == {"START_PROGRESS", "DFS_CAC_WAIT"} \cup
  (IF mode = STA THEN {"CONN_PROGRESS"} ELSE {"UP", "SUSPEND_RESTART", "HOST_RESTART", "CSA_RESTART"})

Request(e) ==
  /\ Free
  /\ vdev = "created"
  /\ e \in Requests
  /\ e = "DOWN" => ~downReq
  /\ ev' = e
  /\ downReq' = (downReq \/ e = "DOWN")
  /\ UNCHANGED <<rspVars, mode, sm, mlmeState, due, asked, vdev, missed, bug>>

Radar ==
  /\ Free
  /\ vdev = "created"
  /\ sm \in RadarStates
  /\ ev' = "RADAR_DETECTED"
  /\ due' = due \ {"CAC"}
  /\ UNCHANGED <<rspVars, mode, sm, mlmeState, asked, vdev, downReq, missed, bug>>

\* mlme_vdev_obj_create_handler and target_if_vdev_mgr_create_send
VdevCreate ==
  /\ Free
  /\ vdev = "none"
  /\ ~rsp.inuse
  /\ vdev' = "created"
  /\ mode' \in {AP, STA}
  /\ rsp' = RspTimerInit(rsp)
  /\ sm' = "INIT" /\ mlmeState' = "INIT"
  /\ due' = {} /\ asked' = {} /\ downReq' = FALSE /\ missed' = FALSE
  /\ UNCHANGED <<snd, cb, msgs, fw, answer, ev, bug>>

\* vdev_mgr_delete_send, of a vdev that is down
VdevDelete ==
  /\ Free
  /\ vdev = "created"
  /\ sm = "INIT" /\ due = {} /\ asked = {} /\ ~downReq
  /\ vdev' = "deleting"
  /\ Send("DELETE")
  /\ asked' = {"DELETE"}
  /\ UNCHANGED <<cb, msgs, fw, answer, mode, sm, mlmeState, ev, due, downReq, missed, bug>>

AllRequests == {"START", "DOWN", "FW_VDEV_RESTART", "ROAM", "SUSPEND_RESTART", "HOST_RESTART",
                "CSA_RESTART"}

Next ==
  \/ HandlerStep
  \/ CommandSent
  \/ AnswerDelivered
  \/ \E d \in Dues : PayDue(d)
  \/ \E e \in AllRequests : Request(e)
  \/ Radar
  \/ VdevCreate
  \/ VdevDelete
  \/ RspStep /\ UNCHANGED smVars

Spec == Init /\ [][Next]_vars

(***************************************************************************)
(* The threads that wait for the lock get it, the scheduler serves its     *)
(* queue, timers expire and the driver pays what it owes.  The firmware    *)
(* need not answer, and a channel switch or a CAC may last for ever.       *)
(***************************************************************************)
Fairness ==
  /\ WF_vars(HandlerStep)
  /\ WF_vars(CommandSent)
  /\ SF_vars(AnswerDelivered)
  /\ SF_vars(\E d \in Dues \ {"CSA", "CAC"} : PayDue(d))
  /\ WF_vars(TimerExpire /\ UNCHANGED smVars)
  /\ SF_vars(TimerCb /\ UNCHANGED smVars)
  /\ WF_vars(TimerCbStop /\ UNCHANGED smVars)

FairSpec == Spec /\ Fairness

-----------------------------------------------------------------------------
Events == (UNION {Handles[s] : s \in DOMAIN Handles}) \cup {"DISCONNECT_COMPLETE"}

TypeOK ==
  /\ RspTypeOK
  /\ mode \in {AP, STA}
  /\ sm \in (SuperStates \ {"STOP"}) \cup SubStates
  /\ mlmeState \in SuperStates
  /\ ev \in Events \cup {NoEv}
  /\ due \subseteq Dues
  /\ asked \subseteq Bits
  /\ vdev \in {"none", "created", "deleting"}
  /\ downReq \in BOOLEAN /\ missed \in BOOLEAN
  /\ bug \subseteq {"entry", "handler"}

(***************************************************************************)
(* No assertion of vdev_mlme_sm.c fails: a substate is entered under its   *)
(* own superstate (mlme_state and cur_state agree) and STA-only events     *)
(* stay with stations.                                                     *)
(***************************************************************************)
NoAssertion ==
  /\ bug = {}
  /\ mlmeState = IF sm \in SubStates THEN Parent[sm] ELSE sm

(***************************************************************************)
(* The state machine has one command with the firmware at a time           *)
(* (target_if_vdev_mgr_tx_ops.c:112), apart from a PEER_DELETE_ALL that a  *)
(* radar overtakes, and a command that was sent is on its way to an        *)
(* answer: its bit is set, or the scheduler thread hands the answer over.  *)
(***************************************************************************)
OneCommand ==
  /\ Cardinality(asked \ {"PEER_DELETE_ALL"}) <= 1
  /\ \A b \in asked \ {"PEER_DELETE_ALL"} : b \in rsp.bits \/ answer.bit = b

Quiescent == Free /\ due = {} /\ asked = {} /\ answer = NoAnswer
Waiting == (SubStates \cup {"DFS_CAC_WAIT"}) \ {"CSA_RESTART"}

(***************************************************************************)
(* The state machine waits for something only while somebody owes it: the  *)
(* one exception is a START that fails after a radar moved the vdev to     *)
(* RESTART_PROGRESS, whose handler has no case for it.                     *)
(***************************************************************************)
NotStuck == sm \in Waiting /\ Quiescent => missed

-----------------------------------------------------------------------------
(***************************************************************************)
(* What makes OneCommand and NotStuck inductive.  The state machine has    *)
(* one turn at a time: it is owed by the firmware or by the driver         *)
(* (Owing), or it is back with the event being dispatched (Turns).  Peers  *)
(* that disconnect and an announced channel switch go on beside it.        *)
(***************************************************************************)
Owing == (asked \ {"PEER_DELETE_ALL"}) \cup (due \ {"DISCONNECT", "CSA"})

\* Who may owe the turn in a state.
OwedIn ==
  [s \in SuperStates \cup SubStates |->
    CASE s = "INIT" -> {"DELETE"}
      [] s = "START_PROGRESS" -> {"START", "START_REQ_FAIL"}
      [] s = "RESTART_PROGRESS" -> {"START", "START_REQ_FAIL", "RESTART", "RESTART_REQ_FAIL"}
      [] s = "CONN_PROGRESS" -> {"CONNECTION"}
      [] s = "DISCONN_PROGRESS" -> {"START", "START_REQ_FAIL", "RESTART", "RESTART_REQ_FAIL",
                                    "CONNECTION"}
      [] s = "DFS_CAC_WAIT" -> {"CAC"}
      [] s = "STOP_PROGRESS" -> {"STOP", "STOP_FAIL", "BSS_PEER"}
      [] s = "DOWN_PROGRESS" -> {"DOWN"}
      [] OTHER -> {}]

\* The events with which the turn comes back in a state.
TurnsIn ==
  [s \in SuperStates \cup SubStates |->
    CASE s = "INIT" -> {"START_REQ_FAIL", "DOWN_COMPLETE"}
      [] s = "START" -> {"START_REQ", "RESTART_REQ", "STA_CONN_START"}
      [] s = "START_PROGRESS" -> {"START_REQ", "START_RESP", "START_REQ_FAIL"}
      [] s = "RESTART_PROGRESS" -> {"RESTART_REQ", "START_RESP", "RESTART_RESP", "START_REQ_FAIL",
                                    "RESTART_REQ_FAIL"}
      [] s = "CONN_PROGRESS" -> {"CONN_PROGRESS", "DFS_CAC_WAIT", "START_SUCCESS",
                                 "STA_CONN_START", "CONNECTION_FAIL"}
      [] s = "DISCONN_PROGRESS" -> {"START_RESP", "RESTART_RESP", "START_REQ_FAIL",
                                    "RESTART_REQ_FAIL", "CONNECTION_FAIL"}
      [] s = "DFS_CAC_WAIT" -> {"DFS_CAC_WAIT", "DFS_CAC_COMPLETED"}
      [] s = "UP" -> {"START_SUCCESS", "UP_FAIL", "UP_HOST_RESTART"}
      [] s = "SUSPEND" -> {"RESTART_REQ_FAIL", "UP_FAIL"}
      [] s = "SUSPEND_DOWN" -> {"RESTART_REQ_FAIL"}
      [] s = "STOP_PROGRESS" -> {"STOP_REQ", "STOP_RESP", "MLME_DOWN_REQ", "STOP_FAIL"}
      [] s = "DOWN_PROGRESS" -> {"MLME_DOWN_REQ", "DOWN_COMPLETE", "DOWN_FAIL"}
      [] OTHER -> {}]

Turns == {"START_REQ", "START_RESP", "START_REQ_FAIL", "RESTART_REQ", "RESTART_RESP",
          "RESTART_REQ_FAIL", "STA_CONN_START", "CONN_PROGRESS", "DFS_CAC_WAIT",
          "DFS_CAC_COMPLETED", "START_SUCCESS", "CONNECTION_FAIL", "UP_FAIL", "UP_HOST_RESTART",
          "STOP_REQ", "STOP_RESP", "STOP_FAIL", "MLME_DOWN_REQ", "DOWN_COMPLETE", "DOWN_FAIL"}

\* DFS has taken its CAC back when it reports a radar.
HasTurn == ev \in Turns \/ (sm = "DFS_CAC_WAIT" /\ ev = "RADAR_DETECTED")

\* A vdev that is not there, or being deleted, is down and owed its DELETE only.
DownWhenGone ==
  vdev # "created" => /\ sm = "INIT" /\ ev = NoEv /\ due = {}
                      /\ asked = IF vdev = "deleting" THEN {"DELETE"} ELSE {}

OneTurn ==
  /\ Owing \subseteq OwedIn[sm]
  /\ \A x, y \in Owing : x = y
  /\ HasTurn => Owing = {}
  /\ ev \in Turns => ev \in TurnsIn[sm]
  /\ "DELETE" \in asked => vdev = "deleting"
  /\ sm = "START" => ev \in TurnsIn[sm]
  /\ sm = "SUSPEND" => ev \in Handles[sm]

TurnNotLost ==
  /\ sm \in {"START_PROGRESS", "RESTART_PROGRESS", "CONN_PROGRESS", "DISCONN_PROGRESS",
             "DFS_CAC_WAIT", "STOP_PROGRESS", "DOWN_PROGRESS"}
        => Owing # {} \/ HasTurn \/ missed
  /\ sm \in {"SUSPEND_DOWN", "SUSPEND_RESTART", "HOST_RESTART"}
        => \/ "DISCONNECT" \in due \/ "PEER_DELETE_ALL" \in asked
           \/ ev \in {"DISCONNECT_COMPLETE"} \cup
                    (IF sm = "SUSPEND_DOWN" THEN {"DOWN", "RESTART_REQ_FAIL"} ELSE {sm})

\* What the timer waits for, and what it hands over, was asked for.  (A DELETE
\* may be answered twice, when its expiry overtakes the simulated response,
\* and a PEER_DELETE_ALL may be sent while the last one is being answered.)
Awaited ==
  /\ \A x, y \in rsp.bits : x = y
  /\ rsp.bits \subseteq asked \cup {"DELETE", "PEER_DELETE_ALL"}
  /\ answer # NoAnswer => answer.bit \in asked \cup {"DELETE", "PEER_DELETE_ALL"}
  /\ cb = "expired" => answer = NoAnswer
  /\ answer.bit \in rsp.bits => answer.bit \in {"DELETE", "PEER_DELETE_ALL"}
  /\ snd # NoBit => ev = NoEv /\ snd \in asked
  /\ \A b \in asked \ {"PEER_DELETE_ALL"} : b \in rsp.bits \/ answer.bit = b

\* Events that only stations, or only access points, get.
ModeFits ==
  /\ ev = "STA_CONN_START" => mode = STA
  /\ ev = "RADAR_DETECTED" /\ sm = "CONN_PROGRESS" => mode = STA

IndInv ==
  TypeOK /\ RefsMatchBits /\ NoAssertion /\ ModeFits /\ DownWhenGone /\ OneTurn
    /\ TurnNotLost /\ Awaited

-----------------------------------------------------------------------------
(***************************************************************************)
(* Every START, RESTART, STOP and DELETE is answered, although the         *)
(* firmware may stay silent.  (A PEER_DELETE_ALL is sent again, and its    *)
(* timer started again, as often as a restart is requested.)               *)
(***************************************************************************)
CommandAnswered == asked \ {"PEER_DELETE_ALL"} # {} ~> asked \subseteq {"PEER_DELETE_ALL"}

(***************************************************************************)
(* A vdev that is told to go down gets there and the request completes,    *)
(* whatever it was doing, with the same exception.                         *)
(***************************************************************************)
DownCompletes == downReq ~> (~downReq \/ missed)
=============================================================================
