------------------------------ MODULE VdevRsp ------------------------------
(***************************************************************************)
(* The response timer of one vdev (target_if_vdev_mgr_tx_ops.c and         *)
(* target_if_vdev_mgr_rx_ops.c, built with SERIALIZE_VDEV_RESP).           *)
(*                                                                         *)
(* A command the firmware answers with an event sets its response bit,     *)
(* takes a psoc reference and starts the timer.  The event, or the expiry  *)
(* of the timer, clears the bit, releases the reference and answers the    *)
(* MLME.  Events and expiries are handled by the scheduler thread, one at  *)
(* a time; commands are sent by the thread that holds the lock of the      *)
(* state machine (VdevMlme), in two steps around the setting of the bit.   *)
(***************************************************************************)
EXTENDS Integers, Sequences, FiniteSets

CONSTANTS
  MaxFw,     \* bound: commands the firmware holds; it never answers one beyond it
  MaxMsgs    \* bound: expiries posted to the scheduler and not yet handled

ASSUME BoundsAssumption == MaxFw \in Nat \ {0} /\ MaxMsgs \in Nat \ {0}

VARIABLES
  rsp,       \* struct vdev_response_timer, and the psoc references it holds
  snd,       \* the command being sent, its bit set and its timer not started
  cb,        \* target_if_vdev_mgr_rsp_timer_cb: "idle", or "expired" once it set timer_status
  msgs,      \* expiries in the scheduler's queue
  fw,        \* commands the firmware has not answered, oldest first
  answer     \* the answer the scheduler thread is handing to the MLME

rspVars == <<rsp, snd, cb, msgs, fw, answer>>

\* enum wlan_vdev_mgr_tgt_if_rsp_bit
Bits == {"START", "RESTART", "STOP", "DELETE", "PEER_DELETE_ALL"}
NoBit == "none"
NoAnswer == [bit |-> NoBit, ok |-> FALSE]
Answers == [bit : Bits, ok : BOOLEAN]

RspInit ==
  /\ rsp = [bits |-> {}, status |-> "SUCCESS", armed |-> FALSE, inuse |-> FALSE, refs |-> 0]
  /\ snd = NoBit
  /\ cb = "idle"
  /\ msgs = 0
  /\ fw = <<>>
  /\ answer = NoAnswer

-----------------------------------------------------------------------------
(***************************************************************************)
(* target_if_vdev_mgr_rsp_timer_stop.  An expired timer is not stopped; a  *)
(* DELETE gives the timer up.                                              *)
(***************************************************************************)
\* Mutant: the reference is released although the bit was already clear.
StopAlwaysReleases(r, b) ==
  [r EXCEPT !.bits = @ \ {b}, !.status = "SUCCESS", !.refs = @ - 1,
            !.armed = @ /\ r.status = "TIMEOUT", !.inuse = @ /\ b # "DELETE"]

RspTimerStop(r, b) ==
  IF b \notin r.bits THEN r
  ELSE [r EXCEPT !.bits = @ \ {b},
                 !.status = "SUCCESS",
                 !.refs = @ - 1,
                 !.armed = @ /\ r.status = "TIMEOUT",
                 !.inuse = @ /\ b # "DELETE"]

(***************************************************************************)
(* The first half of target_if_vdev_mgr_rsp_timer_start: every response    *)
(* still awaited is stopped, the last one with timer_status reset by the   *)
(* one before, and the bit is set.                                         *)
(***************************************************************************)
RspTimerSet(r, b) ==
  LET awaited == Cardinality(r.bits)
  IN  [r EXCEPT !.bits = {b},
                !.status = IF awaited = 0 THEN @ ELSE "SUCCESS",
                !.refs = @ - awaited,
                !.armed = @ /\ (awaited = 0 \/ (awaited = 1 /\ r.status = "TIMEOUT")),
                !.inuse = @ /\ "DELETE" \notin r.bits]

\* Mutant: the timer is started for a DELETE only.
RspTimerUnarmed(r) == [r EXCEPT !.refs = @ + 1, !.armed = @ \/ "DELETE" \in r.bits]

\* The second half, before the WMI command goes out.
RspTimerStarted(r) == [r EXCEPT !.refs = @ + 1, !.armed = TRUE]

\* target_if_psoc_vdev_rsp_timer_init
RspTimerInit(r) == [r EXCEPT !.inuse = TRUE]

Send(b) ==
  /\ snd = NoBit
  /\ snd' = b
  /\ rsp' = RspTimerSet(rsp, b)

(***************************************************************************)
(* The rest of target_if_vdev_mgr_start_send, stop_send, delete_send and   *)
(* peer_delete_all_send: the timer is started and the command sent.        *)
(***************************************************************************)
SendDone ==
  /\ snd # NoBit
  /\ snd' = NoBit
  /\ rsp' = RspTimerStarted(rsp)
  /\ fw' = IF Len(fw) < MaxFw THEN Append(fw, snd) ELSE fw

\* A WMI command that cannot be sent is rolled back.
SendFailed ==
  /\ snd # NoBit
  /\ snd' = NoBit
  /\ rsp' = RspTimerStop([RspTimerStarted(rsp) EXCEPT !.status = "CANCELED"], snd)
  /\ UNCHANGED fw

\* A target without wmi_service_sync_delete_cmds never answers a DELETE.
DeleteSimulated ==
  /\ snd = "DELETE"
  /\ snd' = NoBit
  /\ rsp' = RspTimerStop(RspTimerStarted(rsp), "DELETE")
  /\ UNCHANGED fw

-----------------------------------------------------------------------------
\* The scheduler thread handles one event or expiry, answer included, at a time.
SchedulerFree == cb = "idle" /\ answer = NoAnswer

(***************************************************************************)
(* The response handlers.  An event whose bit is clear is dropped.         *)
(***************************************************************************)
ResponseHandler(ok) ==
  /\ SchedulerFree
  /\ fw # <<>>
  /\ fw' = Tail(fw)
  /\ rsp' = RspTimerStop(rsp, Head(fw))
  /\ answer' = IF Head(fw) \in rsp.bits THEN [bit |-> Head(fw), ok |-> ok] ELSE NoAnswer
  /\ UNCHANGED <<snd, cb, msgs>>

\* The firmware never answers a command.
FwSilent ==
  /\ fw # <<>>
  /\ fw' = Tail(fw)
  /\ UNCHANGED <<rsp, snd, cb, msgs, answer>>

(***************************************************************************)
(* target_if_vdev_mgr_rsp_cb_mc_ctx: the expiry is posted to the scheduler *)
(* unless the timer was given up.                                          *)
(***************************************************************************)
TimerExpire ==
  /\ rsp.armed
  /\ msgs < MaxMsgs
  /\ rsp' = [rsp EXCEPT !.armed = FALSE]
  /\ msgs' = IF rsp.inuse THEN msgs + 1 ELSE msgs
  /\ UNCHANGED <<snd, cb, fw, answer>>

(***************************************************************************)
(* target_if_vdev_mgr_rsp_timer_cb, up to the setting of timer_status; and *)
(* the rest: the awaited response is looked up again, stopped and          *)
(* answered as timed out.                                                  *)
(***************************************************************************)
TimerCb ==
  /\ SchedulerFree
  /\ msgs > 0
  /\ msgs' = msgs - 1
  /\ IF rsp.inuse /\ rsp.bits # {}
     THEN rsp' = [rsp EXCEPT !.status = "TIMEOUT"] /\ cb' = "expired"
     ELSE UNCHANGED <<rsp, cb>>
  /\ UNCHANGED <<snd, fw, answer>>

\* The order in which the callback tests the response bits.
RspOrder == <<"START", "RESTART", "STOP", "DELETE", "PEER_DELETE_ALL">>
FirstBit(bits) ==
  RspOrder[CHOOSE i \in DOMAIN RspOrder :
             RspOrder[i] \in bits /\ \A j \in 1..(i - 1) : RspOrder[j] \notin bits]

TimerCbStop ==
  /\ cb = "expired"
  /\ cb' = "idle"
  /\ IF rsp.bits = {}
     THEN UNCHANGED <<rsp, answer>>
     ELSE /\ rsp' = RspTimerStop(rsp, FirstBit(rsp.bits))
          /\ answer' = [bit |-> FirstBit(rsp.bits), ok |-> FALSE]
  /\ UNCHANGED <<snd, msgs, fw>>

RspStep == (\E ok \in BOOLEAN : ResponseHandler(ok)) \/ FwSilent \/ TimerExpire \/ TimerCb \/ TimerCbStop

-----------------------------------------------------------------------------
Timers == [bits : SUBSET Bits, status : {"SUCCESS", "TIMEOUT", "CANCELED"},
           armed : BOOLEAN, inuse : BOOLEAN, refs : Int]

RspTypeOK ==
  /\ rsp \in Timers
  /\ snd \in Bits \cup {NoBit}
  /\ cb \in {"idle", "expired"}
  /\ msgs \in 0..MaxMsgs
  /\ fw \in Seq(Bits) /\ Len(fw) <= MaxFw
  /\ answer \in Answers \cup {NoAnswer}

(***************************************************************************)
(* The timer holds one psoc reference for every response it waits for: the *)
(* reference taken when the timer is started is released with the stop     *)
(* (target_if_vdev_mgr_tx_ops.c:143), whoever stops it and however a late  *)
(* expiry interleaves with a sender that has set its bit only.             *)
(***************************************************************************)
RefsMatchBits ==
  rsp.refs = Cardinality(rsp.bits) - (IF snd = NoBit THEN 0 ELSE 1)

(***************************************************************************)
(* The timer runs only for an awaited response: a response taken as timed  *)
(* out needs no stop, because its timer has expired                        *)
(* (target_if_vdev_mgr_tx_ops.c:69).                                       *)
(***************************************************************************)
StoppedWithResponse == snd = NoBit /\ rsp.bits = {} => ~rsp.armed
=============================================================================
