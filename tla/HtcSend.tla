------------------------------ MODULE HtcSend ------------------------------
(***************************************************************************)
(* The way of a WMI command to the firmware: wmi_unified_cmd_send counts   *)
(* it, HTC queues it on the endpoint of the WMI control service and drains *)
(* the queue as far as credits (or free entries of the copy engine) allow, *)
(* HIF sends it and reports its completion.                                *)
(*                                                                         *)
(* Threads that send, the copy engine's completions, credit reports and    *)
(* the work that kicks the queues after a runtime resume all end in        *)
(* htc_try_send; TxProcessCount lets one of them drain.  An action is a    *)
(* section under HTCTxLock, or a stretch without it between two of them.   *)
(***************************************************************************)
EXTENDS Lists

CONSTANTS
  NPkt,        \* commands 1..NPkt are sent, each once
  PmPkt,       \* those WMI tags HTC_TX_PACKET_TAG_AUTO_PM
  BigPkt,      \* those of the maximal length, which take PerMaxMsg credits
  Senders,     \* threads that send commands
  Completers,  \* contexts that reap completions of the pipe, senders among them
  Rx, Work,    \* the context of credit reports, and the queue_kicker work
  Total,       \* credits the firmware gave the endpoint
  PerMaxMsg,   \* TxCreditsPerMaxMsg
  RingSize,    \* num_sends_allowed of the idle pipe
  MaxCmds,     \* wmi_max_cmds
  MaxLeaked    \* bound: qdf_nbuf_map fails no more once so many credits are lost

Pkt == 1..NPkt
NoPkt == 0
Ctx == Senders \cup Completers \cup {Rx, Work}

ASSUME HtcConstants ==
  /\ PmPkt \subseteq Pkt /\ BigPkt \subseteq Pkt
  /\ IsFiniteSet(Ctx)
  /\ {NPkt, Total, RingSize, MaxLeaked} \subseteq Nat
  /\ {PerMaxMsg, MaxCmds} \subseteq Nat \ {0}

VARIABLES
  creditFlow, \* TxCreditFlowEnabled, decided when the service is connected
  txq,        \* TxQueue
  lookup,     \* TxLookupQueue
  credits,    \* TxCredits
  draining,   \* TxProcessCount > 0
  need,       \* packets whose SendFlags hold HTC_FLAGS_NEED_CREDIT_UPDATE
  free,       \* num_sends_allowed
  ring,       \* packets in the copy engine, not reaped yet
  dma,        \* how many of them, from the head, the firmware has
  held,       \* credits of the commands the firmware has
  asked,      \* the firmware was asked for credits
  usage,      \* usage count of the device
  bus,        \* "on", "off" (suspending or suspended), "wanted" (resume requested)
  kick,       \* queue_kicker is scheduled
  pending,    \* pending_cmds
  done,       \* commands that were completed or refused
  th,         \* what each context is doing
  order,      \* history: commands HTC has, in the order they were queued
  leaked,     \* history: credits lost when a packet could not be mapped
  failed,     \* history: a packet was put back after a failure
  stolen      \* history: a put was done for a PM packet, which made no get

epVars   == <<txq, lookup, credits, draining, need, order>>
pipeVars == <<free, ring, dma, held, asked>>
pmVars   == <<usage, bus, kick, stolen>>
wmiVars  == <<pending, done>>
histVars == <<leaked, failed>>
vars == <<creditFlow, epVars, pipeVars, pmVars, wmiVars, th, histVars>>

(***************************************************************************)
(* A context: pc, the packet in its hands, the local sendQueue and the     *)
(* number of free entries it read (tx_resources); cmpl says that           *)
(* htc_try_send returns to the completion handler.                         *)
(***************************************************************************)
Idle == [pc |-> "idle", pkt |-> NoPkt, q |-> <<>>, res |-> 0, cmpl |-> FALSE]

\* Idle senders hold nothing; a completion still gives its entry back.
Return(t) == IF t.cmpl THEN [Idle EXCEPT !.pc = "allow", !.cmpl = TRUE] ELSE Idle

Context == [pc: {"idle", "count", "send", "try", "issue", "hif", "fail",
                 "putback", "reread", "again", "found", "allow"},
            pkt: Pkt \cup {NoPkt}, q: Seq(Pkt), res: 0..RingSize, cmpl: BOOLEAN]

TypeOK ==
  /\ creditFlow \in BOOLEAN /\ draining \in BOOLEAN /\ asked \in BOOLEAN
  /\ {txq, lookup, ring, order} \subseteq Seq(Pkt) /\ {need, done} \subseteq SUBSET Pkt
  /\ {credits, free, held, usage, pending, leaked} \subseteq Nat /\ dma \in 0..Len(ring)
  /\ bus \in {"on", "off", "wanted"} /\ kick \in BOOLEAN
  /\ failed \in BOOLEAN /\ stolen \in BOOLEAN
  /\ th \in [Ctx -> Context]

Init ==
  /\ creditFlow \in BOOLEAN
  /\ txq = <<>> /\ lookup = <<>> /\ credits = Total /\ draining = FALSE
  /\ need = {} /\ order = <<>>
  /\ free = RingSize /\ ring = <<>> /\ dma = 0 /\ held = 0 /\ asked = FALSE
  /\ usage = 0 /\ bus = "on" /\ kick = FALSE /\ stolen = FALSE
  /\ pending = 0 /\ done = {}
  /\ th = [c \in Ctx |-> Idle]
  /\ leaked = 0 /\ failed = FALSE

-----------------------------------------------------------------------------
(* Credits and the runtime PM reference of a packet. *)

\* creditsRequired
Cost(p) == IF p \in BigPkt THEN PerMaxMsg ELSE 1

\* Of the packets in S.
CostOf(S) == Cardinality(S \ BigPkt) + PerMaxMsg * Cardinality(S \cap BigPkt)

NonPm(s) == Without(s, PmPkt)
OnlyPm(s) == Without(s, Pkt \ PmPkt)

\* hif_pm_runtime_put, n times; a put is refused when the count is 0.
Put(n) == IF n <= usage THEN usage - n ELSE 0

-----------------------------------------------------------------------------
(* WMI: the command is counted, then the count is compared.                *)

\* The commands some thread has sent; they are numbered as they are sent.
Taken == (done \cup ToSet(order) \cup {th[d].pkt : d \in Senders}) \cap Pkt

\* wmi_unified_cmd_send_fl: qdf_atomic_inc(&pending_cmds).
CmdCount(c, p) ==
  /\ c \in Senders /\ th[c] = Idle
  /\ Taken = 1..(p - 1)
  /\ pending' = pending + 1
  /\ th' = [th EXCEPT ![c] = [Idle EXCEPT !.pc = "count", !.pkt = p]]
  /\ UNCHANGED <<creditFlow, epVars, pipeVars, pmVars, done, histVars>>

\* The window is full: the command is refused and self recovery triggered.
CmdRefuse(c) ==
  /\ th[c].pc = "count" /\ pending >= MaxCmds
  /\ pending' = pending - 1
  /\ done' = done \cup {th[c].pkt}
  /\ th' = [th EXCEPT ![c] = Idle]
  /\ UNCHANGED <<creditFlow, epVars, pipeVars, pmVars, histVars>>

\* The packet is allocated and goes to htc_send_pkt.
CmdSend(c) ==
  /\ th[c].pc = "count" /\ pending < MaxCmds
  /\ th' = [th EXCEPT ![c].pc = "send"]
  /\ UNCHANGED <<creditFlow, epVars, pipeVars, pmVars, wmiVars, histVars>>

\* There is no packet, or the netbuf of an endpoint without credits cannot be
\* mapped: the command is counted back.
CmdFail(c) ==
  /\ th[c].pc = "send"
  /\ pending' = pending - 1
  /\ done' = done \cup {th[c].pkt}
  /\ th' = [th EXCEPT ![c] = Idle]
  /\ UNCHANGED <<creditFlow, epVars, pipeVars, pmVars, histVars>>

\* EpTxComplete, wmi_htc_tx_complete, of the packets in s.
Completed(s) ==
  /\ pending' = pending - Len(s)
  /\ done' = done \cup ToSet(s)
  /\ need' = need \ ToSet(s)
  /\ order' = Without(order, ToSet(s))

-----------------------------------------------------------------------------
(* htc_try_send.  Take is what get_htc_send_packets[_credit_based] moves   *)
(* from queue q of the endpoint to the local queue.                        *)

\* PM packets go first, alone and without a reference; others need the bus.
Candidates(q) == IF OnlyPm(q) # <<>> THEN OnlyPm(q) ELSE IF bus = "on" THEN q ELSE <<>>

\* The credits, or the free entries, suffice for m packets from the head of s.
Affords(s, m, res) ==
  IF creditFlow THEN CostOf(ToSet(SubSeq(s, 1, m))) <= credits ELSE m <= res

\* Packets are taken from the head of s until one does not fit.
Fits(s, n, res) == Affords(s, n, res) /\ (n < Len(s) => ~Affords(s, n + 1, res))

\* Mutant: the firmware is not asked for credits.
AskNever(s) == {}

\* The packets of s after which the endpoint is low on credits.
AskFor(s) == {s[i] : i \in {j \in 1..Len(s) :
                credits - CostOf(ToSet(SubSeq(s, 1, j))) <= PerMaxMsg}}

\* What stays in q: PM packets that did not fit come first.
Rest(q, s) ==
  LET left == Without(q, ToSet(s))
  IN  OnlyPm(left) \o NonPm(left)

\* One turn of the loop, under the lock, with queue q and res free entries.
Loop(c, q, res) ==
  LET s   == Candidates(q)
      get == q # <<>> /\ OnlyPm(q) = <<>> /\ (creditFlow \/ res > 0)
  IN  \E n \in 0..Len(s) :
        LET take == SubSeq(s, 1, n) IN
        /\ Fits(s, n, res)
        /\ txq' = Rest(q, take)
        /\ need' = IF creditFlow THEN (need \ ToSet(take)) \cup AskFor(take) ELSE need
        /\ credits' = IF creditFlow THEN credits - CostOf(ToSet(take)) ELSE credits
        /\ usage' = IF get THEN usage + n ELSE usage
        /\ bus' = IF get /\ bus = "off" THEN "wanted" ELSE bus
        /\ draining' = (n > 0)
        /\ th' = [th EXCEPT ![c] = IF n = 0 THEN Return(@)
                                   ELSE [@ EXCEPT !.pc = "issue", !.q = take, !.pkt = NoPkt]]
        /\ UNCHANGED <<creditFlow, lookup, pipeVars, kick, stolen, wmiVars, histVars>>

\* The packet of the caller, if there is one, is queued; a context that finds
\* another one draining leaves the rest to it.
TrySend(c) ==
  LET mine == IF th[c].pc = "send" THEN <<th[c].pkt>> ELSE <<>>
  IN  /\ th[c].pc \in {"send", "try"}
      /\ order' = order \o mine
      /\ \/ /\ draining
            /\ txq' = txq \o mine
            /\ th' = [th EXCEPT ![c] = Return(@)]
            /\ UNCHANGED <<creditFlow, lookup, credits, draining, need, pipeVars,
                           pmVars, wmiVars, histVars>>
         \/ /\ ~draining
            /\ Loop(c, txq \o mine, free)

\* The loop goes on, with the lock taken again.
TryAgain(c) ==
  /\ th[c].pc = "again"
  /\ Loop(c, txq, th[c].res)
  /\ UNCHANGED order

\* hif_get_free_queue_number, before the lock is taken again.
Reread(c) ==
  /\ th[c].pc = "reread"
  /\ th' = [th EXCEPT ![c].pc = "again", ![c].res = IF creditFlow THEN 0 ELSE free]
  /\ UNCHANGED <<creditFlow, epVars, pipeVars, pmVars, wmiVars, histVars>>

-----------------------------------------------------------------------------
(* htc_issue_packets: one packet at a time from the local queue.           *)

\* The next packet enters the lookup queue.
Issue(c) ==
  LET t == th[c]
  IN  /\ t.pc = "issue"
      /\ IF t.q = <<>>
           THEN th' = [th EXCEPT ![c].pc = "reread"] /\ UNCHANGED lookup
           ELSE /\ lookup' = Append(lookup, Head(t.q))
                /\ th' = [th EXCEPT ![c].pc = "hif", ![c].pkt = Head(t.q), ![c].q = Tail(@)]
      /\ UNCHANGED <<creditFlow, txq, credits, draining, need, order, pipeVars, pmVars,
                     wmiVars, histVars>>

\* qdf_nbuf_map fails: the local queue goes back, its credits do not.
MapFail(c) ==
  /\ th[c].pc = "issue" /\ th[c].q # <<>> /\ creditFlow
  /\ leaked < MaxLeaked
  /\ leaked' = leaked + CostOf(ToSet(th[c].q))
  /\ failed' = TRUE
  /\ th' = [th EXCEPT ![c].pc = "putback"]
  /\ UNCHANGED <<creditFlow, epVars, pipeVars, pmVars, wmiVars>>

\* hif_send_head takes an entry of the pipe, or fails with E_RESOURCES.
HifSend(c) ==
  /\ th[c].pc = "hif"
  /\ IF free > 0
       THEN /\ free' = free - 1
            /\ ring' = Append(ring, th[c].pkt)
            /\ th' = [th EXCEPT ![c].pc = "issue", ![c].pkt = NoPkt]
            /\ UNCHANGED failed
       ELSE /\ th' = [th EXCEPT ![c].pc = "fail"]
            /\ failed' = TRUE
            /\ UNCHANGED <<free, ring>>
  /\ UNCHANGED <<creditFlow, epVars, dma, held, asked, pmVars, wmiVars, leaked>>

\* Mutant: the packet that failed is forgotten.
ReclaimRest(t) == CostOf(ToSet(t.q))

\* The credits of the packet that failed and of those behind it.
Reclaimed(t) == CostOf({t.pkt} \cup ToSet(t.q))

\* The packet leaves the lookup queue, and the credits of the local queue are
\* reclaimed.
Unsend(c) ==
  LET t == th[c]
      q == <<t.pkt>> \o t.q
  IN  /\ t.pc = "fail"
      /\ lookup' = Without(lookup, {t.pkt})
      /\ credits' = IF creditFlow THEN credits + Reclaimed(t) ELSE credits
      /\ th' = [th EXCEPT ![c].pc = "putback", ![c].pkt = NoPkt, ![c].q = q]
      /\ UNCHANGED <<creditFlow, txq, draining, need, order, pipeVars, pmVars, wmiVars,
                     histVars>>

\* htc_try_send gives a runtime PM reference back for each packet and puts
\* them at the head of the queue; it does not look at the queue again.
PutBack(c) ==
  LET t == th[c]
  IN  /\ t.pc = "putback"
      /\ usage' = Put(Len(t.q))
      /\ stolen' = (stolen \/ OnlyPm(t.q) # <<>>)
      /\ txq' = t.q \o txq
      /\ draining' = FALSE
      /\ th' = [th EXCEPT ![c] = Return(@)]
      /\ UNCHANGED <<creditFlow, lookup, credits, need, order, pipeVars, bus, kick, wmiVars,
                     histVars>>

-----------------------------------------------------------------------------
(* The copy engine and the firmware.                                       *)

\* The firmware gets the next command, and with it its credits.
FwReceive ==
  /\ dma < Len(ring)
  /\ dma' = dma + 1
  /\ held' = IF creditFlow THEN held + Cost(ring[dma + 1]) ELSE 0
  /\ asked' = (asked \/ ring[dma + 1] \in need)
  /\ UNCHANGED <<creditFlow, epVars, free, ring, pmVars, wmiVars, th, histVars>>

\* hif_pci_ce_send_done takes the next completion of the pipe.
Reap(c) ==
  /\ c \in Completers /\ th[c] = Idle
  /\ dma > 0
  /\ ring' = Tail(ring) /\ dma' = dma - 1
  /\ th' = [th EXCEPT ![c] = [Idle EXCEPT !.pc = "found", !.pkt = Head(ring), !.cmpl = TRUE]]
  /\ UNCHANGED <<creditFlow, epVars, free, held, asked, pmVars, wmiVars, histVars>>

\* Mutant: completions are taken to come in the order of the queue.
LookupFirst(p) == Tail(lookup)

\* htc_lookup_tx_packet: the packet of the netbuf, the first one as a rule.
LookupTx(p) == Without(lookup, {p})

\* Mutant: every completion does a put.
PutsAlways(p) == 1

\* PM packets did no get.
PutsDue(p) == IF p \in PmPkt THEN 0 ELSE 1

\* htc_tx_completion_handler.
TxCompletion(c) ==
  LET p == th[c].pkt
  IN  /\ th[c].pc = "found"
      /\ lookup' = LookupTx(p)
      /\ usage' = Put(PutsDue(p))
      /\ Completed(<<p>>)
      /\ th' = [th EXCEPT ![c].pc = IF creditFlow THEN "allow" ELSE "try", ![c].pkt = NoPkt]
      /\ UNCHANGED <<creditFlow, txq, credits, draining, pipeVars, bus, kick, stolen,
                     histVars>>

\* hif_pci_ce_send_done, after the handler returned: num_sends_allowed++.
AllowSend(c) ==
  /\ th[c].pc = "allow"
  /\ free' = free + 1
  /\ th' = [th EXCEPT ![c] = Idle]
  /\ UNCHANGED <<creditFlow, epVars, ring, dma, held, asked, pmVars, wmiVars, histVars>>

\* htc_process_credit_rpt: n credits come back, and the queue is looked at.
CreditRpt(n) ==
  /\ creditFlow /\ th[Rx] = Idle
  /\ n \in 1..held
  /\ held' = held - n
  /\ asked' = (asked /\ held' > 0)
  /\ credits' = credits + n
  /\ th' = [th EXCEPT ![Rx].pc = IF txq # <<>> THEN "try" ELSE "idle"]
  /\ UNCHANGED <<creditFlow, txq, lookup, draining, need, order, free, ring, dma, pmVars,
                 wmiVars, histVars>>

-----------------------------------------------------------------------------
(* Runtime PM, and the flush.                                              *)

\* The bus is suspended when nobody uses it.
Suspend ==
  /\ bus = "on" /\ usage = 0
  /\ bus' = "off"
  /\ UNCHANGED <<creditFlow, epVars, pipeVars, usage, kick, stolen, wmiVars, th, histVars>>

\* htc_runtime_resume schedules the work.
Resume ==
  /\ bus # "on"
  /\ bus' = "on" /\ kick' = TRUE
  /\ UNCHANGED <<creditFlow, epVars, pipeVars, usage, stolen, wmiVars, th, histVars>>

\* htc_kick_queues calls htc_try_send.
KickQueues ==
  /\ kick /\ th[Work] = Idle
  /\ kick' = FALSE
  /\ th' = [th EXCEPT ![Work].pc = "try"]
  /\ UNCHANGED <<creditFlow, epVars, pipeVars, usage, bus, stolen, wmiVars, histVars>>

\* htc_flush_endpoint_tx completes what is queued as cancelled.
Flush ==
  /\ txq # <<>>
  /\ txq' = <<>>
  /\ Completed(txq)
  /\ UNCHANGED <<creditFlow, lookup, credits, draining, pipeVars, pmVars, th, histVars>>

-----------------------------------------------------------------------------
\* A context goes on with what it began.
Step(c) ==
  \/ CmdRefuse(c) \/ CmdSend(c) \/ TrySend(c) \/ TryAgain(c) \/ Reread(c)
  \/ Issue(c) \/ HifSend(c) \/ Unsend(c) \/ PutBack(c)
  \/ TxCompletion(c) \/ AllowSend(c)

Next ==
  \/ \E c \in Ctx :
       \/ Step(c) \/ Reap(c) \/ CmdFail(c) \/ MapFail(c)
       \/ \E p \in Pkt : CmdCount(c, p)
  \/ FwReceive \/ (\E n \in 1..held : CreditRpt(n))
  \/ Suspend \/ Resume \/ KickQueues \/ Flush

Spec == Init /\ [][Next]_vars

\* Contexts go on, the copy engine works, the firmware returns credits when it
\* was asked to, a requested resume happens, and the work does not meet a
\* suspended bus for ever (it runs at once, the bus idles for its delay first).
FairSpec ==
  /\ Spec
  /\ \A c \in Ctx : WF_vars(Step(c))
  /\ WF_vars(\E c \in Completers : Reap(c))
  /\ WF_vars(FwReceive)
  /\ WF_vars(asked /\ \E n \in 1..held : CreditRpt(n))
  /\ WF_vars(bus = "wanted" /\ Resume)
  /\ WF_vars(KickQueues) /\ SF_vars(bus = "on" /\ KickQueues)
  /\ SF_vars(bus = "on" /\ TrySend(Work))

-----------------------------------------------------------------------------
(* Properties *)

Draining(t) == t.pc \in {"issue", "hif", "fail", "putback", "reread", "again"}
Drainers == {c \in Ctx : Draining(th[c])}
Finders == {c \in Ctx : th[c].pc = "found"}
Reaped == {th[c].pkt : c \in Finders}
Counted == {c \in Ctx : th[c].pc \in {"count", "send"}}
InHtc == ToSet(order)

\* What the context that drains has taken from the queue: the packet in its
\* hands and those of its local queue.
HandOf(t) == IF t.pkt = NoPkt THEN <<>> ELSE <<t.pkt>>
Drainer == IF Drainers = {} THEN Idle ELSE th[CHOOSE c \in Drainers : TRUE]
Hand == HandOf(Drainer)
Carried == Hand \o Drainer.q
Line == ring \o Carried \o txq

\* One context drains.
OneDrainer ==
  /\ draining <=> Drainers # {}
  /\ \A c, d \in Drainers : c = d

\* Every command HTC has is in exactly one place.
InOnePlace ==
  /\ IsInjective(Line)
  /\ ToSet(Line) \cap Reaped = {}
  /\ ToSet(Line) \cup Reaped = InHtc

\* Commands other than the PM ones keep the order in which they were queued.
OrderKept == \A p, q \in ToSet(Line) \ PmPkt : Before(Line, p, q) => Before(order, p, q)

\* The lookup queue has the commands of the copy engine in its order, with
\* those whose completion is being handled.
LookupExact ==
  LET sent == ring \o Hand
  IN  /\ IsInjective(lookup)
      /\ ToSet(lookup) = ToSet(sent) \cup Reaped
      /\ \A p, q \in ToSet(sent) : Before(sent, p, q) => Before(lookup, p, q)

\* WMI counts the commands it is sending and those of HTC, fewer than wmi_max_cmds.
WindowExact ==
  /\ pending = Cardinality(InHtc) + Cardinality(Counted)
  /\ Cardinality(InHtc) < MaxCmds

\* Whatever context drains the queue, fails, puts back, completes or flushes:
\* one context drains, every command WMI counts as pending is in exactly one
\* place, fewer than wmi_max_cmds of them are in HTC, commands other than the
\* PM ones keep the order in which they were queued, and the lookup queue has
\* the commands of the copy engine in its order, with those whose completion
\* is being handled, so that htc_lookup_tx_packet finds each of them.
PipelineExact == OneDrainer /\ InOnePlace /\ OrderKept /\ LookupExact /\ WindowExact

\* The packets that are paid for and not with the firmware yet.
Unreceived == ToSet(SubSeq(ring, dma + 1, Len(ring)))
Paid == Unreceived \cup (IF Drainer.pc = "putback" THEN {} ELSE ToSet(Carried))

\* No credit is made up or lost: those of the host, of the commands being
\* issued or on their way, and of the firmware add up, whatever is reclaimed
\* when a send fails and in whatever order completions and credit reports
\* come.  Only a mapping that fails loses credits.
CreditsExact == creditFlow => credits + CostOf(Paid) + held + leaked = Total

\* Every command that is neither queued nor a PM command holds one runtime PM
\* reference until its completion or its return to the queue, so the bus is
\* not suspended under it.  (A PM command whose send fails is put without a
\* get; from then on the count may be short.)
PmBalanced ==
  ~stolen =>
    /\ usage = Cardinality((ToSet(ring \o Carried) \cup Reaped) \ PmPkt)
    /\ bus # "on" => usage = 0

\* The queue is emptied (each command is sent once), though credits run out, the bus gets
\* suspended and other contexts return because someone drains: whoever drains
\* sees the credits that came meanwhile, the low-credit flag makes the
\* firmware return credits, the resume kicks the queue.  (After a failed send
\* nobody looks at the queue until the next event.)
QueueServed ==
  (txq # <<>>) ~> (txq = <<>> \/ failed \/ ~creditFlow)

-----------------------------------------------------------------------------
(***************************************************************************)
(* The inductive invariant: the properties above and what follows.         *)
(***************************************************************************)
\* What a context holds fits the place it has got to.
ContextFits(t) ==
  /\ t.pkt # NoPkt <=> t.pc \in {"count", "send", "hif", "fail", "found"}
  /\ t.pc \notin {"issue", "hif", "fail", "putback"} => t.q = <<>>
  /\ t.pc \in {"found", "allow"} => t.cmpl
  /\ t.pc \in {"idle", "count", "send"} => ~t.cmpl
  /\ t.pc = "putback" => t.q # <<>>

\* A command is sent by one thread and not in HTC before; a completion is
\* handled by one context.
OneHolder ==
  /\ Counted \subseteq Senders
  /\ \A c, d \in Counted : th[c].pkt = th[d].pkt => c = d
  /\ \A c \in Counted : th[c].pkt \notin InHtc
  /\ \A c, d \in Finders : th[c].pkt = th[d].pkt => c = d

\* A thread that found the window open leaves room for its command.
Sending == {c \in Ctx : th[c].pc = "send"}
RoomLeft == Cardinality(InHtc) + Cardinality(Sending) < MaxCmds

\* An entry of the pipe is free, in use, or about to be given back.
Completing == {c \in Ctx : th[c].cmpl}
EntriesExact == free + Len(ring) + Cardinality(Completing) = RingSize

IndInv ==
  /\ TypeOK /\ \A c \in Ctx : ContextFits(th[c])
  /\ IsInjective(order) /\ OneHolder /\ RoomLeft /\ EntriesExact
  /\ PipelineExact /\ CreditsExact /\ PmBalanced
=============================================================================
