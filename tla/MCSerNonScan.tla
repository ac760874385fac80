---------------------------- MODULE MCSerNonScan ----------------------------
(* Instances of SerNonScan for TLC. *)
EXTENDS SerNonScan

CONSTANTS a1, b1, a2, b2, c1, a3, v1, v2, v3

\* a1, b1 and c1 run on v1, a2 and b2 on v2, a3 on v3; commands with the same
\* letter have the same cmd_id and cmd_type.
MCVdevOf ==
  [c \in Cmd |-> CASE c \in {a1, b1, c1} -> v1 [] c \in {a2, b2} -> v2 [] c = a3 -> v3]
MCIdType ==
  [c \in Cmd |-> CASE c \in {a1, a2, a3} -> 1 [] c \in {b1, b2} -> 2 [] c = c1 -> 3]

\* wlan_serialization_purge_all_cmd_by_vdev_id
PurgeVdev(v) == [match |-> {c \in Cmd : VdevOf[c] = v}, single |-> FALSE,
                 queues |-> <<"pending", "active">>]
\* wlan_serialization_purge_all_pending_cmd_by_vdev_id
PurgePending(v) == [PurgeVdev(v) EXCEPT !.queues = <<"pending">>]
\* WLAN_SER_CANCEL_NON_SCAN_CMD in both queues
CancelCmd(c) == [CancelOne(c) EXCEPT !.queues = <<"active", "pending">>]
\* WLAN_SER_CANCEL_VDEV_NON_SCAN_NB_CMD in both queues
CancelNonBlocking(v) == [match |-> {c \in Cmd \ Blocking : VdevOf[c] = v},
                         single |-> FALSE, queues |-> <<"active", "pending">>]

\* WLAN_SER_CANCEL_VDEV_NON_SCAN_CMD_TYPE in the pending queue; a1 and b1 have one cmd_type
CancelPendingType == [match |-> {a1, b1} \cap Cmd, single |-> FALSE, queues |-> <<"pending">>]

NoCancels == {}
SeqCancels == {CancelCmd(a1), CancelNonBlocking(v1), PurgePending(v1)}
PurgeV1 == {PurgeVdev(v1)}
CancelTypePending == {CancelPendingType}

NodeSymmetry == Permutations(Node)
=============================================================================
