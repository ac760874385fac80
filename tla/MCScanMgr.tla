----------------------------- MODULE MCScanMgr -----------------------------
(***************************************************************************)
(* Instances of ScanMgr for TLC: pdev 1 with vdevs 1 and 2, pdev 2 with    *)
(* vdev 3; the last two scans are of vdevs 2 and 3, the others of vdev 1.  *)
(***************************************************************************)
EXTENDS ScanMgr

CONSTANT NScans

MCScan == 1..NScans
MCVdev == 1..3
MCPdev == 1..2
MCVdevOf == [s \in Scan |-> IF s = NScans THEN 3 ELSE IF s = NScans - 1 THEN 2 ELSE 1]
MCPdevOf == [v \in Vdev |-> IF v = 3 THEN 2 ELSE 1]
MCCancelReqs == {[op |-> "single", scan |-> s, vdev |-> VdevOf[s]] : s \in Scan}
                  \cup {[op |-> "wait", scan |-> 1, vdev |-> 1],
                        [op |-> "vdev", scan |-> NoScan, vdev |-> 1],
                        [op |-> "pdev", scan |-> NoScan, vdev |-> 2]}
=============================================================================
