---------------------------- MODULE MCScheduler ----------------------------
(***************************************************************************)
(* Instances of Scheduler for TLC: messages u1 and u2 of the queue of      *)
(* highest priority, l1 and l2 of the other.                               *)
(***************************************************************************)
EXTENDS Scheduler

CONSTANTS u1, u2, l1, l2, p1, p2

MCWhere == [m \in Msg |-> IF m \in {u1, u2} THEN 0 ELSE 1]
=============================================================================
