------------------------------- MODULE ObjLife -------------------------------
(***************************************************************************)
(* What the object manager promises of a reference-counted object: it has  *)
(* a reference as long as it can be found, a new reference is taken only   *)
(* while there is another one, the last one is given up when the object is *)
(* closed and not before, and the object dies then and not before.         *)
(***************************************************************************)
EXTENDS Naturals

VARIABLES
  phase,    \* absent, building, open, closed, dying
  refs      \* how many references there are

lifeVars == <<phase, refs>>

Init == phase = "absent" /\ refs = 0

Move(from, to) == phase \in from /\ phase' = to

\* The creator's own reference is taken with the memory or later.
Alloc == Move({"absent"}, "building") /\ refs = 0 /\ refs' \in {0, 1}
TakeFirst == phase = "building" /\ refs = 0 /\ refs' = 1 /\ UNCHANGED phase

\* The creation is undone before the object was open and shared.
Abandon == Move({"building"}, "absent") /\ refs \in {0, 1} /\ refs' = 0

\* An object is hidden while its components change.
Open == Move({"building"}, "open") /\ refs > 0 /\ UNCHANGED refs
Hide == Move({"open"}, "building") /\ refs > 0 /\ UNCHANGED refs
Close == Move({"building", "open"}, "closed") /\ refs > 0 /\ UNCHANGED refs

Take == refs > 0 /\ refs' = refs + 1 /\ UNCHANGED phase
Drop == refs > 1 /\ refs' = refs - 1 /\ UNCHANGED phase
DropLast == refs = 1 /\ refs' = 0 /\ Move({"closed"}, "dying")

Reclaim == Move({"dying"}, "absent") /\ UNCHANGED refs

Next ==
  \/ Alloc \/ TakeFirst \/ Abandon \/ Open \/ Hide \/ Close
  \/ Take \/ Drop \/ DropLast \/ Reclaim

Spec == Init /\ [][Next]_lifeVars
=============================================================================
