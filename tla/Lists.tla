------------------------------- MODULE Lists -------------------------------
(***************************************************************************)
(* Lists of commands and queues of messages, by the positions of their     *)
(* elements: what is left when some are taken out, and how many there are. *)
(***************************************************************************)
EXTENDS Integers, FiniteSets, SequencesExt

\* The positions of a list that hold a member of S, and their number.
Positions(list, S) == {i \in DOMAIN list : list[i] \in S}
Occurrences(list, S) == Cardinality(Positions(list, S))

\* x stands before y in the list.
Before(list, x, y) == \E i, j \in DOMAIN list : i < j /\ list[i] = x /\ list[j] = y

\* The list without the members of S: the k-th that stays is at the position
\* up to which k stay.
Without(list, S) ==
  [k \in 1..(Len(list) - Occurrences(list, S)) |->
     list[CHOOSE i \in DOMAIN list :
            list[i] \notin S /\ Cardinality({j \in 1..i : list[j] \notin S}) = k]]
=============================================================================
