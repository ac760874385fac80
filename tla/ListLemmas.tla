----------------------------- MODULE ListLemmas -----------------------------
(***************************************************************************)
(* What the list primitives of the queues (qdf_list) do to the set of the  *)
(* nodes in a list: facts the proofs about the queues share.  A list that  *)
(* links no node twice is an injective sequence.                           *)
(***************************************************************************)
EXTENDS Integers, FiniteSets, SequencesExt, Lists, SequenceTheorems,
        FiniteSetTheorems, WellFoundedInduction, TLAPS

(***************************************************************************)
(* A non-empty set of positions has a first one: the element a search from *)
(* the front of a list stops at.                                           *)
(***************************************************************************)
LEMMA MinIsFirst ==
  ASSUME NEW T \in SUBSET Nat, T # {}
  PROVE  Min(T) \in T /\ \A i \in T : Min(T) <= i
<1>1. IsWellFoundedOn(OpToRel(<, Nat), Nat)
  BY NatLessThanWellFounded, Zenon
<1>2. PICK x \in T : \A y \in T : ~(<<y, x>> \in OpToRel(<, Nat))
  BY <1>1, WFMin, Zenon
<1>3. \A y \in T : ~(y < x)
  BY <1>2, Zenon DEF OpToRel
<1>4. \A y \in T : x <= y
  BY <1>3, SMT
<1> QED
  BY <1>4 DEF Min

\* A non-empty set of positions of a list has a last one.
LEMMA MaxIsLast ==
  ASSUME NEW N \in Nat, NEW T \in SUBSET (0..N), T # {}
  PROVE  Max(T) \in T
<1> DEFINE U == {N - i : i \in T}
<1>0. \A i \in T : i \in Int /\ N - i \in Nat
  OBVIOUS
<1>1. U \in SUBSET Nat /\ U # {}
  BY <1>0
<1>2. Min(U) \in U /\ \A j \in U : Min(U) <= j
  BY <1>1, MinIsFirst
<1>3. PICK x \in T : Min(U) = N - x
  BY <1>2
<1>4. \A y \in T : N - x <= N - y
  BY <1>2, <1>3
<1>5. \A y \in T : x >= y
  BY <1>0, <1>4
<1> QED
  BY <1>5 DEF Max

\* The members of a list are what it was built from.
LEMMA ToSetType ==
  ASSUME NEW S, NEW s \in Seq(S)
  PROVE  /\ ToSet(s) \subseteq S
         /\ s # <<>> => Head(s) \in ToSet(s) /\ Head(s) = s[1] /\ Len(s) > 0
         /\ s = <<>> <=> ToSet(s) = {}
<1>1. DOMAIN s = 1..Len(s) /\ Len(s) \in Nat
  BY LenProperties
<1>2. s # <<>> => 1 \in DOMAIN s
  BY <1>1, EmptySeq
<1>3. s = <<>> => ToSet(s) = {}
  BY <1>1 DEF ToSet
<1>4. QED
  BY <1>1, <1>2, <1>3, ElementOfSeq DEF ToSet

\* insert_back: one member more, and still no node twice.
LEMMA AppendMembers ==
  ASSUME NEW S, NEW s \in Seq(S), NEW x \in S
  PROVE  /\ Append(s, x) \in Seq(S)
         /\ Append(s, x) # <<>>
         /\ ToSet(Append(s, x)) = ToSet(s) \cup {x}
         /\ IsInjective(s) /\ x \notin ToSet(s) => IsInjective(Append(s, x))
<1> DEFINE a == Append(s, x)
<1>1. /\ a \in Seq(S) /\ Len(s) \in Nat /\ a # <<>>
      /\ DOMAIN s = 1..Len(s) /\ DOMAIN a = 1..(Len(s) + 1)
      /\ \A i \in 1..Len(s) : a[i] = s[i]
      /\ a[Len(s) + 1] = x
  BY AppendProperties, LenProperties
<1>2. ToSet(a) = ToSet(s) \cup {x}
  <2> HIDE DEF a
  <2>1. ASSUME NEW y \in ToSet(a) PROVE y \in ToSet(s) \cup {x}
    <3>1. PICK i \in DOMAIN a : y = a[i]
      BY <2>1 DEF ToSet
    <3>2. CASE i = Len(s) + 1
      BY <3>1, <3>2, <1>1
    <3>3. CASE i # Len(s) + 1
      <4>1. i \in DOMAIN s /\ y = s[i]
        BY <3>1, <3>3, <1>1
      <4> QED
        BY <4>1 DEF ToSet
    <3> QED
      BY <3>2, <3>3
  <2>2. ASSUME NEW y \in ToSet(s) PROVE y \in ToSet(a)
    <3>1. PICK i \in DOMAIN s : y = s[i]
      BY <2>2 DEF ToSet
    <3>2. i \in DOMAIN a /\ a[i] = y
      BY <3>1, <1>1
    <3> QED
      BY <3>2 DEF ToSet
  <2>3. x \in ToSet(a)
    <3>1. Len(s) + 1 \in DOMAIN a
      BY <1>1
    <3> QED
      BY <3>1, <1>1 DEF ToSet
  <2> QED
    BY <2>1, <2>2, <2>3
<1>3. ASSUME IsInjective(s), x \notin ToSet(s) PROVE IsInjective(a)
  <2> HIDE DEF a
  <2>1. \A i \in DOMAIN s : s[i] # x
    BY <1>3 DEF ToSet
  <2> QED
    BY <1>1, <1>3, <2>1 DEF IsInjective
<1> QED
  BY <1>1, <1>2, <1>3

\* insert_front.
LEMMA ConsMembers ==
  ASSUME NEW S, NEW s \in Seq(S), NEW x \in S
  PROVE  /\ Cons(x, s) \in Seq(S)
         /\ Cons(x, s) # <<>>
         /\ ToSet(Cons(x, s)) = ToSet(s) \cup {x}
         /\ IsInjective(s) /\ x \notin ToSet(s) => IsInjective(Cons(x, s))
<1> DEFINE a == Cons(x, s)
<1>0. <<x>> \in Seq(S) /\ Len(<<x>>) = 1 /\ <<x>>[1] = x
  OBVIOUS
<1>1. /\ a \in Seq(S) /\ Len(s) \in Nat /\ Len(a) = Len(s) + 1
      /\ DOMAIN s = 1..Len(s) /\ DOMAIN a = 1..(Len(s) + 1)
      /\ a[1] = x
      /\ \A i \in 2..(Len(s) + 1) : a[i] = s[i - 1]
  <2>1. /\ a \in Seq(S) /\ Len(a) = 1 + Len(s)
        /\ \A i \in 1..(1 + Len(s)) : a[i] = IF i <= 1 THEN <<x>>[i] ELSE s[i - 1]
    BY <1>0, ConcatProperties DEF Cons
  <2>2. Len(s) \in Nat /\ DOMAIN s = 1..Len(s) /\ DOMAIN a = 1..Len(a)
    BY <2>1, LenProperties
  <2> HIDE DEF a
  <2> QED
    BY <2>1, <2>2, <1>0
<1>2. ToSet(a) = ToSet(s) \cup {x} /\ a # <<>>
  <2> HIDE DEF a
  <2>1. ASSUME NEW y \in ToSet(a) PROVE y \in ToSet(s) \cup {x}
    <3>1. PICK i \in DOMAIN a : y = a[i]
      BY <2>1 DEF ToSet
    <3>2. CASE i = 1
      BY <3>1, <3>2, <1>1
    <3>3. CASE i # 1
      <4>1. i - 1 \in DOMAIN s /\ y = s[i - 1]
        BY <3>1, <3>3, <1>1
      <4> QED
        BY <4>1 DEF ToSet
    <3> QED
      BY <3>2, <3>3
  <2>2. ASSUME NEW y \in ToSet(s) PROVE y \in ToSet(a)
    <3>1. PICK i \in DOMAIN s : y = s[i]
      BY <2>2 DEF ToSet
    <3>2. i + 1 \in DOMAIN a /\ a[i + 1] = y
      <4>1. i + 1 \in 2..(Len(s) + 1) /\ (i + 1) - 1 = i
        BY <3>1, <1>1
      <4> QED
        BY <4>1, <3>1, <1>1
    <3> QED
      BY <3>2 DEF ToSet
  <2>3. x \in ToSet(a)
    <3>1. 1 \in DOMAIN a
      BY <1>1
    <3> QED
      BY <3>1, <1>1 DEF ToSet
  <2>4. a # <<>>
    BY <1>1
  <2> QED
    BY <2>1, <2>2, <2>3, <2>4
<1>3. ASSUME IsInjective(s), x \notin ToSet(s) PROVE IsInjective(a)
  <2> HIDE DEF a
  <2>1. \A i \in DOMAIN s : s[i] # x
    BY <1>3 DEF ToSet
  <2>2. ASSUME NEW i \in DOMAIN a, NEW j \in DOMAIN a, i < j PROVE a[i] # a[j]
    <3>1. j - 1 \in DOMAIN s /\ a[j] = s[j - 1]
      BY <2>2, <1>1
    <3>2. CASE i = 1
      BY <3>1, <3>2, <2>1, <1>1
    <3>3. CASE i # 1
      <4>1. i - 1 \in DOMAIN s /\ a[i] = s[i - 1] /\ i - 1 # j - 1
        BY <2>2, <3>3, <1>1
      <4> QED
        BY <4>1, <3>1, <1>3 DEF IsInjective
    <3> QED
      BY <3>2, <3>3
  <2>3. ASSUME NEW i \in DOMAIN a, NEW j \in DOMAIN a, i # j PROVE a[i] # a[j]
    <3>1. i < j \/ j < i
      BY <2>3, <1>1
    <3> QED
      BY <3>1, <2>2
  <2> QED
    BY <2>3 DEF IsInjective
<1> QED
  BY <1>1, <1>2, <1>3

\* remove_front.
LEMMA TailMembers ==
  ASSUME NEW S, NEW s \in Seq(S), s # <<>>, IsInjective(s)
  PROVE  /\ Tail(s) \in Seq(S)
         /\ IsInjective(Tail(s))
         /\ ToSet(Tail(s)) = ToSet(s) \ {Head(s)}
<1> DEFINE a == Tail(s)
<1>1. /\ a \in Seq(S) /\ Len(s) \in Nat \ {0}
      /\ DOMAIN s = 1..Len(s) /\ DOMAIN a = 1..(Len(s) - 1)
      /\ \A i \in 1..(Len(s) - 1) : a[i] = s[i + 1]
      /\ Head(s) = s[1]
  BY HeadTailProperties, LenProperties, EmptySeq
<1> HIDE DEF a
<1>2. IsInjective(a)
  <2>1. ASSUME NEW i \in DOMAIN a, NEW j \in DOMAIN a, i # j PROVE a[i] # a[j]
    <3>1. i + 1 \in DOMAIN s /\ j + 1 \in DOMAIN s /\ i + 1 # j + 1
      BY <2>1, <1>1
    <3> QED
      BY <3>1, <1>1, <2>1 DEF IsInjective
  <2> QED
    BY <2>1 DEF IsInjective
<1>3. ASSUME NEW y \in ToSet(a) PROVE y \in ToSet(s) \ {Head(s)}
  <2>1. PICK i \in DOMAIN a : y = a[i]
    BY <1>3 DEF ToSet
  <2>2. i + 1 \in DOMAIN s /\ y = s[i + 1] /\ i + 1 # 1 /\ 1 \in DOMAIN s
    BY <2>1, <1>1
  <2>3. s[i + 1] # s[1]
    BY <2>2 DEF IsInjective
  <2> QED
    BY <2>2, <2>3, <1>1 DEF ToSet
<1>4. ASSUME NEW y \in ToSet(s) \ {Head(s)} PROVE y \in ToSet(a)
  <2>1. PICK i \in DOMAIN s : y = s[i]
    BY <1>4 DEF ToSet
  <2>2. i # 1
    BY <2>1, <1>1, <1>4
  <2>3. i - 1 \in DOMAIN a /\ a[i - 1] = s[(i - 1) + 1] /\ (i - 1) + 1 = i
    BY <2>1, <2>2, <1>1
  <2> QED
    BY <2>1, <2>3 DEF ToSet
<1> QED
  BY <1>1, <1>2, <1>3, <1>4 DEF a

\* remove_node: the member is gone, the others stay.
LEMMA RemoveMembers ==
  ASSUME NEW S, NEW s \in Seq(S), IsInjective(s), NEW x \in ToSet(s)
  PROVE  /\ RemoveFirst(s, x) \in Seq(S)
         /\ IsInjective(RemoveFirst(s, x))
         /\ ToSet(RemoveFirst(s, x)) = ToSet(s) \ {x}
<1> DEFINE I == {i \in 1..Len(s) : s[i] = x}
           m == Min(I)
           l == SubSeq(s, 1, m - 1)
           r == SubSeq(s, m + 1, Len(s))
           a == l \o r
<1>1. DOMAIN s = 1..Len(s) /\ Len(s) \in Nat
  BY LenProperties
<1>2. I # {} /\ I \in SUBSET Nat
  BY <1>1 DEF ToSet
<1>3. m \in I
  BY <1>2, MinIsFirst
<1>4. RemoveFirst(s, x) = a
  BY <1>1, <1>2 DEF RemoveFirst, RemoveAt, SelectInSeq
<1>5. m \in 1..Len(s) /\ s[m] = x
  BY <1>3
<1> HIDE DEF I, m
<1>6. /\ l \in Seq(S) /\ Len(l) = m - 1
      /\ \A i \in 1..(m - 1) : l[i] = s[i]
  <2>1. \A i \in 1..(m - 1) : s[i] \in S
    BY <1>1, <1>5, ElementOfSeq
  <2>2. /\ l \in Seq(S)
        /\ Len(l) = IF 1 <= m - 1 THEN (m - 1) - 1 + 1 ELSE 0
        /\ \A i \in 1..((m - 1) - 1 + 1) : l[i] = s[1 + i - 1]
    BY <2>1, <1>5, SubSeqProperties
  <2>3. \A i \in 1..(m - 1) : 1 + i - 1 = i
    BY <1>5
  <2> QED
    BY <2>2, <2>3, <1>5
<1>7. /\ r \in Seq(S) /\ Len(r) = Len(s) - m
      /\ \A i \in 1..(Len(s) - m) : r[i] = s[i + m]
  <2>1. \A i \in (m + 1)..Len(s) : s[i] \in S
    BY <1>1, <1>5, ElementOfSeq
  <2>2. /\ r \in Seq(S)
        /\ Len(r) = IF m + 1 <= Len(s) THEN Len(s) - (m + 1) + 1 ELSE 0
        /\ \A i \in 1..(Len(s) - (m + 1) + 1) : r[i] = s[(m + 1) + i - 1]
    BY <2>1, <1>1, <1>5, SubSeqProperties
  <2>3. /\ Len(s) - (m + 1) + 1 = Len(s) - m
        /\ \A i \in 1..(Len(s) - m) : (m + 1) + i - 1 = i + m
    BY <1>1, <1>5
  <2> HIDE DEF r
  <2>4. Len(r) = Len(s) - m
    <3>1. Len(r) = IF m + 1 <= Len(s) THEN Len(s) - (m + 1) + 1 ELSE 0
      BY <2>2
    <3>2. m \in Int /\ m <= Len(s) /\ Len(s) \in Int
      BY <1>1, <1>5
    <3>3. CASE m + 1 <= Len(s)
      BY <3>1, <3>2, <3>3
    <3>4. CASE m = Len(s)
      BY <3>1, <3>2, <3>4
    <3> QED
      BY <3>2, <3>3, <3>4
  <2>5. \A i \in 1..(Len(s) - m) : r[i] = s[i + m]
    BY <2>2, <2>3, Zenon
  <2> QED
    BY <2>2, <2>4, <2>5
<1>8. /\ a \in Seq(S) /\ DOMAIN a = 1..(Len(s) - 1)
      /\ \A i \in 1..(Len(s) - 1) : a[i] = IF i < m THEN s[i] ELSE s[i + 1]
  <2>1. /\ a \in Seq(S) /\ Len(a) = Len(l) + Len(r)
        /\ \A i \in 1..(Len(l) + Len(r)) :
              a[i] = IF i <= Len(l) THEN l[i] ELSE r[i - Len(l)]
    BY <1>6, <1>7, ConcatProperties
  <2>2. DOMAIN a = 1..Len(a)
    BY <2>1, LenProperties
  <2> HIDE DEF l, r, a
  <2>3. Len(l) + Len(r) = Len(s) - 1
    BY <1>1, <1>5, <1>6, <1>7
  <2>4. ASSUME NEW i \in 1..(Len(s) - 1), i < m PROVE a[i] = s[i]
    BY <2>1, <2>3, <2>4, <1>1, <1>5, <1>6
  <2>5. ASSUME NEW i \in 1..(Len(s) - 1), ~(i < m) PROVE a[i] = s[i + 1]
    <3>1. i - Len(l) \in 1..(Len(s) - m) /\ (i - Len(l)) + m = i + 1
      BY <2>5, <1>1, <1>5, <1>6
    <3>2. a[i] = r[i - Len(l)]
      BY <2>1, <2>3, <2>5, <1>1, <1>5, <1>6
    <3>3. r[i - Len(l)] = s[(i - Len(l)) + m]
      BY <3>1, <1>7
    <3> QED
      BY <3>1, <3>2, <3>3
  <2> QED
    BY <2>1, <2>2, <2>3, <2>4, <2>5
<1> HIDE DEF l, r, a
<1> DEFINE pos(i) == IF i < m THEN i ELSE i + 1
<1>9. \A i \in DOMAIN a : pos(i) \in DOMAIN s /\ pos(i) # m /\ a[i] = s[pos(i)]
  BY <1>1, <1>5, <1>8
<1>10. \A i, j \in DOMAIN a : i # j => pos(i) # pos(j)
  BY <1>1, <1>5, <1>8
<1>11. IsInjective(a)
  <2> HIDE DEF pos
  <2> QED
    BY <1>9, <1>10 DEF IsInjective
<1>12. ASSUME NEW y \in ToSet(a) PROVE y \in ToSet(s) \ {x}
  <2>1. PICK i \in DOMAIN a : y = a[i]
    BY <1>12 DEF ToSet
  <2>2. pos(i) \in DOMAIN s /\ y = s[pos(i)] /\ pos(i) # m /\ m \in DOMAIN s
    BY <2>1, <1>9, <1>5, <1>1
  <2> HIDE DEF pos
  <2>3. s[pos(i)] # s[m]
    BY <2>2 DEF IsInjective
  <2> QED
    BY <2>2, <2>3, <1>5 DEF ToSet
<1>13. ASSUME NEW y \in ToSet(s) \ {x} PROVE y \in ToSet(a)
  <2>1. PICK i \in DOMAIN s : y = s[i]
    BY <1>13 DEF ToSet
  <2>2. i # m
    BY <2>1, <1>5, <1>13
  <2>3. CASE i < m
    <3>1. i \in DOMAIN a /\ a[i] = s[i]
      BY <2>1, <2>3, <1>1, <1>5, <1>8
    <3> QED
      BY <3>1, <2>1 DEF ToSet
  <2>4. CASE ~(i < m)
    <3>1. i - 1 \in DOMAIN a /\ a[i - 1] = s[(i - 1) + 1] /\ (i - 1) + 1 = i
      BY <2>1, <2>2, <2>4, <1>1, <1>5, <1>8
    <3> QED
      BY <3>1, <2>1 DEF ToSet
  <2> QED
    BY <2>3, <2>4
<1> QED
  BY <1>4, <1>8, <1>11, <1>12, <1>13

\* A list of distinct nodes is as long as the set of its members.
LEMMA DistinctLen ==
  ASSUME NEW S, NEW s \in Seq(S), IsInjective(s)
  PROVE  /\ IsFiniteSet(ToSet(s))
         /\ Cardinality(ToSet(s)) = Len(s)
<1>1. DOMAIN s = 1..Len(s) /\ Len(s) \in Nat
  BY LenProperties
<1>2. s \in Surjection(1..Len(s), ToSet(s)) /\ s \in Injection(1..Len(s), ToSet(s))
  <2>1. s \in [1..Len(s) -> ToSet(s)]
    <3>1. s \in [1..Len(s) -> S]
      BY LenProperties
    <3> QED
      BY <3>1, <1>1 DEF ToSet
  <2> QED
    BY <2>1, <1>1 DEF Surjection, Injection, ToSet, IsInjective
<1>3. IsFiniteSet(1..Len(s)) /\ Cardinality(1..Len(s)) = Len(s)
  BY <1>1, FS_Interval
<1> QED
  BY <1>2, <1>3, FS_Surjection


\* The positions of a list are finitely many.
LEMMA PositionsFinite ==
  ASSUME NEW S, NEW s \in Seq(S), NEW T
  PROVE  /\ IsFiniteSet(DOMAIN s) /\ IsFiniteSet(Positions(s, T))
         /\ Occurrences(s, T) \in Nat
<1>1. IsFiniteSet(DOMAIN s)
  BY LenProperties, FS_Interval
<1>2. Positions(s, T) \in SUBSET (DOMAIN s)
  BY DEF Positions
<1>3. IsFiniteSet(Positions(s, T))
  BY <1>1, <1>2, FS_Subset
<1> QED
  BY <1>1, <1>3, FS_CardinalityType DEF Occurrences

\* A message that is posted counts once.
LEMMA AppendOccurrences ==
  ASSUME NEW S, NEW s \in Seq(S), NEW x \in S, NEW T
  PROVE  Occurrences(Append(s, x), T) = Occurrences(s, T) + (IF x \in T THEN 1 ELSE 0)
<1> DEFINE a == Append(s, x)
<1>1. /\ Len(s) \in Nat
      /\ DOMAIN s = 1..Len(s) /\ DOMAIN a = 1..(Len(s) + 1)
      /\ \A i \in 1..Len(s) : a[i] = s[i]
      /\ a[Len(s) + 1] = x
  BY AppendProperties, LenProperties
<1>2. IsFiniteSet(Positions(s, T)) /\ Occurrences(s, T) \in Nat
  BY PositionsFinite
<1> HIDE DEF a
<1>3. Len(s) + 1 \notin Positions(s, T)
  BY <1>1 DEF Positions
<1>4. CASE x \in T
  <2>1. Positions(a, T) = Positions(s, T) \cup {Len(s) + 1}
    BY <1>1, <1>4 DEF Positions
  <2> QED
    BY <2>1, <1>2, <1>3, <1>4, FS_AddElement DEF Occurrences, a
<1>5. CASE x \notin T
  <2>1. Positions(a, T) = Positions(s, T)
    BY <1>1, <1>5 DEF Positions
  <2> QED
    BY <2>1, <1>2, <1>5 DEF Occurrences, a
<1> QED
  BY <1>4, <1>5

\* A message that is taken counts no more.
LEMMA TailOccurrences ==
  ASSUME NEW S, NEW s \in Seq(S), s # <<>>, NEW T
  PROVE  /\ Tail(s) \in Seq(S) /\ Head(s) \in ToSet(s) /\ Head(s) \in S
         /\ ToSet(Tail(s)) \subseteq ToSet(s) /\ ToSet(s) = ToSet(Tail(s)) \cup {Head(s)}
         /\ Occurrences(Tail(s), T) = Occurrences(s, T) - (IF Head(s) \in T THEN 1 ELSE 0)
<1> DEFINE a == Tail(s)
           P == Positions(s, T) \ {1}
           Q == Positions(a, T)
<1>1. /\ a \in Seq(S) /\ Len(s) \in Nat \ {0}
      /\ DOMAIN s = 1..Len(s) /\ DOMAIN a = 1..(Len(s) - 1)
      /\ \A i \in 1..(Len(s) - 1) : a[i] = s[i + 1]
      /\ Head(s) = s[1]
  BY HeadTailProperties, LenProperties, EmptySeq
<1>2. /\ IsFiniteSet(Positions(s, T)) /\ Occurrences(s, T) \in Nat
      /\ IsFiniteSet(Q) /\ Occurrences(a, T) \in Nat
  BY <1>1, PositionsFinite
<1> HIDE DEF a
<1>3. Cardinality(Q) = Cardinality(P)
  <2> DEFINE f == [i \in Q |-> i + 1]
  <2>1. f \in [Q -> P]
    BY <1>1 DEF Positions
  <2>2. \A i, j \in Q : f[i] = f[j] => i = j
    BY <1>1 DEF Positions
  <2>3. \A k \in P : k - 1 \in Q /\ f[k - 1] = k
    BY <1>1 DEF Positions
  <2> HIDE DEF f
  <2>4. f \in Bijection(Q, P)
    BY <2>1, <2>2, <2>3, Zenon DEF Bijection, Injection, Surjection, IsInjective
  <2>5. ExistsBijection(Q, P)
    BY <2>4 DEF ExistsBijection
  <2> QED
    BY <2>5, <1>2, FS_Bijection
<1>4. Cardinality(P) = Occurrences(s, T) - (IF Head(s) \in T THEN 1 ELSE 0)
  <2>1. 1 \in Positions(s, T) <=> Head(s) \in T
    BY <1>1 DEF Positions
  <2>2. Cardinality(P) = IF 1 \in Positions(s, T) THEN Occurrences(s, T) - 1
                                                  ELSE Occurrences(s, T)
    BY <1>2, FS_RemoveElement, Zenon DEF Occurrences
  <2> HIDE DEF P
  <2> QED
    BY <2>1, <2>2, <1>2
<1>5. \A i \in DOMAIN s : i = 1 \/ (i - 1 \in DOMAIN a /\ s[i] = a[i - 1])
  BY <1>1
<1>6. \A i \in DOMAIN a : i + 1 \in DOMAIN s /\ s[i + 1] = a[i]
  BY <1>1
<1>7. Head(s) \in ToSet(s) /\ Head(s) \in S
  BY ToSetType
<1>8. ToSet(a) \subseteq ToSet(s)
  BY <1>6 DEF ToSet
<1>9. ToSet(s) \subseteq ToSet(a) \cup {Head(s)}
  BY <1>1, <1>5 DEF ToSet
<1> QED
  BY <1>1, <1>3, <1>4, <1>7, <1>8, <1>9 DEF Occurrences, a

\* The places in a list of the elements that stay when those of T are taken out.
Stays(s, T) == {i \in DOMAIN s : s[i] \notin T}

\* at says from which place of s each element of w comes, in the order of s.
Picks(w, s, T, at) ==
  /\ at \in [DOMAIN w -> Stays(s, T)]
  /\ \A k \in DOMAIN w : w[k] = s[at[k]]
  /\ \A k, l \in DOMAIN w : k < l <=> at[k] < at[l]
  /\ \A i \in Stays(s, T) : \E k \in DOMAIN w : at[k] = i

\* Without takes every element that stays, once and in the order of the list.
LEMMA WithoutPicks ==
  ASSUME NEW S, NEW s \in Seq(S), NEW T
  PROVE  /\ Without(s, T) \in Seq(S)
         /\ \E at : Picks(Without(s, T), s, T, at)
<1> DEFINE kept == Stays(s, T)
           n == Len(s) - Occurrences(s, T)
           UpTo(i) == {j \in 1..i : s[j] \notin T}
           rank == [i \in kept |-> Cardinality(UpTo(i))]
           Nth(k) == CHOOSE i \in DOMAIN s : s[i] \notin T /\ Cardinality(UpTo(i)) = k
           w == [k \in 1..n |-> s[Nth(k)]]
           at == [k \in 1..n |-> Nth(k)]
<1>1. w = Without(s, T)
  BY DEF Without
<1>2. /\ DOMAIN s = 1..Len(s) /\ Len(s) \in Nat /\ kept \subseteq Nat
      /\ IsFiniteSet(kept) /\ n \in Nat /\ n = Cardinality(kept)
  <2>1. DOMAIN s = 1..Len(s) /\ Len(s) \in Nat
    BY LenProperties
  <2>2. Positions(s, T) \in SUBSET (DOMAIN s) /\ kept = DOMAIN s \ Positions(s, T)
    BY DEF Positions, Stays
  <2>3. IsFiniteSet(DOMAIN s) /\ Cardinality(DOMAIN s) = Len(s)
    BY <2>1, FS_Interval
  <2>4. /\ IsFiniteSet(kept)
        /\ Cardinality(kept) = Cardinality(DOMAIN s) - Cardinality(DOMAIN s \cap Positions(s, T))
    BY <2>2, <2>3, PositionsFinite, FS_Difference
  <2>5. DOMAIN s \cap Positions(s, T) = Positions(s, T)
    BY <2>2
  <2>6. n = Cardinality(kept) /\ n \in Nat
    BY <2>3, <2>4, <2>5, FS_CardinalityType DEF Occurrences
  <2> QED
    BY <2>1, <2>2, <2>4, <2>6
<1>3. \A i \in kept : IsFiniteSet(UpTo(i)) /\ Cardinality(UpTo(i)) \in 1..n
  <2> TAKE i \in kept
  <2>1. UpTo(i) \in SUBSET kept /\ i \in UpTo(i)
    BY <1>2 DEF Stays
  <2>2. IsFiniteSet(UpTo(i)) /\ Cardinality(UpTo(i)) <= Cardinality(kept)
    BY <2>1, <1>2, FS_Subset
  <2>3. Cardinality(UpTo(i)) \in Nat /\ Cardinality(UpTo(i)) # 0
    BY <2>1, <2>2, FS_CardinalityType, FS_EmptySet
  <2> QED
    BY <2>2, <2>3, <1>2
<1>4. ASSUME NEW i \in kept, NEW j \in kept, i < j
      PROVE  rank[i] < rank[j]
  <2>1. UpTo(i) \in SUBSET UpTo(j) /\ j \in UpTo(j) /\ j \notin UpTo(i)
    BY <1>4, <1>2 DEF Stays
  <2>2. /\ Cardinality(UpTo(i)) <= Cardinality(UpTo(j))
        /\ Cardinality(UpTo(i)) # Cardinality(UpTo(j))
    BY <2>1, <1>3, FS_Subset
  <2>3. Cardinality(UpTo(i)) \in Nat /\ Cardinality(UpTo(j)) \in Nat
    <3>1. Cardinality(UpTo(i)) \in 1..n /\ Cardinality(UpTo(j)) \in 1..n
      BY <1>3
    <3> HIDE DEF UpTo, n
    <3> QED
      BY <3>1, <1>2
  <2>4. rank[i] = Cardinality(UpTo(i)) /\ rank[j] = Cardinality(UpTo(j))
    OBVIOUS
  <2> HIDE DEF rank, UpTo
  <2> QED
    BY <2>2, <2>3, <2>4
<1>5. rank \in Injection(kept, 1..n)
  <2>1. rank \in [kept -> 1..n]
    BY <1>3
  <2>2. \A i, j \in kept : i # j => i < j \/ j < i
    BY <1>2
  <2> HIDE DEF rank, kept
  <2>3. ASSUME NEW i \in kept, NEW j \in kept, rank[i] = rank[j]
        PROVE  i = j
    <3>1. rank[i] \in Nat /\ rank[j] \in Nat
      BY <2>1, <1>2
    <3>2. ~(i < j) /\ ~(j < i)
      BY <2>3, <3>1, <1>4
    <3> QED
      BY <3>2, <2>2
  <2> QED
    BY <2>1, <2>3 DEF Injection, IsInjective
<1>6. rank \in Surjection(kept, 1..n)
  <2>1. IsFiniteSet(1..n) /\ Cardinality(1..n) = n
    BY <1>2, FS_Interval
  <2> QED
    BY <1>2, <1>5, <2>1, FS_Injection
<1>7. \A k \in 1..n : Nth(k) \in kept /\ rank[Nth(k)] = k
  <2> TAKE k \in 1..n
  <2>1. \E i \in kept : Cardinality(UpTo(i)) = k
    BY <1>6 DEF Surjection
  <2>2. \E i \in DOMAIN s : s[i] \notin T /\ Cardinality(UpTo(i)) = k
    BY <2>1 DEF Stays
  <2> QED
    BY <2>2 DEF Stays
<1>8. \A i \in kept : rank[i] \in 1..n /\ Nth(rank[i]) = i
  <2> TAKE i \in kept
  <2>1. rank[i] \in 1..n
    BY <1>3
  <2>2. Nth(rank[i]) \in kept /\ rank[Nth(rank[i])] = rank[i]
    BY <2>1, <1>7
  <2> QED
    BY <2>1, <2>2, <1>5 DEF Injection, IsInjective
<1>9. \A i \in kept : s[i] \in S
  BY LenProperties, ElementOfSeq DEF Stays
<1> HIDE DEF Nth, UpTo, kept, rank, n
<1>10. w \in [1..n -> S] /\ DOMAIN w = 1..n /\ \A k \in 1..n : w[k] = s[at[k]]
  BY <1>7, <1>9
<1>11. w \in Seq(S)
  BY <1>10, <1>2, SeqDef
<1>12. at \in [1..n -> kept] /\ \A i \in kept : \E k \in 1..n : at[k] = i
  BY <1>7, <1>8
<1>13. \A k, l \in 1..n : k < l <=> at[k] < at[l]
  <2> TAKE k \in 1..n, l \in 1..n
  <2>1. at[k] \in kept /\ at[l] \in kept /\ rank[at[k]] = k /\ rank[at[l]] = l
    BY <1>7
  <2>2. at[k] \in Nat /\ at[l] \in Nat
    BY <2>1, <1>2
  <2>3. at[k] < at[l] => k < l
    BY <2>1, <1>4
  <2>4. at[l] < at[k] => l < k
    BY <2>1, <1>4
  <2>5. k # l => at[k] # at[l]
    BY <2>1
  <2> QED
    BY <2>2, <2>3, <2>4, <2>5, <1>2
<1> HIDE DEF w, at
<1>14. Picks(w, s, T, at)
  BY <1>10, <1>12, <1>13 DEF Picks, kept
<1> QED
  BY <1>1, <1>11, <1>14

\* Taking the members of a set out of a list leaves the others, in their order.
LEMMA WithoutMembers ==
  ASSUME NEW S, NEW s \in Seq(S), NEW T
  PROVE  /\ Without(s, T) \in Seq(S)
         /\ ToSet(Without(s, T)) = ToSet(s) \ T
         /\ IsInjective(s) => IsInjective(Without(s, T))
<1> DEFINE w == Without(s, T)
<1>1. w \in Seq(S)
  BY WithoutPicks
<1>2. PICK at : Picks(w, s, T, at)
  BY WithoutPicks
<1>3. DOMAIN w = 1..Len(w) /\ Len(w) \in Nat
  BY <1>1, LenProperties
<1> HIDE DEF w
<1>4. ToSet(w) = ToSet(s) \ T
  <2>1. ToSet(w) \subseteq ToSet(s) \ T
    BY <1>2 DEF Picks, Stays, ToSet
  <2>2. ASSUME NEW x \in ToSet(s), x \notin T PROVE x \in ToSet(w)
    <3>1. PICK i \in DOMAIN s : s[i] = x
      BY DEF ToSet
    <3>2. i \in Stays(s, T)
      BY <2>2, <3>1 DEF Stays
    <3>3. PICK k \in DOMAIN w : at[k] = i
      BY <3>2, <1>2 DEF Picks
    <3> QED
      BY <3>1, <3>3, <1>2 DEF Picks, ToSet
  <2> QED
    BY <2>1, <2>2
<1>5. ASSUME IsInjective(s) PROVE IsInjective(w)
  <2>1. ASSUME NEW k \in DOMAIN w, NEW l \in DOMAIN w, w[k] = w[l] PROVE k = l
    <3>1. at[k] \in DOMAIN s /\ at[l] \in DOMAIN s /\ s[at[k]] = s[at[l]]
      BY <2>1, <1>2 DEF Picks, Stays
    <3>2. at[k] = at[l] /\ at[k] \in Int
      BY <3>1, <1>5, LenProperties DEF IsInjective
    <3>3. ~(k < l) /\ ~(l < k)
      BY <3>2, <1>2 DEF Picks
    <3> QED
      BY <3>3, <1>3
  <2> QED
    BY <2>1 DEF IsInjective
<1> QED
  BY <1>1, <1>4, <1>5 DEF w

\* Two that stay keep their order.
LEMMA WithoutBefore ==
  ASSUME NEW S, NEW s \in Seq(S), NEW T, NEW x, NEW y
  PROVE  Before(Without(s, T), x, y) <=> Before(s, x, y) /\ x \notin T /\ y \notin T
<1> DEFINE w == Without(s, T)
<1>1. PICK at : Picks(w, s, T, at)
  BY WithoutPicks
<1> HIDE DEF w
<1>2. ASSUME Before(w, x, y)
      PROVE  Before(s, x, y) /\ x \notin T /\ y \notin T
  <2>1. PICK k \in DOMAIN w, l \in DOMAIN w : k < l /\ w[k] = x /\ w[l] = y
    BY <1>2 DEF Before
  <2>2. at[k] \in Stays(s, T) /\ at[l] \in Stays(s, T) /\ at[k] < at[l]
    BY <2>1, <1>1 DEF Picks
  <2>3. s[at[k]] = x /\ s[at[l]] = y
    BY <2>1, <1>1 DEF Picks
  <2> QED
    BY <2>2, <2>3 DEF Before, Stays
<1>3. ASSUME Before(s, x, y), x \notin T, y \notin T
      PROVE  Before(w, x, y)
  <2>1. PICK i \in DOMAIN s, j \in DOMAIN s : i < j /\ s[i] = x /\ s[j] = y
    BY <1>3 DEF Before
  <2>2. i \in Stays(s, T) /\ j \in Stays(s, T)
    BY <2>1, <1>3 DEF Stays
  <2>3. PICK k \in DOMAIN w : at[k] = i
    BY <2>2, <1>1 DEF Picks
  <2>4. PICK l \in DOMAIN w : at[l] = j
    BY <2>2, <1>1 DEF Picks
  <2>5. k < l
    BY <2>1, <2>3, <2>4, <1>1 DEF Picks
  <2>6. w[k] = x /\ w[l] = y
    BY <2>1, <2>3, <2>4, <1>1 DEF Picks
  <2> QED
    BY <2>5, <2>6 DEF Before
<1> QED
  BY <1>2, <1>3 DEF w

\* The shortest lists.
LEMMA ShortLists ==
  ASSUME NEW S, NEW x \in S
  PROVE  /\ <<>> \in Seq(S) /\ ToSet(<<>>) = {} /\ IsInjective(<<>>) /\ Len(<<>>) = 0
         /\ <<x>> \in Seq(S) /\ ToSet(<<x>>) = {x} /\ IsInjective(<<x>>) /\ Len(<<x>>) = 1
         /\ \A y, z : ~Before(<<>>, y, z) /\ ~Before(<<x>>, y, z)
<1>1. DOMAIN <<>> = {} /\ DOMAIN <<x>> = {1} /\ <<x>>[1] = x
  OBVIOUS
<1> QED
  BY <1>1 DEF ToSet, IsInjective, Before

\* Who stands before another is in the list.
LEMMA BeforeMembers ==
  ASSUME NEW s, NEW x, NEW y, Before(s, x, y)
  PROVE  x \in ToSet(s) /\ y \in ToSet(s)
BY DEF Before, ToSet

\* The members of two lists in a row, and their order.
LEMMA ConcatMembers ==
  ASSUME NEW S, NEW a \in Seq(S), NEW b \in Seq(S)
  PROVE  /\ a \o b \in Seq(S) /\ Len(a \o b) = Len(a) + Len(b)
         /\ ToSet(a \o b) = ToSet(a) \cup ToSet(b)
         /\ IsInjective(a \o b) <=>
              IsInjective(a) /\ IsInjective(b) /\ ToSet(a) \cap ToSet(b) = {}
<1> DEFINE c == a \o b
           m == Len(a)
           n == Len(b)
<1>1. /\ m \in Nat /\ n \in Nat /\ c \in Seq(S) /\ Len(c) = m + n
      /\ DOMAIN a = 1..m /\ DOMAIN b = 1..n /\ DOMAIN c = 1..(m + n)
      /\ \A i \in 1..(m + n) : c[i] = IF i <= m THEN a[i] ELSE b[i - m]
  BY ConcatProperties, LenProperties
<1> HIDE DEF c, m, n
<1>2. (\A i \in 1..m : i \in 1..(m + n) /\ c[i] = a[i])
  BY <1>1
<1>3. \A i \in 1..n : i + m \in 1..(m + n) /\ c[i + m] = b[i]
  BY <1>1
<1>4. \A i \in 1..(m + n) : i \in 1..m \/ i - m \in 1..n
  BY <1>1
<1>5. ToSet(c) = ToSet(a) \cup ToSet(b)
  <2>1. ToSet(a) \subseteq ToSet(c)
    BY <1>1, <1>2 DEF ToSet
  <2>2. ToSet(b) \subseteq ToSet(c)
    BY ZenonT(60), <1>1, <1>3 DEF ToSet
  <2>3. ASSUME NEW i \in 1..(m + n) PROVE c[i] \in ToSet(a) \cup ToSet(b)
    <3>1. CASE i <= m
      <4>1. i \in DOMAIN a /\ c[i] = a[i]
        BY <3>1, <1>1
      <4> QED
        BY <4>1 DEF ToSet
    <3>2. CASE i > m
      <4>1. i - m \in DOMAIN b /\ c[i] = b[i - m]
        BY <3>2, <1>1
      <4> QED
        BY <4>1 DEF ToSet
    <3> QED
      BY <3>1, <3>2, <1>1
  <2>4. ToSet(c) \subseteq ToSet(a) \cup ToSet(b)
    BY <2>3, <1>1 DEF ToSet
  <2> QED
    BY <2>1, <2>2, <2>4
<1>6. ASSUME IsInjective(c)
      PROVE  IsInjective(a) /\ IsInjective(b) /\ ToSet(a) \cap ToSet(b) = {}
  <2>1. IsInjective(a)
    BY <1>1, <1>2, <1>6 DEF IsInjective
  <2>2. IsInjective(b)
    BY <1>1, <1>3, <1>6 DEF IsInjective
  <2>3. ASSUME NEW i \in 1..m, NEW j \in 1..n, a[i] = b[j] PROVE FALSE
    <3>1. c[i] = c[j + m] /\ i \in DOMAIN c /\ j + m \in DOMAIN c
      BY <2>3, <1>1, <1>2, <1>3
    <3>2. i = j + m
      BY <3>1, <1>6 DEF IsInjective
    <3> QED
      BY <3>2, <1>1
  <2> QED
    BY <2>1, <2>2, <2>3, <1>1 DEF ToSet
<1>7. ASSUME IsInjective(a), IsInjective(b), ToSet(a) \cap ToSet(b) = {}
      PROVE  IsInjective(c)
  <2>1. \A i \in 1..m, j \in 1..n : a[i] # b[j]
    BY <1>7, <1>1 DEF ToSet
  <2>2. ASSUME NEW i \in 1..(m + n), NEW j \in 1..(m + n), c[i] = c[j] PROVE i = j
    <3>1. CASE i <= m /\ j <= m
      BY <3>1, <2>2, <1>1, <1>7 DEF IsInjective
    <3>2. CASE i > m /\ j > m
      <4>1. i - m \in 1..n /\ j - m \in 1..n /\ b[i - m] = b[j - m]
        BY <3>2, <2>2, <1>1
      <4>2. i - m = j - m
        BY <4>1, <1>1, <1>7 DEF IsInjective
      <4> QED
        BY <4>2, <1>1
    <3>3. CASE i <= m /\ j > m
      BY <3>3, <2>1, <2>2, <1>1
    <3>4. CASE i > m /\ j <= m
      BY <3>4, <2>1, <2>2, <1>1
    <3> QED
      BY <3>1, <3>2, <3>3, <3>4, <1>1
  <2> QED
    BY <2>2, <1>1 DEF IsInjective
<1> QED
  BY <1>1, <1>5, <1>6, <1>7 DEF c, m, n

LEMMA ConcatBefore ==
  ASSUME NEW S, NEW a \in Seq(S), NEW b \in Seq(S), NEW x, NEW y
  PROVE  Before(a \o b, x, y) <=>
           Before(a, x, y) \/ Before(b, x, y) \/ (x \in ToSet(a) /\ y \in ToSet(b))
<1> DEFINE c == a \o b
           m == Len(a)
           n == Len(b)
<1>1. /\ m \in Nat /\ n \in Nat
      /\ DOMAIN a = 1..m /\ DOMAIN b = 1..n /\ DOMAIN c = 1..(m + n)
      /\ \A i \in 1..(m + n) : c[i] = IF i <= m THEN a[i] ELSE b[i - m]
  BY ConcatProperties, LenProperties
<1> HIDE DEF c, m, n
<1>2. \A i \in 1..m : i \in DOMAIN c /\ c[i] = a[i]
  BY <1>1
<1>3. \A i \in 1..n : i + m \in DOMAIN c /\ c[i + m] = b[i]
  BY <1>1
<1>4. Before(a, x, y) => Before(c, x, y)
  BY <1>1, <1>2 DEF Before
<1>5. ASSUME Before(b, x, y) PROVE Before(c, x, y)
  <2>1. PICK i \in 1..n, j \in 1..n : i < j /\ b[i] = x /\ b[j] = y
    BY <1>1, <1>5 DEF Before
  <2>2. i + m < j + m /\ c[i + m] = x /\ c[j + m] = y /\ i + m \in DOMAIN c /\ j + m \in DOMAIN c
    BY <2>1, <1>1, <1>3
  <2> QED
    BY <2>2 DEF Before
<1>6. ASSUME x \in ToSet(a), y \in ToSet(b) PROVE Before(c, x, y)
  <2>1. PICK i \in 1..m : a[i] = x
    BY <1>1, <1>6 DEF ToSet
  <2>2. PICK j \in 1..n : b[j] = y
    BY <1>1, <1>6 DEF ToSet
  <2>3. i < j + m /\ c[i] = x /\ c[j + m] = y /\ i \in DOMAIN c /\ j + m \in DOMAIN c
    BY <2>1, <2>2, <1>1, <1>2, <1>3
  <2> QED
    BY <2>3 DEF Before
<1>7. ASSUME Before(c, x, y)
      PROVE  Before(a, x, y) \/ Before(b, x, y) \/ (x \in ToSet(a) /\ y \in ToSet(b))
  <2>1. PICK i \in 1..(m + n), j \in 1..(m + n) : i < j /\ c[i] = x /\ c[j] = y
    BY <1>1, <1>7 DEF Before
  <2>2. CASE j <= m
    <3>1. i \in DOMAIN a /\ j \in DOMAIN a /\ a[i] = x /\ a[j] = y
      BY <2>1, <2>2, <1>1
    <3> QED
      BY <3>1, <2>1 DEF Before
  <2>3. CASE i > m
    <3>1. /\ i - m \in DOMAIN b /\ j - m \in DOMAIN b /\ b[i - m] = x /\ b[j - m] = y
          /\ i - m < j - m
      BY <2>1, <2>3, <1>1
    <3> QED
      BY <3>1 DEF Before
  <2>4. CASE i <= m /\ j > m
    <3>1. i \in DOMAIN a /\ a[i] = x /\ j - m \in DOMAIN b /\ b[j - m] = y
      BY <2>1, <2>4, <1>1
    <3> QED
      BY <3>1 DEF ToSet
  <2> QED
    BY <2>1, <2>2, <2>3, <2>4, <1>1
<1> QED
  BY <1>4, <1>5, <1>6, <1>7 DEF c

\* A list is its head and what follows it.
LEMMA HeadAndTail ==
  ASSUME NEW S, NEW s \in Seq(S), s # <<>>
  PROVE  /\ Head(s) \in S /\ Tail(s) \in Seq(S) /\ Len(s) \in Nat /\ Len(Tail(s)) = Len(s) - 1
         /\ s = <<Head(s)>> \o Tail(s)
<1>1. Len(s) \in Nat /\ Len(s) >= 1
  BY EmptySeq, LenProperties
<1>2. /\ Head(s) \in S /\ Tail(s) \in Seq(S) /\ Len(Tail(s)) = Len(s) - 1
      /\ Tail(s) = SubSeq(s, 2, Len(s)) /\ Head(s) = s[1]
  BY HeadTailProperties, TailIsSubSeq
<1>3. SubSeq(s, 1, Len(s)) = <<s[1]>> \o SubSeq(s, 1 + 1, Len(s))
  BY <1>1, SubSeqRecursiveFirst
<1>4. SubSeq(s, 1, Len(s)) = s
  BY SubSeqFull
<1> QED
  BY <1>1, <1>2, <1>3, <1>4

\* A list is what comes up to a place and what comes after it.
LEMMA SplitAt ==
  ASSUME NEW S, NEW s \in Seq(S), NEW n \in 0..Len(s)
  PROVE  /\ SubSeq(s, 1, n) \in Seq(S) /\ Len(SubSeq(s, 1, n)) = n
         /\ SubSeq(s, n + 1, Len(s)) \in Seq(S)
         /\ s = SubSeq(s, 1, n) \o SubSeq(s, n + 1, Len(s))
<1>1. Len(s) \in Nat /\ n \in Nat /\ n <= Len(s) /\ 1 \in Int /\ n + 1 \in Int
  BY LenProperties
<1>2. \A i \in 1..Len(s) : s[i] \in S
  BY ElementOfSeq
<1>3. \A i \in 1..n : s[i] \in S
  BY <1>1, <1>2
<1>4. \A i \in (n + 1)..Len(s) : s[i] \in S
  BY <1>1, <1>2
<1>5. SubSeq(s, 1, n) \in Seq(S) /\ Len(SubSeq(s, 1, n)) = IF 1 <= n THEN n - 1 + 1 ELSE 0
  BY <1>1, <1>3, SubSeqProperties
<1>6. SubSeq(s, n + 1, Len(s)) \in Seq(S)
  BY <1>1, <1>4, SubSeqProperties
<1>7. 1 \in 1..(Len(s) + 1) /\ n \in (1 - 1)..Len(s) /\ Len(s) \in n..Len(s)
  BY <1>1
<1>8. SubSeq(s, 1, n) \o SubSeq(s, n + 1, Len(s)) = SubSeq(s, 1, Len(s))
  BY <1>7, ConcatAdjacentSubSeq
<1>9. SubSeq(s, 1, Len(s)) = s
  BY SubSeqFull
<1>10. (IF 1 <= n THEN n - 1 + 1 ELSE 0) = n
  BY <1>1
<1>11. Len(SubSeq(s, 1, n)) = n
  BY <1>5, <1>10
<1>12. s = SubSeq(s, 1, n) \o SubSeq(s, n + 1, Len(s))
  BY <1>8, <1>9
<1> QED
  BY <1>5, <1>6, <1>11, <1>12


\* What comes after a place, counted from the head or from what follows it.
LEMMA TailFrom ==
  ASSUME NEW S, NEW s \in Seq(S), s # <<>>, NEW n \in 1..Len(s)
  PROVE  SubSeq(Tail(s), n, Len(Tail(s))) = SubSeq(s, n + 1, Len(s))
<1> DEFINE t == Tail(s)
           a == SubSeq(t, n, Len(t))
           b == SubSeq(s, n + 1, Len(s))
<1>1. Len(s) \in Nat /\ n \in Nat /\ 1 <= n /\ n <= Len(s)
  BY LenProperties
<1>2. /\ t \in Seq(S) /\ Len(t) = Len(s) - 1 /\ \A i \in 1..Len(t) : t[i] = s[i + 1]
  BY HeadTailProperties
<1>3. Len(t) \in Int /\ n \in Int /\ n + 1 \in Int /\ Len(s) \in Int
  BY <1>1, <1>2
<1>4. \A i \in n..Len(t) : t[i] \in S
  <2>1. \A i \in 1..Len(t) : t[i] \in S
    BY <1>2, ElementOfSeq
  <2> QED
    BY <2>1, <1>1, <1>3
<1>5. \A i \in (n + 1)..Len(s) : s[i] \in S
  <2>1. \A i \in 1..Len(s) : s[i] \in S
    BY ElementOfSeq
  <2> QED
    BY <2>1, <1>1
<1> HIDE DEF t
<1>6. /\ a \in Seq(S) /\ Len(a) = IF n <= Len(t) THEN Len(t) - n + 1 ELSE 0
      /\ \A i \in 1..(Len(t) - n + 1) : a[i] = t[n + i - 1]
  BY <1>3, <1>4, SubSeqProperties
<1>7. /\ b \in Seq(S) /\ Len(b) = IF n + 1 <= Len(s) THEN Len(s) - (n + 1) + 1 ELSE 0
      /\ \A i \in 1..(Len(s) - (n + 1) + 1) : b[i] = s[(n + 1) + i - 1]
  BY <1>3, <1>5, SubSeqProperties
<1> HIDE DEF a, b
<1>8. Len(a) = Len(s) - n /\ Len(b) = Len(s) - n
  BY <1>1, <1>2, <1>6, <1>7
<1>9. ASSUME NEW i \in 1..Len(a) PROVE a[i] = b[i]
  <2>1. i \in 1..(Len(t) - n + 1) /\ i \in 1..(Len(s) - (n + 1) + 1) /\ n + i - 1 \in 1..Len(t)
        /\ n + i - 1 + 1 = (n + 1) + i - 1
    BY <1>1, <1>2, <1>8
  <2>2. a[i] = t[n + i - 1] /\ b[i] = s[(n + 1) + i - 1]
    BY <2>1, <1>6, <1>7
  <2>3. t[n + i - 1] = s[n + i - 1 + 1]
    BY <2>1, <1>2
  <2> QED
    BY <2>1, <2>2, <2>3
<1>10. a = b
  BY <1>6, <1>7, <1>8, <1>9, SeqEqual
<1> QED
  BY <1>10 DEF a, b, t


\* What comes after a place, when one more is appended.
LEMMA AppendFrom ==
  ASSUME NEW S, NEW s \in Seq(S), NEW x \in S, NEW n \in 0..Len(s)
  PROVE  LET a == Append(s, x)
         IN  SubSeq(a, n + 1, Len(a)) = SubSeq(s, n + 1, Len(s)) \o <<x>>
<1> DEFINE a == Append(s, x)
           f == SubSeq(a, n + 1, Len(s))
           g == SubSeq(s, n + 1, Len(s))
<1>1. /\ Len(s) \in Nat /\ n \in Nat /\ n <= Len(s) /\ n + 1 \in Int /\ Len(s) \in Int
  BY LenProperties
<1>2. /\ a \in Seq(S) /\ Len(a) = Len(s) + 1 /\ a[Len(s) + 1] = x
      /\ \A i \in 1..Len(s) : a[i] = s[i]
  BY AppendProperties
<1> HIDE DEF a
<1>3. n + 1 \in 1..Len(a) /\ Len(a) \in (n + 1)..Len(a) /\ Len(a) - 1 = Len(s)
  BY <1>1, <1>2
<1>4. SubSeq(a, n + 1, Len(a)) = SubSeq(a, n + 1, Len(a) - 1) \o <<a[Len(a)]>>
  BY <1>2, <1>3, SubSeqRecursiveSecond
<1>5. \A i \in (n + 1)..Len(s) : s[i] \in S /\ a[i] = s[i] /\ a[i] \in S
  <2>1. \A i \in 1..Len(s) : s[i] \in S
    BY ElementOfSeq
  <2> QED
    BY <2>1, <1>1, <1>2
<1>6. /\ f \in Seq(S) /\ Len(f) = IF n + 1 <= Len(s) THEN Len(s) - (n + 1) + 1 ELSE 0
      /\ \A i \in 1..(Len(s) - (n + 1) + 1) : f[i] = a[(n + 1) + i - 1]
  <2>1. \A i \in (n + 1)..Len(s) : a[i] \in S
    BY <1>5
  <2> QED
    BY <1>1, <2>1, SubSeqProperties
<1>7. /\ g \in Seq(S) /\ Len(g) = IF n + 1 <= Len(s) THEN Len(s) - (n + 1) + 1 ELSE 0
      /\ \A i \in 1..(Len(s) - (n + 1) + 1) : g[i] = s[(n + 1) + i - 1]
  <2>1. \A i \in (n + 1)..Len(s) : s[i] \in S
    BY <1>5
  <2> QED
    BY <1>1, <2>1, SubSeqProperties
<1> HIDE DEF f, g
<1>8. ASSUME NEW i \in 1..Len(f) PROVE f[i] = g[i]
  <2>1. i \in 1..(Len(s) - (n + 1) + 1) /\ (n + 1) + i - 1 \in (n + 1)..Len(s)
    BY <1>1, <1>6
  <2> QED
    BY <2>1, <1>5, <1>6, <1>7
<1>9. Len(f) = Len(g)
  BY <1>6, <1>7
<1>10. f = g
  BY <1>6, <1>7, <1>8, <1>9, SeqEqual
<1>11. SubSeq(a, n + 1, Len(a)) = f \o <<x>>
  BY <1>2, <1>3, <1>4 DEF f
<1> QED
  BY <1>10, <1>11 DEF a, g


\* Who stands before whom after an insert at the back.
LEMMA AppendBefore ==
  ASSUME NEW S, NEW s \in Seq(S), NEW x \in S, NEW m, NEW n
  PROVE  Before(Append(s, x), m, n) <=> Before(s, m, n) \/ (m \in ToSet(s) /\ n = x)
<1>1. Append(s, x) = s \o <<x>>
  BY AppendIsConcat
<1>2. <<x>> \in Seq(S) /\ ToSet(<<x>>) = {x} /\ ~Before(<<x>>, m, n)
  BY ShortLists
<1>3. Before(s \o <<x>>, m, n) <=>
        Before(s, m, n) \/ Before(<<x>>, m, n) \/ (m \in ToSet(s) /\ n \in ToSet(<<x>>))
  BY <1>2, ConcatBefore
<1> QED
  BY <1>1, <1>2, <1>3

\* The same at the front.
LEMMA ConsBefore ==
  ASSUME NEW S, NEW s \in Seq(S), NEW x \in S, NEW m, NEW n
  PROVE  Before(Cons(x, s), m, n) <=> Before(s, m, n) \/ (m = x /\ n \in ToSet(s))
<1>1. <<x>> \in Seq(S) /\ ToSet(<<x>>) = {x} /\ ~Before(<<x>>, m, n)
  BY ShortLists
<1>2. Before(<<x>> \o s, m, n) <=>
        Before(<<x>>, m, n) \/ Before(s, m, n) \/ (m \in ToSet(<<x>>) /\ n \in ToSet(s))
  BY <1>1, ConcatBefore
<1> QED
  BY <1>1, <1>2 DEF Cons

\* A node that is taken out leaves the order of the others alone.
LEMMA RemoveBefore ==
  ASSUME NEW S, NEW s \in Seq(S), IsInjective(s), NEW x \in ToSet(s), NEW m, NEW n
  PROVE  Before(RemoveFirst(s, x), m, n) <=> Before(s, m, n) /\ m # x /\ n # x
<1> DEFINE I == {i \in 1..Len(s) : s[i] = x}
           p == Min(I)
           l == SubSeq(s, 1, p - 1)
           r == SubSeq(s, p + 1, Len(s))
           q == SubSeq(s, p, Len(s))
<1>1. DOMAIN s = 1..Len(s) /\ Len(s) \in Nat
  BY LenProperties
<1>2. I # {} /\ I \in SUBSET Nat
  BY <1>1 DEF ToSet
<1>3. p \in I
  BY <1>2, MinIsFirst
<1>4. RemoveFirst(s, x) = l \o r
  BY <1>1, <1>2 DEF RemoveFirst, RemoveAt, SelectInSeq
<1>5. p \in 1..Len(s) /\ s[p] = x
  BY <1>3
<1> HIDE DEF I, p
<1>6. p - 1 \in 0..Len(s) /\ p \in 0..Len(s) /\ (p - 1) + 1 = p
  BY <1>1, <1>5
<1>7. l \in Seq(S) /\ q \in Seq(S) /\ s = l \o q
  BY <1>6, SplitAt
<1>8. r \in Seq(S)
  BY <1>6, SplitAt
<1>9. x \in S
  BY <1>1, <1>5, ElementOfSeq
<1>10. q = <<x>> \o r
  <2>1. p \in 1..Len(s) /\ Len(s) \in p..Len(s)
    BY <1>1, <1>5
  <2> QED
    BY <1>5, <2>1, SubSeqRecursiveFirst
<1> HIDE DEF l, r, q
<1>11. <<x>> \in Seq(S) /\ ToSet(<<x>>) = {x} /\ \A y, z : ~Before(<<x>>, y, z)
  BY <1>9, ShortLists
<1>12. ToSet(q) = {x} \cup ToSet(r) /\ (IsInjective(q) => x \notin ToSet(r))
  <2>1. /\ ToSet(<<x>> \o r) = ToSet(<<x>>) \cup ToSet(r)
        /\ IsInjective(<<x>> \o r) => ToSet(<<x>>) \cap ToSet(r) = {}
    BY <1>8, <1>11, ConcatMembers
  <2> QED
    BY <1>10, <1>11, <2>1
<1>13. IsInjective(q) /\ x \notin ToSet(l)
  BY <1>7, <1>12, ConcatMembers
<1>14. Before(q, m, n) <=> Before(r, m, n) \/ (m = x /\ n \in ToSet(r))
  BY <1>8, <1>10, <1>11, ConcatBefore
<1>15. Before(s, m, n) <=> Before(l, m, n) \/ Before(q, m, n) \/ (m \in ToSet(l) /\ n \in ToSet(q))
  BY <1>7, ConcatBefore
<1>16. Before(l \o r, m, n) <=>
         Before(l, m, n) \/ Before(r, m, n) \/ (m \in ToSet(l) /\ n \in ToSet(r))
  BY <1>7, <1>8, ConcatBefore
<1>17. /\ Before(l, m, n) => m \in ToSet(l) /\ n \in ToSet(l)
       /\ Before(r, m, n) => m \in ToSet(r) /\ n \in ToSet(r)
  BY BeforeMembers
<1> QED
  BY <1>4, <1>12, <1>13, <1>14, <1>15, <1>16, <1>17

\* In a list that links no node twice, none stands before itself, and the
\* head stands before the others.
LEMMA BeforeSelf ==
  ASSUME NEW S, NEW s \in Seq(S), IsInjective(s), NEW x
  PROVE  ~Before(s, x, x)
<1>1. DOMAIN s = 1..Len(s) /\ Len(s) \in Nat
  BY LenProperties
<1> QED
  BY <1>1 DEF Before, IsInjective

LEMMA HeadBefore ==
  ASSUME NEW S, NEW s \in Seq(S), NEW x \in ToSet(s), x # Head(s)
  PROVE  Before(s, Head(s), x)
<1>1. DOMAIN s = 1..Len(s) /\ Len(s) \in Nat
  BY LenProperties
<1>2. s # <<>> /\ Head(s) = s[1]
  BY ToSetType
<1>3. PICK i \in DOMAIN s : s[i] = x
  BY DEF ToSet
<1>4. 1 \in DOMAIN s /\ 1 < i
  BY <1>1, <1>2, <1>3
<1> QED
  BY <1>2, <1>3, <1>4 DEF Before
=============================================================================
